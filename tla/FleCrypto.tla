------------------------------- MODULE FleCrypto -------------------------------
(****************************************************************************)
(* Authenticated encryption, key wrapping and random numbers                *)
(* (mongocrypt-crypto.c).  The primitives are ideal: a sealed text          *)
(* [mode, key, iv, data] opens with its own key and IV only, an HMAC is the *)
(* record of what it was computed from.  What the library builds of them is *)
(* modelled: which part of a key does what, the padding, what the HMAC      *)
(* covers, every length check, and the order of checking and decrypting.    *)
(*                                                                          *)
(* Plaintext is a sequence of bytes (integers), a key a sequence of 32-byte *)
(* parts, an IV a sequence of byte sequences.                               *)
(****************************************************************************)
EXTENDS Integers, Sequences, FiniteSets

CONSTANTS BlockLen,          \* MONGOCRYPT_BLOCK_SIZE
          ByteValues,        \* 256 in the code
          CounterBytes,      \* bytes of a CTR counter block
          RandBits           \* width of the word random_uint64 draws

ASSUME CryptoAssumption ==
    /\ BlockLen \in Nat \ {0} /\ CounterBytes \in Nat \ {0}
    /\ ByteValues \in Nat \ {0, 1} /\ RandBits \in Nat \ {0} /\ 2^RandBits \in Nat

IvLen == 1       \* one unit of length stands for the 16 bytes of an IV
HmacLen == 2     \* and two for the 32 bytes of an HMAC

Refused == [ok |-> FALSE, abort |-> FALSE]

(* The four algorithms: DECLARE_ALGORITHM *)
FLE1Algorithm    == [mode |-> "CBC", mac |-> "SHA512-256", parts |-> 3, fle1 |-> TRUE]
FLE2AEADAlgorithm    == [mode |-> "CTR", mac |-> "SHA256", parts |-> 3, fle1 |-> FALSE]
FLE2Algorithm        == [mode |-> "CTR", mac |-> "none", parts |-> 1, fle1 |-> FALSE]
FLE2v2AEADAlgorithm  == [mode |-> "CBC", mac |-> "SHA256", parts |-> 3, fle1 |-> FALSE]

\* FLE1 keys are [Km][Ke][IV], the other algorithms' [Ke][Km][TokenKey].
Ke(alg, key) == IF alg.fle1 THEN key[2] ELSE key[1]
Km(alg, key) == IF alg.fle1 THEN key[1] ELSE key[2]
IvKey(key) == key[3]
TokenKey(key) == <<key[3]>>

CbcFill(len) == BlockLen - (len % BlockLen)

calculate_ciphertext_len(alg, len) ==
    IvLen + len + (IF alg.mode = "CBC" THEN CbcFill(len) ELSE 0)
          + (IF alg.mac # "none" THEN HmacLen ELSE 0)

\* An upper bound: the padding inside is known after decryption only.
calculate_plaintext_len(alg, len) ==
    LET overhead == IvLen + (IF alg.mac # "none" THEN HmacLen ELSE 0)
    IN IF len < overhead + 1 THEN Refused ELSE [ok |-> TRUE, len |-> len - overhead]

CipherLen(c) == IvLen + Len(c.s.data) + (IF c.tag = <<>> THEN 0 ELSE HmacLen)

\* PKCS#7: n bytes of value n, at least one.
encrypt_step(alg, key, iv, plain) ==
    LET n == CbcFill(Len(plain))
    IN [mode |-> alg.mode, key |-> Ke(alg, key), iv |-> iv,
        data |-> IF alg.mode = "CBC" THEN plain \o [i \in 1..n |-> n] ELSE plain]

\* AAD || IV || S, and for FLE1 the length of the AAD in bits.
hmac_step(alg, key, aad, iv, s) ==
    IF alg.mac = "none" THEN <<>>
    ELSE <<[hash |-> alg.mac, key |-> Km(alg, key), aad |-> aad, iv |-> iv, s |-> s,
            aadBits |-> IF alg.fle1 THEN 8 * Len(aad) ELSE 0]>>

do_encryption(alg, iv, aad, key, plain) ==
    LET s == encrypt_step(alg, key, iv, plain)
    IN IF Len(plain) = 0 \/ Len(key) # alg.parts THEN Refused
       ELSE [ok |-> TRUE, c |-> [iv |-> iv, s |-> s,
                                 tag |-> hmac_step(alg, key, aad, iv, s)]]

\* Opening with another key or IV yields bytes that mean nothing.
Opened(mode, key, iv, s, garbled) ==
    IF s.mode = mode /\ s.key = key /\ s.iv = iv THEN s.data ELSE garbled

Garbage(len) == [i \in 1..len |-> -1]

decrypt_step(alg, key, c, garbled) ==
    LET data == Opened(alg.mode, Ke(alg, key), c.iv, c.s, garbled)
        padding == data[Len(data)]
    IN IF alg.mode # "CBC" THEN [ok |-> TRUE, data |-> data]
       ELSE IF Len(data) = 0 \/ Len(data) % BlockLen # 0 THEN Refused
       ELSE IF padding < 0 \/ padding > BlockLen THEN Refused
       ELSE [ok |-> TRUE, data |-> SubSeq(data, 1, Len(data) - padding)]

\* Variant: the HMAC is not compared.
DecryptUnverified(alg, aad, key, c) ==
    LET expected == calculate_plaintext_len(alg, CipherLen(c))
    IN IF ~expected.ok \/ Len(key) # alg.parts THEN Refused
       ELSE decrypt_step(alg, key, c, Garbage(Len(c.s.data)))

\* The HMAC is compared before anything is decrypted.
do_decryption(alg, aad, key, c) ==
    LET expected == calculate_plaintext_len(alg, CipherLen(c))
    IN IF ~expected.ok \/ Len(key) # alg.parts THEN Refused
       ELSE IF c.tag # hmac_step(alg, key, aad, c.iv, c.s) THEN Refused
       ELSE decrypt_step(alg, key, c, Garbage(Len(c.s.data)))

\* HMAC-SHA-512 of AD || 8*|AD| || plaintext under the IV key, truncated: the
\* whole argument determines the IV.
calculate_deterministic_iv(key, aad, plain) == <<IvKey(key), aad, plain>>

\* Wrapping a data key: FLE1 encryption without associated data.  The bytes
\* of a key of three parts are the parts.
wrap_key(kek, iv, dek) ==
    IF Len(dek) # 3 THEN Refused ELSE do_encryption(FLE1Algorithm, iv, <<>>, kek, dek)

unwrap_key(kek, encrypted_dek) ==
    LET dek == do_decryption(FLE1Algorithm, <<>>, kek, encrypted_dek)
    IN IF ~dek.ok THEN Refused ELSE IF Len(dek.data) # 3 THEN Refused ELSE dek

-----------------------------------------------------------------------------
(* CTR mode on top of ECB, when the embedder hooks ECB only.  A counter block *)
(* is a sequence of bytes, most significant first.                           *)

\* Variant: no carry beyond the last byte.
IncrementLastByte(ctr) == [ctr EXCEPT ![CounterBytes] = (@ + 1) % ByteValues]

\* The counter after one block: 1 is added to the last byte, with carry.
ctr_increment(ctr) ==
    LET carries(i) == \A j \in (i + 1)..CounterBytes : ctr[j] = ByteValues - 1
    IN [i \in 1..CounterBytes |->
          IF carries(i) THEN (ctr[i] + 1) % ByteValues ELSE ctr[i]]

\* The counters of the first n blocks.
ctr_via_ecb(iv, n) ==
    LET ctr[i \in 1..n] == IF i = 1 THEN iv ELSE ctr_increment(ctr[i - 1])
    IN ctr

-----------------------------------------------------------------------------
(* Uniform random numbers.  A draw below "min" is thrown away and repeated.   *)

\* Variant: no draw is thrown away.
AcceptAllDraws(exclusive_upper_bound) == 0

random_min(exclusive_upper_bound) == (2^RandBits - exclusive_upper_bound) % exclusive_upper_bound

\* The draws that end the loop with result r.
random_uint64_draws(exclusive_upper_bound, r) ==
    {rand \in 0..(2^RandBits - 1) :
        /\ rand >= random_min(exclusive_upper_bound)
        /\ rand % exclusive_upper_bound = r}

random_uint64(exclusive_upper_bound) ==
    IF exclusive_upper_bound < 2 THEN {0}
    ELSE {r \in 0..(exclusive_upper_bound - 1) :
             random_uint64_draws(exclusive_upper_bound, r) # {}}

random_int64(exclusive_upper_bound) ==
    IF exclusive_upper_bound <= 0 THEN {} ELSE random_uint64(exclusive_upper_bound)
=============================================================================
