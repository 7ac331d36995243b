--------------------------- MODULE QueryableProofs ---------------------------
(***************************************************************************)
(* Proofs about queryable encryption, for every word width, block length   *)
(* and set of fields: contention factors are drawn without bias, what is   *)
(* decrypted is what was inserted, whatever part of it is damaged, no two  *)
(* blocks of a message have the same counter, and the parameters of a      *)
(* range index are the same in every document and every query.             *)
(***************************************************************************)
EXTENDS QueryableSys, FiniteSetTheorems, SequenceTheorems, Induction, TLAPS

-----------------------------------------------------------------------------
(***************************************************************************)
(* Division with remainder.                                                *)
(***************************************************************************)
LEMMA Quotient ==
    ASSUME NEW b \in Int, b > 0, NEW x \in Int,
           NEW k \in Int, k = x \div b, NEW m \in Int, m = x % b
    PROVE  x = b * k + m
OBVIOUS

\* An integer is a multiple of b and its remainder.
LEMMA DivMod ==
    ASSUME NEW b \in Nat \ {0}, NEW x \in Int, NEW m \in Int, m = x % b
    PROVE  m \in 0..(b - 1) /\ \E k \in Int : x = b * k + m
<1>1. m \in 0..(b - 1) /\ x \div b \in Int
  OBVIOUS
<1>2. PICK k \in Int : k = x \div b
  BY <1>1
<1>3. x = b * k + m
  BY <1>2, Quotient
<1> QED
  BY <1>1, <1>3

\* The remainder of a multiple of b plus less than b
LEMMA ModOfSum ==
    ASSUME NEW b \in Nat \ {0}, NEW k \in Int, NEW s \in 0..(b - 1)
    PROVE  (b * k + s) % b = s
OBVIOUS

\* What is missing to b leads to the next multiple.
LEMMA NextMultiple ==
    ASSUME NEW b \in Nat \ {0}, NEW k \in Int, NEW m \in 0..(b - 1)
    PROVE  ((b * k + m) + (b - m)) % b = 0
<1>1. (b * k + m) + (b - m) = b * (k + 1) + 0
  OBVIOUS
<1>2. k + 1 \in Int /\ 0 \in 0..(b - 1)
  OBVIOUS
<1> QED
  BY <1>1, <1>2, ModOfSum

\* With one number of a block of b below a multiple of b, all are.
LEMMA BelowMultiple ==
    ASSUME NEW b \in Nat \ {0}, NEW k \in Int, NEW q \in Int, NEW t \in 0..(b - 1),
           b * k + t < b * q
    PROVE  \A s \in 0..(b - 1) : b * k + s < b * q
<1>1. k < q
  OBVIOUS
<1>2. b * k + b <= b * q
  BY <1>1
<1> QED
  BY <1>2

\* With one number of a block of b not negative, none is.
LEMMA AboveZero ==
    ASSUME NEW b \in Nat \ {0}, NEW k \in Int, NEW t \in 0..(b - 1), b * k + t >= 0
    PROVE  \A s \in 0..(b - 1) : b * k + s >= 0
<1>1. k >= 0
  OBVIOUS
<1>2. b * k >= 0
  BY <1>1
<1> QED
  BY <1>2

-----------------------------------------------------------------------------
(***************************************************************************)
(* _mongocrypt_random_uint64.  The draws it accepts are those from "min"   *)
(* to the end of the word, a multiple of the bound many.  Beyond "min",    *)
(* the draws with result r are those that are Offset(b, r) above a         *)
(* multiple of the bound, so moving the offset carries the draws of one    *)
(* result to the draws of another.                                         *)
(***************************************************************************)
Offset(b, r) == IF r >= random_min(b) THEN r - random_min(b) ELSE r - random_min(b) + b

Words == 2^RandBits

\* random_min leaves a whole number of blocks of b words to accept.
LEMMA AcceptedRange ==
    ASSUME NEW b \in Nat \ {0}, b <= Words
    PROVE  /\ random_min(b) \in 0..(b - 1)
           /\ Words \in Nat
           /\ \E q \in Int : Words - random_min(b) = b * q
<1>1. Words \in Nat
  BY CryptoAssumption DEF Words
<1>2. random_min(b) = (Words - b) % b
  BY DEF random_min, Words
<1>3. random_min(b) \in 0..(b - 1) /\ \E k \in Int : Words - b = b * k + random_min(b)
  <2>1. Words - b \in Int /\ random_min(b) \in Int
    BY <1>1, <1>2
  <2> QED
    BY <1>2, <2>1, DivMod
<1>4. PICK k \in Int : Words - b = b * k + random_min(b)
  BY <1>3
<1>5. Words - random_min(b) = b * (k + 1)
  BY <1>1, <1>3, <1>4
<1>6. k + 1 \in Int
  OBVIOUS
<1> QED
  BY <1>1, <1>3, <1>5, <1>6

\* A draw moved from the offset of one result to that of another is a draw of
\* the other.
LEMMA MovedDraw ==
    ASSUME NEW b \in Nat \ {0}, b <= Words, NEW r \in 0..(b - 1), NEW s \in 0..(b - 1),
           NEW x \in random_uint64_draws(b, r)
    PROVE  x - Offset(b, r) + Offset(b, s) \in random_uint64_draws(b, s)
<1> DEFINE min == random_min(b)
           tr == Offset(b, r)
           ts == Offset(b, s)
           y == x - tr + ts
<1>1. min \in 0..(b - 1) /\ Words \in Nat /\ \E q \in Int : Words - min = b * q
  BY AcceptedRange
<1>2. PICK q \in Int : Words - min = b * q
  BY <1>1
<1> HIDE DEF min
<1>3. tr \in 0..(b - 1) /\ ts \in 0..(b - 1)
  BY <1>1 DEF Offset, min
<1>4. x \in 0..(Words - 1) /\ x >= min /\ x % b = r
  BY DEF random_uint64_draws, Words, min
<1>5. PICK k \in Int : x = b * k + r
  <2>1. x \in Int /\ r \in Int /\ r = x % b
    BY <1>1, <1>4
  <2> QED
    BY <2>1, DivMod, Zenon
<1>6. \E j \in Int : x - min = b * j + tr
  <2>1. CASE r >= min
    <3>1. x - min = b * k + tr
      BY <1>1, <1>5, <2>1 DEF Offset, min
    <3> QED
      BY <3>1
  <2>2. CASE ~ (r >= min)
    <3>1. tr = r - min + b
      BY <1>1, <2>2 DEF Offset, min
    <3>2. x - min = b * (k - 1) + tr
      BY <1>1, <1>5, <3>1
    <3>3. k - 1 \in Int
      OBVIOUS
    <3> QED
      BY <3>2, <3>3
  <2> QED
    BY <2>1, <2>2
<1>7. PICK j \in Int : x - min = b * j + tr
  BY <1>6
<1> HIDE DEF tr
<1>8. y - min = b * j + ts
  <2>1. y \in Int /\ x \in Int /\ min \in Int /\ tr \in Int /\ ts \in Int /\ b * j \in Int
    BY <1>1, <1>3, <1>4
  <2> QED
    BY <1>7, <2>1
<1>9. b * j + ts >= 0
  <2>1. b * j + tr >= 0
    BY <1>1, <1>3, <1>4, <1>7
  <2> QED
    BY <1>3, <2>1, AboveZero
<1>10. b * j + ts < b * q
  <2>1. b * j + tr < b * q
    BY <1>1, <1>2, <1>3, <1>4, <1>7
  <2> QED
    BY <1>3, <2>1, BelowMultiple
<1>11. y \in 0..(Words - 1) /\ y >= min
  <2>1. y \in Int /\ min \in Int /\ ts \in Int /\ b * j \in Int /\ b * q \in Int
    BY <1>1, <1>3, <1>4
  <2> HIDE DEF y, ts
  <2> QED
    BY <1>1, <1>2, <1>8, <1>9, <1>10, <2>1
<1>12. y % b = s
  <2>1. CASE s >= min
    <3>1. ts = s - min
      BY <1>1, <2>1 DEF Offset, min
    <3>2. y = b * j + s
      <4>1. y \in Int /\ min \in Int /\ s \in Int /\ b * j \in Int
        BY <1>1, <1>3, <1>4
      <4> HIDE DEF y, ts
      <4> QED
        BY <1>8, <3>1, <4>1
    <3> QED
      BY <3>2, ModOfSum
  <2>2. CASE ~ (s >= min)
    <3>1. ts = s - min + b
      BY <1>1, <2>2 DEF Offset, min
    <3>2. y = b * (j + 1) + s
      <4>1. y \in Int /\ min \in Int /\ s \in Int /\ b * j \in Int
        BY <1>1, <1>3, <1>4
      <4>2. b * (j + 1) = b * j + b
        OBVIOUS
      <4> HIDE DEF y, ts
      <4> QED
        BY <1>8, <3>1, <4>1, <4>2
    <3>3. j + 1 \in Int
      OBVIOUS
    <3> QED
      BY <3>2, <3>3, ModOfSum
  <2> QED
    BY <2>1, <2>2
<1> HIDE DEF y
<1>13. y \in random_uint64_draws(b, s)
  BY <1>11, <1>12 DEF random_uint64_draws, Words, min
<1> QED
  BY <1>13 DEF y, tr, ts

\* Every result has as many draws as every other.
LEMMA DrawsEven ==
    ASSUME NEW b \in Nat \ {0}, b <= Words, NEW r \in 0..(b - 1), NEW s \in 0..(b - 1)
    PROVE  Cardinality(random_uint64_draws(b, r)) = Cardinality(random_uint64_draws(b, s))
<1> DEFINE S == random_uint64_draws(b, r)
           T == random_uint64_draws(b, s)
           f == [x \in S |-> x - Offset(b, r) + Offset(b, s)]
<1>1. Words \in Nat /\ random_min(b) \in Int
  BY AcceptedRange
<1>2. S \subseteq 0..(Words - 1) /\ T \subseteq 0..(Words - 1)
  BY DEF random_uint64_draws, Words
<1>3. IsFiniteSet(S)
  <2>1. IsFiniteSet(0..(Words - 1))
    BY <1>1, FS_Interval
  <2> QED
    BY <1>2, <2>1, FS_Subset
<1>4. Offset(b, r) \in Int /\ Offset(b, s) \in Int
  BY <1>1 DEF Offset
<1>5. \A x \in S : x - Offset(b, r) + Offset(b, s) \in T
  BY MovedDraw
<1>6. \A y \in T : y - Offset(b, s) + Offset(b, r) \in S
  BY MovedDraw
<1> HIDE DEF S, T
<1>7. f \in [S -> T]
  BY <1>5
<1>8. \A x, y \in S : f[x] = f[y] => x = y
  BY <1>1, <1>2, <1>4
<1>9. \A y \in T : \E x \in S : f[x] = y
  <2> SUFFICES ASSUME NEW y \in T PROVE \E x \in S : f[x] = y
    OBVIOUS
  <2>1. y \in Int
    BY <1>1, <1>2
  <2>2. f[y - Offset(b, s) + Offset(b, r)] = y
    BY <1>4, <1>6, <2>1
  <2> QED
    BY <1>6, <2>2
<1>10. f \in Bijection(S, T)
  BY <1>7, <1>8, <1>9 DEF Bijection, Injection, Surjection, IsInjective
<1>11. ExistsBijection(S, T)
  BY <1>10 DEF ExistsBijection
<1> QED
  BY <1>3, <1>11, FS_Bijection DEF S, T

\* Every result has a draw: "min" moved to its offset.
LEMMA DrawsExist ==
    ASSUME NEW b \in Nat \ {0}, b <= Words, NEW r \in 0..(b - 1)
    PROVE  random_uint64_draws(b, r) # {}
<1> DEFINE min == random_min(b)
<1>1. min \in 0..(b - 1) /\ Words \in Nat
  BY AcceptedRange
<1>2. min \in random_uint64_draws(b, min)
  <2>1. b * 0 + min = min
    BY <1>1
  <2>2. min % b = min
    BY <1>1, <2>1, ModOfSum
  <2> QED
    BY <1>1, <2>2 DEF random_uint64_draws, Words
<1> HIDE DEF min
<1>3. min - Offset(b, min) + Offset(b, r) \in random_uint64_draws(b, r)
  BY <1>1, <1>2, MovedDraw
<1> QED
  BY <1>3

\* Every contention factor up to the largest can be chosen.
LEMMA AllChosen ==
    ASSUME NEW max \in Nat, max + 1 <= Words
    PROVE  choose_contention(max) = 0..max
<1>1. CASE max = 0
  BY <1>1 DEF choose_contention
<1>2. CASE max > 0
  <2>1. choose_contention(max) = {r \in 0..((max + 1) - 1) : random_uint64_draws(max + 1, r) # {}}
    BY <1>2 DEF choose_contention, random_int64, random_uint64
  <2>2. max + 1 \in Nat \ {0} /\ (max + 1) - 1 = max
    OBVIOUS
  <2> QED
    BY <2>1, <2>2, DrawsExist
<1> QED
  BY <1>1, <1>2

FieldKept == field \in DOMAIN Fields

(***************************************************************************)
(* Every contention factor is drawn with the same probability, for every   *)
(* largest factor and every word width: UnbiasedContention.  (A random     *)
(* number below the modulus that the word is not a multiple of would       *)
(* favour the small factors; mongocrypt-crypto.c throws those away.)       *)
(***************************************************************************)
THEOREM UnbiasedAlways == Spec => []UnbiasedContention
<1>1. Init => FieldKept
  BY DEF Init, FieldKept
<1>2. FieldKept /\ [Next]_vars => FieldKept'
  <2> SUFFICES ASSUME [Next]_vars PROVE field' = field
    BY DEF FieldKept
  <2> QED
    BY DEF Next, vars, Insert, InsertLegacy, FindValue, FindExpression, Decrypt, Damage, Done
<1>3. FieldKept => UnbiasedContention
  <2> SUFFICES ASSUME FieldKept, Field.cm # <<>> PROVE UnbiasedContention
    BY DEF UnbiasedContention
  <2> DEFINE max == Field.cm[1]
             bound == max + 1
  <2>1. max \in 0..(Words - 1) /\ Words \in Nat
    BY FieldsAssumption, CryptoAssumption DEF FieldKept, Field, Words
  <2> HIDE DEF max
  <2>2. bound \in Nat \ {0} /\ bound <= Words /\ bound - 1 = max /\ max \in Nat
    BY <2>1
  <2>3. choose_contention(max) = 0..max
    BY <2>2, AllChosen
  <2> HIDE DEF bound
  <2>4. \A r, s \in 0..max :
           Cardinality(random_uint64_draws(bound, r)) = Cardinality(random_uint64_draws(bound, s))
    BY <2>2, DrawsEven
  <2> QED
    BY <2>3, <2>4 DEF UnbiasedContention, max, bound
<1> QED
  BY <1>1, <1>2, <1>3, PTL DEF Spec

-----------------------------------------------------------------------------
(***************************************************************************)
(* The concatenation of a sequence of sequences, by induction over the     *)
(* number of them.                                                         *)
(***************************************************************************)
\* g holds the concatenations of the first 1, 2, ..., k sequences.
Flattens(seqs, g, k) ==
    /\ DOMAIN g = 1..k /\ g = [x \in DOMAIN g |-> g[x]]
    /\ \A i \in 1..k : g[i] = IF i = 1 THEN seqs[i] ELSE g[i - 1] \o seqs[i]

\* One more sequence can be appended.
LEMMA FlattenStep ==
   ASSUME NEW seqs, NEW n \in Nat \ {0}, NEW h, Flattens(seqs, h, n)
   PROVE  \E g : Flattens(seqs, g, n + 1)
<1> DEFINE last == h[n] \o seqs[n + 1]
           g == [i \in 1..(n + 1) |-> IF i = n + 1 THEN last ELSE h[i]]
<1> HIDE DEF last
<1>1. \A i \in 1..n : g[i] = h[i]
  OBVIOUS
<1>2. g[n + 1] = last
  OBVIOUS
<1>3. DOMAIN g = 1..(n + 1) /\ g = [x \in DOMAIN g |-> g[x]]
  OBVIOUS
<1> HIDE DEF g
<1>4. ASSUME NEW i \in 1..(n + 1)
      PROVE g[i] = IF i = 1 THEN seqs[i] ELSE g[i - 1] \o seqs[i]
  <2>1. CASE i = n + 1
     <3>1. i - 1 = n /\ n \in 1..n /\ i # 1
       BY <2>1
     <3>2. g[i - 1] = h[n]
       BY <1>1, <3>1
     <3> QED
       BY <1>2, <2>1, <3>1, <3>2 DEF last
  <2>2. CASE i # n + 1
     <3>1. i \in 1..n /\ g[i] = h[i]
       BY <1>1, <2>2
     <3>2. h[i] = IF i = 1 THEN seqs[i] ELSE h[i - 1] \o seqs[i]
       BY <3>1 DEF Flattens
     <3>3. i # 1 => g[i - 1] = h[i - 1]
       BY <1>1, <3>1
     <3> QED
       BY <3>1, <3>2, <3>3
  <2> QED
    BY <2>1, <2>2
<1> QED
  BY <1>3, <1>4, Zenon DEF Flattens

\* The recursive function of FlattenSeq is defined for every length.
LEMMA FlattenExists ==
   ASSUME NEW seqs, NEW n \in Nat \ {0}
   PROVE  \E g : Flattens(seqs, g, n)
<1> DEFINE Good == {k \in Nat : k # 0 => \E g : Flattens(seqs, g, k)}
<1>1. 0 \in Good
  OBVIOUS
<1>2. ASSUME NEW k \in Nat, k \in Good PROVE k + 1 \in Good
  <2>1. CASE k = 0
    <3> DEFINE g == [i \in 1..1 |-> seqs[1]]
    <3>1. Flattens(seqs, g, 1)
      BY DEF Flattens
    <3> HIDE DEF g
    <3> QED
      BY <3>1, <2>1
  <2>2. CASE k # 0
    <3>1. PICK h : Flattens(seqs, h, k)
      BY <1>2, <2>2
    <3>2. \E g : Flattens(seqs, g, k + 1)
      BY <3>1, <2>2, FlattenStep
    <3> QED
      BY <3>2
  <2> QED
    BY <2>1, <2>2
<1>3. Nat \subseteq Good
  <2> HIDE DEF Good
  <2> QED
    BY <1>1, <1>2, NatSetInduction
<1> QED
  BY <1>3

\* Concatenating sequences over S yields a sequence over S.
LEMMA FlattenIsSeq ==
   ASSUME NEW S, NEW seqs \in Seq(Seq(S))
   PROVE FlattenSeq(seqs) \in Seq(S)
<1> DEFINE L == Len(seqs)
<1>4. CASE L = 0
  BY <1>4 DEF FlattenSeq
<1>5. CASE L # 0
  <2> DEFINE Whole(g) == g = [i \in 1..L |-> IF i = 1 THEN seqs[i] ELSE g[i - 1] \o seqs[i]]
             f == CHOOSE g : Whole(g)
             Typed == {k \in Nat : k \in 1..L => f[k] \in Seq(S)}
  <2>1. L \in Nat \ {0}
    BY <1>5
  <2>2. PICK g : Flattens(seqs, g, L)
    BY <2>1, FlattenExists
  <2>3. Whole(g)
    BY <2>2 DEF Flattens
  <2>4. Whole(f)
    <3> HIDE DEF Whole
    <3> QED
      BY <2>3, Zenon
  <2>5. FlattenSeq(seqs) = f[L]
    BY <2>1 DEF FlattenSeq
  <2> HIDE DEF f
  <2>6. \A i \in 1..L : f[i] = IF i = 1 THEN seqs[i] ELSE f[i - 1] \o seqs[i]
    BY <2>4
  <2>7. 0 \in Typed
    OBVIOUS
  <2>8. ASSUME NEW n \in Nat, n \in Typed PROVE n + 1 \in Typed
    <3> SUFFICES ASSUME n + 1 \in 1..L PROVE f[n + 1] \in Seq(S)
      OBVIOUS
    <3>1. seqs[n + 1] \in Seq(S)
      OBVIOUS
    <3>2. CASE n = 0
      BY <2>6, <3>1, <3>2
    <3>3. CASE n # 0
      <4>1. n \in 1..L /\ f[n] \in Seq(S)
        BY <2>8, <3>3, <2>1
      <4>2. f[n + 1] = f[n] \o seqs[n + 1]
        <5>1. (n + 1) - 1 = n /\ n + 1 # 1
          BY <3>3
        <5>2. f[n + 1] = f[(n + 1) - 1] \o seqs[n + 1]
          BY <2>6, <5>1, Zenon
        <5> QED
          BY <5>1, <5>2
      <4>3. f[n] \o seqs[n + 1] \in Seq(S)
        BY <3>1, <4>1, ConcatProperties, Zenon
      <4> QED
        BY <4>2, <4>3, Zenon
    <3> QED
      BY <3>2, <3>3
  <2>9. Nat \subseteq Typed
    <3> HIDE DEF Typed
    <3> QED
      BY <2>7, <2>8, NatSetInduction
  <2>10. f[L] \in Seq(S)
    BY <2>9, <2>1
  <2> QED
    BY <2>5, <2>10
<1> QED
  BY <1>4, <1>5

-----------------------------------------------------------------------------
(***************************************************************************)
(* Authenticated encryption.                                               *)
(***************************************************************************)
Authenticated == {FLE1Algorithm, FLE2AEADAlgorithm, FLE2v2AEADAlgorithm}

\* What do_encryption returns when it succeeds
Sealed(alg, iv, aad, key, text) ==
    [iv |-> iv, s |-> encrypt_step(alg, key, iv, text),
     tag |-> hmac_step(alg, key, aad, iv, encrypt_step(alg, key, iv, text))]

\* A table over 1..k is a sequence of length k.
LEMMA TableIsSeq ==
    ASSUME NEW S, NEW k \in Nat, NEW f \in [1..k -> S]
    PROVE  f \in Seq(S) /\ Len(f) = k
OBVIOUS

\* The first k elements of a sequence
LEMMA PrefixOf ==
    ASSUME NEW S, NEW s \in Seq(S), NEW k \in 0..Len(s)
    PROVE  /\ SubSeq(s, 1, k) \in Seq(S) /\ Len(SubSeq(s, 1, k)) = k
           /\ \A i \in 1..k : SubSeq(s, 1, k)[i] = s[i]
OBVIOUS

\* PKCS#7 padding fills the last block and can be taken off again.
LEMMA PaddingComesOff ==
    ASSUME NEW text \in Seq(Int), NEW n \in Int, n = CbcFill(Len(text)),
           NEW data, data = text \o [i \in 1..n |-> n]
    PROVE  /\ n \in 1..BlockLen /\ data \in Seq(Int) /\ Len(data) = Len(text) + n
           /\ Len(data) % BlockLen = 0 /\ data[Len(data)] = n
           /\ SubSeq(data, 1, Len(data) - n) = text
<1> DEFINE len == Len(text)
           fill == [i \in 1..n |-> n]
<1>1. BlockLen \in Nat \ {0} /\ len \in Nat
  BY CryptoAssumption, LenProperties
<1> HIDE DEF len
<1>2. PICK m \in Int : m = len % BlockLen
  BY <1>1
<1>3. m \in 0..(BlockLen - 1) /\ \E k \in Int : len = BlockLen * k + m
  <2>1. len \in Int
    BY <1>1
  <2> QED
    BY <1>1, <1>2, <2>1, DivMod, Zenon
<1>4. n = BlockLen - m
  BY <1>2 DEF CbcFill, len
<1>5. n \in 1..BlockLen
  BY <1>1, <1>3, <1>4
<1>6. fill \in [1..n -> Int] /\ n \in Nat
  BY <1>1, <1>5
<1>7. fill \in Seq(Int) /\ Len(fill) = n
  BY <1>6, TableIsSeq
<1>8. fill[n] = n
  BY <1>5
<1> HIDE DEF fill
<1>9. /\ data \in Seq(Int) /\ Len(data) = len + n
      /\ \A i \in 1 .. len + n : data[i] = IF i <= len THEN text[i] ELSE fill[i - len]
  <2>1. data = text \o fill
    BY DEF fill
  <2>2. /\ text \o fill \in Seq(Int) /\ Len(text \o fill) = Len(text) + Len(fill)
        /\ \A i \in 1 .. Len(text) + Len(fill) :
              (text \o fill)[i] = IF i <= Len(text) THEN text[i] ELSE fill[i - Len(text)]
    BY <1>7, ConcatProperties
  <2> QED
    BY <1>7, <2>1, <2>2, Zenon DEF len
<1>10. data[len + n] = n
  <2>1. len + n \in 1 .. len + n /\ ~ (len + n <= len) /\ (len + n) - len = n
    BY <1>1, <1>5
  <2> QED
    BY <1>8, <1>9, <2>1
<1>11. (len + n) % BlockLen = 0
  <2>1. PICK k \in Int : len = BlockLen * k + m
    BY <1>3
  <2> QED
    BY <1>1, <1>3, <1>4, <2>1, NextMultiple
<1>12. SubSeq(data, 1, len) = text
  <2>1. len \in 0..Len(data)
    BY <1>1, <1>5, <1>9
  <2>2. /\ SubSeq(data, 1, len) \in Seq(Int) /\ Len(SubSeq(data, 1, len)) = len
        /\ \A i \in 1..len : SubSeq(data, 1, len)[i] = data[i]
    BY <1>9, <2>1, PrefixOf
  <2>3. \A i \in 1..len : data[i] = text[i]
    BY <1>1, <1>5, <1>9
  <2> QED
    BY <2>2, <2>3, SeqEqual DEF len
<1>13. (len + n) - n = len
  BY <1>1, <1>5
<1> QED
  BY <1>5, <1>9, <1>10, <1>11, <1>12, <1>13 DEF len

\* The authenticated algorithms have a MAC and a ciphertext of three parts.
LEMMA AuthenticatedFacts ==
    ASSUME NEW alg \in Authenticated
    PROVE  alg.mac # "none" /\ alg.parts = 3
BY DEF Authenticated, FLE1Algorithm, FLE2AEADAlgorithm, FLE2v2AEADAlgorithm

\* What a decryption returns that succeeds
Plaintext(text) == [ok |-> TRUE, data |-> text]

\* decrypt_step undoes encrypt_step, with or without padding.
LEMMA StepInverse ==
    ASSUME NEW alg \in Authenticated, NEW key, NEW text \in Seq(Int), NEW c,
           NEW garbled, c.s = encrypt_step(alg, key, c.iv, text)
    PROVE  decrypt_step(alg, key, c, garbled) = Plaintext(text)
<1> DEFINE n == CbcFill(Len(text))
           fill == text \o [i \in 1..n |-> n]
           data == IF alg.mode = "CBC" THEN fill ELSE text
           opened == Opened(alg.mode, Ke(alg, key), c.iv, c.s, garbled)
<1>1. c.s = [mode |-> alg.mode, key |-> Ke(alg, key), iv |-> c.iv, data |-> data]
  BY DEF encrypt_step
<1>2. opened = data
  <2> HIDE DEF data
  <2> QED
    BY <1>1 DEF Opened
<1> HIDE DEF opened
<1>3. decrypt_step(alg, key, c, garbled) =
        IF alg.mode # "CBC" THEN [ok |-> TRUE, data |-> opened]
        ELSE IF Len(opened) = 0 \/ Len(opened) % BlockLen # 0 THEN Refused
        ELSE IF opened[Len(opened)] < 0 \/ opened[Len(opened)] > BlockLen THEN Refused
        ELSE [ok |-> TRUE, data |-> SubSeq(opened, 1, Len(opened) - opened[Len(opened)])]
  BY DEF decrypt_step, opened
<1>4. CASE alg.mode # "CBC"
  BY <1>2, <1>3, <1>4 DEF Plaintext
<1>5. CASE alg.mode = "CBC"
  <2>1. opened = fill
    BY <1>2, <1>5
  <2>2. BlockLen \in Nat \ {0} /\ Len(text) \in Nat
    BY CryptoAssumption, LenProperties
  <2>3. n \in Int
    BY <2>2 DEF CbcFill
  <2>4. /\ n \in 1..BlockLen /\ opened \in Seq(Int) /\ Len(opened) = Len(text) + n
        /\ Len(opened) % BlockLen = 0 /\ opened[Len(opened)] = n
        /\ SubSeq(opened, 1, Len(opened) - n) = text
    BY <2>1, <2>3, PaddingComesOff
  <2> HIDE DEF n
  <2>5. ~ (Len(opened) = 0 \/ Len(opened) % BlockLen # 0)
    BY <2>2, <2>4
  <2>6. ~ (opened[Len(opened)] < 0 \/ opened[Len(opened)] > BlockLen)
    BY <2>2, <2>4
  <2>7. SubSeq(opened, 1, Len(opened) - opened[Len(opened)]) = text
    BY <2>4
  <2> QED
    BY <1>3, <1>5, <2>5, <2>6, <2>7, Zenon DEF Plaintext
<1> QED
  BY <1>4, <1>5

\* What is encrypted decrypts under the same key and associated data.
LEMMA SealedOpens ==
    ASSUME NEW alg \in Authenticated, NEW key, Len(key) = 3, NEW iv, NEW aad,
           NEW text \in Seq(Int), Len(text) > 0
    PROVE  do_decryption(alg, aad, key, Sealed(alg, iv, aad, key, text))
             = Plaintext(text)
<1> DEFINE c == Sealed(alg, iv, aad, key, text)
           s == encrypt_step(alg, key, iv, text)
<1>1. c.iv = iv /\ c.s = s /\ c.tag = hmac_step(alg, key, aad, iv, s)
  BY DEF Sealed
<1>2. alg.mac # "none" /\ alg.parts = 3
  BY AuthenticatedFacts
<1>3. c.tag # <<>>
  BY <1>1, <1>2 DEF hmac_step
<1>4. Len(s.data) \in Nat /\ Len(s.data) > 0
  <2> DEFINE n == CbcFill(Len(text))
  <2>1. BlockLen \in Nat \ {0} /\ Len(text) \in Nat
    BY CryptoAssumption, LenProperties
  <2>2. n \in Int
    BY <2>1 DEF CbcFill
  <2>3. CASE alg.mode = "CBC"
    <3>1. s.data = text \o [i \in 1..n |-> n]
      BY <2>3 DEF encrypt_step
    <3>2. n \in 1..BlockLen /\ Len(s.data) = Len(text) + n
      BY <2>2, <3>1, PaddingComesOff
    <3> HIDE DEF n, s
    <3> QED
      BY <2>1, <3>2
  <2>4. CASE alg.mode # "CBC"
    BY <2>1, <2>4 DEF encrypt_step
  <2> QED
    BY <2>3, <2>4
<1>5. calculate_plaintext_len(alg, CipherLen(c)).ok
  <2>1. CipherLen(c) = 1 + Len(s.data) + 2
    BY <1>1, <1>3 DEF CipherLen, IvLen, HmacLen
  <2> HIDE DEF s, c
  <2> QED
    BY <1>2, <1>4, <2>1 DEF calculate_plaintext_len, IvLen, HmacLen
<1> HIDE DEF c, s
<1>6. do_decryption(alg, aad, key, c) = decrypt_step(alg, key, c, Garbage(Len(c.s.data)))
  BY <1>1, <1>2, <1>5 DEF do_decryption
<1>7. decrypt_step(alg, key, c, Garbage(Len(c.s.data))) = Plaintext(text)
  <2>1. c.s = encrypt_step(alg, key, c.iv, text)
    BY <1>1 DEF s
  <2> QED
    BY <2>1, StepInverse, Zenon
<1> QED
  BY <1>6, <1>7 DEF c

(***************************************************************************)
(* A ciphertext with the HMAC of an encryption, whatever else of it has    *)
(* been changed, decrypts to the text of that encryption or not at all,    *)
(* and with the associated data of that encryption only.                   *)
(***************************************************************************)
LEMMA OpensOnlySealed ==
    ASSUME NEW alg \in Authenticated, NEW key, NEW aad, NEW iv, NEW text \in Seq(Int),
           NEW other, NEW data, NEW c,
           c.tag = hmac_step(alg, key, aad, iv, encrypt_step(alg, key, iv, text)),
           Km(alg, other) = Km(alg, key) => Ke(alg, other) = Ke(alg, key),
           do_decryption(alg, data, other, c).ok
    PROVE  do_decryption(alg, data, other, c) = Plaintext(text) /\ data = aad
<1> DEFINE s == encrypt_step(alg, key, iv, text)
           out == decrypt_step(alg, other, c, Garbage(Len(c.s.data)))
<1>1. alg.mac # "none"
  BY AuthenticatedFacts
<1>2. ~ Refused.ok
  BY DEF Refused
<1>3. /\ c.tag = hmac_step(alg, other, data, c.iv, c.s)
      /\ do_decryption(alg, data, other, c) = out
  BY <1>2 DEF do_decryption
<1> HIDE DEF s, out
<1>4. hmac_step(alg, key, aad, iv, s) = hmac_step(alg, other, data, c.iv, c.s)
  BY <1>3 DEF s
<1> DEFINE bits(d) == IF alg.fle1 THEN 8 * Len(d) ELSE 0
           mac1 == [hash |-> alg.mac, key |-> Km(alg, key), aad |-> aad, iv |-> iv,
                    s |-> s, aadBits |-> bits(aad)]
           mac2 == [hash |-> alg.mac, key |-> Km(alg, other), aad |-> data, iv |-> c.iv,
                    s |-> c.s, aadBits |-> bits(data)]
<1>5. <<mac1>> = <<mac2>>
  BY <1>1, <1>4 DEF hmac_step
<1> HIDE DEF bits
<1>6. mac1 = mac2
  BY <1>5
<1>7. Km(alg, other) = Km(alg, key) /\ data = aad /\ c.iv = iv /\ c.s = s
  BY <1>6
<1>8. c.s = encrypt_step(alg, other, c.iv, text)
  BY <1>7 DEF s, encrypt_step
<1>9. out = Plaintext(text)
  <2>1. \A g : decrypt_step(alg, other, c, g) = Plaintext(text)
    BY <1>8, StepInverse
  <2> QED
    BY <2>1, Zenon DEF out
<1> QED
  BY <1>3, <1>7, <1>9

-----------------------------------------------------------------------------
(***************************************************************************)
(* The bytes of a value.                                                   *)
(***************************************************************************)
\* A BSON value that was read back
Value(t, bytes) == [ok |-> TRUE, t |-> t, bytes |-> bytes]

\* The bytes of a string's characters
LEMMA CharsAreBytes ==
    ASSUME NEW str \in Seq(Alphabet)
    PROVE  Utf8(str) \in Seq(Int) /\ ByteLen(str) \in Nat
<1> DEFINE chars == [i \in DOMAIN str |-> CharBytes(str[i])]
<1>1. ASSUME NEW i \in DOMAIN str PROVE CharBytes(str[i]) \in Seq(Int)
  <2> DEFINE c == str[i]
             n == IF c = BadChar THEN 1 ELSE Width[c]
  <2>1. c \in Alphabet
    BY <1>1
  <2> HIDE DEF c
  <2>2. n \in Nat /\ c \in Int
    BY <2>1, TextAssumption
  <2> HIDE DEF n
  <2>3. [k \in 1..n |-> c] \in [1..n -> Int]
    BY <2>2
  <2>4. [k \in 1..n |-> c] \in Seq(Int)
    BY <2>2, <2>3, TableIsSeq
  <2> QED
    BY <2>4 DEF CharBytes, n, c
<1>2. chars \in Seq(Seq(Int))
  <2>1. DOMAIN str = 1..Len(str) /\ Len(str) \in Nat
    BY LenProperties
  <2>2. chars \in [1..Len(str) -> Seq(Int)]
    BY <1>1, <2>1
  <2> QED
    BY <2>1, <2>2, TableIsSeq
<1>3. Utf8(str) \in Seq(Int)
  BY <1>2, FlattenIsSeq DEF Utf8
<1> QED
  BY <1>3, LenProperties DEF ByteLen

\* The bytes of a string: its length, its characters and a final zero
LEMMA StringIsBytes ==
    ASSUME NEW str \in Seq(Alphabet)
    PROVE  /\ StringBytes(str) \in Seq(Int)
           /\ Len(StringBytes(str)) >= 2
           /\ StringBytes(str)[1] = Len(StringBytes(str)) - 1
<1> DEFINE bytes == Utf8(str)
<1>1. bytes \in Seq(Int) /\ Len(bytes) \in Nat
  BY CharsAreBytes DEF ByteLen
<1>2. StringBytes(str) = <<Len(bytes) + 1>> \o bytes \o <<0>>
  BY DEF StringBytes, ByteLen
<1> HIDE DEF bytes
<1> QED
  BY <1>1, <1>2

\* The bytes of a value are never empty and are read back as the same value.
LEMMA ValueBytes ==
    ASSUME NEW v, IsValue(v), NEW b, b = mongocrypt_buffer_from_iter(v)
    PROVE  /\ b \in Seq(Int) /\ Len(b) > 0
           /\ mongocrypt_buffer_to_bson_value(b, TypeCode[v.t]) = Value(TypeCode[v.t], b)
<1>1. CASE v.t \in {"int32", "int64", "date", "double"} /\ v.n \in Int
  <2>1. CASE v.t = "int32"
    BY <1>1, <2>1 DEF mongocrypt_buffer_from_iter, mongocrypt_buffer_to_bson_value, Value, TypeCode
  <2>2. CASE v.t = "int64"
    BY <1>1, <2>2 DEF mongocrypt_buffer_from_iter, mongocrypt_buffer_to_bson_value, Value, TypeCode
  <2>3. CASE v.t = "date"
    BY <1>1, <2>3 DEF mongocrypt_buffer_from_iter, mongocrypt_buffer_to_bson_value, Value, TypeCode
  <2>4. CASE v.t = "double"
    BY <1>1, <2>4 DEF mongocrypt_buffer_from_iter, mongocrypt_buffer_to_bson_value, Value, TypeCode
  <2> QED
    BY <1>1, <2>1, <2>2, <2>3, <2>4
<1>2. CASE v.t = "decimal" /\ v.neg \in BOOLEAN /\ v.c \in Int /\ v.e \in Int
  BY <1>2 DEF mongocrypt_buffer_from_iter, mongocrypt_buffer_to_bson_value, Value, TypeCode
<1>3. CASE v.t = "string" /\ v.s \in Seq(Alphabet)
  <2>1. b = StringBytes(v.s)
    BY <1>3 DEF mongocrypt_buffer_from_iter
  <2>2. b \in Seq(Int) /\ Len(b) >= 2 /\ b[1] = Len(b) - 1
    BY <1>3, <2>1, StringIsBytes
  <2>3. TypeCode[v.t] = 2
    BY <1>3 DEF TypeCode
  <2> QED
    BY <2>2, <2>3 DEF mongocrypt_buffer_to_bson_value, Value
<1> QED
  BY <1>1, <1>2, <1>3 DEF IsValue

\* What is read back as a value has its bytes and its type.
LEMMA ReadBack ==
    ASSUME NEW b, NEW t, mongocrypt_buffer_to_bson_value(b, t).ok
    PROVE  mongocrypt_buffer_to_bson_value(b, t) = Value(t, b)
BY DEF mongocrypt_buffer_to_bson_value, Value, Refused

-----------------------------------------------------------------------------
(***************************************************************************)
(* A stored value and the value it was made from.  Wherever the client's   *)
(* ciphertext is kept, its HMAC is the one of the encryption or one that   *)
(* no key of ours produces.                                                *)
(***************************************************************************)
Bytes(v) == mongocrypt_buffer_from_iter(v)
Code(v) == TypeCode[v.t]
OwnKey == KeyMaterial(UserKey)

Traced(c, alg, aad, v) ==
    \/ \E iv : c.tag = hmac_step(alg, OwnKey, aad, iv, encrypt_step(alg, OwnKey, iv, Bytes(v)))
    \/ c.tag[1].key = <<0, 0>>

DirectSubtypes == {Subtype.FLE1DeterministicEncryptedValue, Subtype.FLE1RandomEncryptedValue,
                   Subtype.FLE2UnindexedEncryptedValue, Subtype.FLE2UnindexedEncryptedValueV2}
IndexedSubtypes == {Subtype.FLE2IndexedEqualityEncryptedValue,
                    Subtype.FLE2IndexedEqualityEncryptedValueV2,
                    Subtype.FLE2IndexedRangeEncryptedValueV2, Subtype.FLE2IndexedTextEncryptedValue}
PayloadSubtypes == {Subtype.FLE2InsertUpdatePayload, Subtype.FLE2InsertUpdatePayloadV2}

Algorithm(sub) ==
    IF sub \in {Subtype.FLE1DeterministicEncryptedValue, Subtype.FLE1RandomEncryptedValue}
    THEN FLE1Algorithm
    ELSE IF sub \in {Subtype.FLE2UnindexedEncryptedValue, Subtype.FLE2InsertUpdatePayload,
                     Subtype.FLE2IndexedEqualityEncryptedValue}
    THEN FLE2AEADAlgorithm ELSE FLE2v2AEADAlgorithm

DirectValue(blob, v) ==
    /\ blob.subtype \in DirectSubtypes
    /\ Traced(blob.c, Algorithm(blob.subtype), <<blob.subtype, UserKey, Code(v)>>, v)
IndexedValue(blob, v) ==
    /\ blob.subtype \in IndexedSubtypes
    /\ "c" \in DOMAIN blob.sev.s.data
    /\ Traced(blob.sev.s.data.c, Algorithm(blob.subtype), <<UserKey>>, v)
PayloadValue(blob, v) ==
    /\ blob.subtype \in PayloadSubtypes
    /\ Traced(blob.doc.v.c, Algorithm(blob.subtype), <<UserKey>>, v)
StoredFrom(blob, v) == DirectValue(blob, v) \/ IndexedValue(blob, v) \/ PayloadValue(blob, v)

\* Two keys with the same HMAC part are the same key, and no part is all zero.
LEMMA KeyParts ==
    ASSUME NEW alg, NEW a, NEW b
    PROVE  /\ Km(alg, KeyMaterial(a)) = Km(alg, KeyMaterial(b)) =>
                 Ke(alg, KeyMaterial(a)) = Ke(alg, KeyMaterial(b))
           /\ Km(alg, KeyMaterial(a)) # <<0, 0>> /\ Len(KeyMaterial(a)) = 3
BY DEF Km, Ke, KeyMaterial

\* Every payload is encrypted by an authenticated algorithm.
LEMMA AlgorithmsAuthenticate ==
    ASSUME NEW sub
    PROVE  Algorithm(sub) \in Authenticated
BY DEF Algorithm, Authenticated

\* Whatever ciphertext traces back to a value decrypts to it or not at all.
LEMMA TracedOpens ==
    ASSUME NEW alg \in Authenticated, NEW aad, NEW v, IsValue(v), NEW c,
           Traced(c, alg, aad, v), NEW id, NEW data,
           do_decryption(alg, data, KeyMaterial(id), c).ok
    PROVE  do_decryption(alg, data, KeyMaterial(id), c) = Plaintext(Bytes(v)) /\ data = aad
<1>1. CASE c.tag[1].key = <<0, 0>>
  <2>1. ~ Refused.ok
    BY DEF Refused
  <2>2. c.tag = hmac_step(alg, KeyMaterial(id), data, c.iv, c.s)
    BY <2>1 DEF do_decryption
  <2>3. c.tag[1].key = Km(alg, KeyMaterial(id))
    BY <2>2, AuthenticatedFacts DEF hmac_step
  <2> QED
    BY <1>1, <2>3, KeyParts
<1>2. CASE \E iv : c.tag = hmac_step(alg, OwnKey, aad, iv, encrypt_step(alg, OwnKey, iv, Bytes(v)))
  <2>1. PICK iv : c.tag = hmac_step(alg, OwnKey, aad, iv, encrypt_step(alg, OwnKey, iv, Bytes(v)))
    BY <1>2
  <2>2. Bytes(v) \in Seq(Int)
    BY ValueBytes DEF Bytes
  <2>3. Km(alg, KeyMaterial(id)) = Km(alg, OwnKey) => Ke(alg, KeyMaterial(id)) = Ke(alg, OwnKey)
    BY KeyParts DEF OwnKey
  <2> QED
    BY <2>1, <2>2, <2>3, OpensOnlySealed
<1> QED
  BY <1>1, <1>2 DEF Traced

\* A key the broker has, and a failure
LEMMA KeyFound ==
    ASSUME NEW id, decrypted_key_by_id(Keys, id).ok
    PROVE  decrypted_key_by_id(Keys, id).key = KeyMaterial(id)
BY DEF decrypted_key_by_id, Refused

\* A decrypted text that is read back as a value
LEMMA TracedRead ==
    ASSUME NEW v, IsValue(v), NEW out, out.ok => out = Plaintext(Bytes(v)),
           NEW t, AsValue(out, t).ok
    PROVE  AsValue(out, t) = Value(t, Bytes(v))
<1>1. ~ Refused.ok
  BY DEF Refused
<1>2. out.ok
  BY <1>1 DEF AsValue
<1>3. out = Plaintext(Bytes(v))
  BY <1>2
<1>4. out.data = Bytes(v)
  BY <1>3 DEF Plaintext
<1>5. AsValue(out, t) = mongocrypt_buffer_to_bson_value(Bytes(v), t)
  BY <1>2, <1>4 DEF AsValue
<1> QED
  BY <1>5, ReadBack

\* Values that carry their ciphertext as it is: the HMAC covers the type.
LEMMA DirectOpens ==
    ASSUME NEW v, IsValue(v), NEW blob, DirectValue(blob, v), NEW res,
           res = replace_ciphertext_with_plaintext(Keys, blob), res.ok
    PROVE  res = Value(StoredType(blob), Bytes(v)) /\ StoredType(blob) = Code(v)
<1> DEFINE sub == blob.subtype
           alg == Algorithm(sub)
           data == <<sub, blob.keyId, blob.t>>
           got == decrypted_key_by_id(Keys, blob.keyId)
           out == do_decryption(alg, data, got.key, blob.c)
<1>1. ~ Refused.ok
  BY DEF Refused
<1>2. res = (IF ~got.ok THEN Refused ELSE AsValue(out, blob.t))
  <2>1. CASE sub = Subtype.FLE1DeterministicEncryptedValue \/ sub = Subtype.FLE1RandomEncryptedValue
    <3>1. res = replace_FLE1Payload_with_plaintext(Keys, blob)
      BY <2>1 DEF replace_ciphertext_with_plaintext, Subtype
    <3>2. alg = FLE1Algorithm /\ mongocrypt_ciphertext_parse(blob)
      BY <2>1 DEF Algorithm, mongocrypt_ciphertext_parse
    <3> QED
      BY <3>1, <3>2 DEF replace_FLE1Payload_with_plaintext, serialize_associated_data
  <2>2. CASE sub = Subtype.FLE2UnindexedEncryptedValue
    <3>1. res = replace_FLE2UnindexedEncryptedValue_with_plaintext(Keys, blob)
      BY <2>2 DEF replace_ciphertext_with_plaintext, Subtype
    <3>2. alg = UnindexedAlgorithm(sub) /\ mc_FLE2UnindexedEncryptedValue_parse(blob)
      BY <2>2 DEF Algorithm, UnindexedAlgorithm, mc_FLE2UnindexedEncryptedValue_parse, Subtype
    <3> QED
      BY <3>1, <3>2 DEF replace_FLE2UnindexedEncryptedValue_with_plaintext,
                       UnindexedEncryptedValueCommon_decrypt, serialize_associated_data
  <2>3. CASE sub = Subtype.FLE2UnindexedEncryptedValueV2
    <3>1. res = replace_FLE2UnindexedEncryptedValueV2_with_plaintext(Keys, blob)
      BY <2>3 DEF replace_ciphertext_with_plaintext, Subtype
    <3>2. alg = UnindexedAlgorithm(sub) /\ mc_FLE2UnindexedEncryptedValueV2_parse(blob)
      BY <2>3 DEF Algorithm, UnindexedAlgorithm, mc_FLE2UnindexedEncryptedValueV2_parse, Subtype
    <3> QED
      BY <3>1, <3>2 DEF replace_FLE2UnindexedEncryptedValueV2_with_plaintext,
                       UnindexedEncryptedValueCommon_decrypt, serialize_associated_data
  <2> QED
    BY <2>1, <2>2, <2>3 DEF DirectValue, DirectSubtypes
<1>3. got.ok /\ got.key = KeyMaterial(blob.keyId) /\ res = AsValue(out, blob.t)
  BY <1>1, <1>2, KeyFound
<1>4. out.ok
  BY <1>1, <1>3 DEF AsValue
<1>5. out = Plaintext(Bytes(v)) /\ data = <<sub, UserKey, Code(v)>>
  BY <1>3, <1>4, TracedOpens, AlgorithmsAuthenticate DEF DirectValue
<1>6. blob.t = Code(v)
  BY <1>5
<1>7. StoredType(blob) = blob.t
  BY DEF DirectValue, DirectSubtypes, StoredType, Subtype
<1> HIDE DEF out
<1> QED
  BY <1>3, <1>5, <1>6, <1>7, TracedRead

\* Insert payloads: the type is outside the HMAC.
LEMMA PayloadOpens ==
    ASSUME NEW v, IsValue(v), NEW blob, PayloadValue(blob, v), NEW res,
           res = replace_ciphertext_with_plaintext(Keys, blob), res.ok
    PROVE  res = Value(StoredType(blob), Bytes(v))
<1> DEFINE alg == Algorithm(blob.subtype)
           id == blob.doc.v.keyId
           got == decrypted_key_by_id(Keys, id)
           out == do_decryption(alg, <<id>>, got.key, blob.doc.v.c)
<1>1. ~ Refused.ok
  BY DEF Refused
<1>2. got.ok /\ res = AsValue(out, blob.doc.t)
  <2>1. CASE blob.subtype = Subtype.FLE2InsertUpdatePayload
    <3> DEFINE iup == mc_FLE2InsertUpdatePayload_parse(blob.doc)
    <3>1. res = replace_FLE2InsertUpdatePayload_with_plaintext(Keys, blob)
      BY <2>1 DEF replace_ciphertext_with_plaintext, Subtype
    <3>2. alg = FLE2AEADAlgorithm
      BY <2>1 DEF Algorithm, Subtype
    <3>3. iup.ok
      BY <1>1, <3>1 DEF replace_FLE2InsertUpdatePayload_with_plaintext
    <3>4. iup.userKeyId = id /\ iup.value = blob.doc.v /\ iup.valueType = blob.doc.t
      BY <1>1, <3>3 DEF mc_FLE2InsertUpdatePayload_parse
    <3> HIDE DEF iup
    <3> QED
      BY <1>1, <3>1, <3>2, <3>3, <3>4
      DEF replace_FLE2InsertUpdatePayload_with_plaintext, mc_FLE2InsertUpdatePayload_decrypt, iup
  <2>2. CASE blob.subtype = Subtype.FLE2InsertUpdatePayloadV2
    <3> DEFINE iup == mc_FLE2InsertUpdatePayloadV2_parse(blob.doc)
    <3>1. res = replace_FLE2InsertUpdatePayloadV2_with_plaintext(Keys, blob)
      BY <2>2 DEF replace_ciphertext_with_plaintext, Subtype
    <3>2. alg = FLE2v2AEADAlgorithm
      BY <2>2 DEF Algorithm, Subtype
    <3>3. iup.ok
      BY <1>1, <3>1 DEF replace_FLE2InsertUpdatePayloadV2_with_plaintext
    <3>4. iup.userKeyId = id /\ iup.value = blob.doc.v /\ iup.valueType = blob.doc.t
      BY <1>1, <3>3 DEF mc_FLE2InsertUpdatePayloadV2_parse
    <3> HIDE DEF iup
    <3> QED
      BY <1>1, <3>1, <3>2, <3>3, <3>4
      DEF replace_FLE2InsertUpdatePayloadV2_with_plaintext, mc_FLE2InsertUpdatePayloadV2_decrypt, iup
  <2> QED
    BY <2>1, <2>2 DEF PayloadValue, PayloadSubtypes
<1>3. got.key = KeyMaterial(id)
  BY <1>2, KeyFound
<1>4. out.ok => out = Plaintext(Bytes(v))
  BY <1>3, TracedOpens, AlgorithmsAuthenticate DEF PayloadValue
<1>5. blob.doc.t = StoredType(blob)
  BY DEF PayloadValue, PayloadSubtypes, StoredType
<1> HIDE DEF out
<1> QED
  BY <1>2, <1>4, <1>5, TracedRead

\* An indexed value after parsing
ParsedIev(id, t, sev) ==
    [IevNew EXCEPT !.parsed = TRUE, !.S_KeyId = id, !.t = t, !.sev = <<sev>>]

\* ... and with its envelope opened
OpenedIev(id, t, sev, inner) == [ParsedIev(id, t, sev) EXCEPT !.inner = <<inner>>]

\* The fields of an indexed value whose envelope has been opened
LEMMA OpenedIevFields ==
    ASSUME NEW id, NEW t, NEW sev, NEW inner
    PROVE  LET iev == OpenedIev(id, t, sev, inner)
           IN iev.t = t /\ iev.inner = <<inner>> /\ iev.inner[1] = inner /\ iev.ClientValue = <<>>
              /\ "t" \in DOMAIN iev /\ "ClientValue" \in DOMAIN iev
BY DEF OpenedIev, ParsedIev, IevNew

\* The key of the server's envelope yields the client's ciphertext, with the
\* right key id or with one no key has.
LEMMA EnvelopeOpened ==
    ASSUME NEW sev, "c" \in DOMAIN sev.s.data, NEW id, NEW t, NEW S_Key,
           IevAddSKey(ParsedIev(id, t, sev), S_Key).ok
    PROVE  \E inner : /\ inner.c = sev.s.data.c
                      /\ IevAddSKey(ParsedIev(id, t, sev), S_Key).iev = OpenedIev(id, t, sev, inner)
<1> DEFINE iev == ParsedIev(id, t, sev)
           inner == Envelope(iev.sev[1], ServerDataEncryptionLevel1Token(TokenKey(S_Key)))
<1>1. ~ Refused.ok
  BY DEF Refused
<1>2. iev.sev[1] = sev
  BY DEF IevNew, ParsedIev
<1>3. inner.c = sev.s.data.c
  BY <1>2 DEF Envelope
<1> HIDE DEF iev
<1>4. IevAddSKey(iev, S_Key).iev = [iev EXCEPT !.inner = <<inner>>]
  BY <1>1 DEF IevAddSKey, iev
<1> HIDE DEF inner
<1> QED
  BY <1>3, <1>4 DEF iev, OpenedIev

\* The client's key decrypts what was in the envelope.
LEMMA ClientOpened ==
    ASSUME NEW alg, NEW sev, NEW id, NEW t, NEW inner, NEW K_Key, NEW client,
           client = IevAddKKey(alg, OpenedIev(id, t, sev, inner), K_Key), client.ok,
           NEW out, out = do_decryption(alg, <<inner.keyId>>, K_Key, inner.c)
    PROVE  out.ok /\ client.iev.t = t /\ client.iev.ClientValue[1] = out.data
<1> DEFINE iev == OpenedIev(id, t, sev, inner)
<1>1. ~ Refused.ok
  BY DEF Refused
<1>2. iev.t = t /\ iev.inner[1] = inner /\ "t" \in DOMAIN iev /\ "ClientValue" \in DOMAIN iev
  BY OpenedIevFields
<1> HIDE DEF iev
<1>3. out.ok /\ client.iev = [iev EXCEPT !.ClientValue = <<out.data>>]
  BY <1>1, <1>2 DEF IevAddKKey, iev
<1>4. client.iev.t = iev.t /\ client.iev.ClientValue = <<out.data>>
  BY <1>2, <1>3
<1> QED
  BY <1>2, <1>3, <1>4

\* Indexed values: neither the type nor the server's envelope is authenticated.
LEMMA IndexedOpens ==
    ASSUME NEW v, IsValue(v), NEW blob, IndexedValue(blob, v), NEW res,
           res = replace_ciphertext_with_plaintext(Keys, blob), res.ok
    PROVE  res = Value(StoredType(blob), Bytes(v))
<1> DEFINE alg == Algorithm(blob.subtype)
           iev == ParsedIev(blob.keyId, blob.t, blob.sev)
           S_Key == decrypted_key_by_id(Keys, iev.S_KeyId)
           opened == IevAddSKey(iev, S_Key.key)
           inner == opened.iev.inner[1]
           K_Key == decrypted_key_by_id(Keys, inner.keyId)
           client == IevAddKKey(alg, opened.iev, K_Key.key)
<1>1. ~ Refused.ok
  BY DEF Refused
<1>2. /\ opened.ok /\ K_Key.ok /\ client.ok
      /\ res = mongocrypt_buffer_to_bson_value(client.iev.ClientValue[1], client.iev.t)
  <2>1. CASE blob.subtype = Subtype.FLE2IndexedEqualityEncryptedValue
    <3> DEFINE parsed == mc_FLE2IndexedEncryptedValue_parse(IevNew, blob)
    <3>1. res = replace_FLE2IndexedEncryptedValue_with_plaintext(Keys, blob)
      BY <2>1 DEF replace_ciphertext_with_plaintext, Subtype
    <3>2. alg = FLE2AEADAlgorithm
      BY <2>1 DEF Algorithm, Subtype
    <3>3. parsed.ok
      BY <1>1, <3>1 DEF replace_FLE2IndexedEncryptedValue_with_plaintext
    <3>4. parsed.iev = iev
      BY <1>1, <3>3 DEF mc_FLE2IndexedEncryptedValue_parse, ParsedIev
    <3> HIDE DEF iev
    <3> QED
      BY <1>1, <3>1, <3>2, <3>4
      DEF replace_FLE2IndexedEncryptedValue_with_plaintext,
          mc_FLE2IndexedEncryptedValue_add_S_Key, mc_FLE2IndexedEncryptedValue_add_K_Key
  <2>2. CASE blob.subtype # Subtype.FLE2IndexedEqualityEncryptedValue
    <3> DEFINE parsed == mc_FLE2IndexedEncryptedValueV2_parse(IevNew, blob)
    <3>1. res = replace_FLE2IndexedEncryptedValueV2_with_plaintext(Keys, blob)
      BY <2>2 DEF replace_ciphertext_with_plaintext, Subtype, IndexedValue, IndexedSubtypes
    <3>2. alg = FLE2v2AEADAlgorithm
      BY <2>2 DEF Algorithm, Subtype, IndexedValue, IndexedSubtypes
    <3>3. parsed.ok
      BY <1>1, <3>1 DEF replace_FLE2IndexedEncryptedValueV2_with_plaintext
    <3>4. parsed.iev = iev
      BY <1>1, <3>3 DEF mc_FLE2IndexedEncryptedValueV2_parse, ParsedIev
    <3> HIDE DEF iev
    <3> QED
      BY <1>1, <3>1, <3>2, <3>4
      DEF replace_FLE2IndexedEncryptedValueV2_with_plaintext,
          mc_FLE2IndexedEncryptedValueV2_add_S_Key, mc_FLE2IndexedEncryptedValueV2_add_K_Key
  <2> QED
    BY <2>1, <2>2
<1>3. /\ "c" \in DOMAIN blob.sev.s.data /\ blob.t = StoredType(blob)
      /\ Traced(blob.sev.s.data.c, alg, <<UserKey>>, v)
  BY DEF IndexedValue, IndexedSubtypes, StoredType, Subtype
<1>4. PICK data : /\ data.c = blob.sev.s.data.c
                  /\ opened.iev = OpenedIev(blob.keyId, blob.t, blob.sev, data)
  <2>1. IevAddSKey(ParsedIev(blob.keyId, blob.t, blob.sev), S_Key.key).ok
    BY <1>2
  <2> HIDE DEF S_Key
  <2>2. \E data : /\ data.c = blob.sev.s.data.c
                  /\ IevAddSKey(ParsedIev(blob.keyId, blob.t, blob.sev), S_Key.key).iev
                       = OpenedIev(blob.keyId, blob.t, blob.sev, data)
    BY <1>3, <2>1, EnvelopeOpened
  <2> QED
    BY <2>2
<1>5. inner = data
  BY <1>4, OpenedIevFields
<1>6. K_Key.key = KeyMaterial(data.keyId)
  BY <1>2, <1>5, KeyFound
<1> DEFINE out == do_decryption(alg, <<data.keyId>>, K_Key.key, data.c)
<1>7. out.ok /\ client.iev.t = blob.t /\ client.iev.ClientValue[1] = out.data
  <2> HIDE DEF opened, K_Key, alg
  <2>1. client = IevAddKKey(alg, OpenedIev(blob.keyId, blob.t, blob.sev, data), K_Key.key)
    BY <1>4
  <2> HIDE DEF client
  <2> QED
    BY <1>2, <2>1, ClientOpened
<1> HIDE DEF iev, opened, client, S_Key, inner, alg
<1>8. alg \in Authenticated
  BY AlgorithmsAuthenticate DEF alg
<1>9. out = Plaintext(Bytes(v))
  BY <1>3, <1>4, <1>6, <1>7, <1>8, TracedOpens
<1>10. out.data = Bytes(v)
  BY <1>9 DEF Plaintext
<1> HIDE DEF out
<1> QED
  BY <1>2, <1>3, <1>7, <1>10, ReadBack

\* Whatever is stored decrypts to the bytes it was made from or not at all, and if
\* its HMAC covers the type, to the value.
LEMMA StoredOpens ==
    ASSUME NEW v, IsValue(v), NEW blob, StoredFrom(blob, v), NEW res,
           res = replace_ciphertext_with_plaintext(Keys, blob), res.ok
    PROVE  /\ res = Value(StoredType(blob), Bytes(v))
           /\ blob.subtype \in TypeCovered => StoredType(blob) = Code(v)
<1>1. CASE DirectValue(blob, v)
  BY <1>1, DirectOpens
<1>2. CASE PayloadValue(blob, v)
  <2>1. blob.subtype \notin TypeCovered
    BY <1>2 DEF PayloadValue, PayloadSubtypes, TypeCovered, Subtype
  <2> QED
    BY <1>2, <2>1, PayloadOpens
<1>3. CASE IndexedValue(blob, v)
  <2>1. blob.subtype \notin TypeCovered
    BY <1>3 DEF IndexedValue, IndexedSubtypes, TypeCovered, Subtype
  <2> QED
    BY <1>3, <2>1, IndexedOpens
<1> QED
  BY <1>1, <1>2, <1>3 DEF StoredFrom

-----------------------------------------------------------------------------
(***************************************************************************)
(* An intact value, and what is left of it after damage.                   *)
(***************************************************************************)
SealedValue(c, sub, aad, v) ==
    \E iv : c = Sealed(Algorithm(sub), iv, aad, OwnKey, Bytes(v))

MadeDirect(blob, v) ==
    \E sub, c :
        /\ sub \in DirectSubtypes
        /\ blob = EncryptedBlob(sub, UserKey, Code(v), c)
        /\ SealedValue(c, sub, <<sub, UserKey, Code(v)>>, v)
MadePayload(blob, v) ==
    \E sub, doc, c :
        /\ sub \in PayloadSubtypes
        /\ blob = Blob(sub, doc) /\ {"v", "t"} \subseteq DOMAIN doc
        /\ doc.v = [keyId |-> UserKey, c |-> c] /\ doc.t = Code(v)
        /\ SealedValue(c, sub, <<UserKey>>, v)
MadeIndexed(blob, v) ==
    /\ blob.subtype \in IndexedSubtypes /\ blob.t = Code(v)
    /\ {"subtype", "keyId", "t", "sev"} \subseteq DOMAIN blob /\ "doc" \notin DOMAIN blob
    /\ \E token, iv, c :
          /\ blob.sev = SealEnvelope(token, iv, [keyId |-> UserKey, c |-> c])
          /\ SealedValue(c, blob.subtype, <<UserKey>>, v)
MadeFrom(blob, v) == MadeDirect(blob, v) \/ MadePayload(blob, v) \/ MadeIndexed(blob, v)

\* An intact value names the type of the value it was made from.
LEMMA MadeType ==
    ASSUME NEW v, NEW blob, MadeFrom(blob, v)
    PROVE  StoredType(blob) = Code(v)
<1>1. CASE MadeDirect(blob, v)
  BY <1>1 DEF MadeDirect, DirectSubtypes, StoredType, EncryptedBlob, Subtype
<1>2. CASE MadePayload(blob, v)
  BY <1>2 DEF MadePayload, PayloadSubtypes, StoredType, Blob
<1>3. CASE MadeIndexed(blob, v)
  BY <1>3 DEF MadeIndexed, IndexedSubtypes, StoredType, Subtype
<1> QED
  BY <1>1, <1>2, <1>3 DEF MadeFrom

\* A ciphertext that is intact, or damaged in one of its parts, still traces back.
LEMMA SealedTraced ==
    ASSUME NEW v, NEW sub, NEW aad, NEW c, SealedValue(c, sub, aad, v)
    PROVE  /\ Traced(c, Algorithm(sub), aad, v)
           /\ \A d \in DamagedCiphertext(c) : Traced(d, Algorithm(sub), aad, v)
<1> DEFINE alg == Algorithm(sub)
           mac(iv) == hmac_step(alg, OwnKey, aad, iv, encrypt_step(alg, OwnKey, iv, Bytes(v)))
<1>1. PICK iv : c = Sealed(alg, iv, aad, OwnKey, Bytes(v))
  BY DEF SealedValue
<1>2. c.tag = mac(iv) /\ DOMAIN c = {"iv", "s", "tag"} /\ c = [x \in DOMAIN c |-> c[x]]
  BY <1>1 DEF Sealed
<1>3. PICK m : c.tag = <<m>> /\ "key" \in DOMAIN m /\ m = [x \in DOMAIN m |-> m[x]]
  <2>1. alg.mac # "none"
    BY AlgorithmsAuthenticate, AuthenticatedFacts
  <2> DEFINE s == encrypt_step(alg, OwnKey, iv, Bytes(v))
             bits == IF alg.fle1 THEN 8 * Len(aad) ELSE 0
             rec == [hash |-> alg.mac, key |-> Km(alg, OwnKey), aad |-> aad, iv |-> iv,
                     s |-> s, aadBits |-> bits]
  <2>2. c.tag = <<rec>>
    BY <1>2, <2>1 DEF hmac_step
  <2> HIDE DEF s, bits
  <2>3. "key" \in DOMAIN rec /\ rec = [x \in DOMAIN rec |-> rec[x]]
    OBVIOUS
  <2> HIDE DEF rec
  <2> QED
    BY <2>2, <2>3
<1>4. Traced(c, alg, aad, v)
  BY <1>2 DEF Traced
<1>5. ASSUME NEW d, d.tag = c.tag PROVE Traced(d, alg, aad, v)
  BY <1>2, <1>5 DEF Traced
<1>6. ASSUME NEW d \in DamagedCiphertext(c) PROVE Traced(d, alg, aad, v)
  <2>1. CASE d = [c EXCEPT !.iv = FreshIv(-1)]
    <3>1. d.tag = c.tag
      BY <1>2, <2>1
    <3> QED
      BY <1>5, <3>1
  <2>2. CASE d = [c EXCEPT !.s.data[1] = @ + 1]
    <3>1. d.tag = c.tag
      BY <1>2, <2>2
    <3> QED
      BY <1>5, <3>1
  <2>3. CASE d = [c EXCEPT !.s.data[Len(c.s.data)] = -1]
    <3>1. d.tag = c.tag
      BY <1>2, <2>3
    <3> QED
      BY <1>5, <3>1
  <2>4. CASE d = [c EXCEPT !.tag[1].key = <<0, 0>>]
    <3>1. d.tag = [c.tag EXCEPT ![1].key = <<0, 0>>]
      BY <1>2, <2>4
    <3>2. d.tag[1] = [m EXCEPT !.key = <<0, 0>>]
      BY <1>3, <3>1
    <3>3. d.tag[1].key = <<0, 0>>
      BY <1>3, <3>2
    <3> QED
      BY <3>3 DEF Traced
  <2> QED
    BY <1>6, <2>1, <2>2, <2>3, <2>4 DEF DamagedCiphertext
<1> QED
  BY <1>4, <1>6

\* An intact value is one that traces back.
LEMMA MadeIsStored ==
    ASSUME NEW v, NEW blob, MadeFrom(blob, v)
    PROVE  StoredFrom(blob, v)
<1>1. CASE MadeDirect(blob, v)
  <2>1. PICK sub, c :
          /\ sub \in DirectSubtypes /\ blob = EncryptedBlob(sub, UserKey, Code(v), c)
          /\ SealedValue(c, sub, <<sub, UserKey, Code(v)>>, v)
    BY <1>1 DEF MadeDirect
  <2>2. blob.subtype = sub /\ blob.c = c
    BY <2>1 DEF EncryptedBlob
  <2> QED
    BY <2>1, <2>2, SealedTraced DEF StoredFrom, DirectValue
<1>2. CASE MadePayload(blob, v)
  <2>1. PICK sub, doc, c :
          /\ sub \in PayloadSubtypes
          /\ blob = Blob(sub, doc) /\ {"v", "t"} \subseteq DOMAIN doc
          /\ doc.v = [keyId |-> UserKey, c |-> c] /\ doc.t = Code(v)
          /\ SealedValue(c, sub, <<UserKey>>, v)
    BY <1>2 DEF MadePayload
  <2>2. blob.subtype = sub /\ blob.doc.v.c = c /\ blob.doc.t = Code(v)
    BY <2>1 DEF Blob
  <2> QED
    BY <2>1, <2>2, SealedTraced DEF StoredFrom, PayloadValue
<1>3. CASE MadeIndexed(blob, v)
  <2>1. PICK token, iv, c : /\ blob.sev = SealEnvelope(token, iv, [keyId |-> UserKey, c |-> c])
                            /\ SealedValue(c, blob.subtype, <<UserKey>>, v)
    BY <1>3 DEF MadeIndexed
  <2>2. blob.sev.s.data.c = c /\ "c" \in DOMAIN blob.sev.s.data
    BY <2>1 DEF SealEnvelope
  <2> QED
    BY <1>3, <2>1, <2>2, SealedTraced DEF StoredFrom, IndexedValue, MadeIndexed
<1> QED
  BY <1>1, <1>2, <1>3 DEF MadeFrom

\* One damaged part leaves a value that traces back.
LEMMA DamagedDirect ==
    ASSUME NEW v, NEW blob, MadeDirect(blob, v), NEW d \in Damaged(blob)
    PROVE  DirectValue(d, v)
<1>1. PICK sub, c :
        /\ sub \in DirectSubtypes /\ blob = EncryptedBlob(sub, UserKey, Code(v), c)
        /\ SealedValue(c, sub, <<sub, UserKey, Code(v)>>, v)
  BY DEF MadeDirect
<1>2. /\ DOMAIN blob = {"ok", "subtype", "keyId", "t", "c"} /\ blob = [x \in DOMAIN blob |-> blob[x]]
      /\ blob.subtype = sub /\ blob.c = c
  BY <1>1 DEF EncryptedBlob
<1>3. \/ d = [blob EXCEPT !.keyId = OtherKey] \/ \E t : d = [blob EXCEPT !.t = t]
      \/ \E e \in DamagedCiphertext(c) : d = [blob EXCEPT !.c = e]
  BY <1>2 DEF Damaged, Indexed
<1>4. CASE d = [blob EXCEPT !.keyId = OtherKey] \/ \E t : d = [blob EXCEPT !.t = t]
  <2>1. d.subtype = sub /\ d.c = c
    BY <1>2, <1>4
  <2> QED
    BY <1>1, <2>1, SealedTraced DEF DirectValue
<1>5. CASE \E e \in DamagedCiphertext(c) : d = [blob EXCEPT !.c = e]
  <2>1. PICK e \in DamagedCiphertext(c) : d = [blob EXCEPT !.c = e]
    BY <1>5
  <2>2. d.subtype = sub /\ d.c = e
    BY <1>2, <2>1
  <2> QED
    BY <1>1, <2>1, <2>2, SealedTraced DEF DirectValue
<1> QED
  BY <1>3, <1>4, <1>5

\* A damaged payload still stands for the bytes of its value or for nothing.
LEMMA DamagedPayload ==
    ASSUME NEW v, NEW blob, MadePayload(blob, v), NEW d \in Damaged(blob)
    PROVE  PayloadValue(d, v)
<1>1. PICK sub, doc, c :
        /\ sub \in PayloadSubtypes
        /\ blob = Blob(sub, doc) /\ {"v", "t"} \subseteq DOMAIN doc
        /\ doc.v = [keyId |-> UserKey, c |-> c] /\ doc.t = Code(v)
        /\ SealedValue(c, sub, <<UserKey>>, v)
  BY DEF MadePayload
<1>2. DOMAIN blob = {"ok", "subtype", "doc"} /\ blob.subtype = sub /\ blob.doc = doc
  BY <1>1 DEF Blob
<1>3. \/ d = [blob EXCEPT !.doc.v.keyId = OtherKey]
      \/ \E t : d = [blob EXCEPT !.doc.t = t]
      \/ \E e \in DamagedCiphertext(c) : d = [blob EXCEPT !.doc.v.c = e]
  BY <1>1, <1>2 DEF Damaged
<1>4. CASE d = [blob EXCEPT !.doc.v.keyId = OtherKey]
  <2>1. d.subtype = sub /\ d.doc = [doc EXCEPT !.v.keyId = OtherKey]
    BY <1>2, <1>4
  <2>2. d.doc.v = [doc.v EXCEPT !.keyId = OtherKey]
    BY <1>1, <2>1
  <2>3. d.doc.v.c = c
    BY <1>1, <2>2
  <2> QED
    BY <1>1, <2>1, <2>2, <2>3, SealedTraced DEF PayloadValue
<1>5. CASE \E e \in DamagedCiphertext(c) : d = [blob EXCEPT !.doc.v.c = e]
  <2>1. PICK e \in DamagedCiphertext(c) : d = [blob EXCEPT !.doc.v.c = e]
    BY <1>5
  <2>2. d.subtype = sub /\ d.doc = [doc EXCEPT !.v.c = e]
    BY <1>2, <2>1
  <2>3. d.doc.v = [doc.v EXCEPT !.c = e]
    BY <1>1, <2>2
  <2>4. d.doc.v.c = e
    BY <1>1, <2>3
  <2> QED
    BY <1>1, <2>1, <2>2, <2>3, <2>4, SealedTraced DEF PayloadValue
<1>6. CASE \E t : d = [blob EXCEPT !.doc.t = t]
  <2>1. PICK t : d = [blob EXCEPT !.doc.t = t]
    BY <1>6
  <2>2. d.subtype = sub /\ d.doc = [doc EXCEPT !.t = t]
    BY <1>2, <2>1
  <2>3. d.doc.v.c = c
    BY <1>1, <2>2
  <2> QED
    BY <1>1, <2>2, <2>3, SealedTraced DEF PayloadValue
<1> QED
  BY <1>3, <1>4, <1>5, <1>6

\* A damaged indexed value still stands for the bytes of its value or for nothing.
LEMMA DamagedIndexed ==
    ASSUME NEW v, NEW blob, MadeIndexed(blob, v), NEW d \in Damaged(blob)
    PROVE  IndexedValue(d, v)
<1>1. PICK token, iv, c : /\ blob.sev = SealEnvelope(token, iv, [keyId |-> UserKey, c |-> c])
                          /\ SealedValue(c, blob.subtype, <<UserKey>>, v)
  BY DEF MadeIndexed
<1> DEFINE sub == blob.subtype
           data == [keyId |-> UserKey, c |-> c]
<1>2. /\ "subtype" \in DOMAIN blob /\ "keyId" \in DOMAIN blob /\ "t" \in DOMAIN blob
      /\ "sev" \in DOMAIN blob /\ "doc" \notin DOMAIN blob
      /\ sub \in IndexedSubtypes /\ blob.t = Code(v)
  BY DEF MadeIndexed
<1>3. /\ DOMAIN blob.sev = {"iv", "s"} /\ blob.sev.s.data = data
      /\ DOMAIN blob.sev.s = {"token", "iv", "data"}
  BY <1>1 DEF SealEnvelope
<1>4. data.c = c /\ DOMAIN data = {"keyId", "c"}
  OBVIOUS
<1> HIDE DEF data
<1>5. \/ d = [blob EXCEPT !.keyId = OtherKey] \/ d = [blob EXCEPT !.sev.iv = FreshIv(-1)]
      \/ \E t : d = [blob EXCEPT !.t = t]
      \/ d = [blob EXCEPT !.sev.s.data.keyId = OtherKey]
      \/ \E e \in DamagedCiphertext(c) : d = [blob EXCEPT !.sev.s.data.c = e]
  BY <1>2, <1>3, <1>4 DEF Damaged, Indexed
<1>6. CASE d = [blob EXCEPT !.keyId = OtherKey]
  <2>1. d.subtype = sub /\ d.sev = blob.sev
    BY <1>2, <1>6
  <2> QED
    BY <1>1, <1>2, <1>3, <1>4, <2>1, SealedTraced DEF IndexedValue
<1>7. CASE d = [blob EXCEPT !.sev.iv = FreshIv(-1)]
  <2>1. d.subtype = sub /\ d.sev = [blob.sev EXCEPT !.iv = FreshIv(-1)]
    BY <1>2, <1>7
  <2>2. d.sev.s = blob.sev.s
    BY <1>3, <2>1
  <2> QED
    BY <1>1, <1>2, <1>3, <1>4, <2>1, <2>2, SealedTraced DEF IndexedValue
<1>8. CASE d = [blob EXCEPT !.sev.s.data.keyId = OtherKey]
  <2>1. d.subtype = sub /\ d.sev = [blob.sev EXCEPT !.s.data.keyId = OtherKey]
    BY <1>2, <1>8
  <2>2. d.sev.s = [blob.sev.s EXCEPT !.data.keyId = OtherKey]
    BY <1>3, <2>1
  <2>3. d.sev.s.data = [data EXCEPT !.keyId = OtherKey]
    BY <1>3, <2>2
  <2>4. d.sev.s.data.c = c /\ "c" \in DOMAIN d.sev.s.data
    BY <1>4, <2>3
  <2> QED
    BY <1>1, <1>2, <2>1, <2>4, SealedTraced DEF IndexedValue
<1>9. CASE \E e \in DamagedCiphertext(c) : d = [blob EXCEPT !.sev.s.data.c = e]
  <2>1. PICK e \in DamagedCiphertext(c) : d = [blob EXCEPT !.sev.s.data.c = e]
    BY <1>9
  <2>2. d.subtype = sub /\ d.sev = [blob.sev EXCEPT !.s.data.c = e]
    BY <1>2, <2>1
  <2>3. d.sev.s = [blob.sev.s EXCEPT !.data.c = e]
    BY <1>3, <2>2
  <2>4. d.sev.s.data = [data EXCEPT !.c = e]
    BY <1>3, <2>3
  <2>5. d.sev.s.data.c = e /\ "c" \in DOMAIN d.sev.s.data
    BY <1>4, <2>4
  <2> QED
    BY <1>1, <1>2, <2>1, <2>2, <2>5, SealedTraced DEF IndexedValue
<1>10. CASE \E t : d = [blob EXCEPT !.t = t]
  <2>1. d.subtype = sub /\ d.sev = blob.sev
    BY <1>2, <1>10
  <2> QED
    BY <1>1, <1>2, <1>3, <1>4, <2>1, SealedTraced DEF IndexedValue
<1> QED
  BY <1>5, <1>6, <1>7, <1>8, <1>9, <1>10

\* Damage to a blob made from a value leaves one that was stored from it.
LEMMA DamagedIsStored ==
    ASSUME NEW v, NEW blob, MadeFrom(blob, v), NEW d \in Damaged(blob)
    PROVE  StoredFrom(d, v)
BY DamagedDirect, DamagedPayload, DamagedIndexed DEF MadeFrom, StoredFrom

-----------------------------------------------------------------------------
(***************************************************************************)
(* What explicit encryption makes of a value.                              *)
(***************************************************************************)
InsertV2 == Subtype.FLE2InsertUpdatePayloadV2

\* An insert payload for the value, with a contention factor and an index key
PayloadDoc(doc, v, index, cf) ==
    /\ {"d", "s", "p", "u", "t", "v", "e", "l", "k"} \subseteq DOMAIN doc
    /\ doc.t = Code(v) /\ doc.u = index /\ doc.k = cf /\ ~ (cf < 0)
    /\ doc.e = ServerDataEncryptionLevel1Token(TokenKey(KeyMaterial(index)))
    /\ \E c : doc.v = [keyId |-> UserKey, c |-> c] /\ SealedValue(c, InsertV2, <<UserKey>>, v)

\* The payload before it is serialized
PayloadParts(iup, v, index, cf) ==
    /\ {"value", "valueType", "indexKeyId", "contentionFactor", "serverEncryptionToken",
        "edcDerivedToken", "escDerivedToken", "serverDerivedFromDataToken",
        "encryptedTokens"} \subseteq DOMAIN iup
    /\ iup.valueType = Code(v) /\ iup.indexKeyId = index
    /\ iup.contentionFactor = cf /\ ~ (cf < 0)
    /\ iup.serverEncryptionToken = ServerDataEncryptionLevel1Token(TokenKey(KeyMaterial(index)))
    /\ \E c : iup.value = [keyId |-> UserKey, c |-> c] /\ SealedValue(c, InsertV2, <<UserKey>>, v)

\* A successful encryption under the user's key
LEMMA EncryptionSeals ==
    ASSUME NEW sub, NEW v, NEW iv, NEW aad, NEW alg, alg = Algorithm(sub), NEW enc,
           enc = do_encryption(alg, iv, aad, OwnKey, Bytes(v)), enc.ok
    PROVE  SealedValue(enc.c, sub, aad, v)
<1>1. ~ Refused.ok
  BY DEF Refused
<1>2. enc.c = Sealed(alg, iv, aad, OwnKey, Bytes(v))
  BY <1>1 DEF do_encryption, Sealed
<1> QED
  BY <1>2 DEF SealedValue

\* The failures
LEMMA NotOk ==
    /\ ~ Refused.ok /\ ~ Aborts.ok /\ ~ Fails.ok /\ ~ TextFails.ok /\ ~ TextAborts.ok
BY DEF Refused, Aborts, Fails, TextFails, TextAborts

\* fle1_marking_to_ciphertext
LEMMA Fle1Makes ==
    ASSUME NEW m, m.key_id = UserKey, NEW v, m.v = v, NEW iv, NEW blob,
           blob = fle1_marking_to_ciphertext(Keys, m, iv), blob.ok
    PROVE  MadeDirect(blob, v)
<1> DEFINE got == decrypted_key_by_id(Keys, m.key_id)
           det == m.algorithm = "deterministic"
           sub == IF det THEN Subtype.FLE1DeterministicEncryptedValue
                  ELSE Subtype.FLE1RandomEncryptedValue
           aad == <<sub, UserKey, Code(v)>>
           iv1 == IF det THEN calculate_deterministic_iv(got.key, aad, Bytes(v)) ELSE iv
           enc == do_encryption(FLE1Algorithm, iv1, aad, got.key, Bytes(v))
<1>1. blob = IF ~got.ok THEN got ELSE IF ~enc.ok THEN enc
             ELSE EncryptedBlob(sub, UserKey, Code(v), enc.c)
  BY DEF fle1_marking_to_ciphertext, Bytes, Code
<1>2. got.ok /\ enc.ok /\ blob = EncryptedBlob(sub, UserKey, Code(v), enc.c)
  BY <1>1
<1>3. got.key = OwnKey
  BY <1>2, KeyFound DEF OwnKey
<1>4. FLE1Algorithm = Algorithm(sub) /\ sub \in DirectSubtypes
  BY DEF Algorithm, DirectSubtypes
<1>5. SealedValue(enc.c, sub, aad, v)
  <2> HIDE DEF sub, aad, iv1
  <2> QED
    BY <1>2, <1>3, <1>4, EncryptionSeals
<1> HIDE DEF sub, enc
<1> QED
  BY <1>2, <1>4, <1>5 DEF MadeDirect

\* fle2_placeholder_to_FLE2UnindexedEncryptedValue
LEMMA UnindexedMakes ==
    ASSUME NEW ph, ph.user_key_id = UserKey, NEW v, ph.v = v, NEW iv, NEW blob,
           blob = fle2_placeholder_to_FLE2UnindexedEncryptedValue(Keys, ph, iv), blob.ok
    PROVE  MadeDirect(blob, v)
<1> DEFINE got == decrypted_key_by_id(Keys, ph.user_key_id)
           sub == Subtype.FLE2UnindexedEncryptedValueV2
           aad == <<sub, UserKey, Code(v)>>
           enc == do_encryption(UnindexedAlgorithm(sub), iv, aad, got.key, Bytes(v))
<1>1. blob = IF ~got.ok THEN got ELSE IF ~enc.ok THEN enc
             ELSE EncryptedBlob(sub, UserKey, Code(v), enc.c)
  BY DEF fle2_placeholder_to_FLE2UnindexedEncryptedValue, Bytes, Code,
         UnindexedEncryptedValueCommon_encrypt
<1>2. got.ok /\ enc.ok /\ blob = EncryptedBlob(sub, UserKey, Code(v), enc.c)
  BY <1>1
<1>3. got.key = OwnKey
  BY <1>2, KeyFound DEF OwnKey
<1>4. UnindexedAlgorithm(sub) = Algorithm(sub) /\ sub \in DirectSubtypes
  BY DEF Algorithm, DirectSubtypes, UnindexedAlgorithm, Subtype
<1>5. SealedValue(enc.c, sub, aad, v)
  <2> HIDE DEF sub, aad
  <2> QED
    BY <1>2, <1>3, <1>4, EncryptionSeals
<1> HIDE DEF sub, enc
<1> QED
  BY <1>2, <1>4, <1>5 DEF MadeDirect

\* fle2_insert_update_common, on which every indexed insert rests
LEMMA CommonMakes ==
    ASSUME NEW ph, ph.user_key_id = UserKey, NEW v, NEW extra, NEW cf, NEW iv, NEW iup,
           iup = fle2_insert_update_common(Keys, ph, v, extra, cf, iv), iup.ok
    PROVE  PayloadParts(iup, v, ph.index_key_id, cf)
<1> DEFINE common == fle2_placeholder_common(Keys, ph.index_key_id, Bytes(v), TRUE, cf)
           enc == fle2_placeholder_aes_aead_encrypt(Keys, FLE2v2AEADAlgorithm, UserKey, Bytes(v), iv)
<1>1. iup = InsertUpdateFields(ph, v.t, common, enc, extra, cf, iv)
  BY DEF fle2_insert_update_common, Bytes
<1> HIDE DEF common, enc
<1>2. common.ok /\ enc.ok
  BY <1>1 DEF InsertUpdateFields
<1>3. /\ iup.valueType = Code(v) /\ iup.indexKeyId = ph.index_key_id
      /\ iup.contentionFactor = cf /\ iup.value = enc.value
      /\ iup.serverEncryptionToken = common.serverDataEncryptionLevel1Token
      /\ {"value", "valueType", "indexKeyId", "contentionFactor", "serverEncryptionToken",
          "edcDerivedToken", "escDerivedToken", "serverDerivedFromDataToken",
          "encryptedTokens"} \subseteq DOMAIN iup
  BY <1>1, <1>2 DEF InsertUpdateFields, Code
<1>4. ~ (cf < 0) /\ common.serverDataEncryptionLevel1Token
                      = ServerDataEncryptionLevel1Token(TokenKey(KeyMaterial(ph.index_key_id)))
  <2> DEFINE root == get_tokenKey(Keys, ph.index_key_id)
  <2>1. root.ok /\ ~ (cf < 0)
        /\ common.serverDataEncryptionLevel1Token = ServerDataEncryptionLevel1Token(root.tokenKey)
    <3> HIDE DEF root
    <3> QED
      BY <1>2, NotOk DEF common, fle2_placeholder_common, root
  <2>2. root.tokenKey = TokenKey(KeyMaterial(ph.index_key_id))
    BY <2>1, NotOk, KeyFound DEF get_tokenKey
  <2> QED
    BY <2>1, <2>2
<1>5. \E c : enc.value = [keyId |-> UserKey, c |-> c] /\ SealedValue(c, InsertV2, <<UserKey>>, v)
  <2> DEFINE got == decrypted_key_by_id(Keys, UserKey)
             e == do_encryption(FLE2v2AEADAlgorithm, iv, <<UserKey>>, got.key, Bytes(v))
  <2>1. enc = IF ~got.ok THEN got ELSE IF ~e.ok THEN e
              ELSE [ok |-> TRUE, value |-> [keyId |-> UserKey, c |-> e.c]]
    BY DEF enc, fle2_placeholder_aes_aead_encrypt
  <2> HIDE DEF got, e
  <2>2. got.ok /\ e.ok
    BY <1>2, <2>1
  <2>3. enc.value = [keyId |-> UserKey, c |-> e.c]
    BY <2>1, <2>2
  <2>4. got.key = OwnKey
    BY <2>2, KeyFound DEF OwnKey, got
  <2>5. FLE2v2AEADAlgorithm = Algorithm(InsertV2)
    BY DEF Algorithm, InsertV2, Subtype
  <2>6. SealedValue(e.c, InsertV2, <<UserKey>>, v)
    BY <2>2, <2>4, <2>5, EncryptionSeals DEF e
  <2> QED
    BY <2>3, <2>6
<1> QED
  BY <1>3, <1>4, <1>5 DEF PayloadParts

\* The tags of an insert payload: one, one per edge, or those of the text tokens
TagsFit(doc) ==
    IF "g" \in DOMAIN doc THEN \E n \in Nat \ {0} : DOMAIN doc.g = 1..n
    ELSE "b" \in DOMAIN doc => \E T : {doc.b.s, doc.b.u, doc.b.p} \subseteq Seq(T)

\* An insert payload for the value
MadeInsert(blob, v, index, cf) ==
    \E doc : blob = Blob(InsertV2, doc) /\ PayloadDoc(doc, v, index, cf) /\ TagsFit(doc)

\* Adding fields to a document changes none it has.
LEMMA JoinedKeeps ==
    ASSUME NEW doc, NEW more
    PROVE  /\ DOMAIN doc \subseteq DOMAIN Joined(doc, more)
           /\ \A f \in DOMAIN doc : Joined(doc, more)[f] = doc[f]
BY DEF Joined

\* Adding an optional field changes no other field.
LEMMA WithOptKeeps ==
    ASSUME NEW doc, NEW f, NEW o
    PROVE  /\ DOMAIN doc \subseteq DOMAIN WithOpt(doc, f, o)
           /\ \A x \in DOMAIN doc : WithOpt(doc, f, o)[x] = doc[x]
BY JoinedKeeps DEF WithOpt

\* Further fields of a payload leave the parts decryption needs.
LEMMA PartsKept ==
    ASSUME NEW iup, NEW v, NEW index, NEW cf, PayloadParts(iup, v, index, cf), NEW more
    PROVE  PayloadParts(Joined(iup, more), v, index, cf)
<1> DEFINE new == Joined(iup, more)
<1>1. DOMAIN iup \subseteq DOMAIN new /\ \A f \in DOMAIN iup : new[f] = iup[f]
  BY JoinedKeeps
<1> HIDE DEF new
<1>2. PayloadParts(new, v, index, cf)
  BY <1>1 DEF PayloadParts
<1> QED
  BY <1>2 DEF new

\* So they do in its serialized form.
LEMMA DocKept ==
    ASSUME NEW doc, NEW v, NEW index, NEW cf, PayloadDoc(doc, v, index, cf), NEW new,
           DOMAIN doc \subseteq DOMAIN new, \A f \in DOMAIN doc : new[f] = doc[f]
    PROVE  PayloadDoc(new, v, index, cf)
BY DEF PayloadDoc

\* Serializing writes the parts decryption needs.
LEMMA SerializedParts ==
    ASSUME NEW iup, NEW v, NEW index, NEW cf, PayloadParts(iup, v, index, cf)
    PROVE  PayloadDoc(mc_FLE2InsertUpdatePayloadV2_serialize(iup), v, index, cf)
BY DEF PayloadParts, PayloadDoc, mc_FLE2InsertUpdatePayloadV2_serialize

\* The fields serializing always writes
LEMMA SerializedFields ==
    ASSUME NEW iup
    PROVE  DOMAIN mc_FLE2InsertUpdatePayloadV2_serialize(iup)
             = {"d", "s", "p", "u", "t", "v", "e", "l", "k"}
BY DEF mc_FLE2InsertUpdatePayloadV2_serialize

\* Equality
LEMMA EqualityMakes ==
    ASSUME NEW ph, ph.user_key_id = UserKey, NEW v, ph.v = v, NEW cf, NEW iv, NEW blob,
           blob = fle2_placeholder_to_insert_update_ciphertext(Keys, ph, cf, iv), blob.ok
    PROVE  MadeInsert(blob, v, ph.index_key_id, cf)
<1> DEFINE iup == fle2_insert_update_common(Keys, ph, v, <<>>, cf, iv)
<1>1. blob = InsertBlob(iup)
  BY DEF fle2_placeholder_to_insert_update_ciphertext
<1> HIDE DEF iup
<1>2. iup.ok /\ blob = Blob(InsertV2, mc_FLE2InsertUpdatePayloadV2_serialize(iup))
  BY <1>1 DEF InsertBlob, InsertV2
<1>3. PayloadParts(iup, v, ph.index_key_id, cf)
  BY <1>2, CommonMakes DEF iup
<1> DEFINE doc == mc_FLE2InsertUpdatePayloadV2_serialize(iup)
<1>4. "g" \notin DOMAIN doc /\ "b" \notin DOMAIN doc
  BY SerializedFields
<1>5. PayloadDoc(doc, v, ph.index_key_id, cf)
  BY <1>3, SerializedParts
<1> HIDE DEF doc
<1> QED
  BY <1>2, <1>4, <1>5 DEF MadeInsert, TagsFit, doc

\* Nothing is added to a payload before its tokens are made.
LEMMA CommonFields ==
    ASSUME NEW ph, NEW v, NEW extra, NEW cf, NEW iv, NEW iup,
           iup = fle2_insert_update_common(Keys, ph, v, extra, cf, iv), iup.ok
    PROVE  "edgeTokenSets" \notin DOMAIN iup /\ "tsts" \notin DOMAIN iup
<1> DEFINE common == fle2_placeholder_common(Keys, ph.index_key_id, Bytes(v), TRUE, cf)
           enc == fle2_placeholder_aes_aead_encrypt(Keys, FLE2v2AEADAlgorithm, ph.user_key_id,
                                                    Bytes(v), iv)
<1>1. iup = InsertUpdateFields(ph, v.t, common, enc, extra, cf, iv)
  BY DEF fle2_insert_update_common, Bytes
<1> HIDE DEF common, enc
<1>2. common.ok /\ enc.ok
  BY <1>1 DEF InsertUpdateFields
<1> QED
  BY <1>1, <1>2 DEF InsertUpdateFields

\* The bits of a word are counted.
LEMMA BitLenIsNat ==
    ASSUME NEW x
    PROVE  BitLen(x) \in Nat
<1> DEFINE S == {k \in 0..(Bits128 - 1) : 2^k <= x}
<1>1. IsFiniteSet(0..(Bits128 - 1))
  BY FS_Interval, RangeAssumption
<1>2. IsFiniteSet(S)
  BY <1>1, FS_Subset
<1> QED
  BY <1>2, FS_CardinalityType DEF BitLen

\* A value has at least one edge, its leaf.
LEMMA EdgesFound ==
    ASSUME NEW leaf, Len(leaf) \in Nat, NEW sparsity, NEW opt,
           opt # <<>> => opt[1] \in Nat,
           NEW edges, edges = mc_edges_new(leaf, sparsity, opt), edges.ok
    PROVE  \E n \in Nat \ {0} : DOMAIN edges.edges = 1..n
<1> DEFINE trim == trimFactorDefault(Len(leaf), opt)
           start == IF trim > 0 THEN trim ELSE 1
           inner(i) == IF i % sparsity = 0 THEN <<SubSeq(leaf, 1, i)>> ELSE <<>>
           k == Len(leaf) - start
           table == [n \in 1..k |-> inner(start + n - 1)]
           T == {<<>>, leaf} \union {SubSeq(leaf, 1, i) : i \in Int}
           root == IF trim = 0 THEN << <<>> >> ELSE <<>>
<1>1. trim \in Int
  BY RangeAssumption DEF trimFactorDefault, IsSet, The
<1> HIDE DEF trim
<1>2. start \in Int /\ k \in Int
  BY <1>1
<1>3. edges.edges = root \o <<leaf>> \o FlattenSeq(table)
  BY NotOk DEF mc_edges_new, trim
<1> HIDE DEF start, k
<1>4. \A n \in 1..k : inner(start + n - 1) \in Seq(T)
  <2> SUFFICES ASSUME NEW n \in 1..k PROVE inner(start + n - 1) \in Seq(T)
    OBVIOUS
  <2>1. start + n - 1 \in Int
    BY <1>2
  <2> DEFINE e == SubSeq(leaf, 1, start + n - 1)
  <2>2. e \in T
    BY <2>1
  <2> HIDE DEF T, e
  <2>3. <<e>> \in Seq(T) /\ <<>> \in Seq(T)
    BY <2>2
  <2> QED
    BY <2>3 DEF e
<1> HIDE DEF inner
<1>5. PICK m \in Nat : 1..k = 1..m
  <2>1. CASE k \in Nat
    BY <2>1
  <2>2. CASE k \notin Nat
    <3>1. 1..k = 1..0
      BY <1>2, <2>2
    <3> QED
      BY <3>1
  <2> QED
    BY <2>1, <2>2
<1>6. table \in [1..m -> Seq(T)]
  BY <1>4, <1>5
<1> DEFINE flat == FlattenSeq(table)
<1>7. flat \in Seq(T)
  <2>1. table \in Seq(Seq(T))
    BY <1>6, TableIsSeq
  <2> HIDE DEF table, T
  <2> QED
    BY <2>1, FlattenIsSeq
<1>8. root \in Seq(T) /\ <<leaf>> \in Seq(T)
  <2>1. <<>> \in T /\ leaf \in T
    OBVIOUS
  <2> HIDE DEF T
  <2> QED
    BY <2>1
<1> HIDE DEF table, T, root, flat
<1>9. edges.edges \in Seq(T) /\ Len(edges.edges) = Len(root) + 1 + Len(flat)
  BY <1>3, <1>7, <1>8 DEF flat
<1>10. Len(root) \in Nat /\ Len(flat) \in Nat
  BY <1>7, <1>8
<1> QED
  BY <1>9, <1>10

\* The edges of get_edges
LEMMA SpecEdges ==
    ASSUME NEW spec, spec.trimFactor # <<>> => spec.trimFactor[1] \in Nat, NEW sparsity,
           NEW edges, edges = get_edges(spec, sparsity), edges.ok
    PROVE  \E n \in Nat \ {0} : DOMAIN edges.edges = 1..n
<1> DEFINE bound(b) == IF ~IsFloating(spec.v) \/ IsSet(spec.precision) THEN <<b>> ELSE <<>>
           got == getTypeInfo(spec.v, bound(spec.min), bound(spec.max), spec.precision)
           len == BitLen(got.max)
           leaf == Bitstring(got.value, len)
<1>1. edges = getEdgesOf(got, sparsity, spec.trimFactor)
  BY DEF get_edges, mc_getEdges
<1> HIDE DEF got
<1>2. edges = mc_edges_new(leaf, sparsity, spec.trimFactor)
  BY <1>1 DEF getEdgesOf
<1>3. len \in Nat
  BY BitLenIsNat
<1> HIDE DEF len
<1>4. Len(leaf) \in Nat
  <2>1. DOMAIN leaf = 1..len
    BY DEF Bitstring
  <2> HIDE DEF leaf
  <2> QED
    BY <1>3, <2>1
<1> HIDE DEF leaf
<1> QED
  BY <1>2, <1>4, EdgesFound

\* Range
LEMMA RangeMakes ==
    ASSUME NEW ph, ph.user_key_id = UserKey, NEW v, "v" \in DOMAIN ph.v, ph.v.v = v,
           NEW cf, NEW iv, NEW blob,
           blob = fle2_placeholder_to_insert_update_ciphertextForRange(Keys, ph, cf, iv), blob.ok
    PROVE  MadeInsert(blob, v, ph.index_key_id, cf)
<1> DEFINE spec == mc_FLE2RangeInsertSpec_parse(ph.v)
           iup == fle2_insert_update_common(Keys, ph, spec.v, <<FALSE>>, cf, iv)
           edges == get_edges(spec, ph.sparsity)
           more == [edgeTokenSets |-> [i \in DOMAIN edges.edges |->
                                         EdgeTokenSet(Keys, ph, edges, edges.edges[i], cf, iv)],
                    sparsity |-> ph.sparsity, precision |-> spec.precision,
                    trimFactor |-> edges.usedTrimFactor,
                    indexMin |-> spec.min, indexMax |-> spec.max]
           all == Joined(iup, more)
<1>1. blob = RangeInsertBlob(Keys, ph, spec, iup, edges, cf, iv)
  BY DEF fle2_placeholder_to_insert_update_ciphertextForRange
<1> HIDE DEF spec, iup, edges
<1>2. spec.ok /\ iup.ok /\ edges.ok
      /\ blob = Blob(InsertV2, mc_FLE2InsertUpdatePayloadV2_serializeForRange(all))
  BY <1>1, NotOk DEF RangeInsertBlob, InsertV2
<1>3. "edgeTokenSets" \in DOMAIN more /\ DOMAIN more.edgeTokenSets = DOMAIN edges.edges
  OBVIOUS
<1> HIDE DEF more
<1>4. spec.v = v /\ (spec.trimFactor # <<>> => spec.trimFactor[1] \in Nat)
  BY <1>2, NotOk DEF spec, mc_FLE2RangeInsertSpec_parse, OptField, Has
<1>5. DOMAIN all.edgeTokenSets = DOMAIN edges.edges
  <2>1. "edgeTokenSets" \notin DOMAIN iup
    BY <1>2, CommonFields DEF iup
  <2> QED
    BY <1>3, <2>1 DEF Joined
<1>6. PICK n \in Nat \ {0} : DOMAIN edges.edges = 1..n
  BY <1>2, <1>4, SpecEdges DEF edges
<1>7. PayloadParts(iup, v, ph.index_key_id, cf)
  BY <1>2, <1>4, CommonMakes DEF iup
<1>8. PayloadParts(all, v, ph.index_key_id, cf)
  BY <1>7, PartsKept
<1> HIDE DEF all
<1> DEFINE doc == mc_FLE2InsertUpdatePayloadV2_serialize(all)
           extra == [g |-> all.edgeTokenSets, sp |-> all.sparsity,
                     tf |-> all.trimFactor, mn |-> all.indexMin, mx |-> all.indexMax]
           with == Joined(doc, extra)
<1>9. PayloadDoc(doc, v, ph.index_key_id, cf)
  BY <1>8, SerializedParts
<1>10. mc_FLE2InsertUpdatePayloadV2_serializeForRange(all) = WithOpt(with, "pn", all.precision)
  BY DEF mc_FLE2InsertUpdatePayloadV2_serializeForRange
<1> HIDE DEF doc, extra
<1>11. PayloadDoc(with, v, ph.index_key_id, cf)
  BY <1>9, JoinedKeeps, DocKept
<1>12. "g" \in DOMAIN with /\ with.g = all.edgeTokenSets
  <2>1. "g" \notin DOMAIN doc
    BY SerializedFields DEF doc
  <2>2. "g" \in DOMAIN extra /\ extra.g = all.edgeTokenSets
    BY DEF extra
  <2> QED
    BY <2>1, <2>2 DEF Joined
<1> HIDE DEF with
<1> DEFINE new == WithOpt(with, "pn", all.precision)
<1>13. PayloadDoc(new, v, ph.index_key_id, cf)
  BY <1>11, WithOptKeeps, DocKept
<1>14. "g" \in DOMAIN new /\ new.g = with.g
  BY <1>12, WithOptKeeps
<1> HIDE DEF new
<1>15. TagsFit(new)
  BY <1>5, <1>6, <1>12, <1>14 DEF TagsFit
<1> QED
  BY <1>2, <1>10, <1>13, <1>15 DEF MadeInsert, new

\* A folded string is a string.
LEMMA FoldedIsString ==
    ASSUME NEW spec, spec.v \in Seq(Alphabet)
    PROVE  Folded(spec) \in Seq(Alphabet)
<1> DEFINE str == spec.v
           chr(i) == LET c == IF spec.casef THEN Lower[str[i]] ELSE str[i]
                     IN IF spec.diacf THEN Strip[c] ELSE <<c>>
           table == [i \in DOMAIN str |-> chr(i)]
<1>1. DOMAIN str = 1..Len(str) /\ Len(str) \in Nat
  BY LenProperties
<1>2. ASSUME NEW i \in 1..Len(str) PROVE chr(i) \in Seq(Alphabet)
  <2> DEFINE c == IF spec.casef THEN Lower[str[i]] ELSE str[i]
  <2>1. str[i] \in Alphabet
    BY <1>2, ElementOfSeq
  <2>2. c \in Alphabet
    BY <2>1, TextAssumption
  <2> HIDE DEF c
  <2>3. <<c>> \in Seq(Alphabet) /\ Strip[c] \in Seq(Alphabet)
    BY <2>2, TextAssumption
  <2> QED
    BY <2>3 DEF c
<1> HIDE DEF chr
<1>3. table \in [1..Len(str) -> Seq(Alphabet)]
  BY <1>1, <1>2
<1>4. table \in Seq(Seq(Alphabet))
  BY <1>1, <1>3, TableIsSeq
<1>5. unicode_fold(str, spec.casef, spec.diacf) = FlattenSeq(table)
  BY DEF unicode_fold, chr
<1> HIDE DEF table
<1>6. unicode_fold(str, spec.casef, spec.diacf) \in Seq(Alphabet)
  BY <1>4, <1>5, FlattenIsSeq
<1> QED
  BY <1>6 DEF Folded

\* A set of strings, each with a number of tags
TagSet(set) ==
    \E k \in Nat : DOMAIN set = 1..k /\ \A i \in 1..k : set[i].count \in Nat

\* The set without strings is a set of tags.
LEMMA EmptyTagSet == TagSet(<<>>)
<1>1. DOMAIN <<>> = 1..0 /\ \A i \in 1..0 : <<>>[i].count \in Nat
  OBVIOUS
<1> QED
  BY <1>1 DEF TagSet

\* The real strings of a set, one tag each, and their padding
LEMMA PaddedSet ==
    ASSUME NEW strs, NEW k \in Nat, DOMAIN strs = 1..k, NEW base, NEW n \in Nat
    PROVE  TagSet([i \in 1..k |-> [str |-> strs[i], count |-> 1]] \o Padding(base, n))
<1> DEFINE T == {strs[i] : i \in 1..k} \union {Append(base, BadChar)}
           R == {[str |-> p[1], count |-> p[2]] : p \in T \X Nat}
           real == [i \in 1..k |-> [str |-> strs[i], count |-> 1]]
           all == real \o Padding(base, n)
<1>1. ASSUME NEW str \in T, NEW c \in Nat PROVE [str |-> str, count |-> c] \in R
  <2>1. <<str, c>> \in T \X Nat
    OBVIOUS
  <2> HIDE DEF T
  <2> QED
    BY <2>1
<1>2. \A r \in R : r.count \in Nat
  <2> HIDE DEF T
  <2> QED
    OBVIOUS
<1> HIDE DEF R
<1>3. real \in Seq(R)
  <2>1. \A i \in 1..k : strs[i] \in T
    OBVIOUS
  <2> HIDE DEF T
  <2>2. real \in [1..k -> R]
    BY <1>1, <2>1
  <2> HIDE DEF real
  <2> QED
    BY <2>2, TableIsSeq
<1>4. Padding(base, n) \in Seq(R)
  <2> DEFINE e == [str |-> Append(base, BadChar), count |-> n]
  <2>1. e \in R
    BY <1>1
  <2> HIDE DEF e
  <2>2. <<e>> \in Seq(R) /\ <<>> \in Seq(R)
    BY <2>1
  <2> QED
    BY <2>2 DEF Padding, e
<1> HIDE DEF real, T
<1>5. all \in Seq(R)
  BY <1>3, <1>4, ConcatProperties
<1> HIDE DEF all
<1>6. DOMAIN all = 1..Len(all) /\ Len(all) \in Nat /\ \A i \in 1..Len(all) : all[i] \in R
  BY <1>5, LenProperties, ElementOfSeq
<1>7. TagSet(all)
  BY <1>2, <1>6 DEF TagSet
<1> QED
  BY <1>7 DEF all, real

\* Prefixes and suffixes
LEMMA AffixSet ==
    ASSUME NEW base \in Seq(Alphabet), NEW bytes \in Nat, NEW lb \in Nat \ {0}, NEW ub \in Nat \ {0},
           NEW is_prefix, NEW tree,
           tree = generate_prefix_or_suffix_tree(base, bytes, lb, ub, is_prefix), tree.ok
    PROVE  TagSet(tree.set)
<1> DEFINE padded == PaddedLen(bytes)
           msize == Least(padded, ub) - lb + 1
           longest == Least(Len(base), ub)
           real == IF longest >= lb THEN longest - lb + 1 ELSE 0
           affix(k) == IF is_prefix THEN SubSeq(base, 1, k)
                       ELSE SubSeq(base, Len(base) - k + 1, Len(base))
           set == [i \in 1..real |-> [str |-> affix(lb + i - 1), count |-> 1]]
                    \o Padding(base, msize - real)
<1>1. padded \in Int /\ Len(base) \in Nat
  BY TextAssumption, LenProperties DEF PaddedLen
<1> HIDE DEF padded
<1>2. msize \in Int /\ real \in Nat
  BY <1>1 DEF Least
<1>3. \/ padded < lb /\ tree.set = <<>>
      \/ msize >= real /\ tree.set = set
  <2>1. tree = IF padded < lb THEN [ok |-> TRUE, msize |-> 0, set |-> <<>>]
               ELSE IF msize < real THEN TextAborts
               ELSE [ok |-> TRUE, msize |-> msize, set |-> set]
    BY DEF generate_prefix_or_suffix_tree, padded
  <2> HIDE DEF msize, real, set
  <2> QED
    BY <1>2, <2>1, NotOk
<1>4. CASE tree.set = <<>>
  BY <1>4, EmptyTagSet
<1>5. CASE msize >= real /\ tree.set = set
  <2> DEFINE strs == [i \in 1..real |-> affix(lb + i - 1)]
             n == msize - real
  <2>1. n \in Nat
    BY <1>2, <1>5
  <2> HIDE DEF real, n, affix
  <2>2. DOMAIN strs = 1..real /\ \A i \in 1..real : strs[i] = affix(lb + i - 1)
    OBVIOUS
  <2> HIDE DEF strs
  <2>3. TagSet([i \in 1..real |-> [str |-> strs[i], count |-> 1]] \o Padding(base, n))
    BY <1>2, <2>1, <2>2, PaddedSet
  <2>4. [i \in 1..real |-> [str |-> strs[i], count |-> 1]]
          = [i \in 1..real |-> [str |-> affix(lb + i - 1), count |-> 1]]
    BY <2>2
  <2> QED
    BY <1>5, <2>3, <2>4 DEF n
<1> QED
  BY <1>3, <1>4, <1>5

\* Substrings
LEMMA SubstringsListed ==
    ASSUME NEW base \in Seq(Alphabet), NEW lb, NEW ub
    PROVE  \E k \in Nat : DOMAIN DistinctSubstrings(base, lb, ub) = 1..k /\ Len(DistinctSubstrings(base, lb, ub)) = k
<1> DEFINE T == UNION {{SubSeq(base, i, j) : j \in Int} : i \in Int}
           pick(i, len) == IF len >= lb /\ len <= ub /\ mc_substring_set_insert(base, i, len)
                           THEN <<SubSeq(base, i, i + len - 1)>> ELSE <<>>
           row(i) == [len \in 1..(Len(base) - i + 1) |-> pick(i, len)]
           table == [i \in 1..Len(base) |-> FlattenSeq(row(i))]
<1>1. Len(base) \in Nat
  BY LenProperties
<1>2. ASSUME NEW i \in Int, NEW len \in Int PROVE pick(i, len) \in Seq(T)
  <2> DEFINE e == SubSeq(base, i, i + len - 1)
  <2>1. e \in T
    <3>1. i + len - 1 \in Int
      BY <1>2
    <3>2. e \in {SubSeq(base, i, j) : j \in Int}
      BY <3>1
    <3> QED
      BY <1>2, <3>2, Zenon
  <2> HIDE DEF e, T
  <2>2. <<e>> \in Seq(T) /\ <<>> \in Seq(T)
    BY <2>1
  <2> QED
    BY <2>2 DEF e
<1> HIDE DEF pick, T
<1>3. ASSUME NEW i \in 1..Len(base) PROVE FlattenSeq(row(i)) \in Seq(T)
  <2> DEFINE k == Len(base) - i + 1
  <2>1. k \in Nat /\ i \in Int
    BY <1>1, <1>3
  <2> HIDE DEF k
  <2>2. [len \in 1..k |-> pick(i, len)] \in [1..k -> Seq(T)]
    BY <1>2, <2>1
  <2>3. [len \in 1..k |-> pick(i, len)] \in Seq(Seq(T))
    BY <2>1, <2>2, TableIsSeq
  <2> QED
    BY <2>3, FlattenIsSeq DEF k
<1> HIDE DEF row
<1>4. table \in [1..Len(base) -> Seq(T)]
  BY <1>3
<1> HIDE DEF table
<1>5. table \in Seq(Seq(T))
  BY <1>1, <1>4, TableIsSeq
<1>6. FlattenSeq(table) \in Seq(T)
  BY <1>5, FlattenIsSeq
<1>7. DistinctSubstrings(base, lb, ub) = FlattenSeq(table)
  BY DEF DistinctSubstrings, table, row, pick
<1> QED
  BY <1>6, <1>7, LenProperties

\* generate_substring_tree makes a set of tags.
LEMMA SubstringSet ==
    ASSUME NEW base \in Seq(Alphabet), NEW bytes \in Nat, NEW spec,
           {spec.mlen, spec.ub, spec.lb} \subseteq Nat \ {0}, NEW tree,
           tree = generate_substring_tree(base, bytes, spec), tree.ok
    PROVE  TagSet(tree.set)
<1> DEFINE whole == PaddedLen(bytes)
           padded == Least(spec.mlen, whole)
           msize == calc_number_of_substrings(padded, spec.lb, spec.ub)
           real == DistinctSubstrings(base, spec.lb, spec.ub)
           set == [i \in DOMAIN real |-> [str |-> real[i], count |-> 1]]
                    \o Padding(base, msize - Len(real))
<1>1. whole \in Int
  BY TextAssumption DEF PaddedLen
<1> HIDE DEF whole
<1>2. padded \in Int
  BY <1>1 DEF Least
<1> HIDE DEF padded
<1>3. msize \in Int
  <2> DEFINE fewest == padded - Least(padded, spec.ub) + 1
             most == padded - spec.lb + 1
             twice == (fewest + most) * (most - fewest + 1)
  <2>1. fewest \in Int /\ most \in Int
    BY <1>2 DEF Least
  <2> HIDE DEF fewest, most
  <2>2. twice \in Int
    BY <2>1
  <2> HIDE DEF twice
  <2>3. twice \div 2 \in Int
    BY <2>2
  <2> QED
    BY <2>3 DEF calc_number_of_substrings, twice, fewest, most
<1>4. PICK k \in Nat : DOMAIN real = 1..k /\ Len(real) = k
  BY SubstringsListed
<1> HIDE DEF msize, real
<1>5. \/ tree.set = <<>>
      \/ msize >= Len(real) /\ tree.set = set
  <2>1. tree = IF whole < spec.lb THEN [ok |-> TRUE, msize |-> 0, set |-> <<>>]
               ELSE IF msize < Len(real) THEN TextAborts
               ELSE [ok |-> TRUE, msize |-> msize, set |-> set]
    BY DEF generate_substring_tree, whole, padded, msize, real
  <2> HIDE DEF set
  <2> QED
    BY <1>3, <1>4, <2>1, NotOk
<1>6. CASE tree.set = <<>>
  BY <1>6, EmptyTagSet
<1>7. CASE msize >= Len(real) /\ tree.set = set
  <2> DEFINE n == msize - Len(real)
  <2>1. n \in Nat
    BY <1>3, <1>4, <1>7
  <2> HIDE DEF n
  <2>2. TagSet([i \in 1..k |-> [str |-> real[i], count |-> 1]] \o Padding(base, n))
    BY <1>4, <2>1, PaddedSet
  <2> QED
    BY <1>4, <1>7, <2>2 DEF n
<1> QED
  BY <1>5, <1>6, <1>7

\* The lengths in a text specification are positive.
TextBounds(spec) ==
    /\ spec.suffix # <<>> => {spec.suffix[1].ub, spec.suffix[1].lb} \subseteq Nat \ {0}
    /\ spec.prefix # <<>> => {spec.prefix[1].ub, spec.prefix[1].lb} \subseteq Nat \ {0}
    /\ spec.substr # <<>> =>
          {spec.substr[1].mlen, spec.substr[1].ub, spec.substr[1].lb} \subseteq Nat \ {0}

\* mc_text_search_str_encode
LEMMA EncodedSets ==
    ASSUME NEW spec, spec.v \in Seq(Alphabet), TextBounds(spec), NEW sets,
           sets = mc_text_search_str_encode(spec), sets.ok
    PROVE  TagSet(sets.suffix) /\ TagSet(sets.prefix) /\ TagSet(sets.substr)
<1> DEFINE base == Folded(spec)
           bytes == ByteLen(spec.v)
           suffix == IF spec.suffix = <<>> THEN NoTree
                     ELSE generate_suffix_tree(base, bytes, spec.suffix[1])
           prefix == IF spec.prefix = <<>> THEN NoTree
                     ELSE generate_prefix_tree(base, bytes, spec.prefix[1])
           substr == IF spec.substr = <<>> THEN NoTree
                     ELSE generate_substring_tree(base, bytes, spec.substr[1])
<1>1. base \in Seq(Alphabet) /\ bytes \in Nat
  BY FoldedIsString, CharsAreBytes
<1>2. /\ suffix.ok /\ prefix.ok /\ substr.ok
      /\ sets.suffix = suffix.set /\ sets.prefix = prefix.set /\ sets.substr = substr.set
  <2>1. sets = IF \/ bytes > MaxEncodeBytes
                  \/ spec.substr # <<>> /\ Len(spec.v) > spec.substr[1].mlen
               THEN TextFails
               ELSE IF ~(suffix.ok /\ prefix.ok /\ substr.ok) THEN TextAborts
               ELSE [ok |-> TRUE, exact |-> base,
                     msize |-> 1 + suffix.msize + prefix.msize + substr.msize,
                     suffix |-> suffix.set, prefix |-> prefix.set, substr |-> substr.set]
    BY DEF mc_text_search_str_encode
  <2> HIDE DEF base, bytes, suffix, prefix, substr
  <2> QED
    BY <2>1, NotOk
<1> HIDE DEF base, bytes
<1>3. NoTree.set = <<>>
  BY DEF NoTree
<1>4. TagSet(suffix.set)
  <2>1. CASE spec.suffix = <<>>
    BY <1>3, <2>1, EmptyTagSet
  <2>2. CASE spec.suffix # <<>>
    <3>1. suffix = generate_prefix_or_suffix_tree(base, bytes, spec.suffix[1].lb,
                                                  spec.suffix[1].ub, FALSE)
      BY <2>2 DEF generate_suffix_tree
    <3>2. spec.suffix[1].lb \in Nat \ {0} /\ spec.suffix[1].ub \in Nat \ {0}
      BY <2>2 DEF TextBounds
    <3> HIDE DEF suffix
    <3> QED
      BY <1>1, <1>2, <3>1, <3>2, AffixSet
  <2> QED
    BY <2>1, <2>2
<1>5. TagSet(prefix.set)
  <2>1. CASE spec.prefix = <<>>
    BY <1>3, <2>1, EmptyTagSet
  <2>2. CASE spec.prefix # <<>>
    <3>1. prefix = generate_prefix_or_suffix_tree(base, bytes, spec.prefix[1].lb,
                                                  spec.prefix[1].ub, TRUE)
      BY <2>2 DEF generate_prefix_tree
    <3>2. spec.prefix[1].lb \in Nat \ {0} /\ spec.prefix[1].ub \in Nat \ {0}
      BY <2>2 DEF TextBounds
    <3> HIDE DEF prefix
    <3> QED
      BY <1>1, <1>2, <3>1, <3>2, AffixSet
  <2> QED
    BY <2>1, <2>2
<1>6. TagSet(substr.set)
  <2>1. CASE spec.substr = <<>>
    BY <1>3, <2>1, EmptyTagSet
  <2>2. CASE spec.substr # <<>>
    <3>1. substr = generate_substring_tree(base, bytes, spec.substr[1])
      BY <2>2
    <3>2. {spec.substr[1].mlen, spec.substr[1].ub, spec.substr[1].lb} \subseteq Nat \ {0}
      BY <2>2 DEF TextBounds
    <3> HIDE DEF substr
    <3> QED
      BY <1>1, <1>2, <3>1, <3>2, SubstringSet
  <2> QED
    BY <2>1, <2>2
<1> QED
  BY <1>2, <1>4, <1>5, <1>6

\* A token set for each tag of a set of strings
LEMMA ExpandedSet ==
    ASSUME NEW set, TagSet(set), NEW root, NEW kind, NEW cf, NEW iv, NEW T,
           \A i \in DOMAIN set :
              fle2_generate_TextTokenSet(root, kind, StringBytes(set[i].str), cf, 0, iv) \in T
    PROVE  FlattenSeq([i \in DOMAIN set |->
              [j \in 1..set[i].count |->
                 fle2_generate_TextTokenSet(root, kind, StringBytes(set[i].str), cf, 0, iv)]]) \in Seq(T)
<1> DEFINE token(i) == fle2_generate_TextTokenSet(root, kind, StringBytes(set[i].str), cf, 0, iv)
           table == [i \in DOMAIN set |-> [j \in 1..set[i].count |-> token(i)]]
<1> HIDE DEF token
<1>1. PICK k \in Nat : DOMAIN set = 1..k /\ \A i \in 1..k : set[i].count \in Nat
  BY DEF TagSet
<1>2. \A i \in 1..k : token(i) \in T
  BY <1>1 DEF token
<1>3. ASSUME NEW i \in 1..k PROVE [j \in 1..set[i].count |-> token(i)] \in Seq(T)
  <2> DEFINE n == set[i].count
  <2>1. n \in Nat /\ token(i) \in T
    BY <1>1, <1>2, <1>3
  <2> HIDE DEF n
  <2>2. [j \in 1..n |-> token(i)] \in [1..n -> T]
    BY <2>1
  <2>3. [j \in 1..n |-> token(i)] \in Seq(T)
    BY <2>1, <2>2, TableIsSeq
  <2> QED
    BY <2>3 DEF n
<1>4. table \in [1..k -> Seq(T)]
  BY <1>1, <1>3
<1> HIDE DEF table
<1>5. table \in Seq(Seq(T))
  BY <1>1, <1>4, TableIsSeq
<1>6. FlattenSeq(table) \in Seq(T)
  BY <1>5, FlattenIsSeq
<1> QED
  BY <1>6 DEF table, token

\* The token sets of a text value are sequences.
LEMMA TextTokensListed ==
    ASSUME NEW id, NEW spec, spec.v \in Seq(Alphabet), TextBounds(spec), NEW cf, NEW iv, NEW tsts,
           tsts = fle2_generate_TextSearchTokenSets(Keys, id, spec, cf, iv), tsts.ok
    PROVE  \E T : {tsts.substr, tsts.suffix, tsts.prefix} \subseteq Seq(T)
<1> DEFINE sets == mc_text_search_str_encode(spec)
           root == get_tokenKey(Keys, id)
           token(kind, str) == fle2_generate_TextTokenSet(root.tokenKey, kind, StringBytes(str), cf, 0, iv)
           expand(kind, set) == FlattenSeq([i \in DOMAIN set |->
                                  [j \in 1..set[i].count |->
                                     fle2_generate_TextTokenSet(root.tokenKey, kind,
                                        StringBytes(set[i].str), cf, 0, iv)]])
           T == {token("substr", sets.substr[i].str) : i \in DOMAIN sets.substr}
                \union {token("suffix", sets.suffix[i].str) : i \in DOMAIN sets.suffix}
                \union {token("prefix", sets.prefix[i].str) : i \in DOMAIN sets.prefix}
<1>1. tsts = TextTokenSets(sets, root, cf, iv)
  BY DEF fle2_generate_TextSearchTokenSets
<1> HIDE DEF sets, root
<1>2. /\ sets.ok /\ tsts.substr = expand("substr", sets.substr)
      /\ tsts.suffix = expand("suffix", sets.suffix) /\ tsts.prefix = expand("prefix", sets.prefix)
  BY <1>1 DEF TextTokenSets
<1>3. TagSet(sets.suffix) /\ TagSet(sets.prefix) /\ TagSet(sets.substr)
  BY <1>2, EncodedSets DEF sets
<1>4. /\ \A i \in DOMAIN sets.substr :
            fle2_generate_TextTokenSet(root.tokenKey, "substr", StringBytes(sets.substr[i].str), cf, 0, iv) \in T
      /\ \A i \in DOMAIN sets.suffix :
            fle2_generate_TextTokenSet(root.tokenKey, "suffix", StringBytes(sets.suffix[i].str), cf, 0, iv) \in T
      /\ \A i \in DOMAIN sets.prefix :
            fle2_generate_TextTokenSet(root.tokenKey, "prefix", StringBytes(sets.prefix[i].str), cf, 0, iv) \in T
  OBVIOUS
<1> HIDE DEF T
<1>5. expand("substr", sets.substr) \in Seq(T)
  BY <1>3, <1>4, ExpandedSet
<1>6. expand("suffix", sets.suffix) \in Seq(T)
  BY <1>3, <1>4, ExpandedSet
<1>7. expand("prefix", sets.prefix) \in Seq(T)
  BY <1>3, <1>4, ExpandedSet
<1> HIDE DEF expand
<1> QED
  BY <1>2, <1>5, <1>6, <1>7

\* Text
LEMMA TextMakes ==
    ASSUME NEW ph, ph.user_key_id = UserKey, NEW v, IsValue(v), v.t = "string",
           "v" \in DOMAIN ph.v, ph.v.v = v.s, NEW cf, NEW iv, NEW blob,
           blob = fle2_placeholder_to_insert_update_ciphertextForTextSearch(Keys, ph, cf, iv), blob.ok
    PROVE  MadeInsert(blob, v, ph.index_key_id, cf)
<1> DEFINE spec == mc_FLE2TextSearchInsertSpec_parse(ph.v)
           str == [t |-> "string", s |-> spec.v]
           iup == fle2_insert_update_common(Keys, ph, str, <<0>>, cf, iv)
           tsts == fle2_generate_TextSearchTokenSets(Keys, ph.index_key_id, spec, cf, iv)
           bogus == [iup EXCEPT !.edcDerivedToken = Bogus, !.escDerivedToken = Bogus,
                                !.serverDerivedFromDataToken = Bogus]
           all == Joined(bogus, [tsts |-> tsts])
<1>1. blob = TextInsertBlob(spec, iup, tsts)
  BY DEF fle2_placeholder_to_insert_update_ciphertextForTextSearch
<1> HIDE DEF spec, iup, tsts
<1>2. spec.ok /\ iup.ok /\ tsts.ok
      /\ blob = Blob(InsertV2, mc_FLE2InsertUpdatePayloadV2_serializeForTextSearch(all))
  BY <1>1, NotOk DEF TextInsertBlob, InsertV2
<1>3. spec.v = v.s
  BY <1>2, NotOk DEF spec, mc_FLE2TextSearchInsertSpec_parse
<1>4. TextBounds(spec)
  <2>1. /\ Has(ph.v, "substr") => mc_FLE2SubstringInsertSpec_parse(ph.v.substr)
        /\ Has(ph.v, "suffix") => AffixInsertSpec_parse(ph.v.suffix)
        /\ Has(ph.v, "prefix") => AffixInsertSpec_parse(ph.v.prefix)
        /\ spec.substr = OptField(ph.v, "substr") /\ spec.suffix = OptField(ph.v, "suffix")
        /\ spec.prefix = OptField(ph.v, "prefix")
    BY <1>2, NotOk DEF spec, mc_FLE2TextSearchInsertSpec_parse, mc_FLE2SuffixInsertSpec_parse,
                      mc_FLE2PrefixInsertSpec_parse
  <2> QED
    BY <2>1 DEF OptField, Has, TextBounds, mc_FLE2SubstringInsertSpec_parse, AffixInsertSpec_parse
<1>5. PICK T : {tsts.substr, tsts.suffix, tsts.prefix} \subseteq Seq(T)
  <2>1. spec.v \in Seq(Alphabet)
    BY <1>3 DEF IsValue
  <2> QED
    BY <1>2, <1>4, <2>1, TextTokensListed DEF tsts
<1>6. str.t = v.t /\ Bytes(str) = Bytes(v) /\ Code(str) = Code(v)
  BY <1>3 DEF Bytes, Code, mongocrypt_buffer_from_iter
<1> HIDE DEF str
<1>7. PayloadParts(iup, str, ph.index_key_id, cf)
  BY <1>2, CommonMakes DEF iup
<1>8. PayloadParts(iup, v, ph.index_key_id, cf)
  BY <1>6, <1>7 DEF PayloadParts, SealedValue
<1>9. PayloadParts(bogus, v, ph.index_key_id, cf)
  BY <1>8 DEF PayloadParts
<1>10. all.tsts = tsts
  <2>1. "tsts" \notin DOMAIN iup
    BY <1>2, CommonFields DEF iup
  <2>2. DOMAIN bogus = DOMAIN iup
    OBVIOUS
  <2> HIDE DEF bogus
  <2> QED
    BY <2>1, <2>2 DEF Joined
<1> HIDE DEF bogus
<1>11. PayloadParts(all, v, ph.index_key_id, cf)
  BY <1>9, PartsKept
<1> HIDE DEF all
<1> DEFINE doc == mc_FLE2InsertUpdatePayloadV2_serialize(all)
           extra == [b |-> [e |-> all.tsts.exact, s |-> all.tsts.substr,
                            u |-> all.tsts.suffix, p |-> all.tsts.prefix]]
<1>12. PayloadDoc(doc, v, ph.index_key_id, cf)
  BY <1>11, SerializedParts
<1>13. mc_FLE2InsertUpdatePayloadV2_serializeForTextSearch(all) = Joined(doc, extra)
  BY DEF mc_FLE2InsertUpdatePayloadV2_serializeForTextSearch
<1>14. "g" \notin DOMAIN doc /\ "b" \notin DOMAIN doc
  BY SerializedFields
<1>15. /\ DOMAIN extra = {"b"} /\ extra.b.s = all.tsts.substr
       /\ extra.b.u = all.tsts.suffix /\ extra.b.p = all.tsts.prefix
  OBVIOUS
<1> HIDE DEF doc, extra
<1> DEFINE new == Joined(doc, extra)
<1>16. PayloadDoc(new, v, ph.index_key_id, cf)
  BY <1>12, JoinedKeeps, DocKept
<1>17. "g" \notin DOMAIN new /\ "b" \in DOMAIN new /\ new.b = extra.b
  BY <1>14, <1>15 DEF Joined
<1> HIDE DEF new
<1>18. TagsFit(new)
  BY <1>5, <1>10, <1>15, <1>17 DEF TagsFit
<1> QED
  BY <1>2, <1>13, <1>16, <1>18 DEF MadeInsert, new

-----------------------------------------------------------------------------
(***************************************************************************)
(* The options of an insert: every setter leaves the others alone.         *)
(***************************************************************************)
OptNames == {"key_id", "key_alt_name", "algorithm", "index_type", "index_key_id",
             "contention_factor", "query_type", "rangeopts", "textopts"}

\* o has the fields of an option record, and those of set are as in base.
SameOpts(o, base, set) == DOMAIN o = OptNames /\ \A x \in set : o[x] = base[x]

IndexTypes == {<<"equality">>, <<"none">>, <<"range">>, <<"string">>}

\* mongocrypt_ctx_setopt_algorithm
LEMMA SetAlgorithm ==
    ASSUME NEW o, DOMAIN o = OptNames, NEW str, NEW r,
           r = mongocrypt_ctx_setopt_algorithm(o, str), r.ok
    PROVE  /\ SameOpts(r.opts, o, OptNames \ {"algorithm", "index_type"})
           /\ r.opts.index_type \in {o.index_type} \union IndexTypes
           /\ r.opts.index_type = <<"range">> => str = "Range" \/ o.index_type = <<"range">>
<1>1. ~ OptsFail.ok
  BY DEF OptsFail
<1>2. \/ r = Opts([o EXCEPT !.algorithm = str])
      \/ r = Opts([o EXCEPT !.index_type = <<"equality">>])
      \/ r = Opts([o EXCEPT !.index_type = <<"none">>])
      \/ r = Opts([o EXCEPT !.index_type = <<"range">>]) /\ str = "Range"
      \/ r = Opts([o EXCEPT !.index_type = <<"string">>])
  BY <1>1 DEF mongocrypt_ctx_setopt_algorithm
<1>3. CASE r = Opts([o EXCEPT !.algorithm = str])
  BY <1>3 DEF Opts, SameOpts, OptNames, IndexTypes
<1>4. CASE r = Opts([o EXCEPT !.index_type = <<"equality">>])
  BY <1>4 DEF Opts, SameOpts, OptNames, IndexTypes
<1>5. CASE r = Opts([o EXCEPT !.index_type = <<"none">>])
  BY <1>5 DEF Opts, SameOpts, OptNames, IndexTypes
<1>6. CASE r = Opts([o EXCEPT !.index_type = <<"range">>]) /\ str = "Range"
  BY <1>6 DEF Opts, SameOpts, OptNames, IndexTypes
<1>7. CASE r = Opts([o EXCEPT !.index_type = <<"string">>])
  BY <1>7 DEF Opts, SameOpts, OptNames, IndexTypes
<1> QED
  BY <1>2, <1>3, <1>4, <1>5, <1>6, <1>7

\* Setting the contention factor changes no other option.
LEMMA SetContention ==
    ASSUME NEW o, DOMAIN o = OptNames, NEW cf, NEW r,
           r = mongocrypt_ctx_setopt_contention_factor(o, cf)
    PROVE  /\ SameOpts(r.opts, o, OptNames \ {"contention_factor"})
           /\ r.ok /\ r.opts.contention_factor = <<cf>>
BY DEF mongocrypt_ctx_setopt_contention_factor, Opts, SameOpts, OptNames

\* Setting the range options changes no other option.
LEMMA SetRange ==
    ASSUME NEW o, DOMAIN o = OptNames, NEW doc, NEW r,
           r = mongocrypt_ctx_setopt_algorithm_range(o, doc), r.ok
    PROVE  /\ SameOpts(r.opts, o, OptNames \ {"rangeopts"})
           /\ r.opts.rangeopts = <<mc_RangeOpts_parse(doc)>> /\ mc_RangeOpts_parse(doc).ok
<1>1. ~ OptsFail.ok
  BY DEF OptsFail
<1> DEFINE ro == mc_RangeOpts_parse(doc)
<1>2. r = Opts([o EXCEPT !.rangeopts = <<ro>>]) /\ ro.ok
  BY <1>1 DEF mongocrypt_ctx_setopt_algorithm_range
<1> HIDE DEF ro
<1>3. SameOpts(r.opts, o, OptNames \ {"rangeopts"}) /\ r.opts.rangeopts = <<ro>> /\ ro.ok
  BY <1>2 DEF Opts, SameOpts, OptNames
<1> QED
  BY <1>3 DEF ro

\* Setting the text options changes no other option.
LEMMA SetText ==
    ASSUME NEW o, DOMAIN o = OptNames, NEW doc, NEW r,
           r = mongocrypt_ctx_setopt_algorithm_text(o, doc), r.ok
    PROVE  SameOpts(r.opts, o, OptNames \ {"textopts"}) /\ r.opts.textopts # <<>>
<1>1. ~ OptsFail.ok
  BY DEF OptsFail
<1> DEFINE txo == mc_TextOpts_parse(doc)
<1>2. r = Opts([o EXCEPT !.textopts = <<txo>>])
  BY <1>1 DEF mongocrypt_ctx_setopt_algorithm_text
<1> HIDE DEF txo
<1> QED
  BY <1>2 DEF Opts, SameOpts, OptNames

\* The options of an insert into field f
LEMMA InsertOptions ==
    ASSUME NEW f, NEW o, o = FieldOptions(f, <<>>), o.ok
    PROVE  /\ o.opts.key_id = <<UserKey>> /\ o.opts.query_type = <<>>
           /\ o.opts.index_key_id = IF f.cm = <<>> THEN <<>> ELSE <<IndexKeyId>>
           /\ o.opts.contention_factor = IF f.cm = <<>> THEN <<>> ELSE <<f.cm[1]>>
           /\ o.opts.rangeopts = IF f.range = <<>> THEN <<>> ELSE <<mc_RangeOpts_parse(f.range[1])>>
           /\ f.range # <<>> => mc_RangeOpts_parse(f.range[1]).ok
           /\ o.opts.textopts = <<>> <=> f.text = <<>>
           /\ o.opts.index_type \in {<<>>} \union IndexTypes
           /\ o.opts.index_type = <<"range">> => f.alg = "Range"
           /\ DOMAIN o.opts = OptNames
<1> DEFINE base == [NoOpts EXCEPT !.key_id = <<UserKey>>,
                      !.index_key_id = IF f.cm = <<>> THEN <<>> ELSE <<IndexKeyId>>]
           a == mongocrypt_ctx_setopt_algorithm(base, f.alg)
           b == IF f.cm = <<>> THEN a
                ELSE IF a.ok THEN mongocrypt_ctx_setopt_contention_factor(a.opts, f.cm[1]) ELSE a
           c == IF f.range = <<>> THEN b
                ELSE IF b.ok THEN mongocrypt_ctx_setopt_algorithm_range(b.opts, f.range[1]) ELSE b
           d == IF f.text = <<>> THEN c
                ELSE IF c.ok THEN mongocrypt_ctx_setopt_algorithm_text(c.opts, f.text[1]) ELSE c
<1>1. o = d
  BY DEF FieldOptions, Then
<1>2. /\ DOMAIN base = OptNames /\ base.key_id = <<UserKey>> /\ base.query_type = <<>>
      /\ base.index_key_id = IF f.cm = <<>> THEN <<>> ELSE <<IndexKeyId>>
      /\ base.contention_factor = <<>> /\ base.rangeopts = <<>> /\ base.textopts = <<>>
      /\ base.index_type = <<>>
  BY DEF NoOpts, OptNames
<1> HIDE DEF base
<1>3. c.ok /\ b.ok /\ a.ok
  <2>1. c.ok
    BY <1>1
  <2> HIDE DEF c
  <2>2. b.ok
    BY <2>1 DEF c
  <2> HIDE DEF b
  <2>3. a.ok
    BY <2>2 DEF b
  <2> QED
    BY <2>1, <2>2, <2>3
<1>4. /\ SameOpts(a.opts, base, OptNames \ {"algorithm", "index_type"})
      /\ a.opts.index_type \in {<<>>} \union IndexTypes
      /\ a.opts.index_type = <<"range">> => f.alg = "Range"
  <2> HIDE DEF a
  <2>1. <<>> # <<"range">>
    OBVIOUS
  <2>2. a = mongocrypt_ctx_setopt_algorithm(base, f.alg)
    BY DEF a
  <2> QED
    BY <1>2, <1>3, <2>1, <2>2, SetAlgorithm, Zenon
<1> HIDE DEF a
<1>5. /\ SameOpts(b.opts, a.opts, OptNames \ {"contention_factor"})
      /\ b.opts.contention_factor = IF f.cm = <<>> THEN <<>> ELSE <<f.cm[1]>>
  <2>1. CASE f.cm = <<>>
    BY <1>2, <1>4, <2>1 DEF SameOpts, OptNames
  <2>2. CASE f.cm # <<>>
    <3>1. b = mongocrypt_ctx_setopt_contention_factor(a.opts, f.cm[1]) /\ DOMAIN a.opts = OptNames
      BY <1>3, <1>4, <2>2 DEF SameOpts
    <3> HIDE DEF b
    <3> QED
      BY <2>2, <3>1, SetContention
  <2> QED
    BY <2>1, <2>2
<1> HIDE DEF b
<1>6. /\ SameOpts(c.opts, b.opts, OptNames \ {"rangeopts"})
      /\ c.opts.rangeopts = IF f.range = <<>> THEN <<>> ELSE <<mc_RangeOpts_parse(f.range[1])>>
      /\ f.range # <<>> => mc_RangeOpts_parse(f.range[1]).ok
  <2>1. CASE f.range = <<>>
    BY <1>2, <1>4, <1>5, <2>1 DEF SameOpts, OptNames
  <2>2. CASE f.range # <<>>
    <3>1. c = mongocrypt_ctx_setopt_algorithm_range(b.opts, f.range[1]) /\ DOMAIN b.opts = OptNames
      BY <1>3, <1>5, <2>2 DEF SameOpts
    <3> HIDE DEF c
    <3> DEFINE doc == f.range[1]
               r == mongocrypt_ctx_setopt_algorithm_range(b.opts, doc)
    <3>2. r.ok /\ c = r
      BY <1>3, <3>1
    <3> HIDE DEF doc, r
    <3>3. r = mongocrypt_ctx_setopt_algorithm_range(b.opts, doc)
      BY DEF r
    <3>4. /\ SameOpts(r.opts, b.opts, OptNames \ {"rangeopts"})
          /\ r.opts.rangeopts = <<mc_RangeOpts_parse(doc)>>
          /\ mc_RangeOpts_parse(doc).ok
      BY <3>1, <3>2, <3>3, SetRange
    <3>5. /\ SameOpts(c.opts, b.opts, OptNames \ {"rangeopts"})
          /\ c.opts.rangeopts = <<mc_RangeOpts_parse(f.range[1])>>
          /\ mc_RangeOpts_parse(f.range[1]).ok
      BY <3>2, <3>4 DEF doc
    <3> QED
      BY <2>2, <3>5, Zenon
  <2> QED
    BY <2>1, <2>2
<1> HIDE DEF c
<1>7. /\ SameOpts(d.opts, c.opts, OptNames \ {"textopts"})
      /\ d.opts.textopts = <<>> <=> f.text = <<>>
  <2>1. CASE f.text = <<>>
    BY <1>2, <1>4, <1>5, <1>6, <2>1 DEF SameOpts, OptNames
  <2>2. CASE f.text # <<>>
    <3>1. d = mongocrypt_ctx_setopt_algorithm_text(c.opts, f.text[1]) /\ DOMAIN c.opts = OptNames
      BY <1>3, <1>6, <2>2 DEF SameOpts
    <3> HIDE DEF d
    <3> QED
      BY <1>1, <2>2, <3>1, SetText
  <2> QED
    BY <2>1, <2>2
<1> HIDE DEF d
<1> QED
  BY <1>1, <1>2, <1>4, <1>5, <1>6, <1>7 DEF SameOpts, OptNames

\* The documents of a range and of a text specification keep the value.
LEMMA SpecDocsKeep ==
    ASSUME NEW spec
    PROVE  /\ "v" \in DOMAIN RangeInsertDoc(spec) /\ RangeInsertDoc(spec).v = spec.v
           /\ "v" \in DOMAIN TextInsertDoc(spec) /\ TextInsertDoc(spec).v = spec.v
<1> DEFINE r0 == [v |-> spec.v, min |-> spec.min, max |-> spec.max]
           r1 == WithOpt(r0, "precision", spec.precision)
           t0 == [v |-> spec.v, casef |-> spec.casef, diacf |-> spec.diacf]
           t1 == WithOpt(t0, "substr", spec.substr)
           t2 == WithOpt(t1, "suffix", spec.suffix)
<1>1. "v" \in DOMAIN r0 /\ r0.v = spec.v /\ "v" \in DOMAIN t0 /\ t0.v = spec.v
  OBVIOUS
<1> HIDE DEF r0, t0
<1>2. "v" \in DOMAIN r1 /\ r1.v = spec.v /\ "v" \in DOMAIN t1 /\ t1.v = spec.v
  BY <1>1, WithOptKeeps
<1> HIDE DEF r1, t1
<1>3. "v" \in DOMAIN t2 /\ t2.v = spec.v
  BY <1>2, WithOptKeeps
<1> HIDE DEF t2
<1>4. /\ RangeInsertDoc(spec) = WithOpt(r1, "trimFactor", spec.trimFactor)
      /\ TextInsertDoc(spec) = WithOpt(t2, "prefix", spec.prefix)
  BY DEF RangeInsertDoc, TextInsertDoc, r0, r1, t0, t1, t2
<1> QED
  BY <1>2, <1>3, <1>4, WithOptKeeps

\* FinalizeWith, for an insert whose options explicit_encrypt_init accepted
LEMMA FinalizeMakes ==
    ASSUME NEW opts, opts.key_id = <<UserKey>>, opts.query_type = <<>>,
           opts.index_type \in IndexTypes,
           opts.rangeopts # <<>> <=> IndexIs(opts, "range"),
           opts.textopts # <<>> <=> IndexIs(opts, "string"),
           NEW v, IsValue(v), NEW ranged, ranged.ok => ranged.v = v, NEW text, text.v = v.s,
           NEW cf, NEW iv, NEW blob,
           blob = FinalizeWith(opts, Keys, v, ranged, text, cf, iv), blob.ok
    PROVE  \/ MadeDirect(blob, v)
           \/ MadeInsert(blob, v, IndexKey(opts), cf)
<1> DEFINE algorithm == CASE IndexIs(opts, "equality") -> "equality"
                          [] IndexIs(opts, "none") -> "unindexed"
                          [] IndexIs(opts, "range") -> "range"
                          [] IndexIs(opts, "string") -> "textSearch"
           new_v == CASE opts.rangeopts # <<>> -> RangeInsertDoc(ranged)
                      [] opts.rangeopts = <<>> /\ opts.textopts # <<>> -> TextInsertDoc(text)
                      [] OTHER -> v
           ph == [type |-> IF opts.query_type # <<>> THEN "find" ELSE "insert",
                  algorithm |-> algorithm, user_key_id |-> opts.key_id[1],
                  index_key_id |-> IndexKey(opts), v |-> new_v,
                  maxContentionFactor |-> IF opts.contention_factor = <<>> THEN 0
                                          ELSE opts.contention_factor[1],
                  sparsity |-> IF opts.rangeopts = <<>> THEN 0
                               ELSE opts.rangeopts[1].sparsity]
<1>1. ph.type = "insert" /\ ph.algorithm = algorithm /\ ph.user_key_id = UserKey
      /\ ph.index_key_id = IndexKey(opts) /\ ph.v = new_v
  <2> HIDE DEF algorithm, new_v
  <2> QED
    OBVIOUS
<1>2. /\ blob = fle2_marking_to_ciphertext(Keys, ph, cf, iv)
      /\ opts.rangeopts # <<>> => ranged.ok
      /\ opts.rangeopts = <<>> /\ opts.textopts # <<>> => v.t = "string"
  <2>1. blob = IF opts.rangeopts # <<>> /\ ~ranged.ok THEN ranged
               ELSE IF opts.rangeopts = <<>> /\ opts.textopts # <<>> /\ (v.t # "string" \/ ~text.ok)
               THEN Refused
               ELSE IF (algorithm = "unindexed") # (opts.contention_factor = <<>>) THEN Aborts
               ELSE fle2_marking_to_ciphertext(Keys, ph, cf, iv)
    BY Zenon DEF FinalizeWith
  <2> HIDE DEF algorithm, ph
  <2> QED
    BY <2>1, NotOk
<1> HIDE DEF ph
<1>3. CASE IndexIs(opts, "equality")
  <2>1. algorithm = "equality" /\ new_v = v
    BY <1>3 DEF IndexIs
  <2>2. blob = fle2_placeholder_to_insert_update_ciphertext(Keys, ph, cf, iv)
    BY <1>1, <1>2, <2>1 DEF fle2_marking_to_ciphertext
  <2> HIDE DEF algorithm, new_v
  <2> QED
    BY <1>1, <2>1, <2>2, EqualityMakes
<1>4. CASE IndexIs(opts, "none")
  <2>1. algorithm = "unindexed" /\ new_v = v
    BY <1>4 DEF IndexIs
  <2>2. blob = fle2_placeholder_to_FLE2UnindexedEncryptedValue(Keys, ph, iv)
    BY <1>1, <1>2, <2>1 DEF fle2_marking_to_ciphertext
  <2> HIDE DEF algorithm, new_v
  <2> QED
    BY <1>1, <2>1, <2>2, UnindexedMakes
<1>5. CASE IndexIs(opts, "range")
  <2>1. algorithm = "range" /\ new_v = RangeInsertDoc(ranged)
    BY <1>5 DEF IndexIs
  <2>2. blob = fle2_placeholder_to_insert_update_ciphertextForRange(Keys, ph, cf, iv)
    BY <1>1, <1>2, <2>1 DEF fle2_marking_to_ciphertext
  <2> HIDE DEF algorithm, new_v
  <2>3. "v" \in DOMAIN ph.v /\ ph.v.v = v
    BY <1>1, <1>2, <1>5, <2>1, SpecDocsKeep
  <2> QED
    BY <1>1, <1>5, <2>2, <2>3, RangeMakes
<1>6. CASE IndexIs(opts, "string")
  <2>1. opts.rangeopts = <<>>
    BY <1>6 DEF IndexIs
  <2>2. algorithm = "textSearch" /\ new_v = TextInsertDoc(text)
    BY <1>6, <2>1 DEF IndexIs
  <2>3. blob = fle2_placeholder_to_insert_update_ciphertextForTextSearch(Keys, ph, cf, iv)
    BY <1>1, <1>2, <2>2 DEF fle2_marking_to_ciphertext
  <2> HIDE DEF algorithm, new_v
  <2>4. "v" \in DOMAIN ph.v /\ ph.v.v = v.s /\ v.t = "string"
    BY <1>1, <1>2, <1>6, <2>1, <2>2, SpecDocsKeep
  <2> QED
    BY <1>1, <1>6, <2>3, <2>4, TextMakes
<1> QED
  BY <1>3, <1>4, <1>5, <1>6 DEF IndexTypes, IndexIs

\* What an insert sends
LEMMA EncryptMakes ==
    ASSUME NEW f, NEW v, IsValue(v), NEW cf, NEW iv, NEW blob,
           blob = Encrypt(f, <<>>, v, cf, iv), blob.ok
    PROVE  MadeDirect(blob, v) \/ \E index \in Keys : MadeInsert(blob, v, index, cf)
<1> DEFINE o == FieldOptions(f, <<>>)
           opts == o.opts
<1>1. o.ok /\ explicit_encrypt_init(opts, v) /\ blob = finalize_explicit(opts, Keys, v, cf, iv)
  <2> HIDE DEF o
  <2> QED
    BY NotOk DEF Encrypt, mongocrypt_ctx_explicit_encrypt_init, o
<1>2. /\ opts.key_id = <<UserKey>> /\ opts.query_type = <<>>
      /\ opts.index_key_id = IF f.cm = <<>> THEN <<>> ELSE <<IndexKeyId>>
      /\ opts.rangeopts = <<>> <=> f.range = <<>>
      /\ opts.textopts = <<>> <=> f.text = <<>>
      /\ opts.index_type \in {<<>>} \union IndexTypes
  <2>1. <<mc_RangeOpts_parse(f.range[1])>> # <<>>
    OBVIOUS
  <2> HIDE DEF o
  <2>2. o = FieldOptions(f, <<>>)
    BY DEF o
  <2> QED
    BY <1>1, <2>1, <2>2, InsertOptions, Zenon
<1> HIDE DEF opts, o
<1>3. CASE opts.index_type = <<>>
  <2> DEFINE m == [key_id |-> opts.key_id[1], algorithm |-> opts.algorithm, v |-> v]
  <2>1. blob = fle1_marking_to_ciphertext(Keys, m, iv)
    BY <1>1, <1>3 DEF finalize_explicit
  <2>2. m.key_id = UserKey /\ m.v = v
    BY <1>2
  <2> HIDE DEF m
  <2> QED
    BY <1>1, <2>1, <2>2, Fle1Makes
<1>4. CASE opts.index_type \in IndexTypes
  <2> DEFINE ranged == mc_RangeOpts_to_FLE2RangeInsertSpec(opts.rangeopts[1], v)
             spec == TextOpts_to_FLE2TextSearchInsertSpec(opts.textopts[1], v.s, TextQueryTypes)
             text == Joined([ok |-> TRUE], spec)
  <2>1. opts.index_type # <<>>
    BY <1>4 DEF IndexTypes
  <2>2. blob = FinalizeWith(opts, Keys, v, ranged, text, cf, iv)
    BY <1>1, <1>2, <2>1 DEF finalize_explicit, fle2_finalize_explicit
  <2>3. ranged.ok => ranged.v = v
    BY DEF mc_RangeOpts_to_FLE2RangeInsertSpec, RangeInsertSpec
  <2>4. text.v = v.s
    <3>1. spec.v = v.s /\ "v" \in DOMAIN spec
      BY DEF TextOpts_to_FLE2TextSearchInsertSpec
    <3> HIDE DEF spec
    <3> QED
      BY <3>1 DEF Joined
  <2> HIDE DEF ranged, text
  <2>5. /\ opts.rangeopts # <<>> <=> IndexIs(opts, "range")
        /\ opts.textopts # <<>> <=> IndexIs(opts, "string")
    BY <1>1, <2>1 DEF explicit_encrypt_init
  <2>6. IndexKey(opts) \in Keys
    BY <1>2 DEF IndexKey, Keys
  <2>7. \/ MadeDirect(blob, v)
        \/ MadeInsert(blob, v, IndexKey(opts), cf)
    BY <1>2, <1>4, <2>2, <2>3, <2>4, <2>5, FinalizeMakes
  <2> QED
    BY <2>6, <2>7
<1> QED
  BY <1>2, <1>3, <1>4

-----------------------------------------------------------------------------
(***************************************************************************)
(* What the server keeps.                                                  *)
(***************************************************************************)
\* The token that opens the envelope of the index key with this id
EnvelopeToken(id) == ServerDataEncryptionLevel1Token(TokenKey(KeyMaterial(id)))

\* The envelope opens with a key the client has.
Enveloped(blob) ==
    /\ blob.keyId \in Keys /\ blob.sev.s.token = EnvelopeToken(blob.keyId)
    /\ blob.sev.s.iv = blob.sev.iv /\ blob.sev.s.data.keyId = UserKey

\* The code of a BSON type is a byte.
LEMMA CodeIsByte ==
    ASSUME NEW v, IsValue(v)
    PROVE  Code(v) \in 0..255
<1>1. v.t \in {"int32", "int64", "date", "double", "decimal", "string"}
  BY DEF IsValue
<1> QED
  BY <1>1 DEF Code, TypeCode

\* The length of a table
LEMMA TableLen ==
    ASSUME NEW s, NEW a \in Nat, DOMAIN s = 1..a
    PROVE  Len(s) = a
OBVIOUS

\* A value with as many blocks as it announces parses.
LEMMA AnnouncedParses ==
    ASSUME NEW blob, NEW edges, edges > 0, edges \in Nat,
           edges = (IF blob.subtype = 14 THEN 1 ELSE blob.counts[1]),
           blob.subtype \in {14, 15, 17}, Len(blob.metadata) = edges,
           blob.subtype = 17 => ~(edges < blob.counts[2] + blob.counts[3] + 1)
    PROVE  mc_FLE2IndexedEncryptedValueV2_parse(IevNew, blob).ok
<1> DEFINE iev == [IevNew EXCEPT !.parsed = TRUE, !.S_KeyId = blob.keyId,
                                 !.t = blob.t, !.sev = <<blob.sev>>]
<1>1. ~ IevNew.parsed
  BY DEF IevNew
<1>2. /\ Subtype.FLE2IndexedEqualityEncryptedValueV2 = 14
      /\ Subtype.FLE2IndexedRangeEncryptedValueV2 = 15
      /\ Subtype.FLE2IndexedTextEncryptedValue = 17
  BY DEF Subtype
<1>3. ~ (\/ IevNew.parsed \/ blob.subtype \notin {14, 15, 17} \/ edges = 0
         \/ blob.subtype = 17 /\ edges < blob.counts[2] + blob.counts[3] + 1
         \/ Len(blob.metadata) < edges)
  BY <1>1
<1>4. mc_FLE2IndexedEncryptedValueV2_parse(IevNew, blob) =
        IF \/ IevNew.parsed \/ blob.subtype \notin {14, 15, 17} \/ edges = 0
           \/ blob.subtype = 17 /\ edges < blob.counts[2] + blob.counts[3] + 1
           \/ Len(blob.metadata) < edges
        THEN Refused ELSE [ok |-> TRUE, iev |-> iev]
  BY <1>2, Zenon DEF mc_FLE2IndexedEncryptedValueV2_parse
<1> HIDE DEF iev
<1> QED
  BY <1>3, <1>4

\* The blocks and counts the server derives from an insert payload
StoredShape(stored, doc) ==
    LET tags == Tags(doc)
    IN /\ stored.subtype = (IF "g" \in DOMAIN doc THEN Subtype.FLE2IndexedRangeEncryptedValueV2
                            ELSE IF "b" \in DOMAIN doc THEN Subtype.FLE2IndexedTextEncryptedValue
                            ELSE Subtype.FLE2IndexedEqualityEncryptedValueV2)
       /\ stored.counts = (IF "b" \in DOMAIN doc
                           THEN <<Len(tags), Len(doc.b.s), Len(doc.b.u)>> ELSE <<Len(tags)>>)
       /\ DOMAIN stored.metadata = DOMAIN tags

\* The number of tags of a text value
LEMMA CountsFit ==
    ASSUME NEW a \in Nat, NEW b \in Nat, NEW c \in Nat
    PROVE  /\ 1 + a + b + c \in Nat /\ 1 + a + b + c > 0
           /\ ~(1 + a + b + c < a + b + 1)
OBVIOUS

\* The counts and blocks the server writes are those the client expects.
LEMMA TagsParse ==
    ASSUME NEW doc, TagsFit(doc), NEW stored, StoredShape(stored, doc)
    PROVE  mc_FLE2IndexedEncryptedValueV2_parse(IevNew, stored).ok
<1> DEFINE tags == Tags(doc)
<1>1. DOMAIN stored.metadata = DOMAIN tags
  BY Zenon DEF StoredShape
<1>2. stored.counts = (IF "b" \in DOMAIN doc
                       THEN <<Len(tags), Len(doc.b.s), Len(doc.b.u)>> ELSE <<Len(tags)>>)
  BY Zenon DEF StoredShape
<1>3. CASE "g" \in DOMAIN doc
  <2>1. PICK n \in Nat \ {0} : DOMAIN doc.g = 1..n
    BY <1>3 DEF TagsFit
  <2>2. DOMAIN tags = 1..n
    <3>1. tags = [i \in DOMAIN doc.g |-> doc.g[i].d]
      BY <1>3, Zenon DEF Tags
    <3> QED
      BY <2>1, <3>1, Zenon
  <2> HIDE DEF tags
  <2>3. Len(tags) = n /\ Len(stored.metadata) = n
    BY <1>1, <2>2, TableLen
  <2>4. stored.subtype = 15
    BY <1>3 DEF Subtype, StoredShape
  <2>5. stored.counts[1] = n
    BY <1>2, <2>3
  <2> QED
    BY <2>3, <2>4, <2>5, AnnouncedParses
<1>4. CASE "g" \notin DOMAIN doc /\ "b" \in DOMAIN doc
  <2>1. PICK T : {doc.b.s, doc.b.u, doc.b.p} \subseteq Seq(T)
    BY <1>4 DEF TagsFit
  <2> DEFINE S == T \union {doc.b.e}
             all == <<doc.b.e>> \o doc.b.s \o doc.b.u \o doc.b.p
             n == 1 + Len(doc.b.s) + Len(doc.b.u) + Len(doc.b.p)
  <2>2. /\ doc.b.s \in Seq(S) /\ doc.b.u \in Seq(S) /\ doc.b.p \in Seq(S)
        /\ <<doc.b.e>> \in Seq(S)
    BY <2>1
  <2>3. Len(doc.b.s) \in Nat /\ Len(doc.b.u) \in Nat /\ Len(doc.b.p) \in Nat
    BY <2>1, LenProperties
  <2>8. n \in Nat /\ n > 0 /\ ~(n < Len(doc.b.s) + Len(doc.b.u) + 1)
    BY <2>3, CountsFit, Zenon
  <2>4. DOMAIN all = 1..n
    <3> HIDE DEF S
    <3>1. /\ <<doc.b.e>> \o doc.b.s \in Seq(S)
          /\ Len(<<doc.b.e>> \o doc.b.s) = 1 + Len(doc.b.s)
      BY <2>2
    <3>2. /\ (<<doc.b.e>> \o doc.b.s) \o doc.b.u \in Seq(S)
          /\ Len((<<doc.b.e>> \o doc.b.s) \o doc.b.u) = 1 + Len(doc.b.s) + Len(doc.b.u)
      BY <2>2, <3>1, ConcatProperties
    <3>3. all \in Seq(S) /\ Len(all) = n
      BY <2>2, <3>2, ConcatProperties
    <3> HIDE DEF all, n
    <3> QED
      BY <3>3, LenProperties
  <2>5. DOMAIN tags = DOMAIN all
    <3>1. tags = [i \in DOMAIN all |-> all[i].d]
      BY <1>4, Zenon DEF Tags
    <3> QED
      BY <3>1, Zenon
  <2> HIDE DEF all, n, tags
  <2>6. Len(tags) = n /\ Len(stored.metadata) = n
    BY <1>1, <2>4, <2>5, <2>8, TableLen
  <2>7. /\ stored.counts[1] = n
        /\ stored.counts[2] = Len(doc.b.s) /\ stored.counts[3] = Len(doc.b.u)
    BY <1>2, <1>4, <2>6
  <2>9. stored.subtype = 17
    BY <1>4 DEF Subtype, StoredShape
  <2>10. ~(n < stored.counts[2] + stored.counts[3] + 1)
    BY <2>7, <2>8
  <2>11. /\ stored.subtype \in {14, 15, 17}
         /\ n = (IF stored.subtype = 14 THEN 1 ELSE stored.counts[1])
    BY <2>7, <2>9
  <2> QED
    BY <2>6, <2>8, <2>10, <2>11, AnnouncedParses, Zenon
<1>5. CASE "g" \notin DOMAIN doc /\ "b" \notin DOMAIN doc
  <2>1. tags = <<doc.d>>
    BY <1>5 DEF Tags
  <2>2. DOMAIN stored.metadata = 1..1
    BY <1>1, <2>1
  <2>3. Len(stored.metadata) = 1
    BY <2>2, TableLen
  <2>4. stored.subtype = 14
    BY <1>5 DEF Subtype, StoredShape
  <2> HIDE DEF tags
  <2>5. 1 > 0 /\ 1 \in Nat
    OBVIOUS
  <2>6. /\ stored.subtype \in {14, 15, 17} /\ stored.subtype # 17
        /\ 1 = (IF stored.subtype = 14 THEN 1 ELSE stored.counts[1])
    BY <2>4
  <2> QED
    BY <2>3, <2>5, <2>6, AnnouncedParses, Zenon
<1> QED
  BY <1>3, <1>4, <1>5

\* The server wraps the client's ciphertext.
LEMMA StoreMakes ==
    ASSUME NEW v, IsValue(v), NEW index \in Keys, NEW cf, NEW doc,
           PayloadDoc(doc, v, index, cf), TagsFit(doc), NEW iv, NEW stored,
           stored = ServerStore(Blob(InsertV2, doc), iv).stored
    PROVE  /\ MadeIndexed(stored, v) /\ Enveloped(stored)
           /\ mc_FLE2IndexedEncryptedValueV2_parse(IevNew, stored).ok
<1> DEFINE blob == Blob(InsertV2, doc)
           iup == mc_FLE2InsertUpdatePayloadV2_parse(doc)
           tags == Tags(doc)
           sub == IF "g" \in DOMAIN doc THEN Subtype.FLE2IndexedRangeEncryptedValueV2
                  ELSE IF "b" \in DOMAIN doc THEN Subtype.FLE2IndexedTextEncryptedValue
                  ELSE Subtype.FLE2IndexedEqualityEncryptedValueV2
           counts == IF "b" \in DOMAIN doc
                     THEN <<Len(tags), Len(doc.b.s), Len(doc.b.u)>> ELSE <<Len(tags)>>
           sev == SealEnvelope(iup.serverEncryptionToken, iv,
                               [keyId |-> iup.userKeyId, c |-> iup.value.c])
           meta == [i \in DOMAIN tags |-> [tag |-> tags[i]]]
<1>1. blob.subtype = InsertV2 /\ blob.doc = doc
  BY DEF Blob
<1>2. stored = [subtype |-> sub, keyId |-> iup.indexKeyId, t |-> iup.valueType,
                counts |-> counts, sev |-> sev, metadata |-> meta]
  BY <1>1 DEF ServerStore, InsertV2
<1>3. PICK c : doc.v = [keyId |-> UserKey, c |-> c] /\ SealedValue(c, InsertV2, <<UserKey>>, v)
  BY DEF PayloadDoc
<1>4. /\ iup.valueType = Code(v) /\ iup.indexKeyId = index /\ iup.userKeyId = UserKey
      /\ iup.value.c = c /\ iup.serverEncryptionToken = EnvelopeToken(index)
  <2>1. ~ (\/ ~({"d", "s", "p", "u", "t", "v", "e", "l", "k"} \subseteq DOMAIN doc)
           \/ doc.t \notin 0..255 \/ doc.k < 0)
    BY CodeIsByte DEF PayloadDoc
  <2>2. iup = [ok |-> TRUE, valueType |-> doc.t, indexKeyId |-> doc.u, value |-> doc.v,
               userKeyId |-> doc.v.keyId, serverEncryptionToken |-> doc.e,
               contentionFactor |-> doc.k]
    BY <2>1, Zenon DEF mc_FLE2InsertUpdatePayloadV2_parse
  <2>3. doc.t = Code(v) /\ doc.u = index /\ doc.e = EnvelopeToken(index)
    BY DEF PayloadDoc, EnvelopeToken
  <2> QED
    BY <1>3, <2>2, <2>3
<1>11. mc_FLE2IndexedEncryptedValueV2_parse(IevNew, stored).ok
  <2> HIDE DEF iup, sev
  <2>1. stored.subtype = sub /\ stored.counts = counts /\ stored.metadata = meta
    <3> HIDE DEF sub, counts, meta
    <3> QED
      BY <1>2
  <2>2. DOMAIN stored.metadata = DOMAIN tags
    BY <2>1, Zenon
  <2>3. StoredShape(stored, doc)
    BY <2>1, <2>2, Zenon DEF StoredShape
  <2> QED
    BY <2>3, TagsParse, Zenon
<1> HIDE DEF iup, counts, meta
<1> DEFINE data == [keyId |-> UserKey, c |-> c]
<1>5. sev = SealEnvelope(EnvelopeToken(index), iv, data)
  BY <1>4
<1>6. sub \in IndexedSubtypes /\ Algorithm(sub) = Algorithm(InsertV2)
  BY DEF IndexedSubtypes, Algorithm, InsertV2, Subtype
<1> HIDE DEF sub
<1>7. SealedValue(c, sub, <<UserKey>>, v)
  BY <1>3, <1>6 DEF SealedValue
<1> HIDE DEF sev, data
<1>8. /\ stored.subtype = sub /\ stored.keyId = index /\ stored.t = Code(v) /\ stored.sev = sev
      /\ {"subtype", "keyId", "t", "sev"} \subseteq DOMAIN stored /\ "doc" \notin DOMAIN stored
  BY <1>2, <1>4
<1>9. MadeIndexed(stored, v)
  BY <1>5, <1>6, <1>7, <1>8 DEF MadeIndexed, data
<1>10. Enveloped(stored)
  BY <1>5, <1>8 DEF Enveloped, SealEnvelope, data
<1> QED
  BY <1>9, <1>10, <1>11

-----------------------------------------------------------------------------
(***************************************************************************)
(* An intact value decrypts.                                               *)
(***************************************************************************)
\* Everything a decrypting client checks before it decrypts
Complete(blob, v) ==
    \/ MadeDirect(blob, v)
    \/ /\ MadePayload(blob, v)
       /\ IF blob.subtype = InsertV2 THEN mc_FLE2InsertUpdatePayloadV2_parse(blob.doc).ok
          ELSE mc_FLE2InsertUpdatePayload_parse(blob.doc).ok
    \/ /\ MadeIndexed(blob, v) /\ Enveloped(blob)
       /\ blob.subtype # Subtype.FLE2IndexedEqualityEncryptedValue =>
             mc_FLE2IndexedEncryptedValueV2_parse(IevNew, blob).ok

\* A sealed value is read back.
LEMMA SealedReads ==
    ASSUME NEW v, IsValue(v), NEW sub, NEW aad, NEW c, SealedValue(c, sub, aad, v)
    PROVE  /\ do_decryption(Algorithm(sub), aad, OwnKey, c) = Plaintext(Bytes(v))
           /\ AsValue(Plaintext(Bytes(v)), Code(v)).ok
<1>1. PICK iv : c = Sealed(Algorithm(sub), iv, aad, OwnKey, Bytes(v))
  BY DEF SealedValue
<1>2. Bytes(v) \in Seq(Int) /\ Len(Bytes(v)) > 0
  BY ValueBytes DEF Bytes
<1>3. Len(OwnKey) = 3
  BY KeyParts DEF OwnKey
<1>4. mongocrypt_buffer_to_bson_value(Bytes(v), Code(v)) = Value(Code(v), Bytes(v))
  BY ValueBytes DEF Bytes, Code
<1>5. AsValue(Plaintext(Bytes(v)), Code(v)).ok
  BY <1>4 DEF AsValue, Plaintext, Value
<1> QED
  BY <1>1, <1>2, <1>3, <1>5, SealedOpens, AlgorithmsAuthenticate

\* The client has the user key and the index keys.
LEMMA KeysKnown ==
    ASSUME NEW id \in Keys
    PROVE  decrypted_key_by_id(Keys, id).ok /\ decrypted_key_by_id(Keys, id).key = KeyMaterial(id)
BY DEF decrypted_key_by_id

\* The user key is one of them.
LEMMA UserKeyKnown == UserKey \in Keys
BY DEF Keys

\* Values that carry their ciphertext as it is
LEMMA CompleteDirect ==
    ASSUME NEW v, IsValue(v), NEW blob, MadeDirect(blob, v)
    PROVE  replace_ciphertext_with_plaintext(Keys, blob).ok
<1>1. PICK sub, c :
        /\ sub \in DirectSubtypes /\ blob = EncryptedBlob(sub, UserKey, Code(v), c)
        /\ SealedValue(c, sub, <<sub, UserKey, Code(v)>>, v)
  BY DEF MadeDirect
<1>2. blob.subtype = sub /\ blob.c = c /\ blob.keyId = UserKey /\ blob.t = Code(v)
  BY <1>1 DEF EncryptedBlob
<1> DEFINE got == decrypted_key_by_id(Keys, UserKey)
           data == <<sub, UserKey, Code(v)>>
           out == do_decryption(Algorithm(sub), data, got.key, c)
<1>3. got.ok /\ got.key = OwnKey
  BY KeysKnown, UserKeyKnown DEF OwnKey
<1>4. AsValue(out, Code(v)).ok
  BY <1>1, <1>3, SealedReads
<1>5. replace_ciphertext_with_plaintext(Keys, blob) = AsValue(out, Code(v))
  <2>0. serialize_associated_data(blob) = data
    BY <1>2 DEF serialize_associated_data
  <2> HIDE DEF data
  <2>1. CASE sub = Subtype.FLE1DeterministicEncryptedValue \/ sub = Subtype.FLE1RandomEncryptedValue
    <3>1. replace_ciphertext_with_plaintext(Keys, blob) = replace_FLE1Payload_with_plaintext(Keys, blob)
      BY <1>2, <2>1 DEF replace_ciphertext_with_plaintext, Subtype
    <3>2. Algorithm(sub) = FLE1Algorithm /\ mongocrypt_ciphertext_parse(blob)
      BY <1>2, <2>1 DEF Algorithm, mongocrypt_ciphertext_parse
    <3> QED
      BY <1>2, <1>3, <2>0, <3>1, <3>2 DEF replace_FLE1Payload_with_plaintext
  <2>2. CASE sub = Subtype.FLE2UnindexedEncryptedValue
    <3>1. replace_ciphertext_with_plaintext(Keys, blob)
            = replace_FLE2UnindexedEncryptedValue_with_plaintext(Keys, blob)
      BY <1>2, <2>2 DEF replace_ciphertext_with_plaintext, Subtype
    <3>2. Algorithm(sub) = UnindexedAlgorithm(sub) /\ mc_FLE2UnindexedEncryptedValue_parse(blob)
      BY <1>2, <2>2 DEF Algorithm, UnindexedAlgorithm, mc_FLE2UnindexedEncryptedValue_parse, Subtype
    <3> QED
      BY <1>2, <1>3, <2>0, <3>1, <3>2
      DEF replace_FLE2UnindexedEncryptedValue_with_plaintext, UnindexedEncryptedValueCommon_decrypt
  <2>3. CASE sub = Subtype.FLE2UnindexedEncryptedValueV2
    <3>1. replace_ciphertext_with_plaintext(Keys, blob)
            = replace_FLE2UnindexedEncryptedValueV2_with_plaintext(Keys, blob)
      BY <1>2, <2>3 DEF replace_ciphertext_with_plaintext, Subtype
    <3>2. Algorithm(sub) = UnindexedAlgorithm(sub) /\ mc_FLE2UnindexedEncryptedValueV2_parse(blob)
      BY <1>2, <2>3 DEF Algorithm, UnindexedAlgorithm, mc_FLE2UnindexedEncryptedValueV2_parse, Subtype
    <3> QED
      BY <1>2, <1>3, <2>0, <3>1, <3>2
      DEF replace_FLE2UnindexedEncryptedValueV2_with_plaintext, UnindexedEncryptedValueCommon_decrypt
  <2> QED
    BY <1>1, <2>1, <2>2, <2>3 DEF DirectSubtypes
<1> QED
  BY <1>4, <1>5

\* Insert payloads
LEMMA CompletePayload ==
    ASSUME NEW v, IsValue(v), NEW blob, MadePayload(blob, v),
           IF blob.subtype = InsertV2 THEN mc_FLE2InsertUpdatePayloadV2_parse(blob.doc).ok
           ELSE mc_FLE2InsertUpdatePayload_parse(blob.doc).ok
    PROVE  replace_ciphertext_with_plaintext(Keys, blob).ok
<1>1. PICK sub, doc, c :
        /\ sub \in PayloadSubtypes
        /\ blob = Blob(sub, doc) /\ {"v", "t"} \subseteq DOMAIN doc
        /\ doc.v = [keyId |-> UserKey, c |-> c] /\ doc.t = Code(v)
        /\ SealedValue(c, sub, <<UserKey>>, v)
  BY DEF MadePayload
<1>2. blob.subtype = sub /\ blob.doc = doc
  BY <1>1 DEF Blob
<1>3. doc.v.keyId = UserKey /\ doc.v.c = c
  BY <1>1
<1> DEFINE got == decrypted_key_by_id(Keys, UserKey)
           out == do_decryption(Algorithm(sub), <<UserKey>>, got.key, c)
<1>4. got.ok /\ got.key = OwnKey
  BY KeysKnown, UserKeyKnown DEF OwnKey
<1>5. AsValue(out, Code(v)).ok
  BY <1>1, <1>4, SealedReads
<1>6. ~ Refused.ok
  BY DEF Refused
<1>7. CASE sub = Subtype.FLE2InsertUpdatePayload
  <2> DEFINE iup == mc_FLE2InsertUpdatePayload_parse(doc)
  <2>1. replace_ciphertext_with_plaintext(Keys, blob)
          = replace_FLE2InsertUpdatePayload_with_plaintext(Keys, blob)
    BY <1>2, <1>7 DEF replace_ciphertext_with_plaintext, Subtype
  <2>2. Algorithm(sub) = FLE2AEADAlgorithm /\ sub # InsertV2
    BY <1>7 DEF Algorithm, InsertV2, Subtype
  <2>3. iup.ok
    BY <1>2, <2>2
  <2>4. iup.userKeyId = UserKey /\ iup.value.c = c /\ iup.valueType = Code(v)
    BY <1>1, <1>3, <1>6, <2>3 DEF mc_FLE2InsertUpdatePayload_parse
  <2> HIDE DEF iup
  <2>5. replace_FLE2InsertUpdatePayload_with_plaintext(Keys, blob) = AsValue(out, Code(v))
    BY <1>2, <1>4, <2>2, <2>3, <2>4
    DEF replace_FLE2InsertUpdatePayload_with_plaintext, mc_FLE2InsertUpdatePayload_decrypt, iup
  <2> QED
    BY <1>5, <2>1, <2>5
<1>8. CASE sub = InsertV2
  <2> DEFINE iup == mc_FLE2InsertUpdatePayloadV2_parse(doc)
  <2>1. replace_ciphertext_with_plaintext(Keys, blob)
          = replace_FLE2InsertUpdatePayloadV2_with_plaintext(Keys, blob)
    BY <1>2, <1>8 DEF replace_ciphertext_with_plaintext, Subtype, InsertV2
  <2>2. Algorithm(sub) = FLE2v2AEADAlgorithm
    BY <1>8 DEF Algorithm, InsertV2, Subtype
  <2>3. iup.ok
    BY <1>2, <1>8
  <2>4. iup.userKeyId = UserKey /\ iup.value.c = c /\ iup.valueType = Code(v)
    BY <1>1, <1>3, <1>6, <2>3 DEF mc_FLE2InsertUpdatePayloadV2_parse
  <2> HIDE DEF iup
  <2>5. replace_FLE2InsertUpdatePayloadV2_with_plaintext(Keys, blob) = AsValue(out, Code(v))
    BY <1>2, <1>4, <2>2, <2>3, <2>4
    DEF replace_FLE2InsertUpdatePayloadV2_with_plaintext, mc_FLE2InsertUpdatePayloadV2_decrypt, iup
  <2> QED
    BY <1>5, <2>1, <2>5
<1> QED
  BY <1>1, <1>7, <1>8 DEF PayloadSubtypes, InsertV2

\* The envelope of an intact value opens.
LEMMA EnvelopeOpens ==
    ASSUME NEW sev, NEW id, NEW t, NEW data, sev.s.data = data,
           sev.s.token = EnvelopeToken(id), sev.s.iv = sev.iv, NEW opened,
           opened = IevAddSKey(ParsedIev(id, t, sev), KeyMaterial(id))
    PROVE  opened.ok /\ opened.iev = OpenedIev(id, t, sev, data)
<1> DEFINE iev == ParsedIev(id, t, sev)
           inner == Envelope(iev.sev[1], ServerDataEncryptionLevel1Token(TokenKey(KeyMaterial(id))))
<1>1. iev.sev[1] = sev /\ iev.parsed /\ iev.inner = <<>>
  BY DEF IevNew, ParsedIev
<1>2. inner = data
  BY <1>1 DEF Envelope, EnvelopeToken
<1>3. Len(KeyMaterial(id)) = 3
  BY KeyParts
<1> HIDE DEF iev
<1> DEFINE next == [iev EXCEPT !.inner = <<inner>>]
<1>4. opened = [ok |-> TRUE, iev |-> next]
  BY <1>1, <1>3 DEF IevAddSKey, iev
<1>5. next = OpenedIev(id, t, sev, data)
  BY <1>2 DEF OpenedIev, iev
<1> HIDE DEF next
<1> QED
  BY <1>4, <1>5

\* The client's key opens what is inside.
LEMMA ClientOpens ==
    ASSUME NEW alg, NEW sev, NEW id, NEW t, NEW inner, NEW K_Key, NEW out,
           out = do_decryption(alg, <<inner.keyId>>, K_Key, inner.c), out.ok, NEW client,
           client = IevAddKKey(alg, OpenedIev(id, t, sev, inner), K_Key)
    PROVE  client.ok /\ client.iev.t = t /\ client.iev.ClientValue[1] = out.data
<1> DEFINE iev == OpenedIev(id, t, sev, inner)
           next == [iev EXCEPT !.ClientValue = <<out.data>>]
<1>1. iev.inner = <<inner>> /\ iev.inner[1] = inner /\ iev.ClientValue = <<>>
  BY OpenedIevFields
<1>2. iev.inner # <<>>
  BY <1>1
<1> HIDE DEF iev
<1>3. client = [ok |-> TRUE, iev |-> next]
  BY <1>1, <1>2 DEF IevAddKKey, iev
<1> HIDE DEF next
<1>4. client.ok
  BY <1>3
<1> QED
  BY <1>4, ClientOpened

\* Indexed values
LEMMA CompleteIndexed ==
    ASSUME NEW v, IsValue(v), NEW blob, MadeIndexed(blob, v), Enveloped(blob),
           blob.subtype # Subtype.FLE2IndexedEqualityEncryptedValue =>
             mc_FLE2IndexedEncryptedValueV2_parse(IevNew, blob).ok
    PROVE  replace_ciphertext_with_plaintext(Keys, blob).ok
<1>1. PICK token, iv, c : /\ blob.sev = SealEnvelope(token, iv, [keyId |-> UserKey, c |-> c])
                          /\ SealedValue(c, blob.subtype, <<UserKey>>, v)
  BY DEF MadeIndexed
<1> DEFINE data == [keyId |-> UserKey, c |-> c]
           alg == Algorithm(blob.subtype)
           iev == ParsedIev(blob.keyId, blob.t, blob.sev)
           opened == IevAddSKey(iev, KeyMaterial(blob.keyId))
           out == do_decryption(alg, <<data.keyId>>, OwnKey, data.c)
           client == IevAddKKey(alg, opened.iev, OwnKey)
           S_Key == decrypted_key_by_id(Keys, blob.keyId)
           K_Key == decrypted_key_by_id(Keys, UserKey)
<1>2. /\ blob.sev.s.data = data /\ blob.sev.s.iv = blob.sev.iv
      /\ blob.sev.s.token = EnvelopeToken(blob.keyId) /\ blob.t = Code(v)
  BY <1>1 DEF SealEnvelope, Enveloped, MadeIndexed
<1>3. S_Key.ok /\ S_Key.key = KeyMaterial(blob.keyId)
  BY KeysKnown DEF Enveloped
<1>4. K_Key.ok /\ K_Key.key = OwnKey
  BY KeysKnown, UserKeyKnown DEF OwnKey
<1>5. opened.ok /\ opened.iev = OpenedIev(blob.keyId, blob.t, blob.sev, data)
  <2> HIDE DEF data
  <2> QED
    BY <1>2, EnvelopeOpens
<1>6. out = Plaintext(Bytes(v))
  BY <1>1, SealedReads
<1>7. out.ok /\ out.data = Bytes(v)
  BY <1>6 DEF Plaintext
<1>8. iev.S_KeyId = blob.keyId
  BY DEF ParsedIev, IevNew
<1>9. opened.iev.inner[1].keyId = UserKey
  BY <1>5, OpenedIevFields
<1>10. client.ok /\ client.iev.t = blob.t /\ client.iev.ClientValue[1] = out.data
  <2> HIDE DEF data, opened, alg, out
  <2>1. client = IevAddKKey(alg, OpenedIev(blob.keyId, blob.t, blob.sev, data), OwnKey)
    BY <1>5
  <2>2. out = do_decryption(alg, <<data.keyId>>, OwnKey, data.c)
    BY DEF out
  <2> HIDE DEF client
  <2> QED
    BY <1>7, <2>1, <2>2, ClientOpens
<1> DEFINE value == mongocrypt_buffer_to_bson_value(client.iev.ClientValue[1], client.iev.t)
<1>11. value.ok
  <2>1. mongocrypt_buffer_to_bson_value(Bytes(v), Code(v)) = Value(Code(v), Bytes(v))
    BY ValueBytes DEF Bytes, Code
  <2> HIDE DEF client, out
  <2> QED
    BY <1>2, <1>7, <1>10, <2>1 DEF Value
<1>12. ~ Refused.ok
  BY DEF Refused
<1>13. CASE blob.subtype = Subtype.FLE2IndexedEqualityEncryptedValue
  <2> DEFINE parsed == mc_FLE2IndexedEncryptedValue_parse(IevNew, blob)
  <2>1. replace_ciphertext_with_plaintext(Keys, blob)
          = replace_FLE2IndexedEncryptedValue_with_plaintext(Keys, blob)
    BY <1>13 DEF replace_ciphertext_with_plaintext, Subtype
  <2>2. alg = FLE2AEADAlgorithm
    BY <1>13 DEF Algorithm, Subtype
  <2>3. parsed.ok /\ parsed.iev = iev
    <3>1. ~ IevNew.parsed
      BY DEF IevNew
    <3>2. parsed = [ok |-> TRUE, iev |-> iev]
      BY <1>13, <3>1, Zenon DEF mc_FLE2IndexedEncryptedValue_parse, ParsedIev
    <3> HIDE DEF iev, parsed
    <3> QED
      BY <3>2
  <2> HIDE DEF iev, parsed, S_Key, K_Key, value
  <2>4. replace_FLE2IndexedEncryptedValue_with_plaintext(Keys, blob) = value
    BY <1>3, <1>4, <1>5, <1>8, <1>9, <1>10, <2>2, <2>3
    DEF replace_FLE2IndexedEncryptedValue_with_plaintext, parsed, S_Key, K_Key, value,
        mc_FLE2IndexedEncryptedValue_add_S_Key, mc_FLE2IndexedEncryptedValue_add_K_Key
  <2> QED
    BY <1>11, <2>1, <2>4
<1>14. CASE blob.subtype # Subtype.FLE2IndexedEqualityEncryptedValue
  <2> DEFINE parsed == mc_FLE2IndexedEncryptedValueV2_parse(IevNew, blob)
  <2>1. replace_ciphertext_with_plaintext(Keys, blob)
          = replace_FLE2IndexedEncryptedValueV2_with_plaintext(Keys, blob)
    BY <1>14 DEF replace_ciphertext_with_plaintext, Subtype, MadeIndexed, IndexedSubtypes
  <2>2. alg = FLE2v2AEADAlgorithm
    BY <1>14 DEF Algorithm, Subtype, MadeIndexed, IndexedSubtypes
  <2>3. parsed.ok /\ parsed.iev = iev
    BY <1>12, <1>14 DEF mc_FLE2IndexedEncryptedValueV2_parse, ParsedIev
  <2> HIDE DEF iev, parsed, S_Key, K_Key, value
  <2>4. replace_FLE2IndexedEncryptedValueV2_with_plaintext(Keys, blob) = value
    BY <1>3, <1>4, <1>5, <1>8, <1>9, <1>10, <2>2, <2>3
    DEF replace_FLE2IndexedEncryptedValueV2_with_plaintext, parsed, S_Key, K_Key, value,
        mc_FLE2IndexedEncryptedValueV2_add_S_Key, mc_FLE2IndexedEncryptedValueV2_add_K_Key
  <2> QED
    BY <1>11, <2>1, <2>4
<1> QED
  BY <1>13, <1>14

\* An intact value decrypts, and it traces back to the value inserted.
LEMMA CompleteOpens ==
    ASSUME NEW v, IsValue(v), NEW blob, Complete(blob, v)
    PROVE  replace_ciphertext_with_plaintext(Keys, blob).ok /\ MadeFrom(blob, v)
BY CompleteDirect, CompletePayload, CompleteIndexed DEF Complete, MadeFrom

\* An insert payload that no server has processed is complete.
LEMMA InsertIsComplete ==
    ASSUME NEW v, IsValue(v), NEW index, NEW cf, NEW blob, MadeInsert(blob, v, index, cf)
    PROVE  Complete(blob, v)
<1>1. PICK doc : blob = Blob(InsertV2, doc) /\ PayloadDoc(doc, v, index, cf)
  BY DEF MadeInsert
<1>2. blob.subtype = InsertV2 /\ blob.doc = doc
  BY <1>1 DEF Blob
<1>3. MadePayload(blob, v)
  BY <1>1 DEF MadePayload, PayloadDoc, PayloadSubtypes, InsertV2
<1>4. ~ (\/ ~({"d", "s", "p", "u", "t", "v", "e", "l", "k"} \subseteq DOMAIN doc)
         \/ doc.t \notin 0..255 \/ doc.k < 0)
  BY <1>1, CodeIsByte DEF PayloadDoc
<1>5. mc_FLE2InsertUpdatePayloadV2_parse(doc) =
        [ok |-> TRUE, valueType |-> doc.t, indexKeyId |-> doc.u, value |-> doc.v,
         userKeyId |-> doc.v.keyId, serverEncryptionToken |-> doc.e, contentionFactor |-> doc.k]
  BY <1>4, Zenon DEF mc_FLE2InsertUpdatePayloadV2_parse
<1>6. mc_FLE2InsertUpdatePayloadV2_parse(doc).ok
  BY <1>5
<1> QED
  BY <1>2, <1>3, <1>6 DEF Complete

\* What an insert leaves in the collection
LEMMA InsertStores ==
    ASSUME NEW f, NEW v, IsValue(v), NEW cf, NEW iv, NEW blob,
           blob = Encrypt(f, <<>>, v, cf, iv), blob.ok, NEW fresh
    PROVE  Complete(ServerStore(blob, fresh).stored, v)
<1> DEFINE stored == ServerStore(blob, fresh).stored
<1>1. CASE MadeDirect(blob, v)
  <2>1. PICK sub, c : sub \in DirectSubtypes /\ blob = EncryptedBlob(sub, UserKey, Code(v), c)
    BY <1>1 DEF MadeDirect
  <2>2. blob.subtype # Subtype.FLE2InsertUpdatePayloadV2
    BY <2>1 DEF EncryptedBlob, DirectSubtypes, Subtype
  <2>3. stored = blob
    BY <2>2 DEF ServerStore
  <2> QED
    BY <1>1, <2>3 DEF Complete
<1>2. CASE \E index \in Keys : MadeInsert(blob, v, index, cf)
  <2>1. PICK index \in Keys : MadeInsert(blob, v, index, cf)
    BY <1>2
  <2>2. PICK doc : blob = Blob(InsertV2, doc) /\ PayloadDoc(doc, v, index, cf) /\ TagsFit(doc)
    BY <2>1 DEF MadeInsert
  <2>3. stored = ServerStore(Blob(InsertV2, doc), fresh).stored
    BY <2>2
  <2> HIDE DEF stored
  <2> QED
    BY <2>2, <2>3, StoreMakes DEF Complete, stored
<1> QED
  BY <1>1, <1>2, EncryptMakes

\* The user's ciphertext of a legacy client
LEMMA LegacyEncrypts ==
    ASSUME NEW v, IsValue(v), NEW sub, NEW alg, alg = Algorithm(sub), NEW iv, NEW aad
    PROVE  SealedValue(do_encryption(alg, iv, aad, OwnKey, Bytes(v)).c, sub, aad, v)
<1> DEFINE enc == do_encryption(alg, iv, aad, OwnKey, Bytes(v))
           s == encrypt_step(alg, OwnKey, iv, Bytes(v))
           c == [iv |-> iv, s |-> s, tag |-> hmac_step(alg, OwnKey, aad, iv, s)]
<1>1. Len(Bytes(v)) > 0 /\ Bytes(v) \in Seq(Int)
  BY ValueBytes DEF Bytes
<1>2. ~ (Len(Bytes(v)) = 0)
  BY <1>1
<1>3. Len(OwnKey) = alg.parts
  BY KeyParts, AuthenticatedFacts, AlgorithmsAuthenticate DEF OwnKey
<1>4. enc = [ok |-> TRUE, c |-> c]
  BY <1>2, <1>3, Zenon DEF do_encryption
<1> HIDE DEF c
<1>5. enc.ok
  BY <1>4
<1> HIDE DEF enc
<1> QED
  BY <1>5, EncryptionSeals DEF enc

\* What an old client or server left in the collection
LEMMA LegacyStores ==
    ASSUME NEW f, NEW v, IsValue(v), NEW iv, NEW blob \in LegacyBlobs(f, v, iv)
    PROVE  Complete(blob, v)
<1> DEFINE t == TypeCode[v.t]
           bytes == mongocrypt_buffer_from_iter(v)
           old == do_encryption(FLE2AEADAlgorithm, iv, <<UserKey>>, KeyMaterial(UserKey), bytes)
           value == [keyId |-> UserKey, c |-> old.c]
           token == ServerDataEncryptionLevel1Token(TokenKey(KeyMaterial(IndexKeyId)))
           uev == UnindexedEncryptedValueCommon_encrypt(Subtype.FLE2UnindexedEncryptedValue,
                      UserKey, t, iv, bytes, KeyMaterial(UserKey))
           iup == Encrypt(f, <<>>, v, 0, iv)
           doc == [d |-> Bogus, s |-> Bogus, c |-> Bogus, p |-> Bogus, u |-> IndexKeyId,
                   t |-> t, v |-> value, e |-> token]
<1>1. \/ blob = EncryptedBlob(Subtype.FLE2UnindexedEncryptedValue, UserKey, t, uev.c)
      \/ blob = iup /\ blob.ok
      \/ blob = mc_FLE2IndexedEncryptedValue_write(IndexKeyId, t, token, iv, value)
      \/ blob = Blob(Subtype.FLE2InsertUpdatePayload, doc)
  <2> HIDE DEF t, bytes, uev, iup, value, token, doc
  <2>1. CASE f.alg = "Unindexed"
    BY <2>1 DEF LegacyBlobs, t, bytes, uev
  <2>2. CASE f.alg = "Indexed"
    BY <2>2 DEF LegacyBlobs, t, bytes, iup, value, token, doc
  <2>3. CASE f.alg # "Unindexed" /\ f.alg # "Indexed"
    BY <2>3 DEF LegacyBlobs
  <2> QED
    BY <2>1, <2>2, <2>3
<1>2. t = Code(v) /\ bytes = Bytes(v)
  BY DEF Code, Bytes
<1>3. CASE blob = EncryptedBlob(Subtype.FLE2UnindexedEncryptedValue, UserKey, t, uev.c)
  <2> DEFINE sub == Subtype.FLE2UnindexedEncryptedValue
  <2>1. UnindexedAlgorithm(sub) = Algorithm(sub) /\ sub \in DirectSubtypes
    BY DEF UnindexedAlgorithm, Algorithm, DirectSubtypes, Subtype
  <2> HIDE DEF sub
  <2>2. uev = do_encryption(Algorithm(sub), iv, <<sub, UserKey, Code(v)>>, OwnKey, Bytes(v))
    BY <1>2, <2>1 DEF UnindexedEncryptedValueCommon_encrypt, OwnKey, sub
  <2> HIDE DEF uev
  <2>3. SealedValue(uev.c, sub, <<sub, UserKey, Code(v)>>, v)
    BY <2>2, LegacyEncrypts
  <2> QED
    BY <1>2, <1>3, <2>1, <2>3 DEF Complete, MadeDirect, sub
<1>4. CASE blob = iup /\ blob.ok
  <2>1. MadeDirect(blob, v) \/ \E index \in Keys : MadeInsert(blob, v, index, 0)
    BY <1>4, EncryptMakes
  <2> QED
    BY <2>1, InsertIsComplete DEF Complete
<1>5. FLE2AEADAlgorithm = Algorithm(Subtype.FLE2IndexedEqualityEncryptedValue)
      /\ FLE2AEADAlgorithm = Algorithm(Subtype.FLE2InsertUpdatePayload)
  BY DEF Algorithm, Subtype
<1>6. /\ SealedValue(old.c, Subtype.FLE2IndexedEqualityEncryptedValue, <<UserKey>>, v)
      /\ SealedValue(old.c, Subtype.FLE2InsertUpdatePayload, <<UserKey>>, v)
  <2>1. old = do_encryption(FLE2AEADAlgorithm, iv, <<UserKey>>, OwnKey, Bytes(v))
    BY DEF OwnKey, Bytes
  <2> HIDE DEF old
  <2> QED
    BY <1>5, <2>1, LegacyEncrypts
<1> HIDE DEF t, bytes, old
<1>7. CASE blob = mc_FLE2IndexedEncryptedValue_write(IndexKeyId, t, token, iv, value)
  <2> HIDE DEF token
  <2> DEFINE sub == Subtype.FLE2IndexedEqualityEncryptedValue
  <2>1. sub \in IndexedSubtypes
    BY DEF IndexedSubtypes
  <2>2. /\ blob.subtype = sub /\ blob.keyId = IndexKeyId
        /\ blob.t = t /\ blob.sev = SealEnvelope(token, iv, value)
        /\ {"subtype", "keyId", "t", "sev"} \subseteq DOMAIN blob /\ "doc" \notin DOMAIN blob
    <3> HIDE DEF value
    <3> QED
      BY <1>7 DEF mc_FLE2IndexedEncryptedValue_write
  <2> HIDE DEF sub
  <2>3. MadeIndexed(blob, v)
    BY <1>2, <1>6, <2>1, <2>2 DEF MadeIndexed, sub
  <2>4. Enveloped(blob)
    BY <2>2 DEF Enveloped, SealEnvelope, EnvelopeToken, token, Keys
  <2> QED
    BY <2>2, <2>3, <2>4 DEF Complete, sub
<1>8. CASE blob = Blob(Subtype.FLE2InsertUpdatePayload, doc)
  <2> HIDE DEF token
  <2> DEFINE sub == Subtype.FLE2InsertUpdatePayload
  <2>1. sub \in PayloadSubtypes /\ sub # InsertV2
    BY DEF PayloadSubtypes, InsertV2, Subtype
  <2>2. blob.subtype = sub /\ blob.doc = doc
    <3> HIDE DEF doc
    <3> QED
      BY <1>8 DEF Blob
  <2>3. doc.v = value /\ doc.t = t /\ DOMAIN doc = {"d", "s", "c", "p", "u", "t", "v", "e"}
    <3> HIDE DEF value
    <3> QED
      OBVIOUS
  <2> HIDE DEF doc, sub
  <2>4. MadePayload(blob, v)
    BY <1>2, <1>6, <1>8, <2>1, <2>3 DEF MadePayload, sub
  <2>5. doc.t \in 0..255
    BY <1>2, <2>3, CodeIsByte
  <2>6. mc_FLE2InsertUpdatePayload_parse(doc).ok
    <3>1. ~ (~({"d", "s", "c", "p", "u", "t", "v", "e"} \subseteq DOMAIN doc) \/ doc.t \notin 0..255)
      BY <2>3, <2>5
    <3>2. mc_FLE2InsertUpdatePayload_parse(doc) =
            [ok |-> TRUE, valueType |-> doc.t, value |-> doc.v, userKeyId |-> doc.v.keyId]
      BY <3>1, Zenon DEF mc_FLE2InsertUpdatePayload_parse
    <3> QED
      BY <3>2
  <2> QED
    BY <2>1, <2>2, <2>4, <2>6 DEF Complete
<1> QED
  BY <1>1, <1>3, <1>4, <1>7, <1>8

-----------------------------------------------------------------------------
(***************************************************************************)
(* The collection: each document is intact and complete, or damaged and    *)
(* still traceable.  The result of a decryption is that of the document    *)
(* as it is: nothing changes the collection while a result is held.        *)
(***************************************************************************)
DocInv(d) ==
    /\ {"v", "stored", "intact"} \subseteq DOMAIN d /\ d = [x \in DOMAIN d |-> d[x]]
    /\ IsValue(d.v) /\ StoredFrom(d.stored, d.v)
    /\ d.intact => Complete(d.stored, d.v)

CollInv == (\E S : coll \in Seq(S)) /\ \A i \in DOMAIN coll : DocInv(coll[i])

PlainInv ==
    plain.doc # 0 =>
        /\ plain.doc \in DOMAIN coll
        /\ plain.res = replace_ciphertext_with_plaintext(Keys, coll[plain.doc].stored)

StoreInv == FieldKept /\ CollInv /\ PlainInv

\* No result is held between two operations.
LEMMA IdleHoldsNone == Idle => plain.doc = 0
BY DEF Idle, NoPlain

\* A document that is complete when it is added
LEMMA DocAdded ==
    ASSUME CollInv, NEW d, coll' = Append(coll, d), DocInv(d)
    PROVE  CollInv'
<1>1. PICK S : coll \in Seq(S)
  BY DEF CollInv
<1>2. coll \in Seq(S \union {d}) /\ d \in S \union {d}
  BY <1>1
<1>3. /\ coll' \in Seq(S \union {d}) /\ Len(coll') = Len(coll) + 1
      /\ \A i \in 1..Len(coll) : coll'[i] = coll[i]
      /\ coll'[Len(coll) + 1] = d
  BY <1>2, AppendProperties
<1>4. Len(coll) \in Nat /\ DOMAIN coll = 1..Len(coll) /\ DOMAIN coll' = 1..(Len(coll) + 1)
  BY <1>1, <1>3, LenProperties
<1>5. ASSUME NEW i \in DOMAIN coll' PROVE DocInv(coll'[i])
  <2>1. i \in 1..Len(coll) \/ i = Len(coll) + 1
    BY <1>4
  <2> QED
    BY <1>3, <1>4, <2>1 DEF CollInv
<1> QED
  BY <1>3, <1>5 DEF CollInv

\* A document made of its parts
LEMMA DocMade ==
    ASSUME NEW v, IsValue(v), NEW legacy, NEW tags, NEW params, NEW stored, Complete(stored, v)
    PROVE  DocInv([v |-> v, intact |-> TRUE, legacy |-> legacy, tags |-> tags,
                   params |-> params, stored |-> stored])
<1> DEFINE d == [v |-> v, intact |-> TRUE, legacy |-> legacy, tags |-> tags,
                 params |-> params, stored |-> stored]
<1>1. /\ {"v", "stored", "intact"} \subseteq DOMAIN d /\ d = [x \in DOMAIN d |-> d[x]]
      /\ d.v = v /\ d.stored = stored
  OBVIOUS
<1>2. StoredFrom(stored, v)
  BY CompleteOpens, MadeIsStored
<1> HIDE DEF d
<1>3. DocInv(d)
  BY <1>1, <1>2 DEF DocInv
<1> QED
  BY <1>3 DEF d

\* One step keeps the collection traceable.
LEMMA StoreStep == StoreInv /\ [Next]_vars => StoreInv'
<1> SUFFICES ASSUME StoreInv, [Next]_vars PROVE StoreInv'
  OBVIOUS
<1> USE DEF StoreInv
<1>1. FieldKept'
  BY DEF FieldKept, vars, Next, Insert, InsertLegacy, FindValue, FindExpression, Decrypt, Damage, Done
<1>2. \A v \in Field.values : IsValue(v)
  BY FieldsAssumption DEF FieldKept, Field
<1>3. ASSUME UNCHANGED <<coll, plain>> PROVE StoreInv'
  BY <1>1, <1>3 DEF CollInv, PlainInv
<1>4. ASSUME Idle, UNCHANGED plain PROVE PlainInv'
  BY <1>4, IdleHoldsNone DEF PlainInv
<1>5. ASSUME NEW v \in Field.values, NEW cf \in Contention(Field), Insert(v, cf) PROVE StoreInv'
  <2>1. Idle /\ UNCHANGED plain
    BY <1>5 DEF Insert
  <2>2. PICK blob : /\ blob = Encrypt(Field, <<>>, v, cf, FreshIv(Len(coll)))
                    /\ IF blob.ok
                       THEN coll' = Append(coll,
                              [v |-> v, intact |-> TRUE, legacy |-> FALSE,
                               tags |-> ServerStore(blob, FreshIv(MaxDocs + Len(coll))).tags,
                               params |-> ServerStore(blob, FreshIv(MaxDocs + Len(coll))).params,
                               stored |-> ServerStore(blob, FreshIv(MaxDocs + Len(coll))).stored])
                       ELSE UNCHANGED coll
    BY <1>5, Zenon DEF Insert
  <2>3. CASE ~ blob.ok
    BY <1>3, <2>1, <2>2, <2>3
  <2>4. CASE blob.ok
    <3> DEFINE kept == ServerStore(blob, FreshIv(MaxDocs + Len(coll)))
    <3>1. Complete(kept.stored, v)
      BY <1>2, <2>2, <2>4, InsertStores
    <3>2. CollInv'
      <4> HIDE DEF kept
      <4> DEFINE d == [v |-> v, intact |-> TRUE, legacy |-> FALSE, tags |-> kept.tags,
                       params |-> kept.params, stored |-> kept.stored]
      <4>1. coll' = Append(coll, d)
        BY <2>2, <2>4, Zenon DEF kept
      <4>2. DocInv(d)
        BY <1>2, <3>1, DocMade
      <4> HIDE DEF d
      <4> QED
        BY <4>1, <4>2, DocAdded
    <3> QED
      BY <1>1, <1>4, <2>1, <3>2
  <2> QED
    BY <2>3, <2>4
<1>6. ASSUME NEW v \in Field.values, InsertLegacy(v) PROVE StoreInv'
  <2>1. Idle /\ UNCHANGED plain
    BY <1>6 DEF InsertLegacy
  <2>2. PICK blob \in LegacyBlobs(Field, v, FreshIv(Len(coll))) :
          coll' = Append(coll, [v |-> v, intact |-> TRUE, legacy |-> TRUE,
                                tags |-> <<>>, params |-> <<>>, stored |-> blob])
    BY <1>6 DEF InsertLegacy
  <2>3. Complete(blob, v)
    BY <1>2, <2>2, LegacyStores
  <2> DEFINE d == [v |-> v, intact |-> TRUE, legacy |-> TRUE,
                   tags |-> <<>>, params |-> <<>>, stored |-> blob]
  <2>4. DocInv(d)
    BY <1>2, <2>3, DocMade
  <2>5. coll' = Append(coll, d)
    BY <2>2
  <2> HIDE DEF d
  <2>6. CollInv'
    BY <2>4, <2>5, DocAdded
  <2> QED
    BY <1>1, <1>4, <2>1, <2>6
<1>7. ASSUME NEW q \in Field.queries, FindValue(q) \/ FindExpression(q) PROVE StoreInv'
  BY <1>3, <1>7 DEF FindValue, FindExpression
<1>8. ASSUME NEW i \in DOMAIN coll, Decrypt(i) PROVE StoreInv'
  <2>1. /\ plain' = [doc |-> i, res |-> replace_ciphertext_with_plaintext(Keys, coll[i].stored)]
        /\ coll' = coll
    BY <1>8 DEF Decrypt
  <2>2. plain'.doc = i /\ plain'.res = replace_ciphertext_with_plaintext(Keys, coll[i].stored)
    BY <2>1
  <2> QED
    BY <1>1, <2>1, <2>2 DEF CollInv, PlainInv
<1>9. ASSUME NEW i \in DOMAIN coll, Damage(i) PROVE StoreInv'
  <2>1. Idle /\ Intact /\ UNCHANGED plain
    BY <1>9 DEF Damage
  <2>2. PICK blob \in Damaged(coll[i].stored) :
          coll' = [coll EXCEPT ![i].stored = blob, ![i].intact = FALSE]
    BY <1>9 DEF Damage
  <2> DEFINE d == coll[i]
             e == [[d EXCEPT !.stored = blob] EXCEPT !.intact = FALSE]
  <2>3. DocInv(d) /\ d.intact
    BY <2>1 DEF CollInv, Intact
  <2>4. StoredFrom(blob, d.v)
    BY <2>2, <2>3, CompleteOpens, DamagedIsStored DEF DocInv
  <2>5. PICK S : coll \in Seq(S)
    BY DEF CollInv
  <2>6. /\ coll' = [coll EXCEPT ![i] = e]
    BY <2>2
  <2>7. e.v = d.v /\ e.stored = blob /\ e.intact = FALSE /\ DOMAIN e = DOMAIN d
        /\ e = [x \in DOMAIN e |-> e[x]]
    <3> HIDE DEF d
    <3> QED
      BY <2>3 DEF DocInv
  <2> HIDE DEF e
  <2>8. DocInv(e)
    BY <2>3, <2>4, <2>7 DEF DocInv
  <2>9. coll' \in Seq(S \union {e}) /\ DOMAIN coll' = DOMAIN coll
    BY <2>5, <2>6
  <2>10. \A j \in DOMAIN coll : coll'[j] = IF j = i THEN e ELSE coll[j]
    BY <2>6
  <2>11. CollInv'
    BY <2>8, <2>9, <2>10 DEF CollInv
  <2> QED
    BY <1>1, <1>4, <2>1, <2>11
<1>10. ASSUME Done PROVE StoreInv'
  <2>1. plain'.doc = 0 /\ coll' = coll
    BY <1>10 DEF Done, NoPlain
  <2> QED
    BY <1>1, <2>1 DEF CollInv, PlainInv
<1>11. CASE UNCHANGED vars
  BY <1>3, <1>11 DEF vars
<1> QED
  BY <1>5, <1>6, <1>7, <1>8, <1>9, <1>10, <1>11 DEF Next

\* The collection at the start
LEMMA StoreInit == Init => StoreInv
<1> SUFFICES ASSUME Init PROVE StoreInv
  OBVIOUS
<1>1. coll = <<>> /\ plain.doc = 0 /\ field \in DOMAIN Fields
  BY DEF Init, NoPlain
<1>2. coll \in Seq({}) /\ DOMAIN coll = {}
  BY <1>1
<1> QED
  BY <1>1, <1>2 DEF StoreInv, FieldKept, CollInv, PlainInv

(***************************************************************************)
(* A value that is intact decrypts to what was inserted, and one that was  *)
(* damaged decrypts to the bytes inserted or to an error, never to other   *)
(* bytes (mongocrypt-crypto.c:1072, mongocrypt-ctx-decrypt.c), as a value  *)
(* of the type that is stored, which is the type inserted wherever the     *)
(* HMAC covers it: for every field configuration, every value, and every   *)
(* algorithm of both protocols.                                            *)
(***************************************************************************)
THEOREM DecryptsAlways == Spec => []DecryptsToInserted
<1>1. StoreInv => DecryptsToInserted
  <2> SUFFICES ASSUME StoreInv, plain.doc # 0
               PROVE  LET doc == coll[plain.doc]
                      IN /\ doc.intact => plain.res.ok
                         /\ plain.res.ok =>
                              /\ plain.res.bytes = mongocrypt_buffer_from_iter(doc.v)
                              /\ plain.res.t = StoredType(doc.stored)
                              /\ doc.intact \/ doc.stored.subtype \in TypeCovered =>
                                    plain.res.t = TypeCode[doc.v.t]
    BY DEF DecryptsToInserted, IntactDecrypts, NeverOtherBytes
  <2> DEFINE d == coll[plain.doc]
  <2>1. DocInv(d) /\ plain.res = replace_ciphertext_with_plaintext(Keys, d.stored)
    BY DEF StoreInv, CollInv, PlainInv
  <2> HIDE DEF d
  <2>2. d.intact => plain.res.ok /\ StoredType(d.stored) = Code(d.v)
    BY <2>1, CompleteOpens, MadeType DEF DocInv
  <2>3. plain.res.ok => /\ plain.res = Value(StoredType(d.stored), Bytes(d.v))
                        /\ d.stored.subtype \in TypeCovered => StoredType(d.stored) = Code(d.v)
    BY <2>1, StoredOpens DEF DocInv
  <2>4. plain.res.ok => plain.res.bytes = Bytes(d.v) /\ plain.res.t = StoredType(d.stored)
    BY <2>3 DEF Value
  <2> QED
    BY <2>2, <2>3, <2>4 DEF d, Bytes, Code
<1> QED
  BY <1>1, StoreInit, StoreStep, PTL DEF Spec

-----------------------------------------------------------------------------
(***************************************************************************)
(* The counter blocks of a message.  A block is a number in base           *)
(* ByteValues; ctr_increment adds 1 to it and wraps around at the number   *)
(* of blocks, so that no more blocks than that are all different.          *)
(***************************************************************************)
Counters == [1..CounterBytes -> 0..(ByteValues - 1)]

\* p[k] is the number the first k bytes of a counter block are.
Reads(p, ctr) ==
    /\ p \in [0..CounterBytes -> Nat] /\ p[0] = 0
    /\ \A k \in 1..CounterBytes : p[k] = ByteValues * p[k - 1] + ctr[k]

\* Every counter block is a number.
LEMMA ReadsExists ==
    ASSUME NEW ctr \in Counters
    PROVE  \E p : Reads(p, ctr)
<1> DEFINE step == [kx \in Nat \X Nat |->
                       IF kx[1] \in 1..CounterBytes THEN ByteValues * kx[2] + ctr[kx[1]] ELSE 0]
<1>1. CounterBytes \in Nat /\ ByteValues \in Nat
  BY CryptoAssumption
<1>2. \A k \in Nat, x \in Nat : step[<<k, x>>] \in Nat
  <2> SUFFICES ASSUME NEW k \in Nat, NEW x \in Nat PROVE step[<<k, x>>] \in Nat
    OBVIOUS
  <2>1. CASE k \in 1..CounterBytes
    <3>1. ByteValues * x \in Nat /\ ctr[k] \in Nat
      BY <1>1, <2>1 DEF Counters
    <3> QED
      BY <2>1, <3>1
  <2>2. CASE k \notin 1..CounterBytes
    BY <2>2
  <2> QED
    BY <2>1, <2>2
<1>3. step \in [Nat \X Nat -> Nat]
  <2>1. \A kx \in Nat \X Nat : kx = <<kx[1], kx[2]>> /\ kx[1] \in Nat /\ kx[2] \in Nat
    OBVIOUS
  <2>2. \A kx \in Nat \X Nat : step[kx] \in Nat
    BY <1>2, <2>1
  <2>3. step = [kx \in Nat \X Nat |-> step[kx]]
    OBVIOUS
  <2> HIDE DEF step
  <2> QED
    BY <2>2, <2>3
<1>4. \A k \in 1..CounterBytes, x \in Nat : step[<<k, x>>] = ByteValues * x + ctr[k]
  OBVIOUS
<1> HIDE DEF step
<1>5. PICK p \in [0..CounterBytes -> Nat] :
          Iterates(p, 0, step, CounterBytes)
  <2>1. 0 \in Nat
    OBVIOUS
  <2> QED
    BY <1>1, <1>3, <2>1, IterationExists, Zenon
<1>6. ASSUME NEW k \in 1..CounterBytes PROVE p[k] = ByteValues * p[k - 1] + ctr[k]
  <2>1. k - 1 \in 0..CounterBytes
    BY <1>1
  <2> QED
    BY <1>4, <1>5, <2>1 DEF Iterates
<1> QED
  BY <1>5, <1>6 DEF Reads, Iterates

\* The number of values the first k bytes can have
LEMMA ValuesGrow ==
    /\ CounterValues[0] = 1
    /\ \A k \in 0..CounterBytes : CounterValues[k] \in Nat \ {0}
    /\ \A k \in 1..CounterBytes : CounterValues[k] = ByteValues * CounterValues[k - 1]
<1> DEFINE Fits(f) == f = [k \in 0..CounterBytes |-> IF k = 0 THEN 1 ELSE ByteValues * f[k - 1]]
           step == [kx \in Nat \X (Nat \ {0}) |-> ByteValues * kx[2]]
<1>1. CounterBytes \in Nat /\ ByteValues \in Nat \ {0}
  BY CryptoAssumption
<1>2. step \in [Nat \X (Nat \ {0}) -> Nat \ {0}]
  <2>1. ASSUME NEW kx \in Nat \X (Nat \ {0}) PROVE ByteValues * kx[2] \in Nat \ {0}
    <3>1. kx[2] \in Nat \ {0}
      OBVIOUS
    <3> DEFINE x == kx[2]
    <3> HIDE DEF x
    <3>2. ASSUME NEW y \in Nat \ {0}, NEW b \in Nat \ {0} PROVE b * y \in Nat \ {0}
      BY <3>2
    <3> QED
      BY <1>1, <3>1, <3>2
  <2> QED
    BY <2>1
<1>3. \A k \in Nat, x \in Nat \ {0} : step[<<k, x>>] = ByteValues * x
  OBVIOUS
<1> HIDE DEF step
<1>4. PICK p \in [0..CounterBytes -> Nat \ {0}] :
          Iterates(p, 1, step, CounterBytes)
  <2>1. 1 \in Nat \ {0}
    OBVIOUS
  <2> QED
    BY <1>1, <1>2, <2>1, IterationExists, Zenon
<1>5. ASSUME NEW k \in 1..CounterBytes PROVE p[k] = ByteValues * p[k - 1]
  <2>1. k - 1 \in 0..CounterBytes /\ k \in Nat
    BY <1>1
  <2>2. p[k - 1] \in Nat \ {0}
    BY <1>4, <2>1
  <2> QED
    BY <1>3, <1>4, <2>1, <2>2 DEF Iterates
<1>6. Fits(p)
  <2>1. p = [k \in 0..CounterBytes |-> p[k]]
    OBVIOUS
  <2>2. \A k \in 0..CounterBytes : p[k] = IF k = 0 THEN 1 ELSE ByteValues * p[k - 1]
    BY <1>4, <1>5 DEF Iterates
  <2> QED
    BY <2>1, <2>2
<1>7. CounterValues = CHOOSE f : Fits(f)
  BY DEF CounterValues
<1>8. Fits(CounterValues)
  <2> HIDE DEF Fits
  <2> QED
    BY <1>6, <1>7, Zenon
<1> DEFINE f == CounterValues
<1>9. Fits(f)
  BY <1>8
<1> HIDE DEF f
<1>10. \A k \in 0..CounterBytes : f[k] = IF k = 0 THEN 1 ELSE ByteValues * f[k - 1]
  BY <1>9
<1>11. f[0] = 1 /\ \A k \in 1..CounterBytes : f[k] = ByteValues * f[k - 1]
  BY <1>1, <1>10
<1> DEFINE Typed == {k \in Nat : k \in 0..CounterBytes => f[k] \in Nat \ {0}}
<1>12. 0 \in Typed
  BY <1>11
<1>13. ASSUME NEW k \in Nat, k \in Typed PROVE k + 1 \in Typed
  <2> SUFFICES ASSUME k + 1 \in 0..CounterBytes PROVE f[k + 1] \in Nat \ {0}
    OBVIOUS
  <2>1. k + 1 \in 1..CounterBytes /\ (k + 1) - 1 = k /\ k \in 0..CounterBytes
    BY <1>1
  <2>2. f[k + 1] = ByteValues * f[k] /\ f[k] \in Nat \ {0}
    BY <1>11, <1>13, <2>1
  <2>3. ASSUME NEW y \in Nat \ {0}, NEW b \in Nat \ {0} PROVE b * y \in Nat \ {0}
    BY <2>3
  <2> QED
    BY <1>1, <2>2, <2>3
<1>14. Nat \subseteq Typed
  <2> HIDE DEF Typed
  <2> QED
    BY <1>12, <1>13, NatSetInduction
<1>15. \A k \in 0..CounterBytes : f[k] \in Nat \ {0}
  BY <1>14
<1> QED
  BY <1>11, <1>15 DEF f

\* The digits of a number below its base: the steps of adding 1
LEMMA DigitCarry ==
    ASSUME NEW b \in Nat \ {0, 1}, NEW m \in Nat \ {0}, NEW x \in 0..(m - 1), NEW d \in 0..(b - 1)
    PROVE  /\ b * m \in Nat \ {0} /\ b * x + d \in 0..(b * m - 1)
           /\ d < b - 1 => b * x + d < b * m - 1
           /\ x < m - 1 => b * x + d < b * m - 1
           /\ d = b - 1 /\ x < m - 1 => b * (x + 1) = b * x + d + 1
           /\ d = b - 1 /\ x = m - 1 => b * x + d = b * m - 1
<1> DEFINE u == m - 1 - x
<1>1. u \in Nat /\ m = u + x + 1
  OBVIOUS
<1>2. b * m = b * u + b * x + b /\ b * (x + 1) = b * x + b
  BY <1>1
<1>3. b * x \in Nat /\ b * u \in Nat /\ b * m \in Int
  BY <1>1
<1>4. u > 0 => b * u >= b
  <2>1. ASSUME u > 0 PROVE b * u >= b
    <3>1. u - 1 \in Nat /\ b * u = b * (u - 1) + b
      BY <1>1, <2>1
    <3>2. b * (u - 1) \in Nat
      BY <3>1
    <3> QED
      BY <3>1, <3>2
  <2> QED
    BY <2>1
<1>5. u = 0 => b * u = 0
  OBVIOUS
<1>6. x < m - 1 <=> u > 0
  OBVIOUS
<1>7. x = m - 1 <=> u = 0
  OBVIOUS
<1> DEFINE bu == b * u
           bx == b * x
           bm == b * m
           bs == b * (x + 1)
<1> HIDE DEF u, bu, bx, bm, bs
<1>8. /\ bm = bu + bx + b /\ bs = bx + b
      /\ bx \in Nat /\ bu \in Nat
      /\ (u > 0 => bu >= b) /\ (u = 0 => bu = 0)
  BY <1>2, <1>3, <1>4, <1>5 DEF bu, bx, bm, bs
<1>9. /\ bm \in Nat \ {0} /\ bx + d \in 0..(bm - 1)
      /\ d < b - 1 => bx + d < bm - 1
      /\ x < m - 1 => bx + d < bm - 1
      /\ d = b - 1 /\ x < m - 1 => bs = bx + d + 1
      /\ d = b - 1 /\ x = m - 1 => bx + d = bm - 1
  BY <1>1, <1>6, <1>7, <1>8
<1> QED
  BY <1>9 DEF bx, bm, bs

\* Whether a carry reaches byte k
Carries(ctr, k) == \A j \in (k + 1)..CounterBytes : ctr[j] = ByteValues - 1

\* ctr_increment, byte by byte
LEMMA IncrementBytes ==
    ASSUME NEW ctr \in Counters
    PROVE  /\ ctr_increment(ctr) \in Counters
           /\ \A k \in 1..CounterBytes :
                 ctr_increment(ctr)[k] =
                     IF Carries(ctr, k) THEN IF ctr[k] = ByteValues - 1 THEN 0 ELSE ctr[k] + 1
                     ELSE ctr[k]
<1>1. ByteValues \in Nat \ {0, 1}
  BY CryptoAssumption
<1>2. ctr_increment(ctr) = [k \in 1..CounterBytes |->
           IF Carries(ctr, k) THEN (ctr[k] + 1) % ByteValues ELSE ctr[k]]
  BY DEF ctr_increment, Carries
<1>3. ASSUME NEW d \in 0..(ByteValues - 1)
      PROVE  (d + 1) % ByteValues = IF d = ByteValues - 1 THEN 0 ELSE d + 1
  BY <1>1
<1>4. \A k \in 1..CounterBytes : ctr[k] \in 0..(ByteValues - 1)
  BY DEF Counters
<1>5. \A k \in 1..CounterBytes :
         ctr_increment(ctr)[k] =
             IF Carries(ctr, k) THEN IF ctr[k] = ByteValues - 1 THEN 0 ELSE ctr[k] + 1 ELSE ctr[k]
  BY <1>2, <1>3, <1>4
<1>6. \A k \in 1..CounterBytes : ctr_increment(ctr)[k] \in 0..(ByteValues - 1)
  BY <1>1, <1>4, <1>5
<1>7. ctr_increment(ctr) = [k \in 1..CounterBytes |-> ctr_increment(ctr)[k]]
  BY <1>2
<1>8. ctr_increment(ctr) \in Counters
  BY <1>6, <1>7 DEF Counters
<1> QED
  BY <1>5, <1>8

\* The numbers of the prefixes of a counter block, before and after 1 is added
Added(ctr, p, q, k) ==
    /\ p[k] \in 0..(CounterValues[k] - 1)
    /\ q[k] = IF ~Carries(ctr, k) THEN p[k]
              ELSE IF p[k] = CounterValues[k] - 1 THEN 0 ELSE p[k] + 1

\* The next counter block is one more, or wraps around to 0.
LEMMA IncrementAdds ==
    ASSUME NEW ctr \in Counters, NEW p, NEW q, Reads(p, ctr), Reads(q, ctr_increment(ctr))
    PROVE  \A k \in 0..CounterBytes : Added(ctr, p, q, k)
<1> DEFINE Good == {k \in Nat : k \in 0..CounterBytes => Added(ctr, p, q, k)}
<1>1. ByteValues \in Nat \ {0, 1} /\ CounterBytes \in Nat
  BY CryptoAssumption
<1>2. 0 \in Good
  BY ValuesGrow DEF Added, Reads
<1>3. ASSUME NEW n \in Nat, n \in Good PROVE n + 1 \in Good
  <2> SUFFICES ASSUME n + 1 \in 0..CounterBytes PROVE Added(ctr, p, q, n + 1)
    OBVIOUS
  <2> DEFINE k == n + 1
             d == ctr[k]
             e == ctr_increment(ctr)[k]
             m == CounterValues[n]
             x == p[n]
             y == q[n]
             b == ByteValues
  <2>1. k \in 1..CounterBytes /\ k - 1 = n /\ n \in 0..CounterBytes
    BY <1>1
  <2>2. p[k] = b * x + d /\ q[k] = b * y + e /\ CounterValues[k] = b * m
    BY <2>1, ValuesGrow DEF Reads
  <2>3. m \in Nat \ {0} /\ d \in 0..(b - 1) /\ b \in Nat \ {0, 1}
    BY <1>1, <2>1, ValuesGrow DEF Counters
  <2>4. Added(ctr, p, q, n)
    BY <1>3, <2>1
  <2>5. x \in 0..(m - 1) /\ y = IF ~Carries(ctr, n) THEN x ELSE IF x = m - 1 THEN 0 ELSE x + 1
    BY <2>4 DEF Added
  <2>6. e = IF Carries(ctr, k) THEN IF d = b - 1 THEN 0 ELSE d + 1 ELSE d
    BY <2>1, IncrementBytes
  <2>7. Carries(ctr, n) <=> Carries(ctr, k) /\ d = b - 1
    <3>1. \A j \in (n + 1)..CounterBytes : j = k \/ j \in (k + 1)..CounterBytes
      BY <1>1, <2>1
    <3>2. k \in (n + 1)..CounterBytes /\ (k + 1)..CounterBytes \subseteq (n + 1)..CounterBytes
      BY <1>1, <2>1
    <3> HIDE DEF k
    <3> QED
      BY <3>1, <3>2 DEF Carries
  <2> HIDE DEF d, e, m, x, y, b
  <2>8. /\ b * x + d \in 0..(b * m - 1)
        /\ d < b - 1 => b * x + d < b * m - 1
        /\ x < m - 1 => b * x + d < b * m - 1
        /\ d = b - 1 /\ x < m - 1 => b * (x + 1) = b * x + d + 1
        /\ d = b - 1 /\ x = m - 1 => b * x + d = b * m - 1
    BY <2>3, <2>5, DigitCarry
  <2>9. b * 0 = 0
    BY <2>3
  <2>10. b * y + e = IF ~Carries(ctr, k) THEN b * x + d
                     ELSE IF b * x + d = b * m - 1 THEN 0 ELSE b * x + d + 1
    <3>1. CASE ~Carries(ctr, k)
      BY <2>5, <2>6, <2>7, <3>1
    <3>2. CASE Carries(ctr, k) /\ d # b - 1
      <4>1. y = x /\ e = d + 1
        BY <2>5, <2>6, <2>7, <3>2
      <4>2. d < b - 1 /\ b * x + d # b * m - 1
        BY <2>3, <2>8, <3>2
      <4>3. b * x \in Int
        BY <2>3, <2>5
      <4> QED
        BY <2>3, <3>2, <4>1, <4>2, <4>3
    <3>3. CASE Carries(ctr, k) /\ d = b - 1 /\ x = m - 1
      <4>1. y = 0 /\ e = 0
        BY <2>5, <2>6, <2>7, <3>3
      <4> QED
        BY <2>8, <2>9, <3>3, <4>1
    <3>4. CASE Carries(ctr, k) /\ d = b - 1 /\ x # m - 1
      <4>1. y = x + 1 /\ e = 0
        BY <2>5, <2>6, <2>7, <3>4
      <4>2. x < m - 1
        BY <2>3, <2>5, <3>4
      <4>3. b * y = b * x + d + 1 /\ b * x + d # b * m - 1
        BY <2>8, <3>4, <4>1, <4>2
      <4>4. b * y \in Int
        BY <2>3, <2>5, <4>1
      <4> QED
        BY <3>4, <4>1, <4>3, <4>4
    <3> QED
      BY <3>1, <3>2, <3>3, <3>4
  <2> QED
    BY <2>2, <2>8, <2>10 DEF Added
<1>4. Nat \subseteq Good
  <2> HIDE DEF Good
  <2> QED
    BY <1>2, <1>3, NatSetInduction
<1> QED
  BY <1>4

\* The number a counter block is
CounterNumber(ctr) == (CHOOSE p : Reads(p, ctr))[CounterBytes]

\* The number of a block and of the next one
LEMMA NumberIncrements ==
    ASSUME NEW ctr \in Counters
    PROVE  /\ CounterNumber(ctr) \in 0..(CounterValues[CounterBytes] - 1)
           /\ CounterNumber(ctr_increment(ctr)) =
                 IF CounterNumber(ctr) = CounterValues[CounterBytes] - 1 THEN 0
                 ELSE CounterNumber(ctr) + 1
<1> DEFINE next == ctr_increment(ctr)
           p == CHOOSE p : Reads(p, ctr)
           q == CHOOSE q : Reads(q, next)
<1>1. next \in Counters
  BY IncrementBytes
<1>2. Reads(p, ctr)
  BY ReadsExists
<1>3. Reads(q, next)
  <2> HIDE DEF next
  <2> QED
    BY <1>1, ReadsExists
<1>4. CounterNumber(ctr) = p[CounterBytes] /\ CounterNumber(next) = q[CounterBytes]
  BY DEF CounterNumber
<1> HIDE DEF p, q
<1>5. CounterBytes \in 0..CounterBytes
  BY CryptoAssumption
<1>6. Added(ctr, p, q, CounterBytes)
  BY <1>2, <1>3, <1>5, IncrementAdds
<1>7. Carries(ctr, CounterBytes)
  BY CryptoAssumption DEF Carries
<1> QED
  BY <1>4, <1>6, <1>7 DEF Added

\* ctr_via_ecb increments the counter from block to block.
LEMMA CountersOf ==
    ASSUME NEW iv \in Counters, NEW n \in Nat \ {0}
    PROVE  LET ctr == ctr_via_ecb(iv, n)
           IN /\ ctr \in [1..n -> Counters] /\ ctr[1] = iv
              /\ \A i \in 1..n : i # 1 => ctr[i] = ctr_increment(ctr[i - 1])
<1> DEFINE step == [kc \in Nat \X Counters |-> ctr_increment(kc[2])]
           Runs(f) == f = [i \in 1..n |-> IF i = 1 THEN iv ELSE ctr_increment(f[i - 1])]
           ctr == CHOOSE f : Runs(f)
<1>1. step \in [Nat \X Counters -> Counters]
  <2>1. \A kc \in Nat \X Counters : kc[2] \in Counters
    OBVIOUS
  <2> QED
    BY <2>1, IncrementBytes
<1>2. \A k \in Nat, c \in Counters : step[<<k, c>>] = ctr_increment(c)
  OBVIOUS
<1> HIDE DEF step
<1>3. n - 1 \in Nat
  OBVIOUS
<1>4. PICK g \in [0..(n - 1) -> Counters] : Iterates(g, iv, step, n - 1)
  BY <1>1, <1>3, IterationExists, Zenon
<1> DEFINE f == [i \in 1..n |-> g[i - 1]]
<1>5. \A i \in 1..n : i - 1 \in 0..(n - 1) /\ f[i] = g[i - 1] /\ f[i] \in Counters
  OBVIOUS
<1>6. f = [i \in 1..n |-> f[i]]
  OBVIOUS
<1> HIDE DEF f
<1>7. ASSUME NEW i \in 1..n
      PROVE  f[i] = IF i = 1 THEN iv ELSE ctr_increment(f[i - 1])
  <2>1. CASE i = 1
    <3>1. f[1] = g[0]
      BY <1>5, <2>1
    <3> QED
      BY <1>4, <2>1, <3>1 DEF Iterates
  <2>2. CASE i # 1
    <3> DEFINE k == i - 1
    <3>1. k \in 1..(n - 1) /\ k \in 1..n /\ k \in Nat /\ k - 1 \in 0..(n - 1)
      BY <2>2
    <3>2. f[i] = g[k] /\ f[k] = g[k - 1]
      BY <1>5, <3>1
    <3>3. g[k - 1] \in Counters
      BY <1>4, <3>1
    <3> HIDE DEF k
    <3>4. g[k] = step[<<k, g[k - 1]>>]
      BY <1>4, <3>1 DEF Iterates
    <3>5. g[k] = ctr_increment(g[k - 1])
      BY <1>2, <3>1, <3>3, <3>4
    <3>6. f[i] = ctr_increment(f[k])
      BY <3>2, <3>5
    <3> QED
      BY <2>2, <3>6 DEF k
  <2> QED
    BY <2>1, <2>2
<1>8. Runs(f)
  BY <1>6, <1>7
<1>9. Runs(ctr)
  <2> HIDE DEF Runs
  <2> QED
    BY <1>8, Zenon
<1>10. ctr_via_ecb(iv, n) = ctr
  BY DEF ctr_via_ecb
<1> HIDE DEF ctr
<1>11. \A i \in 1..n : ctr[i] = IF i = 1 THEN iv ELSE ctr_increment(ctr[i - 1])
  BY <1>9
<1>12. DOMAIN ctr = 1..n /\ ctr = [i \in 1..n |-> ctr[i]]
  BY <1>9
<1> DEFINE Typed == {i \in Nat : i \in 1..n => ctr[i] \in Counters}
<1>13. 0 \in Typed
  OBVIOUS
<1>14. ASSUME NEW i \in Nat, i \in Typed PROVE i + 1 \in Typed
  <2> SUFFICES ASSUME i + 1 \in 1..n PROVE ctr[i + 1] \in Counters
    OBVIOUS
  <2>1. CASE i = 0
    BY <1>11, <2>1
  <2>2. CASE i # 0
    <3>1. i \in 1..n /\ (i + 1) - 1 = i /\ i + 1 # 1
      BY <2>2
    <3>2. ctr[i] \in Counters
      BY <1>14, <3>1
    <3>3. ctr[i + 1] = ctr_increment(ctr[i])
      BY <1>11, <3>1
    <3> QED
      BY <3>2, <3>3, IncrementBytes
  <2> QED
    BY <2>1, <2>2
<1>15. Nat \subseteq Typed
  <2> HIDE DEF Typed
  <2> QED
    BY <1>13, <1>14, NatSetInduction
<1>16. \A i \in 1..n : ctr[i] \in Counters
  BY <1>15
<1>17. ctr \in [1..n -> Counters]
  BY <1>12, <1>16
<1>18. ctr[1] = iv
  BY <1>11
<1> QED
  BY <1>10, <1>11, <1>17, <1>18

\* A number counted around "all" once at most
Wrapped(sum, all) == IF sum < all THEN sum ELSE sum - all

\* From block to block the number counts up, around the number of blocks.
LEMMA CountersCount ==
    ASSUME NEW iv \in Counters, NEW n \in Nat \ {0}, n <= CounterValues[CounterBytes]
    PROVE  \A i \in 1..n :
              CounterNumber(ctr_via_ecb(iv, n)[i]) =
                 Wrapped(CounterNumber(iv) + i - 1, CounterValues[CounterBytes])
<1> DEFINE ctr == ctr_via_ecb(iv, n)
           all == CounterValues[CounterBytes]
           start == CounterNumber(iv)
           At(i) == Wrapped(start + i - 1, all)
           Good == {i \in Nat : i \in 1..n => CounterNumber(ctr[i]) = At(i)}
<1>1. all \in Nat \ {0} /\ start \in 0..(all - 1)
  BY CryptoAssumption, ValuesGrow, NumberIncrements
<1>2. /\ ctr \in [1..n -> Counters] /\ ctr[1] = iv
      /\ \A i \in 1..n : i # 1 => ctr[i] = ctr_increment(ctr[i - 1])
  BY CountersOf
<1>3. \A c \in Counters : CounterNumber(ctr_increment(c)) =
           IF CounterNumber(c) = all - 1 THEN 0 ELSE CounterNumber(c) + 1
  BY NumberIncrements
<1>4. n <= all
  OBVIOUS
<1> HIDE DEF ctr, all
<1>5. CounterNumber(ctr[1]) = start
  BY <1>2
<1> HIDE DEF start
<1>6. 0 \in Good
  OBVIOUS
<1>7. ASSUME NEW i \in Nat, i \in Good PROVE i + 1 \in Good
  <2> SUFFICES ASSUME i + 1 \in 1..n PROVE CounterNumber(ctr[i + 1]) = At(i + 1)
    OBVIOUS
  <2>1. CASE i = 0
    BY <1>1, <1>5, <2>1 DEF Wrapped
  <2>2. CASE i # 0
    <3>1. i \in 1..n /\ (i + 1) - 1 = i /\ i + 1 # 1
      BY <2>2
    <3>2. ctr[i] \in Counters /\ ctr[i + 1] = ctr_increment(ctr[i])
      BY <1>2, <3>1
    <3>3. CounterNumber(ctr[i]) = At(i)
      BY <1>7, <3>1
    <3>4. CounterNumber(ctr[i + 1]) = IF At(i) = all - 1 THEN 0 ELSE At(i) + 1
      BY <1>3, <3>2, <3>3
    <3>5. At(i + 1) = IF At(i) = all - 1 THEN 0 ELSE At(i) + 1
      BY <1>1, <1>4, <3>1 DEF Wrapped
    <3> QED
      BY <3>4, <3>5
  <2> QED
    BY <2>1, <2>2
<1>8. Nat \subseteq Good
  <2> HIDE DEF Good
  <2> QED
    BY <1>6, <1>7, NatSetInduction
<1>9. \A i \in 1..n : CounterNumber(ctr[i]) = At(i)
  BY <1>8
<1> QED
  BY <1>9 DEF ctr, all, start

\* CtrBlocksDistinct for every width of the counter and every message that is
\* no longer than the counter: mongocrypt-crypto.c:39 repeats no counter block.
THEOREM CountersDistinctAlways == Spec => []CtrBlocksDistinct
<1>1. CtrBlocksDistinct
  <2> SUFFICES ASSUME NEW iv \in Counters, NEW i \in 1..CtrBlocks, NEW j \in 1..CtrBlocks,
                      ctr_via_ecb(iv, CtrBlocks)[i] = ctr_via_ecb(iv, CtrBlocks)[j]
               PROVE  i = j
    BY DEF CtrBlocksDistinct, Counters
  <2> DEFINE all == CounterValues[CounterBytes]
             start == CounterNumber(iv)
  <2>1. CtrBlocks \in Nat \ {0} /\ CtrBlocks <= all
    BY CtrAssumption
  <2>2. all \in Nat \ {0} /\ start \in 0..(all - 1)
    BY CryptoAssumption, ValuesGrow, NumberIncrements
  <2>3. ASSUME NEW k \in 1..CtrBlocks
        PROVE  CounterNumber(ctr_via_ecb(iv, CtrBlocks)[k]) =
                  Wrapped(start + k - 1, all)
    BY <2>1, CountersCount
  <2> HIDE DEF all, start
  <2>4. Wrapped(start + i - 1, all) = Wrapped(start + j - 1, all)
    BY <2>3
  <2> QED
    BY <2>1, <2>2, <2>4 DEF Wrapped
<1> QED
  BY <1>1, PTL

-----------------------------------------------------------------------------
(***************************************************************************)
(* The parameters of a range index.  Insert and query choose the trim      *)
(* factor each from the encoding at hand: of the value inserted, and of a  *)
(* bound.  The size of the domain is the same in both.                     *)
(***************************************************************************)
\* The domain of an encoding depends on the type of the value alone.
LEMMA DomainOfType ==
    ASSUME NEW v, NEW w, v.t = w.t, v.t \in RangeTypes, NEW min, NEW max, NEW p,
           getTypeInfo(v, min, max, p).ok, getTypeInfo(w, min, max, p).ok
    PROVE  getTypeInfo(v, min, max, p).max = getTypeInfo(w, min, max, p).max
<1> DEFINE n(o) == IF IsSet(o) THEN <<The(o).n>> ELSE <<>>
           a == getTypeInfo(v, min, max, p)
           b == getTypeInfo(w, min, max, p)
<1>1. ASSUME NEW bits, NEW x, NEW y, NEW lo, NEW hi,
             getTypeInfoInt(bits, x, lo, hi).ok, getTypeInfoInt(bits, y, lo, hi).ok
      PROVE  getTypeInfoInt(bits, x, lo, hi).max = getTypeInfoInt(bits, y, lo, hi).max
  BY <1>1, NotOk DEF getTypeInfoInt
<1>2. CASE v.t = "int32"
  <2>1. a = getTypeInfo32(v.n, n(min), n(max)) /\ b = getTypeInfo32(w.n, n(min), n(max))
    BY <1>2 DEF getTypeInfo
  <2> HIDE DEF a, b, n
  <2> QED
    BY <1>1, <2>1 DEF getTypeInfo32, a, b
<1>3. CASE v.t \in {"int64", "date"}
  <2>1. a = getTypeInfo64(v.n, n(min), n(max)) /\ b = getTypeInfo64(w.n, n(min), n(max))
    BY <1>3 DEF getTypeInfo
  <2> HIDE DEF a, b, n
  <2> QED
    BY <1>1, <2>1 DEF getTypeInfo64, a, b
<1>4. CASE v.t = "double"
  <2>1. a = getTypeInfoDouble(v, min, max, p) /\ b = getTypeInfoDouble(w, min, max, p)
    BY <1>4 DEF getTypeInfo
  <2>2. ASSUME NEW x, getTypeInfoDouble(x, min, max, p).ok
        PROVE  getTypeInfoDouble(x, min, max, p).max =
                  IF IsSet(min)
                  THEN 2^The(canUsePrecisionModeDouble(Num(The(min)), Num(The(max)), The(p))) - 1
                  ELSE 2^Bits64 - 1
    <3> DEFINE d == getTypeInfoDouble(x, min, max, p)
               bits == canUsePrecisionModeDouble(Num(The(min)), Num(The(max)), The(p))
               ret == Scaled(x.n, The(p)) - Scaled(Num(The(min)), The(p))
               half == 2^(Bits64 - 1)
               off == IF x.n < 0 THEN half - (-x.n) ELSE half + x.n
    <3> HIDE DEF bits, ret, off
    <3>1. IsSet(min) => d = [ok |-> TRUE, value |-> ret, max |-> 2^The(bits) - 1]
      BY <2>2, NotOk DEF getTypeInfoDouble, bits, ret
    <3>2. ~IsSet(min) => d = [ok |-> TRUE, max |-> 2^Bits64 - 1, value |-> off]
      BY <2>2, NotOk DEF getTypeInfoDouble, off
    <3> HIDE DEF d
    <3>3. d.max = IF IsSet(min) THEN 2^The(bits) - 1 ELSE 2^Bits64 - 1
      BY <3>1, <3>2
    <3> QED
      BY <3>3 DEF d, bits
  <2> HIDE DEF a, b
  <2> QED
    BY <2>1, <2>2 DEF a, b
<1>5. CASE v.t = "decimal"
  <2>1. a = getTypeInfoDecimal128(v, min, max, p) /\ b = getTypeInfoDecimal128(w, min, max, p)
    BY <1>5 DEF getTypeInfo
  <2>2. ASSUME NEW x, getTypeInfoDecimal128(x, min, max, p).ok
        PROVE  getTypeInfoDecimal128(x, min, max, p).max =
                  IF IsSet(min)
                  THEN 2^(canUsePrecisionModeDecimal(The(min), The(max), The(p)).bits) - 1
                  ELSE 2^Bits128 - 1
    <3> DEFINE d == getTypeInfoDecimal128(x, min, max, p)
               can == canUsePrecisionModeDecimal(The(min), The(max), The(p))
               prime == Scaled(Num(x), The(p)) - Scaled(Num(The(min)), The(p))
               enc == encodeDecimal(x)
    <3> HIDE DEF can, prime, enc
    <3>1. IsSet(min) => d = [ok |-> TRUE, value |-> prime, max |-> 2^can.bits - 1]
      BY <2>2, NotOk DEF getTypeInfoDecimal128, can, prime
    <3>2. ~IsSet(min) => d = [ok |-> TRUE, value |-> enc, max |-> 2^Bits128 - 1]
      BY <2>2, NotOk DEF getTypeInfoDecimal128, enc
    <3> HIDE DEF d
    <3>3. d.max = IF IsSet(min) THEN 2^can.bits - 1 ELSE 2^Bits128 - 1
      BY <3>1, <3>2
    <3> QED
      BY <3>3 DEF d, can
  <2> HIDE DEF a, b
  <2> QED
    BY <2>1, <2>2 DEF a, b
<1> QED
  BY <1>2, <1>3, <1>4, <1>5 DEF RangeTypes

\* Optional options are sequences of length 0 or 1.
Optional(o) == o = <<>> \/ o = <<o[1]>>
RangeOptsShape(ro) == Optional(ro.precision) /\ Optional(ro.trimFactor)

\* Options that parse have at most one precision and trim factor.
LEMMA ParsedShape ==
    ASSUME NEW doc, mc_RangeOpts_parse(doc).ok
    PROVE  RangeOptsShape(mc_RangeOpts_parse(doc))
<1> DEFINE ro == mc_RangeOpts_parse(doc)
           opt(f) == IF f \in DOMAIN doc THEN <<doc[f]>> ELSE <<>>
<1>1. ro.precision = opt("precision") /\ ro.trimFactor = opt("trimFactor")
  BY NotOk DEF mc_RangeOpts_parse
<1> HIDE DEF ro
<1> QED
  BY <1>1 DEF RangeOptsShape, Optional, ro

\* An optional field comes out of a document as it went in.
LEMMA WithOptReads ==
    ASSUME NEW doc, NEW f, f \notin DOMAIN doc, NEW o, Optional(o)
    PROVE  /\ DOMAIN WithOpt(doc, f, o) = DOMAIN doc \union (IF o = <<>> THEN {} ELSE {f})
           /\ OptField(WithOpt(doc, f, o), f) = o
<1> DEFINE new == WithOpt(doc, f, o)
<1>1. CASE o = <<>>
  BY <1>1 DEF WithOpt, OptField, Has
<1>2. CASE o # <<>>
  <2>1. new = Joined(doc, [x \in {f} |-> o[1]])
    BY <1>2 DEF WithOpt
  <2>2. DOMAIN new = DOMAIN doc \union {f} /\ new[f] = o[1]
    BY <2>1 DEF Joined
  <2> HIDE DEF new
  <2>3. OptField(new, f) = <<o[1]>>
    BY <2>2 DEF OptField, Has
  <2>4. OptField(new, f) = o
    BY <1>2, <2>3 DEF Optional
  <2> QED
    BY <1>2, <2>2, <2>4 DEF new
<1> QED
  BY <1>1, <1>2

\* The same for every field, in a form to instantiate with a name
LEMMA WithOptAt ==
    ASSUME NEW doc, NEW o, Optional(o)
    PROVE  \A f : f \notin DOMAIN doc =>
              /\ DOMAIN WithOpt(doc, f, o) = DOMAIN doc \union (IF o = <<>> THEN {} ELSE {f})
              /\ OptField(WithOpt(doc, f, o), f) = o
BY WithOptReads

\* Other optional fields are read as before.
LEMMA WithOptOthers ==
    ASSUME NEW doc, NEW f, NEW o, NEW x, x # f
    PROVE  OptField(WithOpt(doc, f, o), x) = OptField(doc, x)
<1> DEFINE new == WithOpt(doc, f, o)
<1>1. x \in DOMAIN new <=> x \in DOMAIN doc
  BY DEF WithOpt, Joined
<1>2. x \in DOMAIN doc => new[x] = doc[x]
  BY WithOptKeeps
<1> HIDE DEF new
<1>3. OptField(new, x) = OptField(doc, x)
  BY <1>1, <1>2 DEF OptField, Has
<1> QED
  BY <1>3 DEF new

\* The range specification of an insert, read back from its document
LEMMA InsertSpecRead ==
    ASSUME NEW spec, Optional(spec.precision), Optional(spec.trimFactor),
           NEW got, got = mc_FLE2RangeInsertSpec_parse(RangeInsertDoc(spec)), got.ok
    PROVE  /\ got.v = spec.v /\ got.min = spec.min /\ got.max = spec.max
           /\ got.precision = spec.precision /\ got.trimFactor = spec.trimFactor
<1> DEFINE r0 == [v |-> spec.v, min |-> spec.min, max |-> spec.max]
           r1 == WithOpt(r0, "precision", spec.precision)
           r2 == WithOpt(r1, "trimFactor", spec.trimFactor)
<1>1. /\ DOMAIN r0 = {"v", "min", "max"}
      /\ r0.v = spec.v /\ r0.min = spec.min /\ r0.max = spec.max
  OBVIOUS
<1> HIDE DEF r0
<1>2. "trimFactor" \notin DOMAIN r1 /\ OptField(r1, "precision") = spec.precision
  <2>1. "precision" \notin DOMAIN r0
    BY <1>1
  <2>2. \A f : f \notin DOMAIN r0 =>
           /\ DOMAIN WithOpt(r0, f, spec.precision)
                = DOMAIN r0 \union (IF spec.precision = <<>> THEN {} ELSE {f})
           /\ OptField(WithOpt(r0, f, spec.precision), f) = spec.precision
    BY WithOptReads
  <2>3. /\ DOMAIN r1 = DOMAIN r0 \union (IF spec.precision = <<>> THEN {} ELSE {"precision"})
        /\ OptField(r1, "precision") = spec.precision
    BY <2>1, <2>2, Zenon
  <2> HIDE DEF r1
  <2> QED
    BY <1>1, <2>3
<1>3. r1.v = spec.v /\ r1.min = spec.min /\ r1.max = spec.max /\ DOMAIN r0 \subseteq DOMAIN r1
  BY <1>1, WithOptKeeps
<1> HIDE DEF r1
<1>4. /\ OptField(r2, "trimFactor") = spec.trimFactor
      /\ OptField(r2, "precision") = spec.precision
  <2>1. "trimFactor" # "precision"
    OBVIOUS
  <2>2. \A f : f \notin DOMAIN r1 =>
           OptField(WithOpt(r1, f, spec.trimFactor), f) = spec.trimFactor
    BY WithOptReads
  <2>3. OptField(r2, "trimFactor") = spec.trimFactor
    BY <1>2, <2>2, Zenon
  <2>4. OptField(r2, "precision") = OptField(r1, "precision")
    BY <2>1, WithOptOthers
  <2> QED
    BY <1>2, <2>3, <2>4, Zenon
<1>5. r2.v = spec.v /\ r2.min = spec.min /\ r2.max = spec.max
  BY <1>1, <1>3, WithOptKeeps
<1>6. RangeInsertDoc(spec) = r2
  BY DEF RangeInsertDoc, r2, r1, r0
<1> HIDE DEF r2
<1>7. got = [ok |-> TRUE, v |-> r2.v, min |-> r2.min, max |-> r2.max,
             precision |-> OptField(r2, "precision"), trimFactor |-> OptField(r2, "trimFactor")]
  BY <1>6, NotOk DEF mc_FLE2RangeInsertSpec_parse
<1> QED
  BY <1>4, <1>5, <1>7

-----------------------------------------------------------------------------
(* The parameters of an index of BSON type t *)

IndexMin(ro, t) == mc_RangeOpts_appendMin(ro, t).v
IndexMax(ro, t) == mc_RangeOpts_appendMax(ro, t).v

\* Without precision the bounds of a floating index are not part of the encoding.
End(ro, t, b) == IF t \notin {"double", "decimal"} \/ IsSet(ro.precision) THEN <<b>> ELSE <<>>

EncodedAs(ro, t, v) ==
    getTypeInfo(v, End(ro, t, IndexMin(ro, t)), End(ro, t, IndexMax(ro, t)), ro.precision)

DomainMax(ro, t) ==
    CHOOSE max : \E v : v.t = t /\ EncodedAs(ro, t, v).ok /\ max = EncodedAs(ro, t, v).max

\* The largest word of a domain does not depend on the value encoded.
LEMMA DomainMaxIs ==
    ASSUME NEW ro, NEW v, v.t \in RangeTypes, EncodedAs(ro, v.t, v).ok
    PROVE  EncodedAs(ro, v.t, v).max = DomainMax(ro, v.t)
<1> DEFINE Fits(max) == \E w : w.t = v.t /\ EncodedAs(ro, v.t, w).ok /\ max = EncodedAs(ro, v.t, w).max
           max == EncodedAs(ro, v.t, v).max
<1>1. Fits(max)
  OBVIOUS
<1>2. \A m : Fits(m) => m = max
  BY DomainOfType DEF EncodedAs
<1>3. DomainMax(ro, v.t) = CHOOSE m : Fits(m)
  BY DEF DomainMax
<1> HIDE DEF Fits
<1> QED
  BY <1>1, <1>2, <1>3, Zenon

ParamNames == {"sp", "pn", "tf", "mn", "mx"}
Params(doc) == [f \in DOMAIN doc \intersect ParamNames |-> doc[f]]

Parameters(ro, t) ==
    WithOpt([sp |-> ro.sparsity, mn |-> IndexMin(ro, t), mx |-> IndexMax(ro, t),
             tf |-> trimFactorDefault(BitLen(DomainMax(ro, t)), ro.trimFactor)],
            "pn", ro.precision)

\* What the parameters of a document are, field by field
LEMMA ParamsAre ==
    ASSUME NEW ro, Optional(ro.precision), NEW t, NEW d,
           {"sp", "mn", "mx", "tf"} \subseteq DOMAIN d,
           d.sp = ro.sparsity, d.mn = IndexMin(ro, t), d.mx = IndexMax(ro, t),
           d.tf = trimFactorDefault(BitLen(DomainMax(ro, t)), ro.trimFactor),
           OptField(d, "pn") = ro.precision
    PROVE  Params(d) = Parameters(ro, t)
<1> DEFINE base == [sp |-> ro.sparsity, mn |-> IndexMin(ro, t), mx |-> IndexMax(ro, t),
                    tf |-> trimFactorDefault(BitLen(DomainMax(ro, t)), ro.trimFactor)]
           new == WithOpt(base, "pn", ro.precision)
<1>1. DOMAIN base = {"sp", "mn", "mx", "tf"}
      /\ \A x \in {"sp", "mn", "mx", "tf"} : base[x] = d[x]
  OBVIOUS
<1> HIDE DEF base
<1>2. /\ DOMAIN new = {"sp", "mn", "mx", "tf"} \union (IF ro.precision = <<>> THEN {} ELSE {"pn"})
      /\ OptField(new, "pn") = ro.precision
  <2>1. "pn" \notin DOMAIN base
    BY <1>1
  <2>2. \A f : f \notin DOMAIN base =>
           /\ DOMAIN WithOpt(base, f, ro.precision)
                = DOMAIN base \union (IF ro.precision = <<>> THEN {} ELSE {f})
           /\ OptField(WithOpt(base, f, ro.precision), f) = ro.precision
    BY WithOptAt, Zenon
  <2>3. /\ DOMAIN new = DOMAIN base \union (IF ro.precision = <<>> THEN {} ELSE {"pn"})
        /\ OptField(new, "pn") = ro.precision
    BY <2>1, <2>2, Zenon
  <2> QED
    BY <1>1, <2>3, Zenon
<1>3. \A x \in {"sp", "mn", "mx", "tf"} : new[x] = d[x]
  BY <1>1, WithOptKeeps
<1>4. new = [x \in DOMAIN new |-> new[x]]
  BY DEF WithOpt, Joined, base
<1> HIDE DEF new
<1>5. "pn" \in DOMAIN d <=> ro.precision # <<>>
  <2>1. OptField(d, "pn") = IF "pn" \in DOMAIN d THEN <<d["pn"]>> ELSE <<>>
    BY Zenon DEF OptField, Has
  <2>2. <<d["pn"]>> # <<>>
    OBVIOUS
  <2> QED
    BY <2>1, <2>2, Zenon
<1>6. ro.precision # <<>> => new["pn"] = d["pn"]
  BY <1>2, <1>5 DEF OptField, Has
<1>7. DOMAIN d \intersect ParamNames = DOMAIN new
  BY <1>2, <1>5 DEF ParamNames
<1>8. \A x \in DOMAIN new : new[x] = d[x]
  BY <1>2, <1>3, <1>6
<1>9. Params(d) = new
  BY <1>4, <1>7, <1>8 DEF Params
<1> QED
  BY <1>9 DEF Parameters, new, base

\* An optional, as reading it back yields it
First(o) == IF o = <<>> THEN <<>> ELSE <<o[1]>>

\* Every field of a document to which an optional one was added
LEMMA WithOptField ==
    ASSUME NEW doc, NEW f, NEW o
    PROVE  \A x : OptField(WithOpt(doc, f, o), x) =
                     IF x = f /\ OptField(doc, x) = <<>> THEN First(o) ELSE OptField(doc, x)
<1> SUFFICES ASSUME NEW x
             PROVE  OptField(WithOpt(doc, f, o), x) =
                       IF x = f /\ OptField(doc, x) = <<>> THEN First(o) ELSE OptField(doc, x)
  OBVIOUS
<1> DEFINE new == WithOpt(doc, f, o)
<1>0. OptField(doc, x) = <<>> <=> x \notin DOMAIN doc
  <2>1. <<doc[x]>> # <<>>
    OBVIOUS
  <2> QED
    BY <2>1, Zenon DEF OptField, Has
<1>1. CASE o = <<>>
  BY <1>1 DEF WithOpt, First
<1>2. CASE o # <<>> /\ x # f
  BY <1>2, WithOptOthers
<1>3. CASE o # <<>> /\ x = f
  <2>1. new = Joined(doc, [y \in {f} |-> o[1]])
    BY <1>3 DEF WithOpt
  <2>2. x \in DOMAIN new /\ new[x] = IF x \in DOMAIN doc THEN doc[x] ELSE o[1]
    BY <1>3, <2>1 DEF Joined
  <2> HIDE DEF new
  <2>3. OptField(new, x) = <<IF x \in DOMAIN doc THEN doc[x] ELSE o[1]>>
    BY <2>2 DEF OptField, Has
  <2>4. CASE x \in DOMAIN doc
    BY <1>0, <2>3, <2>4 DEF new, OptField, Has
  <2>5. CASE x \notin DOMAIN doc
    BY <1>0, <1>3, <2>3, <2>5 DEF new, First
  <2> QED
    BY <2>4, <2>5
<1> QED
  BY <1>1, <1>2, <1>3

\* An optional is what its first element makes it.
LEMMA FirstOfOptional ==
    ASSUME NEW o, Optional(o)
    PROVE  First(o) = o
BY DEF Optional, First

\* A field read as set is there.
LEMMA FieldRead ==
    ASSUME NEW doc, NEW f, NEW x, OptField(doc, f) = <<x>>
    PROVE  f \in DOMAIN doc /\ doc[f] = x
<1>1. <<x>> # <<>>
  OBVIOUS
<1>2. f \in DOMAIN doc /\ <<doc[f]>> = <<x>>
  BY <1>1, Zenon DEF OptField, Has
<1> QED
  BY <1>2

\* A field read as unset is not there.
LEMMA NoField ==
    ASSUME NEW doc, NEW f
    PROVE  OptField(doc, f) = <<>> <=> f \notin DOMAIN doc
<1>1. <<doc[f]>> # <<>>
  OBVIOUS
<1> QED
  BY <1>1, Zenon DEF OptField, Has

\* A find payload, read back from its document
LEMMA FindDocReads ==
    ASSUME NEW p
    PROVE  LET doc == mc_FLE2FindRangePayloadV2_serialize(p)
           IN /\ OptField(doc, "payload") = First(p.payload)
              /\ OptField(doc, "sp") = First(p.sparsity)
              /\ OptField(doc, "pn") = First(p.precision)
              /\ OptField(doc, "tf") = First(p.trimFactor)
              /\ OptField(doc, "mn") = First(p.indexMin)
              /\ OptField(doc, "mx") = First(p.indexMax)
<1> DEFINE d0 == [payloadId |-> p.payloadId, firstOperator |-> p.firstOperator]
           d1 == WithOpt(d0, "secondOperator", p.secondOperator)
           d2 == WithOpt(d1, "payload", p.payload)
           d3 == WithOpt(d2, "sp", p.sparsity)
           d4 == WithOpt(d3, "pn", p.precision)
           d5 == WithOpt(d4, "tf", p.trimFactor)
           d6 == WithOpt(d5, "mn", p.indexMin)
           d7 == WithOpt(d6, "mx", p.indexMax)
           New == {"payload", "sp", "pn", "tf", "mn", "mx"}
<1>1. mc_FLE2FindRangePayloadV2_serialize(p) = d7
  BY DEF mc_FLE2FindRangePayloadV2_serialize
<1>2. DOMAIN d0 = {"payloadId", "firstOperator"}
  OBVIOUS
<1> HIDE DEF d0
<1>3. \A x \in New : x \notin DOMAIN d0
  BY <1>2
<1>4. \A x \in New : OptField(d0, x) = <<>>
  BY <1>3, NoField, Zenon
<1>5. \A x : OptField(d1, x) = IF x = "secondOperator" /\ OptField(d0, x) = <<>>
                               THEN First(p.secondOperator) ELSE OptField(d0, x)
  BY WithOptField, Zenon
<1> HIDE DEF d1
<1>6. \A x : OptField(d2, x) = IF x = "payload" /\ OptField(d1, x) = <<>>
                               THEN First(p.payload) ELSE OptField(d1, x)
  BY WithOptField, Zenon
<1> HIDE DEF d2
<1>7. \A x : OptField(d3, x) = IF x = "sp" /\ OptField(d2, x) = <<>>
                               THEN First(p.sparsity) ELSE OptField(d2, x)
  BY WithOptField, Zenon
<1> HIDE DEF d3
<1>8. \A x : OptField(d4, x) = IF x = "pn" /\ OptField(d3, x) = <<>>
                               THEN First(p.precision) ELSE OptField(d3, x)
  BY WithOptField, Zenon
<1> HIDE DEF d4
<1>9. \A x : OptField(d5, x) = IF x = "tf" /\ OptField(d4, x) = <<>>
                               THEN First(p.trimFactor) ELSE OptField(d4, x)
  BY WithOptField, Zenon
<1> HIDE DEF d5
<1>10. \A x : OptField(d6, x) = IF x = "mn" /\ OptField(d5, x) = <<>>
                               THEN First(p.indexMin) ELSE OptField(d5, x)
  BY WithOptField, Zenon
<1> HIDE DEF d6
<1>11. \A x : OptField(d7, x) = IF x = "mx" /\ OptField(d6, x) = <<>>
                               THEN First(p.indexMax) ELSE OptField(d6, x)
  BY WithOptField, Zenon
<1> HIDE DEF d7
<1>12. \A x \in New : OptField(d1, x) = <<>>
  BY <1>4, <1>5
<1>13. OptField(d2, "payload") = First(p.payload) /\ \A x \in New \ {"payload"} : OptField(d2, x) = <<>>
  BY <1>6, <1>12
<1>14. /\ OptField(d3, "payload") = First(p.payload) /\ OptField(d3, "sp") = First(p.sparsity)
       /\ \A x \in {"pn", "tf", "mn", "mx"} : OptField(d3, x) = <<>>
  BY <1>7, <1>13
<1>15. /\ OptField(d4, "payload") = First(p.payload) /\ OptField(d4, "sp") = First(p.sparsity)
       /\ OptField(d4, "pn") = First(p.precision)
       /\ \A x \in {"tf", "mn", "mx"} : OptField(d4, x) = <<>>
  BY <1>8, <1>14
<1>16. /\ OptField(d5, "payload") = First(p.payload) /\ OptField(d5, "sp") = First(p.sparsity)
       /\ OptField(d5, "pn") = First(p.precision) /\ OptField(d5, "tf") = First(p.trimFactor)
       /\ \A x \in {"mn", "mx"} : OptField(d5, x) = <<>>
  BY <1>9, <1>15
<1>17. /\ OptField(d6, "payload") = First(p.payload) /\ OptField(d6, "sp") = First(p.sparsity)
       /\ OptField(d6, "pn") = First(p.precision) /\ OptField(d6, "tf") = First(p.trimFactor)
       /\ OptField(d6, "mn") = First(p.indexMin) /\ OptField(d6, "mx") = <<>>
  BY <1>10, <1>16
<1>18. /\ OptField(d7, "payload") = First(p.payload) /\ OptField(d7, "sp") = First(p.sparsity)
       /\ OptField(d7, "pn") = First(p.precision) /\ OptField(d7, "tf") = First(p.trimFactor)
       /\ OptField(d7, "mn") = First(p.indexMin) /\ OptField(d7, "mx") = First(p.indexMax)
  BY <1>11, <1>17
<1> QED
  BY <1>1, <1>18

\* The bit string of a leaf has the length of the domain.
LEMMA BitstringLen ==
    ASSUME NEW x, NEW len \in Nat
    PROVE  Len(Bitstring(x, len)) = len
<1> DEFINE leaf == Bitstring(x, len)
<1>1. DOMAIN leaf = 1..len
  BY DEF Bitstring
<1>2. leaf \in [1..len -> {leaf[i] : i \in 1..len}]
  BY DEF Bitstring
<1> HIDE DEF leaf
<1>3. Len(leaf) = len
  BY <1>2, TableIsSeq
<1> QED
  BY <1>3 DEF leaf

\* The fields of an insert payload before those of a range index
LEMMA CommonDomain ==
    ASSUME NEW ph, NEW v, NEW extra, NEW cf, NEW iv, NEW iup,
           iup = fle2_insert_update_common(Keys, ph, v, extra, cf, iv), iup.ok
    PROVE  DOMAIN iup \intersect {"edgeTokenSets", "sparsity", "precision", "trimFactor",
                                  "indexMin", "indexMax"} = {}
<1> DEFINE common == fle2_placeholder_common(Keys, ph.index_key_id, Bytes(v), TRUE, cf)
           enc == fle2_placeholder_aes_aead_encrypt(Keys, FLE2v2AEADAlgorithm, ph.user_key_id,
                                                    Bytes(v), iv)
<1>1. iup = InsertUpdateFields(ph, v.t, common, enc, extra, cf, iv)
  BY DEF fle2_insert_update_common, Bytes
<1> HIDE DEF common, enc
<1>2. common.ok /\ enc.ok
  BY <1>1 DEF InsertUpdateFields
<1> QED
  BY <1>1, <1>2 DEF InsertUpdateFields

\* The bounds an index of type t has, when its options accept t
LEMMA BoundsType ==
    ASSUME NEW ro, NEW t, mc_RangeOpts_appendMin(ro, t).ok
    PROVE  /\ IsSet(ro.min) => The(ro.min).t = t
           /\ IndexMin(ro, t).t = t
<1> DEFINE min == mc_RangeOpts_appendMin(ro, t)
<1>1. CASE IsSet(ro.min)
  <2>1. The(ro.min).t = t /\ min = [ok |-> TRUE, v |-> The(ro.min)]
    BY <1>1, NotOk DEF mc_RangeOpts_appendMin
  <2> QED
    BY <2>1 DEF IndexMin
<1>2. CASE ~IsSet(ro.min)
  <2>1. min = [ok |-> TRUE, v |-> Largest(t, TRUE)]
    BY <1>2, NotOk DEF mc_RangeOpts_appendMin
  <2>2. Largest(t, TRUE).t = t
    <3>1. CASE t = "double"
      BY <3>1 DEF Largest
    <3>2. CASE t # "double"
      BY <3>2 DEF Largest
    <3> QED
      BY <3>1, <3>2
  <2>3. IndexMin(ro, t) = Largest(t, TRUE)
    <3> DEFINE largest == Largest(t, TRUE)
    <3> HIDE DEF largest
    <3>1. min = [ok |-> TRUE, v |-> largest]
      BY <2>1 DEF largest
    <3>2. min.v = largest
      BY <3>1
    <3> QED
      BY <3>2, Zenon DEF IndexMin, largest
  <2> QED
    BY <1>2, <2>2, <2>3
<1> QED
  BY <1>1, <1>2

\* The trim factor the edges of a value are made with
LEMMA InsertTrim ==
    ASSUME NEW ro, NEW v, v.t \in RangeTypes, NEW spec, spec.v = v,
           spec.min = IndexMin(ro, v.t), spec.max = IndexMax(ro, v.t),
           spec.precision = ro.precision, spec.trimFactor = ro.trimFactor,
           NEW sparsity, get_edges(spec, sparsity).ok
    PROVE  get_edges(spec, sparsity).usedTrimFactor =
              trimFactorDefault(BitLen(DomainMax(ro, v.t)), ro.trimFactor)
<1> DEFINE edges == get_edges(spec, sparsity)
           got == EncodedAs(ro, v.t, v)
           len == BitLen(got.max)
           leaf == Bitstring(got.value, len)
<1>1. edges = getEdgesOf(got, sparsity, ro.trimFactor)
  BY DEF get_edges, mc_getEdges, EncodedAs, End, IsFloating
<1> HIDE DEF got, edges
<1>2. got.ok /\ edges = mc_edges_new(leaf, sparsity, ro.trimFactor)
  BY <1>1 DEF getEdgesOf, edges
<1>3. got.max = DomainMax(ro, v.t)
  BY <1>2, DomainMaxIs DEF got
<1>4. len \in Nat
  BY BitLenIsNat
<1>5. Len(leaf) = len
  <2> HIDE DEF len
  <2> QED
    BY <1>4, BitstringLen
<1> HIDE DEF leaf
<1>6. edges.ok
  BY DEF edges
<1>7. edges.usedTrimFactor = trimFactorDefault(Len(leaf), ro.trimFactor)
  <2> DEFINE trim == trimFactorDefault(Len(leaf), ro.trimFactor)
             start == IF trim > 0 THEN trim ELSE 1
             inner(i) == IF i % sparsity = 0 THEN <<SubSeq(leaf, 1, i)>> ELSE <<>>
             list == (IF trim = 0 THEN << <<>> >> ELSE <<>>) \o <<leaf>>
                       \o FlattenSeq([n \in 1..(Len(leaf) - start) |-> inner(start + n - 1)])
  <2>1. edges = IF sparsity < 1 \/ ~TrimFactorOK(trim, Len(leaf)) THEN Fails
                ELSE [ok |-> TRUE, leaf |-> leaf, usedTrimFactor |-> trim, edges |-> list]
    BY <1>2, Zenon DEF mc_edges_new
  <2> HIDE DEF trim, list
  <2>2. edges = [ok |-> TRUE, leaf |-> leaf, usedTrimFactor |-> trim, edges |-> list]
    BY <1>6, <2>1, NotOk
  <2> QED
    BY <2>2 DEF trim
<1> QED
  BY <1>3, <1>5, <1>7 DEF edges

\* The parameters an insert sends
LEMMA InsertParams ==
    ASSUME NEW ro, RangeOptsShape(ro), NEW v, v.t \in RangeTypes,
           NEW ranged, ranged = mc_RangeOpts_to_FLE2RangeInsertSpec(ro, v), ranged.ok,
           NEW ph, ph.v = RangeInsertDoc(ranged), ph.sparsity = ro.sparsity,
           NEW cf, NEW iv, NEW blob,
           blob = fle2_placeholder_to_insert_update_ciphertextForRange(Keys, ph, cf, iv), blob.ok
    PROVE  /\ blob.subtype = InsertV2 /\ "g" \in DOMAIN blob.doc
           /\ Params(blob.doc) = Parameters(ro, v.t)
           /\ mc_RangeOpts_appendMin(ro, v.t).ok
<1> DEFINE spec == mc_FLE2RangeInsertSpec_parse(ph.v)
           iup == fle2_insert_update_common(Keys, ph, spec.v, <<FALSE>>, cf, iv)
           edges == get_edges(spec, ph.sparsity)
           more == [edgeTokenSets |-> [i \in DOMAIN edges.edges |->
                                         EdgeTokenSet(Keys, ph, edges, edges.edges[i], cf, iv)],
                    sparsity |-> ph.sparsity, precision |-> spec.precision,
                    trimFactor |-> edges.usedTrimFactor,
                    indexMin |-> spec.min, indexMax |-> spec.max]
           all == Joined(iup, more)
           min == mc_RangeOpts_appendMin(ro, v.t)
           max == mc_RangeOpts_appendMax(ro, v.t)
           trim == mc_RangeOpts_appendTrimFactor(ro, v.t)
<1>1. /\ min.ok
      /\ ranged = [ok |-> TRUE, v |-> v, min |-> min.v, max |-> max.v,
                   precision |-> ro.precision, trimFactor |-> ro.trimFactor]
  <2>1. ranged = RangeInsertSpec(ro, v, min, max, trim)
    BY DEF mc_RangeOpts_to_FLE2RangeInsertSpec
  <2> HIDE DEF min, max, trim
  <2> QED
    BY <2>1 DEF RangeInsertSpec
<1> HIDE DEF min, max, trim
<1>2. /\ ranged.v = v /\ ranged.min = IndexMin(ro, v.t) /\ ranged.max = IndexMax(ro, v.t)
      /\ ranged.precision = ro.precision /\ ranged.trimFactor = ro.trimFactor
  BY <1>1 DEF IndexMin, IndexMax, min, max
<1>3. blob = RangeInsertBlob(Keys, ph, spec, iup, edges, cf, iv)
  BY DEF fle2_placeholder_to_insert_update_ciphertextForRange
<1> HIDE DEF spec, iup, edges
<1>4. spec.ok /\ iup.ok /\ edges.ok
      /\ blob = Blob(InsertV2, mc_FLE2InsertUpdatePayloadV2_serializeForRange(all))
  BY <1>3, NotOk DEF RangeInsertBlob, InsertV2
<1>5. /\ spec.v = v /\ spec.min = IndexMin(ro, v.t) /\ spec.max = IndexMax(ro, v.t)
      /\ spec.precision = ro.precision /\ spec.trimFactor = ro.trimFactor
  <2>1. spec = mc_FLE2RangeInsertSpec_parse(RangeInsertDoc(ranged))
    BY DEF spec
  <2>2. Optional(ranged.precision) /\ Optional(ranged.trimFactor)
    BY <1>2 DEF RangeOptsShape
  <2>3. /\ spec.v = ranged.v /\ spec.min = ranged.min /\ spec.max = ranged.max
        /\ spec.precision = ranged.precision /\ spec.trimFactor = ranged.trimFactor
    BY <1>4, <2>1, <2>2, InsertSpecRead
  <2> QED
    BY <1>2, <2>3
<1>6. edges.usedTrimFactor = trimFactorDefault(BitLen(DomainMax(ro, v.t)), ro.trimFactor)
  BY <1>4, <1>5, InsertTrim DEF edges
<1> DEFINE tf == trimFactorDefault(BitLen(DomainMax(ro, v.t)), ro.trimFactor)
           Names == {"edgeTokenSets", "sparsity", "precision", "trimFactor", "indexMin", "indexMax"}
<1> HIDE DEF tf
<1>7. /\ DOMAIN more = Names
      /\ more.sparsity = ro.sparsity /\ more.precision = ro.precision /\ more.trimFactor = tf
      /\ more.indexMin = IndexMin(ro, v.t) /\ more.indexMax = IndexMax(ro, v.t)
  BY <1>5, <1>6 DEF tf
<1> HIDE DEF more
<1>8. DOMAIN iup \intersect Names = {}
  BY <1>4, CommonDomain DEF iup
<1>9. \A x \in Names : x \in DOMAIN all /\ all[x] = more[x]
  <2>1. \A x \in Names : x \in DOMAIN more /\ x \notin DOMAIN iup
    BY <1>7, <1>8
  <2> HIDE DEF Names
  <2> QED
    BY <2>1 DEF Joined
<1> HIDE DEF all
<1>10. /\ all.sparsity = ro.sparsity /\ all.precision = ro.precision /\ all.trimFactor = tf
       /\ all.indexMin = IndexMin(ro, v.t) /\ all.indexMax = IndexMax(ro, v.t)
  BY <1>7, <1>9
<1> DEFINE doc == mc_FLE2InsertUpdatePayloadV2_serialize(all)
           extra == [g |-> all.edgeTokenSets, sp |-> all.sparsity,
                     tf |-> all.trimFactor, mn |-> all.indexMin, mx |-> all.indexMax]
           with == Joined(doc, extra)
           new == WithOpt(with, "pn", all.precision)
<1>11. mc_FLE2InsertUpdatePayloadV2_serializeForRange(all) = new
  BY DEF mc_FLE2InsertUpdatePayloadV2_serializeForRange
<1>12. DOMAIN doc = {"d", "s", "p", "u", "t", "v", "e", "l", "k"}
  BY SerializedFields
<1>13. /\ DOMAIN extra = {"g", "sp", "tf", "mn", "mx"}
       /\ extra.sp = ro.sparsity /\ extra.tf = tf
       /\ extra.mn = IndexMin(ro, v.t) /\ extra.mx = IndexMax(ro, v.t)
  BY <1>10
<1> HIDE DEF doc, extra
<1>14. /\ DOMAIN with = DOMAIN doc \union DOMAIN extra
       /\ \A x \in {"g", "sp", "tf", "mn", "mx"} : with[x] = extra[x]
  BY <1>12, <1>13 DEF Joined
<1>15. "pn" \notin DOMAIN with
  BY <1>12, <1>13, <1>14
<1> HIDE DEF with
<1>16. DOMAIN with \subseteq DOMAIN new /\ \A x \in DOMAIN with : new[x] = with[x]
  BY WithOptKeeps
<1>17. OptField(new, "pn") = ro.precision
  <2>1. Optional(ro.precision)
    BY DEF RangeOptsShape
  <2>2. all.precision = ro.precision
    BY <1>10
  <2>3. OptField(with, "pn") = <<>>
    BY <1>15, NoField
  <2>4. OptField(new, "pn") = First(all.precision)
    BY <2>3, WithOptField
  <2> QED
    BY <2>1, <2>2, <2>4, FirstOfOptional
<1> HIDE DEF new
<1>18. /\ {"g", "sp", "tf", "mn", "mx"} \subseteq DOMAIN new
       /\ new.sp = ro.sparsity /\ new.tf = tf
       /\ new.mn = IndexMin(ro, v.t) /\ new.mx = IndexMax(ro, v.t)
  BY <1>13, <1>14, <1>16
<1>19. Params(new) = Parameters(ro, v.t)
  BY <1>17, <1>18, ParamsAre DEF RangeOptsShape, tf
<1>20. blob = [ok |-> TRUE, subtype |-> InsertV2, doc |-> new]
  BY <1>4, <1>11 DEF Blob
<1> QED
  BY <1>1, <1>18, <1>19, <1>20 DEF min

-----------------------------------------------------------------------------
(* The placeholders of a range query *)

FindRange == Subtype.FLE2FindRangePayloadV2

\* A placeholder, read back from its document
LEMMA PlaceholderRead ==
    ASSUME NEW args, NEW p,
           p = mc_FLE2EncryptionPlaceholder_parse(mc_makeRangeFindPlaceholder(args)), p.ok
    PROVE  /\ p.type = "find" /\ p.algorithm = "range" /\ p.sparsity = args.sparsity
           /\ p.v = WithOpt(WithOpt([payloadId |-> args.payloadId, firstOperator |-> args.ops[1]],
                                    "edgesInfo", args.edgesInfo),
                            "secondOperator", SubSeq(args.ops, 2, Len(args.ops)))
<1> DEFINE v == WithOpt(WithOpt([payloadId |-> args.payloadId, firstOperator |-> args.ops[1]],
                                "edgesInfo", args.edgesInfo),
                        "secondOperator", SubSeq(args.ops, 2, Len(args.ops)))
           doc == [t |-> "find", a |-> "range", ki |-> args.index_key_id, ku |-> args.user_key_id,
                   v |-> v, cm |-> args.maxContentionFactor, s |-> args.sparsity]
<1>1. mc_makeRangeFindPlaceholder(args) = doc
  BY DEF mc_makeRangeFindPlaceholder
<1> HIDE DEF v
<1>2. "s" \in DOMAIN doc /\ doc.t = "find" /\ doc.a = "range" /\ doc.s = args.sparsity /\ doc.v = v
  OBVIOUS
<1> HIDE DEF doc
<1>3. p = [ok |-> TRUE, type |-> doc.t, algorithm |-> doc.a, index_key_id |-> doc.ki,
           user_key_id |-> doc.ku, v |-> doc.v, maxContentionFactor |-> doc.cm,
           sparsity |-> IF Has(doc, "s") THEN doc.s ELSE 0]
  BY <1>1, NotOk DEF mc_FLE2EncryptionPlaceholder_parse
<1>4. p.type = "find" /\ p.algorithm = "range" /\ p.sparsity = args.sparsity /\ p.v = v
  BY <1>2, <1>3 DEF Has
<1> QED
  BY <1>4 DEF v

\* The range of a placeholder, read back
LEMMA FindSpecRead ==
    ASSUME NEW id, NEW op, NEW info, NEW second, NEW spec,
           spec = mc_FLE2RangeFindSpec_parse(
                     WithOpt(WithOpt([payloadId |-> id, firstOperator |-> op], "edgesInfo", info),
                             "secondOperator", second)),
           spec.ok
    PROVE  /\ info = <<>> => spec.edgesInfo = <<>>
           /\ info # <<>> =>
                LET edges == mc_FLE2RangeFindSpecEdgesInfo_parse(info[1])
                IN edges.ok /\ spec.edgesInfo = <<edges>>
<1> DEFINE d0 == [payloadId |-> id, firstOperator |-> op]
           d1 == WithOpt(d0, "edgesInfo", info)
           d2 == WithOpt(d1, "secondOperator", second)
           edges == mc_FLE2RangeFindSpecEdgesInfo_parse(d2.edgesInfo)
<1>1. "edgesInfo" \notin DOMAIN d0
  OBVIOUS
<1> HIDE DEF d0
<1>2. OptField(d1, "edgesInfo") = First(info)
  BY <1>1, NoField, WithOptField
<1> HIDE DEF d1
<1>3. OptField(d2, "edgesInfo") = First(info)
  <2>1. "edgesInfo" # "secondOperator"
    OBVIOUS
  <2> QED
    BY <1>2, <2>1, WithOptField
<1>4. spec = mc_FLE2RangeFindSpec_parse(d2)
  BY DEF d0, d1
<1> HIDE DEF d2, edges
<1>5. /\ spec = [ok |-> TRUE, payloadId |-> d2.payloadId, firstOperator |-> d2.firstOperator,
                 secondOperator |-> OptField(d2, "secondOperator"),
                 edgesInfo |-> IF Has(d2, "edgesInfo") THEN <<edges>> ELSE <<>>]
      /\ ~(Has(d2, "edgesInfo") /\ ~edges.ok)
  BY <1>4, NotOk DEF mc_FLE2RangeFindSpec_parse, edges
<1>6. spec.edgesInfo = IF Has(d2, "edgesInfo") THEN <<edges>> ELSE <<>>
  BY <1>5
<1>7. CASE info = <<>>
  <2>1. "edgesInfo" \notin DOMAIN d2
    BY <1>3, <1>7, NoField DEF First
  <2> QED
    BY <1>6, <1>7, <2>1 DEF Has
<1>8. CASE info # <<>>
  <2>1. "edgesInfo" \in DOMAIN d2 /\ d2.edgesInfo = info[1]
    BY <1>3, <1>8, FieldRead DEF First
  <2> QED
    BY <1>5, <1>6, <1>8, <2>1 DEF Has, edges
<1> QED
  BY <1>7, <1>8

\* The range itself, read back
LEMMA InfoRead ==
    ASSUME NEW lb, NEW li, NEW ub, NEW ui, NEW mn, NEW mx, NEW pn, NEW tf,
           Optional(pn), Optional(tf), NEW info,
           info = mc_FLE2RangeFindSpecEdgesInfo_parse(
                     WithOpt(WithOpt([lowerBound |-> lb, lbIncluded |-> li,
                                      upperBound |-> ub, ubIncluded |-> ui,
                                      indexMin |-> mn, indexMax |-> mx], "precision", pn),
                             "trimFactor", tf)),
           info.ok
    PROVE  info.indexMin = mn /\ info.indexMax = mx /\ info.precision = pn /\ info.trimFactor = tf
<1> DEFINE d0 == [lowerBound |-> lb, lbIncluded |-> li, upperBound |-> ub, ubIncluded |-> ui,
                  indexMin |-> mn, indexMax |-> mx]
           d1 == WithOpt(d0, "precision", pn)
           d2 == WithOpt(d1, "trimFactor", tf)
<1>1. /\ "precision" \notin DOMAIN d0 /\ "trimFactor" \notin DOMAIN d0
      /\ {"indexMin", "indexMax"} \subseteq DOMAIN d0 /\ d0.indexMin = mn /\ d0.indexMax = mx
  OBVIOUS
<1> HIDE DEF d0
<1>2. /\ OptField(d0, "precision") = <<>> /\ OptField(d0, "trimFactor") = <<>>
  BY <1>1, NoField
<1>3. "precision" # "trimFactor"
  OBVIOUS
<1>4. /\ OptField(d1, "precision") = First(pn) /\ OptField(d1, "trimFactor") = <<>>
  BY <1>2, <1>3, WithOptField
<1>5. {"indexMin", "indexMax"} \subseteq DOMAIN d1 /\ d1.indexMin = mn /\ d1.indexMax = mx
  BY <1>1, WithOptKeeps
<1> HIDE DEF d1
<1>6. /\ OptField(d2, "precision") = First(pn) /\ OptField(d2, "trimFactor") = First(tf)
  BY <1>3, <1>4, WithOptField
<1>7. d2.indexMin = mn /\ d2.indexMax = mx
  BY <1>5, WithOptKeeps
<1>8. info = mc_FLE2RangeFindSpecEdgesInfo_parse(d2)
  BY DEF d0, d1
<1> HIDE DEF d2
<1>9. info = [ok |-> TRUE, lowerBound |-> d2.lowerBound, lbIncluded |-> d2.lbIncluded,
              upperBound |-> d2.upperBound, ubIncluded |-> d2.ubIncluded,
              indexMin |-> d2.indexMin, indexMax |-> d2.indexMax,
              precision |-> OptField(d2, "precision"),
              trimFactor |-> OptField(d2, "trimFactor")]
  BY <1>8, NotOk DEF mc_FLE2RangeFindSpecEdgesInfo_parse
<1> QED
  BY <1>6, <1>7, <1>9, FirstOfOptional

\* The trim factor the cover of a range is made with
LEMMA CoverTrim ==
    ASSUME NEW ro, NEW t \in RangeTypes, IndexMin(ro, t).t = t,
           NEW info, info.indexMin = IndexMin(ro, t), info.indexMax = IndexMax(ro, t),
           info.precision = ro.precision, info.trimFactor = ro.trimFactor,
           NEW sparsity, NEW cover, cover = get_mincover_from_FLE2RangeFindSpec(info, sparsity),
           cover.ok
    PROVE  cover.usedTrimFactor = trimFactorDefault(BitLen(DomainMax(ro, t)), ro.trimFactor)
<1> DEFINE openLo == IsInfinite(info.lowerBound)
           openHi == IsInfinite(info.upperBound)
           lo == IF openLo THEN info.indexMin ELSE info.lowerBound
           hi == IF openHi THEN info.indexMax ELSE info.upperBound
           incLo == openLo \/ info.lbIncluded
           incHi == openHi \/ info.ubIncluded
           end(b) == IF ~IsFloating(lo) \/ IsSet(info.precision) THEN <<b>> ELSE <<>>
           mn == end(info.indexMin)
           mx == end(info.indexMax)
           a == getTypeInfo(lo, mn, mx, info.precision)
           b == getTypeInfo(hi, mn, mx, info.precision)
           adj == adjustBounds(a.value, incLo, b.value, incHi, b.max)
           new == MinCoverGenerator_new(adj.lo, adj.hi, a.max, sparsity, info.trimFactor)
<1>1. /\ lo.t = info.indexMin.t
      /\ cover = mc_getMincover(lo, incLo, hi, incHi, mn, mx, info.precision, sparsity, info.trimFactor)
  <2> HIDE DEF incLo, incHi, hi
  <2>1. cover = IF \/ info.indexMin.t # info.indexMax.t
                   \/ lo.t # info.indexMin.t \/ hi.t # info.indexMin.t
                THEN Refused
                ELSE mc_getMincover(lo, incLo, hi, incHi, mn, mx, info.precision, sparsity,
                                    info.trimFactor)
    BY Zenon DEF get_mincover_from_FLE2RangeFindSpec, incLo, incHi, hi
  <2> HIDE DEF lo, mn, mx
  <2> QED
    BY <2>1, NotOk
<1>2. lo.t = t
  <2> HIDE DEF lo
  <2> QED
    BY <1>1
<1>3. mn = End(ro, t, IndexMin(ro, t)) /\ mx = End(ro, t, IndexMax(ro, t))
  <2> HIDE DEF lo
  <2> QED
    BY <1>2 DEF End, IsFloating
<1> HIDE DEF lo, hi, incLo, incHi, mn, mx
<1>4. a = EncodedAs(ro, t, lo)
  BY <1>3 DEF EncodedAs
<1>5. cover = CoverOfEncoded(a, incLo, b, incHi, sparsity, info.trimFactor)
  BY <1>1, NotOk DEF mc_getMincover
<1> HIDE DEF a, b
<1>6. a.ok /\ cover = CoverOfBounds(adj, a.max, sparsity, info.trimFactor)
  BY <1>5, NotOk DEF CoverOfEncoded
<1> HIDE DEF adj
<1>7. cover = GenerateCover(new)
  BY <1>6, NotOk DEF CoverOfBounds
<1> HIDE DEF new
<1>8. new.ok /\ cover.usedTrimFactor = new.trimFactor
  <2> DEFINE list == minCover(new)
  <2> HIDE DEF list
  <2>1. new.ok /\ cover = [ok |-> TRUE, mincover |-> list, usedTrimFactor |-> new.trimFactor]
    BY <1>7, NotOk DEF GenerateCover, list
  <2> QED
    BY <2>1
<1> DEFINE trim == trimFactorDefault(BitLen(a.max), info.trimFactor)
<1>9. new.trimFactor = trim
  <2> HIDE DEF trim
  <2>1. new = [ok |-> TRUE, rangeMin |-> adj.lo, rangeMax |-> adj.hi, maxlen |-> BitLen(a.max),
               sparsity |-> sparsity, trimFactor |-> trim]
    BY <1>8, NotOk DEF MinCoverGenerator_new, new, trim
  <2> QED
    BY <2>1
<1>10. a.max = DomainMax(ro, t)
  BY <1>2, <1>4, <1>6, DomainMaxIs
<1> QED
  BY <1>8, <1>9, <1>10

\* The payload of a range query: a stub, or the cover with the parameters of
\* an index of type t
FindPayload(blob, ro, t) ==
    /\ blob.subtype = FindRange
    /\ "payload" \in DOMAIN blob.doc /\ t \in RangeTypes => Params(blob.doc) = Parameters(ro, t)

\* A find payload with a cover has the parameters of the index.
LEMMA FindParams ==
    ASSUME NEW ro, RangeOptsShape(ro), NEW t, IndexMin(ro, t).t = t,
           NEW ph, ph.sparsity = ro.sparsity, NEW spec, NEW cover,
           spec.ok /\ spec.edgesInfo # <<>> =>
              /\ spec.edgesInfo[1].indexMin = IndexMin(ro, t)
              /\ spec.edgesInfo[1].indexMax = IndexMax(ro, t)
              /\ spec.edgesInfo[1].precision = ro.precision
              /\ spec.edgesInfo[1].trimFactor = ro.trimFactor
              /\ cover = get_mincover_from_FLE2RangeFindSpec(spec.edgesInfo[1], ph.sparsity),
           NEW blob, blob = RangeFindBlob(Keys, ph, spec, cover), blob.ok
    PROVE  FindPayload(blob, ro, t)
<1> DEFINE info == spec.edgesInfo[1]
           token(edge) == FindTokenSet(fle2_placeholder_common(Keys, ph.index_key_id, edge, FALSE, 0))
           stub == [payloadId |-> spec.payloadId, firstOperator |-> spec.firstOperator,
                    secondOperator |-> spec.secondOperator, payload |-> <<>>,
                    sparsity |-> <<>>, precision |-> <<>>, trimFactor |-> <<>>,
                    indexMin |-> <<>>, indexMax |-> <<>>]
           payload == [g |-> [i \in DOMAIN cover.mincover |-> token(cover.mincover[i])],
                       cm |-> ph.maxContentionFactor]
           full == [stub EXCEPT
                      !.payload = <<payload>>,
                      !.sparsity = <<ph.sparsity>>, !.precision = info.precision,
                      !.trimFactor = <<cover.usedTrimFactor>>,
                      !.indexMin = <<info.indexMin>>, !.indexMax = <<info.indexMax>>]
<1>1. blob = IF ~spec.ok THEN spec
             ELSE IF spec.edgesInfo = <<>>
             THEN Blob(FindRange, mc_FLE2FindRangePayloadV2_serialize(stub))
             ELSE IF ~cover.ok THEN cover
             ELSE IF ~get_tokenKey(Keys, ph.index_key_id).ok THEN Refused
             ELSE Blob(FindRange, mc_FLE2FindRangePayloadV2_serialize(full))
  BY Zenon DEF RangeFindBlob, FindRange
<1>2. stub.payload = <<>>
  OBVIOUS
<1>3. /\ full.payload = <<payload>> /\ full.sparsity = <<ph.sparsity>>
      /\ full.precision = info.precision /\ full.trimFactor = <<cover.usedTrimFactor>>
      /\ full.indexMin = <<info.indexMin>> /\ full.indexMax = <<info.indexMax>>
  <2> HIDE DEF payload, info
  <2> QED
    OBVIOUS
<1> HIDE DEF stub, full, payload, token
<1>4. CASE spec.ok /\ spec.edgesInfo = <<>>
  <2> DEFINE doc == mc_FLE2FindRangePayloadV2_serialize(stub)
  <2>1. OptField(doc, "payload") = <<>>
    BY <1>2, FindDocReads DEF First
  <2>2. "payload" \notin DOMAIN doc
    BY <2>1, NoField
  <2> HIDE DEF doc
  <2>3. blob = Blob(FindRange, doc)
    BY <1>1, <1>4 DEF doc
  <2> QED
    BY <2>2, <2>3 DEF Blob, FindPayload
<1>5. CASE spec.ok /\ spec.edgesInfo # <<>>
  <2> DEFINE doc == mc_FLE2FindRangePayloadV2_serialize(full)
  <2>1. cover.ok /\ blob = Blob(FindRange, doc)
    <3> HIDE DEF doc
    <3> QED
      BY <1>1, <1>5, NotOk, Zenon DEF doc
  <2>2. /\ OptField(doc, "sp") = First(full.sparsity)
        /\ OptField(doc, "pn") = First(full.precision)
        /\ OptField(doc, "tf") = First(full.trimFactor)
        /\ OptField(doc, "mn") = First(full.indexMin)
        /\ OptField(doc, "mx") = First(full.indexMax)
    BY FindDocReads
  <2> HIDE DEF doc
  <2>3. \A x : First(<<x>>) = <<x>>
    BY DEF First
  <2>4. /\ info.indexMin = IndexMin(ro, t) /\ info.indexMax = IndexMax(ro, t)
        /\ info.precision = ro.precision /\ info.trimFactor = ro.trimFactor
        /\ cover = get_mincover_from_FLE2RangeFindSpec(info, ph.sparsity)
    BY <1>5
  <2>5. First(ro.precision) = ro.precision
    BY FirstOfOptional DEF RangeOptsShape
  <2> HIDE DEF info
  <2>6. /\ OptField(doc, "sp") = <<ro.sparsity>> /\ OptField(doc, "pn") = ro.precision
        /\ OptField(doc, "tf") = <<cover.usedTrimFactor>>
        /\ OptField(doc, "mn") = <<IndexMin(ro, t)>> /\ OptField(doc, "mx") = <<IndexMax(ro, t)>>
    BY <1>3, <2>2, <2>3, <2>4, <2>5
  <2>7. /\ {"sp", "mn", "mx", "tf"} \subseteq DOMAIN doc
        /\ doc.sp = ro.sparsity /\ doc.tf = cover.usedTrimFactor
        /\ doc.mn = IndexMin(ro, t) /\ doc.mx = IndexMax(ro, t)
    BY <2>6, FieldRead
  <2>8. ASSUME t \in RangeTypes PROVE Params(doc) = Parameters(ro, t)
    <3>1. cover.usedTrimFactor = trimFactorDefault(BitLen(DomainMax(ro, t)), ro.trimFactor)
      BY <2>1, <2>4, <2>8, CoverTrim
    <3> QED
      BY <2>6, <2>7, <3>1, ParamsAre DEF RangeOptsShape
  <2> QED
    BY <2>1, <2>8 DEF Blob, FindPayload
<1> QED
  BY <1>1, <1>4, <1>5

\* Every ciphertext of an expression was made, or there is none.
LEMMA AllMade ==
    ASSUME NEW n, NEW blobs, DOMAIN blobs = 1..n, AllOrFirstFailure(blobs).ok
    PROVE  /\ AllOrFirstFailure(blobs).blobs = blobs
           /\ \A i \in 1..n : blobs[i].ok
<1> DEFINE bad == {i \in DOMAIN blobs : ~blobs[i].ok}
<1>1. bad = {}
  <2> SUFFICES ASSUME bad # {} PROVE FALSE
    OBVIOUS
  <2>1. bad \in SUBSET Nat
    OBVIOUS
  <2> HIDE DEF bad
  <2>2. \E i \in bad : \A j \in bad : i <= j
    BY <2>1, LeastNatural
  <2>3. (CHOOSE i \in bad : \A j \in bad : i <= j) \in bad
    BY <2>2
  <2>4. AllOrFirstFailure(blobs) = blobs[CHOOSE i \in bad : \A j \in bad : i <= j]
    BY DEF AllOrFirstFailure, bad
  <2>5. ASSUME NEW i \in bad PROVE ~blobs[i].ok
    BY <2>5 DEF bad
  <2> QED
    BY <2>3, <2>4, <2>5
<1>2. AllOrFirstFailure(blobs) = [ok |-> TRUE, blobs |-> blobs]
  BY <1>1 DEF AllOrFirstFailure
<1> QED
  BY <1>1, <1>2

\* The range a placeholder carries
LEMMA RangeCarried ==
    ASSUME NEW ro, RangeOptsShape(ro), NEW t, IndexMin(ro, t).t = t,
           NEW info,
           mc_FLE2RangeFindSpecEdgesInfo_parse(info).ok =>
              LET edges == mc_FLE2RangeFindSpecEdgesInfo_parse(info)
              IN /\ edges.indexMin = IndexMin(ro, t) /\ edges.indexMax = IndexMax(ro, t)
                 /\ edges.precision = ro.precision /\ edges.trimFactor = ro.trimFactor,
           NEW carried, carried = <<>> \/ carried = <<info>>,
           NEW args, args.edgesInfo = carried, args.sparsity = ro.sparsity,
           NEW ph, ph = mc_FLE2EncryptionPlaceholder_parse(mc_makeRangeFindPlaceholder(args)),
           NEW blob, blob = PlaceholderBlob(Keys, ph), blob.ok
    PROVE  FindPayload(blob, ro, t)
<1> DEFINE spec == mc_FLE2RangeFindSpec_parse(ph.v)
           cover == get_mincover_from_FLE2RangeFindSpec(spec.edgesInfo[1], ph.sparsity)
           edges == mc_FLE2RangeFindSpecEdgesInfo_parse(info)
<1>1. ph.ok /\ blob = fle2_marking_to_ciphertext(Keys, ph, 0, <<>>)
  BY DEF PlaceholderBlob
<1>2. /\ ph.type = "find" /\ ph.algorithm = "range" /\ ph.sparsity = ro.sparsity
      /\ ph.v = WithOpt(WithOpt([payloadId |-> args.payloadId, firstOperator |-> args.ops[1]],
                                "edgesInfo", carried),
                        "secondOperator", SubSeq(args.ops, 2, Len(args.ops)))
  BY <1>1, PlaceholderRead
<1>3. blob = fle2_placeholder_to_find_ciphertextForRange(Keys, ph)
  BY <1>1, <1>2 DEF fle2_marking_to_ciphertext
<1>4. blob = RangeFindBlob(Keys, ph, spec, cover)
  BY <1>3 DEF fle2_placeholder_to_find_ciphertextForRange
<1> HIDE DEF cover, spec
<1>6. ASSUME spec.ok, spec.edgesInfo # <<>>
      PROVE  edges.ok /\ spec.edgesInfo = <<edges>>
  <2>1. /\ carried = <<>> => spec.edgesInfo = <<>>
        /\ carried # <<>> =>
             LET e == mc_FLE2RangeFindSpecEdgesInfo_parse(carried[1])
             IN e.ok /\ spec.edgesInfo = <<e>>
    <3> DEFINE second == SubSeq(args.ops, 2, Len(args.ops))
               op == args.ops[1]
               pid == args.payloadId
    <3>1. spec = mc_FLE2RangeFindSpec_parse(
                    WithOpt(WithOpt([payloadId |-> pid, firstOperator |-> op],
                                    "edgesInfo", carried), "secondOperator", second))
      BY <1>2 DEF spec
    <3> HIDE DEF second, op, pid
    <3> QED
      BY <1>6, <3>1, FindSpecRead
  <2>2. carried = <<info>>
    BY <1>6, <2>1
  <2>3. carried # <<>> /\ carried[1] = info
    BY <2>2
  <2> QED
    BY <2>1, <2>3
<1>7. ASSUME edges.ok
      PROVE  /\ edges.indexMin = IndexMin(ro, t) /\ edges.indexMax = IndexMax(ro, t)
             /\ edges.precision = ro.precision /\ edges.trimFactor = ro.trimFactor
  BY <1>7
<1> HIDE DEF edges
<1>8. ASSUME spec.ok /\ spec.edgesInfo # <<>>
      PROVE  /\ spec.edgesInfo[1].indexMin = IndexMin(ro, t)
             /\ spec.edgesInfo[1].indexMax = IndexMax(ro, t)
             /\ spec.edgesInfo[1].precision = ro.precision
             /\ spec.edgesInfo[1].trimFactor = ro.trimFactor
             /\ cover = get_mincover_from_FLE2RangeFindSpec(spec.edgesInfo[1], ph.sparsity)
  BY <1>6, <1>7, <1>8 DEF cover
<1> QED
  BY <1>2, <1>4, <1>8, FindParams

\* The type of the first bound of an expression, which a query takes for the
\* type of the index, and whether it has one
QueryType(clauses) ==
    LET spec == mc_FLE2RangeFindDriverSpec_parse(clauses)
    IN (spec.lower \o spec.upper)[1].value.t
Bounded(clauses) ==
    LET spec == mc_FLE2RangeFindDriverSpec_parse(clauses)
    IN spec.ok /\ (spec.lower # <<>> \/ spec.upper # <<>>)

\* What a range expression sends
LEMMA ExpressionParams ==
    ASSUME NEW opts, NEW ro, opts.rangeopts = <<ro>>, RangeOptsShape(ro),
           NEW clauses, NEW id, NEW res,
           res = FLE2RangeFindDriverSpec_to_ciphertexts(opts, Keys, clauses, id), res.ok
    PROVE  /\ Bounded(clauses) /\ mc_RangeOpts_appendMin(ro, QueryType(clauses)).ok
           /\ \A b \in DOMAIN res.blobs : FindPayload(res.blobs[b], ro, QueryType(clauses))
<1> DEFINE spec == mc_FLE2RangeFindDriverSpec_parse(clauses)
           t == QueryType(clauses)
<1>p. spec = mc_FLE2RangeFindDriverSpec_parse(clauses)
  OBVIOUS
<1>q. t = (spec.lower \o spec.upper)[1].value.t
  BY DEF QueryType
<1> HIDE DEF spec, t
<1> DEFINE cm == opts.contention_factor[1]
           user == opts.key_id[1]
           index == IndexKey(opts)
           phs == mc_FLE2RangeFindDriverSpec_to_placeholders(spec, ro, cm, user, index, id)
           min == mc_RangeOpts_appendMin(ro, t)
           max == mc_RangeOpts_appendMax(ro, t)
           lb == IF spec.lower = <<>> THEN NegInf ELSE spec.lower[1].value
           ub == IF spec.upper = <<>> THEN PosInf ELSE spec.upper[1].value
           li == IF spec.lower = <<>> THEN TRUE ELSE BoundIncluded(spec.lower[1].op)
           ui == IF spec.upper = <<>> THEN TRUE ELSE BoundIncluded(spec.upper[1].op)
           base == [lowerBound |-> lb, lbIncluded |-> li, upperBound |-> ub, ubIncluded |-> ui,
                    indexMin |-> min.v, indexMax |-> max.v]
           info == WithOpt(WithOpt(base, "precision", ro.precision), "trimFactor", ro.trimFactor)
           args(edgesInfo) == [payloadId |-> id, ops |-> spec.ops, edgesInfo |-> edgesInfo,
                               index_key_id |-> index, user_key_id |-> user,
                               maxContentionFactor |-> cm, sparsity |-> ro.sparsity]
           carried(i) == IF i = 1 THEN <<info>> ELSE <<>>
           list == [i \in 1..spec.nOps |-> mc_makeRangeFindPlaceholder(args(carried(i)))]
           blob(i) == PlaceholderBlob(Keys, mc_FLE2EncryptionPlaceholder_parse(
                                               mc_makeRangeFindPlaceholder(args(carried(i)))))
           blobs == [i \in 1..spec.nOps |-> blob(i)]
<1>1. spec.ok /\ res = ExpressionBlobs(Keys, phs)
  <2>1. opts.rangeopts[1] = ro
    OBVIOUS
  <2> HIDE DEF phs, index
  <2> QED
    BY <1>p, <2>1, NotOk DEF FLE2RangeFindDriverSpec_to_ciphertexts, phs, index
<1> HIDE DEF cm, user, index
<1>2. phs = IF spec.lower = <<>> /\ spec.upper = <<>> THEN Refused
            ELSE IF ~min.ok THEN min ELSE IF ~max.ok THEN max
            ELSE [ok |-> TRUE, placeholders |-> list]
  BY <1>q, Zenon DEF mc_FLE2RangeFindDriverSpec_to_placeholders
<1> HIDE DEF phs, lb, ub, li, ui, info, min, max, list
<1>3. phs.ok
  BY <1>1 DEF ExpressionBlobs
<1>4. /\ spec.lower # <<>> \/ spec.upper # <<>>
      /\ min.ok /\ phs = [ok |-> TRUE, placeholders |-> list]
  BY <1>2, <1>3, NotOk
<1>5. phs.placeholders = list
  BY <1>4
<1>6. /\ DOMAIN list = 1..spec.nOps
      /\ \A i \in 1..spec.nOps : list[i] = mc_makeRangeFindPlaceholder(args(carried(i)))
  BY DEF list
<1> HIDE DEF args, carried
<1>7. res = AllOrFirstFailure(blobs)
  BY <1>1, <1>3, <1>5, <1>6 DEF ExpressionBlobs
<1>8. DOMAIN blobs = 1..spec.nOps /\ \A i \in 1..spec.nOps : blobs[i] = blob(i)
  OBVIOUS
<1> HIDE DEF blobs, blob
<1>9. res.blobs = blobs /\ \A i \in 1..spec.nOps : blobs[i].ok
  BY <1>7, <1>8, AllMade
<1>10. IndexMin(ro, t) = min.v /\ IndexMax(ro, t) = max.v
  BY DEF IndexMin, IndexMax, min, max
<1>11. IndexMin(ro, t).t = t
  BY <1>4, BoundsType DEF min
<1>12. ASSUME mc_FLE2RangeFindSpecEdgesInfo_parse(info).ok
       PROVE  LET edges == mc_FLE2RangeFindSpecEdgesInfo_parse(info)
              IN /\ edges.indexMin = IndexMin(ro, t) /\ edges.indexMax = IndexMax(ro, t)
                 /\ edges.precision = ro.precision /\ edges.trimFactor = ro.trimFactor
  <2> DEFINE edges == mc_FLE2RangeFindSpecEdgesInfo_parse(info)
             mn == min.v
             mx == max.v
  <2>1. edges = mc_FLE2RangeFindSpecEdgesInfo_parse(
                   WithOpt(WithOpt([lowerBound |-> lb, lbIncluded |-> li,
                                    upperBound |-> ub, ubIncluded |-> ui,
                                    indexMin |-> mn, indexMax |-> mx], "precision", ro.precision),
                           "trimFactor", ro.trimFactor))
    BY DEF info
  <2> HIDE DEF edges, mn, mx
  <2>2. edges.ok
    BY <1>12 DEF edges
  <2>3. /\ edges.indexMin = mn /\ edges.indexMax = mx
        /\ edges.precision = ro.precision /\ edges.trimFactor = ro.trimFactor
    BY <2>1, <2>2, InfoRead DEF RangeOptsShape
  <2> QED
    BY <1>10, <2>3 DEF edges, mn, mx
<1>13. ASSUME NEW i \in 1..spec.nOps PROVE FindPayload(blob(i), ro, t)
  <2>1. carried(i) = <<>> \/ carried(i) = <<info>>
    BY DEF carried
  <2>2. args(carried(i)).edgesInfo = carried(i) /\ args(carried(i)).sparsity = ro.sparsity
    BY DEF args
  <2>3. blob(i).ok
    BY <1>8, <1>9
  <2>4. blob(i) = PlaceholderBlob(Keys, mc_FLE2EncryptionPlaceholder_parse(
                                           mc_makeRangeFindPlaceholder(args(carried(i)))))
    BY DEF blob
  <2> DEFINE car == carried(i)
             arg == args(car)
             ph == mc_FLE2EncryptionPlaceholder_parse(mc_makeRangeFindPlaceholder(arg))
             out == blob(i)
  <2>5. /\ car = <<>> \/ car = <<info>>
        /\ arg.edgesInfo = car /\ arg.sparsity = ro.sparsity
        /\ ph = mc_FLE2EncryptionPlaceholder_parse(mc_makeRangeFindPlaceholder(arg))
        /\ out = PlaceholderBlob(Keys, ph) /\ out.ok
    BY <2>1, <2>2, <2>3, <2>4
  <2> HIDE DEF car, arg, ph, out
  <2>6. FindPayload(out, ro, t)
    BY <1>11, <1>12, <2>5, RangeCarried
  <2> QED
    BY <2>6 DEF out
<1> QED
  BY <1>1, <1>4, <1>8, <1>9, <1>13 DEF min, t, spec, Bounded

-----------------------------------------------------------------------------
(* The options of a query: those of an insert, and the query type *)

\* Setting the query type changes no other option.
LEMMA SetQueryType ==
    ASSUME NEW o, DOMAIN o = OptNames, NEW str, NEW r,
           r = mongocrypt_ctx_setopt_query_type(o, str), r.ok
    PROVE  SameOpts(r.opts, o, OptNames \ {"query_type"}) /\ r.opts.query_type = <<str>>
<1>1. ~ OptsFail.ok
  BY DEF OptsFail
<1>2. r = Opts([o EXCEPT !.query_type = <<str>>])
  BY <1>1 DEF mongocrypt_ctx_setopt_query_type
<1> QED
  BY <1>2 DEF Opts, SameOpts, OptNames

\* A query has the options of an insert into the field, and a type.
LEMMA QueryOptions ==
    ASSUME NEW f, NEW query, query # <<>>, NEW o, o = FieldOptions(f, query), o.ok
    PROVE  LET insert == FieldOptions(f, <<>>)
           IN /\ insert.ok /\ o.opts.query_type = <<query[1]>>
              /\ SameOpts(o.opts, insert.opts, OptNames \ {"query_type"})
<1> DEFINE insert == FieldOptions(f, <<>>)
           str == query[1]
           set == mongocrypt_ctx_setopt_query_type(insert.opts, str)
<1>1. o = IF insert.ok THEN set ELSE insert
  BY DEF FieldOptions, Then
<1> HIDE DEF insert, set
<1>2. insert.ok /\ o = set
  BY <1>1
<1>3. DOMAIN insert.opts = OptNames
  BY <1>2, InsertOptions DEF insert
<1> HIDE DEF str
<1>4. set = mongocrypt_ctx_setopt_query_type(insert.opts, str)
  BY DEF set
<1>5. SameOpts(set.opts, insert.opts, OptNames \ {"query_type"}) /\ set.opts.query_type = <<str>>
  BY <1>2, <1>3, <1>4, SetQueryType
<1> QED
  BY <1>2, <1>5 DEF insert, str

\* The options of the field for a range index
RangeField(f) == FieldOptions(f, <<>>).ok /\ FieldOptions(f, <<>>).opts.index_type = <<"range">>
Ro(f) == mc_RangeOpts_parse(f.range[1])

\* The value of a range field is encrypted with the options of the field.
LEMMA RangeInserts ==
    ASSUME NEW f, RangeField(f), NEW v, f.range # <<>> => v.t \in RangeTypes,
           NEW cf, NEW iv, NEW blob, blob = Encrypt(f, <<>>, v, cf, iv), blob.ok
    PROVE  /\ f.range # <<>> /\ blob.subtype = InsertV2 /\ "g" \in DOMAIN blob.doc
           /\ Params(blob.doc) = Parameters(Ro(f), v.t)
           /\ mc_RangeOpts_appendMin(Ro(f), v.t).ok
<1> DEFINE o == FieldOptions(f, <<>>)
           opts == o.opts
           ro == Ro(f)
<1>1. explicit_encrypt_init(opts, v) /\ blob = finalize_explicit(opts, Keys, v, cf, iv)
  <2> HIDE DEF o
  <2> QED
    BY NotOk DEF Encrypt, mongocrypt_ctx_explicit_encrypt_init, o
<1>2. o.ok /\ opts.index_type = <<"range">>
  BY DEF RangeField
<1>3. /\ opts.query_type = <<>>
      /\ opts.rangeopts = IF f.range = <<>> THEN <<>> ELSE <<ro>>
      /\ f.range # <<>> => ro.ok
  <2> HIDE DEF o
  <2> QED
    BY <1>2, InsertOptions DEF Ro, o
<1> HIDE DEF opts, o, ro
<1>4. opts.rangeopts # <<>>
  BY <1>1, <1>2 DEF explicit_encrypt_init, IndexIs
<1>5. f.range # <<>> /\ opts.rangeopts = <<ro>> /\ ro.ok /\ v.t \in RangeTypes
  BY <1>3, <1>4
<1>6. RangeOptsShape(ro)
  BY <1>5, ParsedShape DEF ro, Ro
<1> DEFINE ranged == mc_RangeOpts_to_FLE2RangeInsertSpec(ro, v)
           text == IF opts.query_type # <<>>
                   THEN TextSpecForQuery(opts.textopts[1], v.s, opts.query_type[1])
                   ELSE Joined([ok |-> TRUE],
                               TextOpts_to_FLE2TextSearchInsertSpec(opts.textopts[1], v.s, TextQueryTypes))
           ph == [type |-> "insert", algorithm |-> "range", user_key_id |-> opts.key_id[1],
                  index_key_id |-> IndexKey(opts), v |-> RangeInsertDoc(ranged),
                  maxContentionFactor |-> IF opts.contention_factor = <<>> THEN 0
                                          ELSE opts.contention_factor[1],
                  sparsity |-> ro.sparsity]
<1>7. blob = FinalizeWith(opts, Keys, v, ranged, text, cf, iv)
  <2>1. opts.index_type # <<>> /\ opts.rangeopts[1] = ro
    BY <1>2, <1>5
  <2> HIDE DEF ranged, text
  <2> QED
    BY <1>1, <2>1 DEF finalize_explicit, fle2_finalize_explicit, ranged, text
<1> HIDE DEF ranged, text
<1>8. ranged.ok /\ blob = fle2_marking_to_ciphertext(Keys, ph, cf, iv)
  <2>1. /\ ~IndexIs(opts, "equality") /\ ~IndexIs(opts, "none") /\ IndexIs(opts, "range")
        /\ ~IndexIs(opts, "string")
    BY <1>2 DEF IndexIs
  <2>2. opts.rangeopts # <<>> /\ opts.rangeopts[1] = ro /\ "range" # "unindexed"
    BY <1>5
  <2>3. blob = IF ~ranged.ok THEN ranged
               ELSE IF ("range" = "unindexed") # (opts.contention_factor = <<>>) THEN Aborts
               ELSE fle2_marking_to_ciphertext(Keys, ph, cf, iv)
    <3> DEFINE new_v == CASE opts.rangeopts # <<>> -> RangeInsertDoc(ranged)
                          [] opts.rangeopts = <<>> /\ opts.textopts # <<>> -> TextInsertDoc(text)
                          [] OTHER -> v
               algorithm == CASE IndexIs(opts, "equality") -> "equality"
                              [] IndexIs(opts, "none") -> "unindexed"
                              [] IndexIs(opts, "range") -> "range"
                              [] IndexIs(opts, "string") -> "textSearch"
    <3>1. algorithm = "range"
      BY <2>1
    <3>2. new_v = RangeInsertDoc(ranged)
      BY <2>2
    <3>3. blob = IF opts.rangeopts # <<>> /\ ~ranged.ok THEN ranged
                 ELSE IF opts.rangeopts = <<>> /\ opts.textopts # <<>> /\ (v.t # "string" \/ ~text.ok)
                 THEN Refused
                 ELSE IF (algorithm = "unindexed") # (opts.contention_factor = <<>>) THEN Aborts
                 ELSE fle2_marking_to_ciphertext(Keys,
                        [type |-> IF opts.query_type # <<>> THEN "find" ELSE "insert",
                         algorithm |-> algorithm, user_key_id |-> opts.key_id[1],
                         index_key_id |-> IndexKey(opts), v |-> new_v,
                         maxContentionFactor |-> IF opts.contention_factor = <<>> THEN 0
                                                 ELSE opts.contention_factor[1],
                         sparsity |-> IF opts.rangeopts = <<>> THEN 0
                                      ELSE opts.rangeopts[1].sparsity], cf, iv)
      BY <1>7, Zenon DEF FinalizeWith
    <3> HIDE DEF new_v, algorithm
    <3> QED
      BY <1>3, <2>2, <3>1, <3>2, <3>3
  <2> HIDE DEF ph
  <2> QED
    BY <2>3, NotOk
<1>9. ph.type = "insert" /\ ph.algorithm = "range" /\ ph.v = RangeInsertDoc(ranged)
      /\ ph.sparsity = ro.sparsity
  OBVIOUS
<1> HIDE DEF ph
<1>10. blob = fle2_placeholder_to_insert_update_ciphertextForRange(Keys, ph, cf, iv)
  BY <1>8, <1>9 DEF fle2_marking_to_ciphertext
<1>11. /\ blob.subtype = InsertV2 /\ "g" \in DOMAIN blob.doc
       /\ Params(blob.doc) = Parameters(ro, v.t)
       /\ mc_RangeOpts_appendMin(ro, v.t).ok
  BY <1>5, <1>6, <1>8, <1>9, <1>10, InsertParams DEF ranged
<1> QED
  BY <1>5, <1>11 DEF ro

\* The server keeps the parameters an insert sends.
LEMMA StoredParams ==
    ASSUME NEW blob, blob.subtype = InsertV2, "g" \in DOMAIN blob.doc, NEW iv
    PROVE  ServerStore(blob, iv).params = <<Params(blob.doc)>>
<1> DEFINE kept == [f \in DOMAIN blob.doc \intersect {"sp", "pn", "tf", "mn", "mx"} |-> blob.doc[f]]
<1>1. kept = Params(blob.doc)
  BY DEF Params, ParamNames
<1> HIDE DEF kept
<1>2. ServerStore(blob, iv).params = <<kept>>
  BY DEF ServerStore, InsertV2, kept
<1> QED
  BY <1>1, <1>2

-----------------------------------------------------------------------------
(* A query for a value sends no range payload. *)

\* What a placeholder that is no range query is encrypted to
LEMMA NoRangeFind ==
    ASSUME NEW ph, ph.algorithm \in {"equality", "unindexed", "range", "textSearch"},
           ph.type \in {"insert", "find"}, ~(ph.algorithm = "range" /\ ph.type = "find"),
           NEW cf, NEW iv, NEW blob, blob = fle2_marking_to_ciphertext(Keys, ph, cf, iv), blob.ok
    PROVE  blob.subtype # FindRange
<1>0. ASSUME NEW sub, NEW doc, blob = Blob(sub, doc), sub # FindRange
      PROVE  blob.subtype # FindRange
  BY <1>0 DEF Blob
<1>s. FindRange \notin {Subtype.FLE2InsertUpdatePayloadV2, Subtype.FLE2FindEqualityPayloadV2,
                        Subtype.FLE2FindTextPayload, Subtype.FLE2UnindexedEncryptedValueV2}
  BY DEF FindRange, Subtype
<1>1. CASE ph.algorithm = "equality" /\ ph.type = "insert"
  <2> DEFINE iup == fle2_insert_update_common(Keys, ph, ph.v, <<>>, cf, iv)
             doc == mc_FLE2InsertUpdatePayloadV2_serialize(iup)
  <2>1. blob = InsertBlob(iup)
    BY <1>1 DEF fle2_marking_to_ciphertext, fle2_placeholder_to_insert_update_ciphertext
  <2> HIDE DEF iup, doc
  <2>2. blob = Blob(Subtype.FLE2InsertUpdatePayloadV2, doc)
    BY <2>1 DEF InsertBlob, doc
  <2> QED
    BY <1>0, <1>s, <2>2
<1>2. CASE ph.algorithm = "equality" /\ ph.type = "find"
  <2> DEFINE common == fle2_placeholder_common(Keys, ph.index_key_id,
                           mongocrypt_buffer_from_iter(ph.v), FALSE, 0)
             doc == mc_FLE2FindEqualityPayloadV2_serialize(
                       Joined(common, [maxContentionFactor |-> ph.maxContentionFactor]))
  <2>1. blob = IF ~common.ok THEN common ELSE Blob(Subtype.FLE2FindEqualityPayloadV2, doc)
    BY <1>2, Zenon DEF fle2_marking_to_ciphertext, fle2_placeholder_to_find_ciphertext
  <2> HIDE DEF common, doc
  <2>2. blob = Blob(Subtype.FLE2FindEqualityPayloadV2, doc)
    BY <2>1
  <2> QED
    BY <1>0, <1>s, <2>2
<1>3. CASE ph.algorithm = "unindexed"
  <2> DEFINE got == decrypted_key_by_id(Keys, ph.user_key_id)
             sub == Subtype.FLE2UnindexedEncryptedValueV2
             enc == UnindexedEncryptedValueCommon_encrypt(sub, ph.user_key_id, TypeCode[ph.v.t],
                        iv, mongocrypt_buffer_from_iter(ph.v), got.key)
  <2>1. ph.type = "insert" /\ blob = fle2_placeholder_to_FLE2UnindexedEncryptedValue(Keys, ph, iv)
    BY <1>3, NotOk DEF fle2_marking_to_ciphertext
  <2>2. blob = IF ~got.ok THEN got ELSE IF ~enc.ok THEN enc
               ELSE EncryptedBlob(sub, ph.user_key_id, TypeCode[ph.v.t], enc.c)
    BY <2>1 DEF fle2_placeholder_to_FLE2UnindexedEncryptedValue
  <2> HIDE DEF got, enc, sub
  <2>3. blob = EncryptedBlob(sub, ph.user_key_id, TypeCode[ph.v.t], enc.c)
    BY <2>2
  <2>4. blob.subtype = sub
    BY <2>3 DEF EncryptedBlob
  <2> QED
    BY <1>s, <2>4 DEF sub
<1>4. CASE ph.algorithm = "range" /\ ph.type = "insert"
  <2> DEFINE spec == mc_FLE2RangeInsertSpec_parse(ph.v)
             iup == fle2_insert_update_common(Keys, ph, spec.v, <<FALSE>>, cf, iv)
             edges == get_edges(spec, ph.sparsity)
             doc == mc_FLE2InsertUpdatePayloadV2_serializeForRange(
                       Joined(iup, [edgeTokenSets |->
                                [i \in DOMAIN edges.edges |->
                                   EdgeTokenSet(Keys, ph, edges, edges.edges[i], cf, iv)],
                              sparsity |-> ph.sparsity, precision |-> spec.precision,
                              trimFactor |-> edges.usedTrimFactor,
                              indexMin |-> spec.min, indexMax |-> spec.max]))
  <2>1. blob = RangeInsertBlob(Keys, ph, spec, iup, edges, cf, iv)
    BY <1>4 DEF fle2_marking_to_ciphertext, fle2_placeholder_to_insert_update_ciphertextForRange
  <2> HIDE DEF spec, iup, edges, doc
  <2>2. blob = Blob(Subtype.FLE2InsertUpdatePayloadV2, doc)
    BY <2>1, NotOk DEF RangeInsertBlob, doc
  <2> QED
    BY <1>0, <1>s, <2>2
<1>5. CASE ph.algorithm = "textSearch" /\ ph.type = "insert"
  <2> DEFINE spec == mc_FLE2TextSearchInsertSpec_parse(ph.v)
             iup == fle2_insert_update_common(Keys, ph, [t |-> "string", s |-> spec.v], <<0>>, cf, iv)
             tsts == fle2_generate_TextSearchTokenSets(Keys, ph.index_key_id, spec, cf, iv)
             bogus == [iup EXCEPT !.edcDerivedToken = Bogus, !.escDerivedToken = Bogus,
                                  !.serverDerivedFromDataToken = Bogus]
             doc == mc_FLE2InsertUpdatePayloadV2_serializeForTextSearch(Joined(bogus, [tsts |-> tsts]))
  <2>1. blob = TextInsertBlob(spec, iup, tsts)
    BY <1>5 DEF fle2_marking_to_ciphertext, fle2_placeholder_to_insert_update_ciphertextForTextSearch
  <2> HIDE DEF spec, iup, tsts
  <2>2. blob = IF ~spec.ok THEN spec
               ELSE IF spec.substr = <<>> /\ spec.suffix = <<>> /\ spec.prefix = <<>> THEN Refused
               ELSE IF ~iup.ok THEN iup ELSE IF ~tsts.ok THEN tsts
               ELSE Blob(Subtype.FLE2InsertUpdatePayloadV2, doc)
    BY <2>1, Zenon DEF TextInsertBlob
  <2> HIDE DEF doc
  <2>3. blob = Blob(Subtype.FLE2InsertUpdatePayloadV2, doc)
    BY <2>2, NotOk
  <2> QED
    BY <1>0, <1>s, <2>3
<1>6. CASE ph.algorithm = "textSearch" /\ ph.type = "find"
  <2> DEFINE spec == mc_FLE2TextSearchInsertSpec_parse(ph.v)
             sets == fle2_generate_TextSearchFindTokenSets(Keys, ph.index_key_id, spec)
             doc == mc_FLE2FindTextPayload_serialize(
                    [tokenSets |-> sets.ts, maxContentionFactor |-> ph.maxContentionFactor,
                     caseFold |-> spec.casef, diacriticFold |-> spec.diacf,
                     substringSpec |-> spec.substr, suffixSpec |-> spec.suffix,
                     prefixSpec |-> spec.prefix])
  <2>1. blob = fle2_placeholder_to_find_ciphertextForTextSearch(Keys, ph)
    BY <1>6 DEF fle2_marking_to_ciphertext
  <2>2. blob = IF ~spec.ok THEN spec ELSE IF ~sets.ok THEN sets
               ELSE Blob(Subtype.FLE2FindTextPayload, doc)
    BY <2>1, Zenon DEF fle2_placeholder_to_find_ciphertextForTextSearch
  <2> HIDE DEF spec, sets, doc
  <2>3. blob = Blob(Subtype.FLE2FindTextPayload, doc)
    BY <2>2
  <2> QED
    BY <1>0, <1>s, <2>3
<1> QED
  BY <1>1, <1>2, <1>3, <1>4, <1>5, <1>6

\* Only an expression is encrypted to a range payload.
LEMMA ValueQueries ==
    ASSUME NEW f, NEW query, NEW v, NEW cf, NEW iv, NEW blob,
           blob = Encrypt(f, query, v, cf, iv), blob.ok
    PROVE  blob.subtype # FindRange
<1> DEFINE o == FieldOptions(f, query)
           opts == o.opts
<1>1. /\ o.ok /\ explicit_encrypt_init(opts, v) /\ opts.query_type # <<"range">>
      /\ blob = finalize_explicit(opts, Keys, v, cf, iv)
  <2> HIDE DEF o
  <2> QED
    BY NotOk DEF Encrypt, mongocrypt_ctx_explicit_encrypt_init, o
<1>2. opts.index_type \in {<<>>} \union IndexTypes
  <2> HIDE DEF o
  <2>1. CASE query = <<>>
    BY <1>1, <2>1, InsertOptions DEF o
  <2>2. CASE query # <<>>
    <3> DEFINE insert == FieldOptions(f, <<>>)
    <3> HIDE DEF insert
    <3>1. o.opts.index_type = insert.opts.index_type /\ insert.ok
      BY <1>1, <2>2, QueryOptions DEF SameOpts, OptNames, insert, o
    <3> QED
      BY <3>1, InsertOptions DEF insert
  <2> QED
    BY <2>1, <2>2
<1> HIDE DEF opts, o
<1>3. CASE opts.index_type = <<>>
  <2> DEFINE m == [key_id |-> opts.key_id[1], algorithm |-> opts.algorithm, v |-> v]
             got == decrypted_key_by_id(Keys, m.key_id)
             det == m.algorithm = "deterministic"
             sub == IF det THEN Subtype.FLE1DeterministicEncryptedValue
                    ELSE Subtype.FLE1RandomEncryptedValue
             t == TypeCode[m.v.t]
             bytes == mongocrypt_buffer_from_iter(m.v)
             aad == <<sub, m.key_id, t>>
             enc == do_encryption(FLE1Algorithm,
                        IF det THEN calculate_deterministic_iv(got.key, aad, bytes) ELSE iv,
                        aad, got.key, bytes)
  <2>1. blob = fle1_marking_to_ciphertext(Keys, m, iv)
    BY <1>1, <1>3 DEF finalize_explicit
  <2>2. sub # FindRange
    BY DEF FindRange, Subtype
  <2> HIDE DEF m
  <2>3. blob = IF ~got.ok THEN got ELSE IF ~enc.ok THEN enc
               ELSE EncryptedBlob(sub, m.key_id, t, enc.c)
    BY <2>1, Zenon DEF fle1_marking_to_ciphertext
  <2> HIDE DEF got, enc, sub, t
  <2>4. blob = EncryptedBlob(sub, m.key_id, t, enc.c)
    BY <2>3
  <2>5. blob.subtype = sub
    BY <2>4 DEF EncryptedBlob
  <2> QED
    BY <2>2, <2>5
<1>4. CASE opts.index_type \in IndexTypes
  <2> DEFINE ranged == mc_RangeOpts_to_FLE2RangeInsertSpec(opts.rangeopts[1], v)
             text == IF opts.query_type # <<>>
                     THEN TextSpecForQuery(opts.textopts[1], v.s, opts.query_type[1])
                     ELSE Joined([ok |-> TRUE],
                            TextOpts_to_FLE2TextSearchInsertSpec(opts.textopts[1], v.s, TextQueryTypes))
             algorithm == CASE IndexIs(opts, "equality") -> "equality"
                            [] IndexIs(opts, "none") -> "unindexed"
                            [] IndexIs(opts, "range") -> "range"
                            [] IndexIs(opts, "string") -> "textSearch"
             new_v == CASE opts.rangeopts # <<>> -> RangeInsertDoc(ranged)
                        [] opts.rangeopts = <<>> /\ opts.textopts # <<>> -> TextInsertDoc(text)
                        [] OTHER -> v
             ph == [type |-> IF opts.query_type # <<>> THEN "find" ELSE "insert",
                    algorithm |-> algorithm, user_key_id |-> opts.key_id[1],
                    index_key_id |-> IndexKey(opts), v |-> new_v,
                    maxContentionFactor |-> IF opts.contention_factor = <<>> THEN 0
                                            ELSE opts.contention_factor[1],
                    sparsity |-> IF opts.rangeopts = <<>> THEN 0
                                 ELSE opts.rangeopts[1].sparsity]
  <2>1. opts.index_type # <<>>
    BY <1>4 DEF IndexTypes
  <2> HIDE DEF ranged, text
  <2>2. blob = FinalizeWith(opts, Keys, v, ranged, text, cf, iv)
    BY <1>1, <2>1 DEF finalize_explicit, fle2_finalize_explicit, ranged, text
  <2>3. blob = IF opts.rangeopts # <<>> /\ ~ranged.ok THEN ranged
               ELSE IF opts.rangeopts = <<>> /\ opts.textopts # <<>> /\ (v.t # "string" \/ ~text.ok)
               THEN Refused
               ELSE IF (algorithm = "unindexed") # (opts.contention_factor = <<>>) THEN Aborts
               ELSE fle2_marking_to_ciphertext(Keys, ph, cf, iv)
    BY <2>2, Zenon DEF FinalizeWith
  <2>4. /\ algorithm \in {"equality", "unindexed", "range", "textSearch"}
        /\ algorithm = "range" => IndexIs(opts, "range")
    BY <1>4 DEF IndexTypes, IndexIs
  <2>5. IndexIs(opts, "range") => opts.query_type = <<>>
    <3>1. opts.query_type # <<>> => QueryMatches(opts)
      BY <1>1, <2>1 DEF explicit_encrypt_init
    <3>2. QueryMatches(opts) => IndexIs(opts, "equality") \/ IndexIs(opts, "string")
      BY <1>1 DEF QueryMatches
    <3>3. IndexIs(opts, "range") => ~IndexIs(opts, "equality") /\ ~IndexIs(opts, "string")
      BY DEF IndexIs
    <3> QED
      BY <3>1, <3>2, <3>3
  <2> HIDE DEF algorithm, new_v
  <2>6. /\ ph.algorithm = algorithm /\ ph.type \in {"insert", "find"}
        /\ opts.query_type = <<>> => ph.type = "insert"
    OBVIOUS
  <2> HIDE DEF ph
  <2>7. blob = fle2_marking_to_ciphertext(Keys, ph, cf, iv)
    BY <2>3, NotOk
  <2>8. ~(ph.algorithm = "range" /\ ph.type = "find")
    <3>1. "insert" # "find"
      OBVIOUS
    <3> QED
      BY <2>4, <2>5, <2>6, <3>1
  <2> QED
    BY <2>4, <2>6, <2>7, <2>8, NoRangeFind
<1> QED
  BY <1>2, <1>3, <1>4

\* What a range expression sends for a field
LEMMA RangeQueries ==
    ASSUME NEW f, NEW clauses, NEW id, NEW res, res = EncryptExpression(f, clauses, id), res.ok
    PROVE  /\ RangeField(f) /\ f.range # <<>> /\ Bounded(clauses)
           /\ mc_RangeOpts_appendMin(Ro(f), QueryType(clauses)).ok
           /\ \A b \in DOMAIN res.blobs : FindPayload(res.blobs[b], Ro(f), QueryType(clauses))
<1> DEFINE query == <<"range">>
           o == FieldOptions(f, query)
           opts == o.opts
           insert == FieldOptions(f, <<>>)
           ro == Ro(f)
<1>1. /\ o.ok
      /\ explicit_encrypt_init(opts, [t |-> "document"]) /\ opts.query_type = <<"range">>
      /\ res = FLE2RangeFindDriverSpec_to_ciphertexts(opts, Keys, clauses, id)
  <2> HIDE DEF o
  <2> QED
    BY NotOk DEF EncryptExpression, mongocrypt_ctx_explicit_encrypt_expression_init, o
<1> HIDE DEF query, o, insert, ro
<1>2. /\ insert.ok /\ opts.rangeopts = insert.opts.rangeopts
      /\ opts.index_type = insert.opts.index_type
  <2>1. query # <<>>
    BY DEF query
  <2>2. insert.ok /\ SameOpts(opts, insert.opts, OptNames \ {"query_type"})
    BY <1>1, <2>1, QueryOptions DEF o, insert
  <2> QED
    BY <2>2 DEF SameOpts, OptNames
<1>3. /\ insert.opts.rangeopts = IF f.range = <<>> THEN <<>> ELSE <<ro>>
      /\ f.range # <<>> => ro.ok
  BY <1>2, InsertOptions DEF Ro, ro, insert
<1> HIDE DEF opts
<1>4. opts.query_type # <<>> /\ opts.query_type = <<"range">>
  BY <1>1
<1>5. opts.index_type # <<>>
  <2>1. opts.algorithm # "none" => ExclusiveOptions(opts)
    BY <1>4 DEF ExclusiveOptions
  <2> QED
    BY <1>1, <2>1 DEF explicit_encrypt_init
<1>6. IndexIs(opts, "range")
  <2>1. QueryMatches(opts)
    BY <1>1, <1>4, <1>5 DEF explicit_encrypt_init
  <2> QED
    BY <1>4, <2>1 DEF QueryMatches
<1>7. opts.rangeopts # <<>>
  BY <1>1, <1>6 DEF explicit_encrypt_init
<1>8. f.range # <<>> /\ opts.rangeopts = <<ro>> /\ ro.ok
  BY <1>2, <1>3, <1>7
<1>9. RangeOptsShape(ro)
  BY <1>8, ParsedShape DEF ro, Ro
<1>10. RangeField(f)
  BY <1>2, <1>6 DEF RangeField, IndexIs, insert
<1>11. /\ Bounded(clauses) /\ mc_RangeOpts_appendMin(ro, QueryType(clauses)).ok
       /\ \A b \in DOMAIN res.blobs : FindPayload(res.blobs[b], ro, QueryType(clauses))
  BY <1>1, <1>8, <1>9, ExpressionParams
<1> QED
  BY <1>8, <1>10, <1>11 DEF ro

-----------------------------------------------------------------------------
(* The invariant: what a document of a range field and a cover held have    *)
(* in common is the options of the field.                                  *)

RangeDoc(d) ==
    /\ {"v", "params"} \subseteq DOMAIN d
    /\ RangeField(Field) =>
          /\ Field.range # <<>> /\ d.v \in Field.values
          /\ d.params = <<Parameters(Ro(Field), d.v.t)>>
          /\ mc_RangeOpts_appendMin(Ro(Field), d.v.t).ok

RangeCover(blob) ==
    blob.subtype = FindRange /\ "payload" \in DOMAIN blob.doc =>
        /\ RangeField(Field)
        /\ \E t : /\ mc_RangeOpts_appendMin(Ro(Field), t).ok
                  /\ "min" \notin DOMAIN Field.range[1] => \A v \in Field.values : v.t = t
                  /\ t \in RangeTypes => Params(blob.doc) = Parameters(Ro(Field), t)

ParamsInv ==
    /\ FieldKept
    /\ (\E S : coll \in Seq(S)) /\ \A i \in DOMAIN coll : RangeDoc(coll[i])
    /\ \A b \in DOMAIN found.blobs : RangeCover(found.blobs[b])

\* A document inserted into a range field is a RangeDoc, and so are the others.
LEMMA RangeDocAdded ==
    ASSUME ParamsInv, NEW d, coll' = Append(coll, d), RangeDoc(d), UNCHANGED <<field, found>>
    PROVE  ParamsInv'
<1>1. PICK S : coll \in Seq(S)
  BY DEF ParamsInv
<1>2. coll \in Seq(S \union {d}) /\ d \in S \union {d}
  BY <1>1
<1>3. /\ coll' \in Seq(S \union {d}) /\ Len(coll') = Len(coll) + 1
      /\ \A i \in 1..Len(coll) : coll'[i] = coll[i]
      /\ coll'[Len(coll) + 1] = d
  BY <1>2, AppendProperties
<1>4. Len(coll) \in Nat /\ DOMAIN coll = 1..Len(coll) /\ DOMAIN coll' = 1..(Len(coll) + 1)
  BY <1>1, <1>3, LenProperties
<1>5. Field' = Field
  BY DEF Field
<1>6. \A e : RangeDoc(e)' <=> RangeDoc(e)
  BY <1>5 DEF RangeDoc
<1>7. ASSUME NEW i \in DOMAIN coll' PROVE RangeDoc(coll'[i])
  <2>1. i \in 1..Len(coll) \/ i = Len(coll) + 1
    BY <1>4
  <2> QED
    BY <1>3, <1>4, <2>1 DEF ParamsInv
<1>8. \A i \in DOMAIN coll' : RangeDoc(coll[i])'
  BY <1>5, <1>7 DEF RangeDoc
<1>9. (\A b \in DOMAIN found.blobs : RangeCover(found.blobs[b]))'
  BY <1>5 DEF ParamsInv, RangeCover
<1> QED
  BY <1>3, <1>8, <1>9 DEF ParamsInv, FieldKept

\* Every step keeps the parameters those of the field's options.
LEMMA ParamsStep == ParamsInv /\ [Next]_vars => ParamsInv'
<1> SUFFICES ASSUME ParamsInv, [Next]_vars PROVE ParamsInv'
  OBVIOUS
<1>1. field' = field /\ Field' = Field
  BY DEF vars, Next, Insert, InsertLegacy, FindValue, FindExpression, Decrypt, Damage, Done, Field
<1>2. FieldKept'
  BY <1>1 DEF ParamsInv, FieldKept
<1>3. ASSUME coll' = coll
      PROVE  ((\E S : coll \in Seq(S)) /\ \A i \in DOMAIN coll : RangeDoc(coll[i]))'
  BY <1>1, <1>3 DEF ParamsInv, RangeDoc
<1>4. ASSUME found' = found
      PROVE  (\A b \in DOMAIN found.blobs : RangeCover(found.blobs[b]))'
  BY <1>1, <1>4 DEF ParamsInv, RangeCover
<1>5. ASSUME NEW v \in Field.values, NEW cf \in Contention(Field), Insert(v, cf) PROVE ParamsInv'
  <2>1. UNCHANGED <<field, found>>
    BY <1>5 DEF Insert
  <2>2. PICK blob : /\ blob = Encrypt(Field, <<>>, v, cf, FreshIv(Len(coll)))
                    /\ IF blob.ok
                       THEN coll' = Append(coll,
                              [v |-> v, intact |-> TRUE, legacy |-> FALSE,
                               tags |-> ServerStore(blob, FreshIv(MaxDocs + Len(coll))).tags,
                               params |-> ServerStore(blob, FreshIv(MaxDocs + Len(coll))).params,
                               stored |-> ServerStore(blob, FreshIv(MaxDocs + Len(coll))).stored])
                       ELSE UNCHANGED coll
    BY <1>5, Zenon DEF Insert
  <2>3. CASE ~ blob.ok
    BY <1>2, <1>3, <1>4, <2>1, <2>2, <2>3 DEF ParamsInv
  <2>4. CASE blob.ok
    <3> DEFINE kept == ServerStore(blob, FreshIv(MaxDocs + Len(coll)))
               d == [v |-> v, intact |-> TRUE, legacy |-> FALSE, tags |-> kept.tags,
                     params |-> kept.params, stored |-> kept.stored]
    <3>1. coll' = Append(coll, d)
      BY <2>2, <2>4
    <3> HIDE DEF kept
    <3>2. {"v", "params"} \subseteq DOMAIN d /\ d.v = v /\ d.params = kept.params
      OBVIOUS
    <3> HIDE DEF d
    <3>3. ASSUME RangeField(Field)
          PROVE  /\ Field.range # <<>> /\ kept.params = <<Parameters(Ro(Field), v.t)>>
                 /\ mc_RangeOpts_appendMin(Ro(Field), v.t).ok
      <4>1. Field.range # <<>> => v.t \in RangeTypes
        BY RangeTypesAssumption DEF ParamsInv, FieldKept, Field
      <4>2. /\ Field.range # <<>> /\ blob.subtype = InsertV2 /\ "g" \in DOMAIN blob.doc
            /\ Params(blob.doc) = Parameters(Ro(Field), v.t)
            /\ mc_RangeOpts_appendMin(Ro(Field), v.t).ok
        BY <2>2, <2>4, <3>3, <4>1, RangeInserts
      <4>3. kept.params = <<Params(blob.doc)>>
        BY <4>2, StoredParams DEF kept
      <4> QED
        BY <4>2, <4>3
    <3>4. RangeDoc(d)
      BY <3>2, <3>3 DEF RangeDoc
    <3> QED
      BY <2>1, <3>1, <3>4, RangeDocAdded
  <2> QED
    BY <2>3, <2>4
<1>6. ASSUME NEW v \in Field.values, InsertLegacy(v) PROVE ParamsInv'
  <2>1. UNCHANGED <<field, found>>
    BY <1>6 DEF InsertLegacy
  <2>2. PICK blob \in LegacyBlobs(Field, v, FreshIv(Len(coll))) :
          coll' = Append(coll, [v |-> v, intact |-> TRUE, legacy |-> TRUE,
                                tags |-> <<>>, params |-> <<>>, stored |-> blob])
    BY <1>6 DEF InsertLegacy
  <2>3. Field.alg # "Range"
    BY <2>2 DEF LegacyBlobs
  <2>4. ~RangeField(Field)
    <3> DEFINE o == FieldOptions(Field, <<>>)
    <3> HIDE DEF o
    <3>1. o.ok /\ o.opts.index_type = <<"range">> => Field.alg = "Range"
      BY InsertOptions DEF o
    <3> QED
      BY <2>3, <3>1 DEF RangeField, o
  <2> DEFINE d == [v |-> v, intact |-> TRUE, legacy |-> TRUE,
                   tags |-> <<>>, params |-> <<>>, stored |-> blob]
  <2>5. RangeDoc(d)
    BY <2>4 DEF RangeDoc
  <2>6. coll' = Append(coll, d)
    BY <2>2
  <2> HIDE DEF d
  <2> QED
    BY <2>1, <2>5, <2>6, RangeDocAdded
<1>7. ASSUME NEW q \in Field.queries, FindValue(q) PROVE ParamsInv'
  <2>1. coll' = coll
    BY <1>7 DEF FindValue
  <2>2. PICK blob : /\ blob = Encrypt(Field, q.type, q.v, 0, FreshIv(2 * MaxDocs))
                    /\ IF blob.ok
                       THEN found' = [q |-> <<q>>, blobs |-> <<blob>>,
                                      docs |-> {i \in DOMAIN coll : ServerMatches(blob, coll[i])}]
                       ELSE UNCHANGED found
    BY <1>7, Zenon DEF FindValue
  <2>3. CASE ~ blob.ok
    BY <1>2, <1>3, <1>4, <2>1, <2>2, <2>3 DEF ParamsInv
  <2>4. CASE blob.ok
    <3> DEFINE docs == {i \in DOMAIN coll : ServerMatches(blob, coll[i])}
    <3>1. found' = [q |-> <<q>>, blobs |-> <<blob>>, docs |-> docs]
      BY <2>2, <2>4
    <3> HIDE DEF docs
    <3>2. found'.blobs = <<blob>>
      BY <3>1
    <3>3. blob.subtype # FindRange
      BY <2>2, <2>4, ValueQueries
    <3>4. \A b \in DOMAIN found'.blobs : found'.blobs[b].subtype # FindRange
      BY <3>2, <3>3
    <3>5. (\A b \in DOMAIN found.blobs : RangeCover(found.blobs[b]))'
      BY <3>4 DEF RangeCover
    <3> QED
      BY <1>2, <1>3, <2>1, <3>5 DEF ParamsInv
  <2> QED
    BY <2>3, <2>4
<1>8. ASSUME NEW q \in Field.queries, FindExpression(q) PROVE ParamsInv'
  <2>1. coll' = coll /\ q.kind = "expression"
    BY <1>8 DEF FindExpression
  <2>2. PICK res : /\ res = EncryptExpression(Field, q.clauses, payloadId)
                   /\ IF res.ok
                      THEN found' = [q |-> <<q>>, blobs |-> res.blobs,
                                     docs |-> {i \in DOMAIN coll : ServerMatches(res.blobs[1], coll[i])}]
                      ELSE UNCHANGED found
    BY <1>8, Zenon DEF FindExpression
  <2>3. CASE ~ res.ok
    BY <1>2, <1>3, <1>4, <2>1, <2>2, <2>3 DEF ParamsInv
  <2>4. CASE res.ok
    <3> DEFINE docs == {i \in DOMAIN coll : ServerMatches(res.blobs[1], coll[i])}
               t == QueryType(q.clauses)
    <3>1. found' = [q |-> <<q>>, blobs |-> res.blobs, docs |-> docs]
      BY <2>2, <2>4
    <3> HIDE DEF docs
    <3>2. found'.blobs = res.blobs
      BY <3>1
    <3>3. /\ RangeField(Field) /\ Field.range # <<>> /\ Bounded(q.clauses)
          /\ mc_RangeOpts_appendMin(Ro(Field), t).ok
          /\ \A b \in DOMAIN res.blobs : FindPayload(res.blobs[b], Ro(Field), t)
      BY <2>2, <2>4, RangeQueries
    <3>4. "min" \notin DOMAIN Field.range[1] => \A v \in Field.values : v.t = t
      BY <2>1, <3>3, RangeTypesAssumption DEF ParamsInv, FieldKept, Field, Bounded, QueryType
    <3> HIDE DEF t
    <3>5. ASSUME NEW b \in DOMAIN res.blobs PROVE RangeCover(res.blobs[b])
      BY <3>3, <3>4 DEF RangeCover, FindPayload
    <3>6. (\A b \in DOMAIN found.blobs : RangeCover(found.blobs[b]))'
      BY <1>1, <3>2, <3>5 DEF RangeCover
    <3> QED
      BY <1>2, <1>3, <2>1, <3>6 DEF ParamsInv
  <2> QED
    BY <2>3, <2>4
<1>9. ASSUME NEW i \in DOMAIN coll, Decrypt(i) PROVE ParamsInv'
  BY <1>2, <1>3, <1>4, <1>9 DEF Decrypt, ParamsInv
<1>10. ASSUME NEW i \in DOMAIN coll, Damage(i) PROVE ParamsInv'
  <2>1. found' = found
    BY <1>10 DEF Damage
  <2>2. PICK blob \in Damaged(coll[i].stored) :
          coll' = [coll EXCEPT ![i].stored = blob, ![i].intact = FALSE]
    BY <1>10 DEF Damage
  <2> DEFINE d == coll[i]
             e == [[d EXCEPT !.stored = blob] EXCEPT !.intact = FALSE]
  <2>3. PICK S : coll \in Seq(S)
    BY DEF ParamsInv
  <2>4. coll' = [coll EXCEPT ![i] = e]
    BY <2>2
  <2>5. RangeDoc(d)
    BY DEF ParamsInv
  <2>6. {"v", "params"} \subseteq DOMAIN e /\ e.v = d.v /\ e.params = d.params
    <3> HIDE DEF d
    <3> QED
      BY <2>5 DEF RangeDoc
  <2> HIDE DEF e
  <2>7. RangeDoc(e)
    BY <2>5, <2>6 DEF RangeDoc
  <2>8. coll' \in Seq(S \union {e}) /\ DOMAIN coll' = DOMAIN coll
    BY <2>3, <2>4
  <2>9. \A j \in DOMAIN coll : coll'[j] = IF j = i THEN e ELSE coll[j]
    BY <2>4
  <2>10. \A j \in DOMAIN coll' : RangeDoc(coll'[j])
    BY <2>7, <2>8, <2>9 DEF ParamsInv
  <2>11. (\A j \in DOMAIN coll : RangeDoc(coll[j]))'
    BY <1>1, <2>10 DEF RangeDoc
  <2> QED
    BY <1>2, <1>4, <2>1, <2>8, <2>11 DEF ParamsInv
<1>11. ASSUME Done PROVE ParamsInv'
  <2>1. found'.blobs = <<>> /\ coll' = coll
    BY <1>11 DEF Done, NoQuery
  <2>2. DOMAIN found'.blobs = {}
    BY <2>1
  <2> QED
    BY <1>2, <1>3, <2>1, <2>2 DEF ParamsInv
<1>12. CASE UNCHANGED vars
  BY <1>2, <1>3, <1>4, <1>12 DEF vars, ParamsInv
<1> QED
  BY <1>5, <1>6, <1>7, <1>8, <1>9, <1>10, <1>11, <1>12 DEF Next

\* At the start there is neither a document nor a cover.
LEMMA ParamsInit == Init => ParamsInv
<1> SUFFICES ASSUME Init PROVE ParamsInv
  OBVIOUS
<1>1. coll = <<>> /\ found.blobs = <<>> /\ field \in DOMAIN Fields
  BY DEF Init, NoQuery
<1>2. coll \in Seq({}) /\ DOMAIN coll = {} /\ DOMAIN found.blobs = {}
  BY <1>1
<1> QED
  BY <1>1, <1>2 DEF ParamsInv, FieldKept

(***************************************************************************)
(* The parameters a range query sends with its cover are those of every    *)
(* document inserted, the trim factor included, which the edges of a value *)
(* (mc-range-edge-generation.c:37) and the cover of a range choose each on *)
(* their own: for every field, value and expression, at any word widths.   *)
(***************************************************************************)
THEOREM ParametersAlways == Spec => []IndexParametersAgree
<1>1. ParamsInv => IndexParametersAgree
  <2> SUFFICES ASSUME ParamsInv, NEW b \in DOMAIN found.blobs, NEW i \in DOMAIN coll,
                      found.blobs[b].subtype = FindRange,
                      "payload" \in DOMAIN found.blobs[b].doc
               PROVE  coll[i].params = <<Params(found.blobs[b].doc)>>
    BY DEF IndexParametersAgree, FindRange, Params, ParamNames
  <2> DEFINE doc == found.blobs[b].doc
             d == coll[i]
             ro == Ro(Field)
  <2>1. RangeDoc(d) /\ RangeField(Field)
    BY DEF ParamsInv, RangeCover
  <2>2. PICK t : /\ mc_RangeOpts_appendMin(ro, t).ok
                 /\ "min" \notin DOMAIN Field.range[1] => \A v \in Field.values : v.t = t
                 /\ t \in RangeTypes => Params(doc) = Parameters(ro, t)
    BY DEF ParamsInv, RangeCover
  <2> HIDE DEF d, doc, ro
  <2>3. /\ Field.range # <<>> /\ d.v \in Field.values
        /\ d.params = <<Parameters(ro, d.v.t)>>
        /\ mc_RangeOpts_appendMin(ro, d.v.t).ok
    BY <2>1 DEF RangeDoc, ro
  <2>4. d.v.t \in RangeTypes
    BY <2>3, RangeTypesAssumption DEF ParamsInv, FieldKept, Field
  <2>5. d.v.t = t
    <3>1. CASE IsSet(ro.min)
      <4>1. The(ro.min).t = t
        BY <2>2, <3>1, BoundsType
      <4>2. The(ro.min).t = d.v.t
        BY <2>3, <3>1, BoundsType
      <4> QED
        BY <4>1, <4>2
    <3>2. CASE ~IsSet(ro.min)
      <4> DEFINE range == Field.range[1]
      <4>1. ro = mc_RangeOpts_parse(range) /\ ro.ok
        BY <2>1, <2>3, InsertOptions DEF RangeField, Ro, ro
      <4> HIDE DEF range
      <4>2. ro.min = IF "min" \in DOMAIN range THEN <<range["min"]>> ELSE <<>>
        BY <4>1, NotOk DEF mc_RangeOpts_parse
      <4>3. <<range["min"]>> # <<>>
        OBVIOUS
      <4>4. "min" \notin DOMAIN range
        BY <3>2, <4>2, <4>3, Zenon DEF IsSet
      <4> QED
        BY <2>2, <2>3, <4>4 DEF range
    <3> QED
      BY <3>1, <3>2
  <2>6. d.params = <<Params(doc)>>
    BY <2>2, <2>3, <2>4, <2>5
  <2> QED
    BY <2>6 DEF d, doc
<1> QED
  BY <1>1, ParamsInit, ParamsStep, PTL DEF Spec
=============================================================================
