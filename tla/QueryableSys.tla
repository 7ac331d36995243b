----------------------------- MODULE QueryableSys ------------------------------
(*****************************************************************************)
(* One encrypted field of a collection: clients insert, query and decrypt    *)
(* through explicit encryption, the server stores and matches, and stored    *)
(* values may be damaged.  The server is external: it keeps the tokens of an *)
(* insert payload, wraps the client's ciphertext in its own envelope, and a  *)
(* query matches a document that was inserted with a token the query's token *)
(* leads to for some contention factor.                                      *)
(*****************************************************************************)
EXTENDS ExplicitEncrypt

CONSTANTS
    Fields,        \* a sequence of configurations [alg, cm, range, text, values, queries, docs]
    MaxDocs,       \* the most documents a configuration inserts (its docs)
    UserKey, IndexKeyId, OtherKey,
    CtrBlocks      \* blocks of the longest message in CTR mode

\* A finite BSON value of a type that can be encrypted
IsValue(v) ==
    \/ v.t \in {"int32", "int64", "date", "double"} /\ v.n \in Int
    \/ v.t = "decimal" /\ v.neg \in BOOLEAN /\ v.c \in Int /\ v.e \in Int
    \/ v.t = "string" /\ v.s \in Seq(Alphabet)

\* A contention factor is smaller than the words it is drawn from.
ASSUME FieldsAssumption ==
    \A f \in DOMAIN Fields :
        /\ Fields[f].cm # <<>> => Fields[f].cm[1] \in 0..(2^RandBits - 1)
        /\ \A v \in Fields[f].values : IsValue(v)

\* The BSON types a range index can have.
RangeTypes == {"int32", "int64", "date", "double", "decimal"}

\* A range field has one of them: its values do.  The options that give the
\* index bounds fix the type of a query's bounds, which is that of the bounds of
\* the index; without them the schema of the field does.
ASSUME RangeTypesAssumption ==
    \A f \in DOMAIN Fields : Fields[f].range # <<>> =>
        \A v \in Fields[f].values :
            /\ v.t \in RangeTypes
            /\ "min" \notin DOMAIN Fields[f].range[1] =>
                 \A q \in Fields[f].queries :
                    LET spec == mc_FLE2RangeFindDriverSpec_parse(q.clauses)
                    IN q.kind = "expression" /\ spec.ok /\ (spec.lower # <<>> \/ spec.upper # <<>>)
                          => (spec.lower \o spec.upper)[1].value.t = v.t

\* The values the first k bytes of a counter block can have.
CounterValues[k \in 0..CounterBytes] ==
    IF k = 0 THEN 1 ELSE ByteValues * CounterValues[k - 1]

\* A message, whose length is a uint32_t, has no more blocks than a counter of
\* 16 bytes has values.
ASSUME CtrAssumption ==
    CtrBlocks \in Nat /\ CtrBlocks <= CounterValues[CounterBytes]

VARIABLES field, coll, found, plain, payloadId, failed
vars == <<field, coll, found, plain, payloadId, failed>>

\* The configuration of this behaviour.
Field == Fields[field]

Keys == {UserKey, IndexKeyId, OtherKey}

-----------------------------------------------------------------------------
(* The calls of an embedder *)

Then(o, set(_)) == IF o.ok THEN set(o.opts) ELSE o

\* Options for an insert into the field; "query" is an optional query type.
FieldOptions(f, query) ==
    LET base == [NoOpts EXCEPT !.key_id = <<UserKey>>,
                   !.index_key_id = IF f.cm = <<>> THEN <<>> ELSE <<IndexKeyId>>]
        algorithm == mongocrypt_ctx_setopt_algorithm(base, f.alg)
        contention == IF f.cm = <<>> THEN algorithm
                      ELSE Then(algorithm, LAMBDA o : mongocrypt_ctx_setopt_contention_factor(o, f.cm[1]))
        ranged == IF f.range = <<>> THEN contention
                  ELSE Then(contention, LAMBDA o : mongocrypt_ctx_setopt_algorithm_range(o, f.range[1]))
        text == IF f.text = <<>> THEN ranged
                ELSE Then(ranged, LAMBDA o : mongocrypt_ctx_setopt_algorithm_text(o, f.text[1]))
    IN IF query = <<>> THEN text
       ELSE Then(text, LAMBDA o : mongocrypt_ctx_setopt_query_type(o, query[1]))

Encrypt(f, query, v, cf, iv) ==
    LET o == FieldOptions(f, query)
    IN IF ~o.ok THEN Refused
       ELSE IF ~mongocrypt_ctx_explicit_encrypt_init(o.opts, v) THEN Refused
       ELSE finalize_explicit(o.opts, Keys, v, cf, iv)

EncryptExpression(f, clauses, id) ==
    LET o == FieldOptions(f, <<"range">>)
    IN IF ~o.ok THEN Refused
       ELSE IF ~mongocrypt_ctx_explicit_encrypt_expression_init(o.opts, [t |-> "document"])
       THEN Refused
       ELSE FLE2RangeFindDriverSpec_to_ciphertexts(o.opts, Keys, clauses, id)

\* An expression that parses takes the next payload id, whatever becomes of it.
TakesPayloadId(f, clauses) ==
    /\ FieldOptions(f, <<"range">>).ok
    /\ mongocrypt_ctx_explicit_encrypt_expression_init(
          FieldOptions(f, <<"range">>).opts, [t |-> "document"])
    /\ mc_FLE2RangeFindDriverSpec_parse(clauses).ok

-----------------------------------------------------------------------------
(* The server *)

Tags(doc) ==
    IF "g" \in DOMAIN doc THEN [i \in DOMAIN doc.g |-> doc.g[i].d]
    ELSE IF "b" \in DOMAIN doc
    THEN LET all == <<doc.b.e>> \o doc.b.s \o doc.b.u \o doc.b.p
         IN [i \in DOMAIN all |-> all[i].d]
    ELSE <<doc.d>>

ServerStore(blob, iv) ==
    IF blob.subtype # Subtype.FLE2InsertUpdatePayloadV2
    THEN [stored |-> blob, tags |-> <<>>, params |-> <<>>]
    ELSE LET doc == blob.doc
             iup == mc_FLE2InsertUpdatePayloadV2_parse(doc)
             tags == Tags(doc)
         IN [tags |-> tags,
             params |-> IF "g" \in DOMAIN doc
                        THEN <<[f \in DOMAIN doc \intersect {"sp", "pn", "tf", "mn", "mx"} |-> doc[f]]>>
                        ELSE <<>>,
             stored |->
               [subtype |-> IF "g" \in DOMAIN doc THEN Subtype.FLE2IndexedRangeEncryptedValueV2
                            ELSE IF "b" \in DOMAIN doc THEN Subtype.FLE2IndexedTextEncryptedValue
                            ELSE Subtype.FLE2IndexedEqualityEncryptedValueV2,
                keyId |-> iup.indexKeyId, t |-> iup.valueType,
                counts |-> IF "b" \in DOMAIN doc
                           THEN <<Len(tags), Len(doc.b.s), Len(doc.b.u)>> ELSE <<Len(tags)>>,
                sev |-> SealEnvelope(iup.serverEncryptionToken, iv,
                                     [keyId |-> iup.userKeyId, c |-> iup.value.c]),
                metadata |-> [i \in DOMAIN tags |-> [tag |-> tags[i]]]]]

\* The query tokens of a find payload, and its largest contention factor.
FindTokens(blob) ==
    IF blob.subtype = Subtype.FLE2FindEqualityPayloadV2 THEN <<blob.doc.d>>
    ELSE IF blob.subtype = Subtype.FLE2FindTextPayload
    THEN <<blob.doc.ts[CHOOSE k \in DOMAIN blob.doc.ts : TRUE].d>>
    ELSE [i \in DOMAIN blob.doc.payload.g |-> blob.doc.payload.g[i].d]

MaxContention(blob) ==
    IF blob.subtype = Subtype.FLE2FindRangePayloadV2 THEN blob.doc.payload.cm ELSE blob.doc.cm

TokenMatches(token, cm, doc) ==
    \E u \in 0..cm, i \in DOMAIN doc.tags : doc.tags[i] = HMAC(token, LE64(u))

ServerMatches(blob, doc) ==
    IF blob.subtype = Subtype.FLE1DeterministicEncryptedValue THEN blob = doc.stored
    ELSE \E i \in DOMAIN FindTokens(blob) :
            TokenMatches(FindTokens(blob)[i], MaxContention(blob), doc)

-----------------------------------------------------------------------------
(* Actions *)

NoQuery == [q |-> <<>>, blobs |-> <<>>, docs |-> {}]
NoPlain == [doc |-> 0, res |-> Refused]

Init ==
    /\ field \in DOMAIN Fields
    /\ coll = <<>> /\ found = NoQuery /\ plain = NoPlain
    /\ payloadId = 0 /\ failed = FALSE

\* The client is between two operations.  A behaviour ends its inserts and
\* queries once a value is damaged; decryption is what damage is about.
Idle == found = NoQuery /\ plain = NoPlain
Intact == \A i \in DOMAIN coll : coll[i].intact

\* An IV no other encryption used.
FreshIv(n) == <<<<n>>>>
Contention(f) == IF f.cm = <<>> THEN {0} ELSE choose_contention(f.cm[1])

Insert(v, cf) ==
    /\ Len(coll) < Field.docs /\ Idle /\ Intact
    /\ \E blob \in {Encrypt(Field, <<>>, v, cf, FreshIv(Len(coll)))} :
          IF blob.ok
          THEN /\ LET kept == ServerStore(blob, FreshIv(MaxDocs + Len(coll)))
                  IN coll' = Append(coll, [v |-> v, intact |-> TRUE, legacy |-> FALSE, tags |-> kept.tags,
                                           params |-> kept.params, stored |-> kept.stored])
               /\ UNCHANGED failed
          ELSE failed' = blob.abort /\ UNCHANGED coll
    /\ UNCHANGED <<field, found, plain, payloadId>>

\* What else a decrypting client meets: values that an old client and server
\* wrote with version 1 of the protocol, and insert payloads that no server has
\* processed yet (a client reading back its own command).
LegacyBlobs(f, v, iv) ==
    LET t == TypeCode[v.t]
        bytes == mongocrypt_buffer_from_iter(v)
        old == do_encryption(FLE2AEADAlgorithm, iv, <<UserKey>>, KeyMaterial(UserKey), bytes)
        value == [keyId |-> UserKey, c |-> old.c]
        token == ServerDataEncryptionLevel1Token(TokenKey(KeyMaterial(IndexKeyId)))
        uev == UnindexedEncryptedValueCommon_encrypt(Subtype.FLE2UnindexedEncryptedValue,
                   UserKey, t, iv, bytes, KeyMaterial(UserKey))
        iup == Encrypt(f, <<>>, v, 0, iv)
    IN CASE f.alg = "Unindexed" ->
              {EncryptedBlob(Subtype.FLE2UnindexedEncryptedValue, UserKey, t, uev.c)}
         [] f.alg = "Indexed" ->
              {b \in {iup} : b.ok} \union
              {mc_FLE2IndexedEncryptedValue_write(IndexKeyId, t, token, iv, value),
               Blob(Subtype.FLE2InsertUpdatePayload,
                    [d |-> Bogus, s |-> Bogus, c |-> Bogus, p |-> Bogus, u |-> IndexKeyId,
                     t |-> t, v |-> value, e |-> token])}
         [] OTHER -> {}

InsertLegacy(v) ==
    /\ coll = <<>> /\ Idle
    /\ \E blob \in LegacyBlobs(Field, v, FreshIv(Len(coll))) :
          coll' = Append(coll, [v |-> v, intact |-> TRUE, legacy |-> TRUE,
                                tags |-> <<>>, params |-> <<>>, stored |-> blob])
    /\ UNCHANGED <<field, found, plain, payloadId, failed>>

\* A query for a value, with a query type (none for FLE1).
FindValue(q) ==
    /\ q.kind = "value" /\ Idle /\ Intact
    /\ \E blob \in {Encrypt(Field, q.type, q.v, 0, FreshIv(2 * MaxDocs))} :
          IF blob.ok
          THEN /\ found' = [q |-> <<q>>, blobs |-> <<blob>>,
                            docs |-> {i \in DOMAIN coll : ServerMatches(blob, coll[i])}]
               /\ UNCHANGED failed
          ELSE failed' = blob.abort /\ UNCHANGED found
    /\ UNCHANGED <<field, coll, plain, payloadId>>

\* A range expression: the first payload carries the range, the second is a
\* stub the server pairs with it by payload id.
FindExpression(q) ==
    /\ q.kind = "expression" /\ Idle /\ Intact
    /\ \E res \in {EncryptExpression(Field, q.clauses, payloadId)} :
          IF res.ok
          THEN /\ found' = [q |-> <<q>>, blobs |-> res.blobs,
                            docs |-> {i \in DOMAIN coll : ServerMatches(res.blobs[1], coll[i])}]
               /\ UNCHANGED failed
          ELSE failed' = res.abort /\ UNCHANGED found
    /\ payloadId' = IF TakesPayloadId(Field, q.clauses) THEN mc_getNextPayloadId(payloadId)
                    ELSE payloadId
    /\ UNCHANGED <<field, coll, plain>>

Decrypt(i) ==
    /\ Idle
    /\ plain' = [doc |-> i, res |-> replace_ciphertext_with_plaintext(Keys, coll[i].stored)]
    /\ UNCHANGED <<field, coll, found, payloadId, failed>>

\* The result is handed out and the context destroyed.
Done == /\ ~Idle
        /\ found' = NoQuery /\ plain' = NoPlain
        /\ UNCHANGED <<field, coll, payloadId, failed>>

\* What the byte of a BSON type can be damaged to: another type of values of
\* eight bytes, or one the bytes do not have the shape of (0 stands for them all).
EightBytes == {TypeCode.double, TypeCode.date, TypeCode.int64}
OtherTypes(t) == (IF t \in EightBytes THEN EightBytes \ {t} ELSE {}) \union {0}

\* One part of a stored value is damaged: its IV, its sealed text, its HMAC, a
\* key id, or the BSON type.  An HMAC covers the type of a value without an index;
\* that of an indexed value, or of an insert payload, is in the clear.
Indexed(blob) == "sev" \in DOMAIN blob
DamagedCiphertext(c) ==
    {[c EXCEPT !.iv = FreshIv(-1)], [c EXCEPT !.s.data[1] = @ + 1],
     [c EXCEPT !.s.data[Len(c.s.data)] = -1], [c EXCEPT !.tag[1].key = <<0, 0>>]}
Damaged(blob) ==
    IF "doc" \in DOMAIN blob
    THEN {[blob EXCEPT !.doc.v.keyId = OtherKey]}
         \union {[blob EXCEPT !.doc.t = t] : t \in OtherTypes(blob.doc.t)}
         \union {[blob EXCEPT !.doc.v.c = c] : c \in DamagedCiphertext(blob.doc.v.c)}
    ELSE IF Indexed(blob)
    THEN {[blob EXCEPT !.keyId = OtherKey], [blob EXCEPT !.sev.iv = FreshIv(-1)],
          [blob EXCEPT !.sev.s.data.keyId = OtherKey]}
         \union {[blob EXCEPT !.t = t] : t \in OtherTypes(blob.t)}
         \union {[blob EXCEPT !.sev.s.data.c = c] : c \in DamagedCiphertext(blob.sev.s.data.c)}
    ELSE {[blob EXCEPT !.keyId = OtherKey]}
         \union {[blob EXCEPT !.t = t] : t \in OtherTypes(blob.t)}
         \union {[blob EXCEPT !.c = c] : c \in DamagedCiphertext(blob.c)}

Damage(i) ==
    /\ Intact /\ Idle
    /\ \E blob \in Damaged(coll[i].stored) :
          coll' = [coll EXCEPT ![i].stored = blob, ![i].intact = FALSE]
    /\ UNCHANGED <<field, found, plain, payloadId, failed>>

Next ==
    \/ \E v \in Field.values, cf \in Contention(Field) : Insert(v, cf)
    \/ \E v \in Field.values : InsertLegacy(v)
    \/ \E q \in Field.queries : FindValue(q) \/ FindExpression(q)
    \/ \E i \in DOMAIN coll : Decrypt(i) \/ Damage(i)
    \/ Done

Spec == Init /\ [][Next]_vars

-----------------------------------------------------------------------------
(* Properties *)

TypeOK ==
    /\ field \in DOMAIN Fields /\ Len(coll) <= MaxDocs
    /\ payloadId \in 0..Int32Max /\ failed \in BOOLEAN
    /\ found.docs \subseteq DOMAIN coll /\ plain.doc \in 0..Len(coll)

\* What a query means for the plaintext.  A floating index with a precision
\* compares numbers truncated to that precision.
Digits(f, v) ==
    IF IsFloating(v) /\ "precision" \in DOMAIN f.range[1]
    THEN Scaled(Num(v), f.range[1].precision) ELSE Num(v)
Satisfies(f, v, c) ==
    CASE c.op = "gt"  -> Digits(f, v) > Digits(f, c.value)
      [] c.op = "gte" -> Digits(f, v) >= Digits(f, c.value)
      [] c.op = "lt"  -> Digits(f, v) < Digits(f, c.value)
      [] c.op = "lte" -> Digits(f, v) <= Digits(f, c.value)
TextFold(f, str) ==
    unicode_fold(str, ~f.text[1].caseSensitive, ~f.text[1].diacriticSensitive)
TextContains(kind, str, part) ==
    CASE kind = "prefix"    -> IsPrefix(part, str)
      [] kind = "suffix"    -> IsSuffix(part, str)
      [] kind = "substring" -> \E i \in 0..(Len(str) - Len(part)) :
                                  SubSeq(str, i + 1, i + Len(part)) = part
Answer(f, q, v) ==
    IF q.kind = "expression" THEN \A i \in DOMAIN q.clauses : Satisfies(f, v, q.clauses[i])
    ELSE IF f.text # <<>> THEN TextContains(q.type[1], TextFold(f, v.s), TextFold(f, q.v.s))
    ELSE v = q.v

\* The server, comparing tokens, finds exactly the documents whose plaintext
\* satisfies the query: encoding, edges, minimal cover, folding and string sets
\* of insert (mongocrypt-marking.c:999) and query (mongocrypt-marking.c:1910)
\* fit together for every contention factor.
QueryMatchesExactly ==
    found.q # <<>> =>
        \A i \in DOMAIN coll :
            coll[i].intact /\ ~coll[i].legacy => (i \in found.docs <=> Answer(Field, found.q[1], coll[i].v))

\* A minimal cover (mc-range-mincover-generator.template.h:193) has at most one
\* edge in common with the edges of a value, however sparse the index.
CoverDisjoint ==
    \A b \in DOMAIN found.blobs, i \in DOMAIN coll :
        LET blob == found.blobs[b]
        IN blob.subtype = Subtype.FLE2FindRangePayloadV2 /\ "payload" \in DOMAIN blob.doc =>
              Cardinality({k \in DOMAIN FindTokens(blob) :
                  TokenMatches(FindTokens(blob)[k], MaxContention(blob), coll[i])}) <= 1

\* The parameters a range query sends with its cover are those every document
\* was inserted with, the trim factor chosen by default included
\* (mc-range-edge-generation.c:37 and the cover generator choose it separately).
IndexParametersAgree ==
    \A b \in DOMAIN found.blobs, i \in DOMAIN coll :
        LET doc == found.blobs[b].doc
        IN found.blobs[b].subtype = Subtype.FLE2FindRangePayloadV2 /\ "payload" \in DOMAIN doc =>
              coll[i].params = <<[f \in DOMAIN doc \intersect {"sp", "pn", "tf", "mn", "mx"} |-> doc[f]]>>

\* The BSON type a stored value names, and the subtypes whose HMAC covers it.
StoredType(blob) ==
    IF blob.subtype \in {Subtype.FLE2InsertUpdatePayload, Subtype.FLE2InsertUpdatePayloadV2}
    THEN blob.doc.t ELSE blob.t
TypeCovered ==
    {Subtype.FLE1DeterministicEncryptedValue, Subtype.FLE1RandomEncryptedValue,
     Subtype.FLE2UnindexedEncryptedValue, Subtype.FLE2UnindexedEncryptedValueV2}

\* An intact value decrypts to what was inserted.  A damaged one decrypts to the
\* bytes that were inserted or to an error, never to other bytes
\* (mongocrypt-crypto.c:1072 checks the HMAC first; the server's envelope is not
\* authenticated), and if its HMAC covers the type, to the value that was
\* inserted.  The type of an indexed value and of an insert payload is not
\* authenticated (mc-fle2-payload-iev-v2.c:228: the HMAC covers K_KeyId only):
\* their bytes are read as whatever type is stored, a date as an int64.
IntactDecrypts == plain.doc # 0 => (coll[plain.doc].intact => plain.res.ok)
NeverOtherBytes ==
    plain.doc # 0 /\ plain.res.ok =>
        LET doc == coll[plain.doc]
        IN /\ plain.res.bytes = mongocrypt_buffer_from_iter(doc.v)
           /\ plain.res.t = StoredType(doc.stored)
           /\ doc.intact \/ doc.stored.subtype \in TypeCovered => plain.res.t = TypeCode[doc.v.t]
DecryptsToInserted == IntactDecrypts /\ NeverOtherBytes

\* Two text values whose ciphertexts have the same length have the same numbers
\* of tags of each kind: the string sets are padded so that the index tells no
\* more about the length than the ciphertext does
\* (mc-text-search-str-encode.c:32, 110).
TextLengthHidden ==
    Field.text # <<>> =>
        \A i, j \in DOMAIN coll :
            LET a == coll[i].stored
                b == coll[j].stored
            IN Len(a.sev.s.data.c.s.data) = Len(b.sev.s.data.c.s.data) => a.counts = b.counts

\* A decimal index one of whose bounds, or whose width, is INT_128_MAX_AS_DECIMAL
\* once scaled, or with a zero bound of an exponent out of the ordinary.
AtDecimalLimit(f) ==
    /\ f.range # <<>> /\ {"min", "max", "precision"} \subseteq DOMAIN f.range[1]
    /\ LET r == f.range[1]
           scaled(b) == Scaled(Num(b), r.precision)
       IN /\ r.min.t = "decimal"
          /\ \/ scaled(r.max) = Int128MaxDec \/ scaled(r.max) - scaled(r.min) >= Int128MaxDec
             \/ \E b \in {r.min, r.max} : b.c = 0 /\ ExponentAsserts(b, r.precision)

\* Options that are accepted make an assertion of the encoders fail only at the
\* limits of a decimal index: a bound or a width of INT_128_MAX_AS_DECIMAL passes
\* the check (mc-range-encoding.c:545) and fails the assertion behind it (460, for
\* the calls at 576 and 757), and the exponent of a zero bound is not checked (443).
\* No other value, query or option does (mc-range-encoding.c,
\* mc-text-search-str-encode.c:58).
AssertsOnlyAtDecimalLimits == failed => AtDecimalLimit(Field)

\* "rho is the greatest integer such that: coeff * 10^rho <= cMax"
\* (mc-range-encoding.c:794), which makes the encoding of a decimal depend on its
\* number alone, not on how coefficient and exponent split it.
RhoIsGreatest ==
    \A i \in DOMAIN coll :
        LET v == coll[i].v
        IN v.t = "decimal" /\ v.c # 0 =>
              v.c * Ten^Rho(v.c) <= CMax /\ v.c * Ten^(Rho(v.c) + 1) > CMax

\* Every contention factor is drawn with the same probability
\* (mongocrypt-crypto.c:1385 rejects the draws that would favour some).
UnbiasedContention ==
    Field.cm # <<>> =>
        LET bound == Field.cm[1] + 1
        IN /\ choose_contention(Field.cm[1]) = 0..Field.cm[1]
           /\ bound >= 2 =>
                \A r, s \in 0..Field.cm[1] :
                   Cardinality(random_uint64_draws(bound, r)) = Cardinality(random_uint64_draws(bound, s))

\* CTR mode built on ECB (mongocrypt-crypto.c:39) never encrypts two blocks of
\* a message with the same counter, wherever the IV starts.
CtrBlocksDistinct ==
    Field.alg = "Unindexed" =>
        \A iv \in [1..CounterBytes -> 0..(ByteValues - 1)] :
            LET ctr == ctr_via_ecb(iv, CtrBlocks)
            IN \A i, j \in 1..CtrBlocks : ctr[i] = ctr[j] => i = j
=============================================================================
