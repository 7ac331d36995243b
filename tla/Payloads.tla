------------------------------- MODULE Payloads --------------------------------
(********************************************************************************)
(* The documents and blobs that queryable encryption exchanges with             *)
(* query analysis and with the server: placeholders and their specifications    *)
(* (mc-fle2-encryption-placeholder.c), insert/update and find payloads, and     *)
(* the stored encrypted values of both protocol versions (mc-fle2-payload-*,    *)
(* mc-fle2-insert-update-payload*.c, mc-fle2-find-*.c, mongocrypt-ciphertext.c) *)
(*                                                                              *)
(* A BSON document is a record; a field that is not in it is not in DOMAIN.     *)
(* BSON types are checked by the parsers and are right by construction here     *)
(* (a length is checked to be a number); so are the absence of duplicate fields *)
(* and of unknown ones.                                                         *)
(********************************************************************************)
EXTENDS FleTokens, FleCrypto, SequencesExt

CONSTANT Int64Max

ASSUME PayloadAssumption == Int64Max \in Nat

Subtype ==
    [FLE1DeterministicEncryptedValue |-> 1, FLE1RandomEncryptedValue |-> 2,
     FLE2InsertUpdatePayload |-> 4, FLE2UnindexedEncryptedValue |-> 6,
     FLE2IndexedEqualityEncryptedValue |-> 7, FLE2InsertUpdatePayloadV2 |-> 11,
     FLE2FindEqualityPayloadV2 |-> 12, FLE2FindRangePayloadV2 |-> 13,
     FLE2IndexedEqualityEncryptedValueV2 |-> 14,
     FLE2IndexedRangeEncryptedValueV2 |-> 15,
     FLE2UnindexedEncryptedValueV2 |-> 16, FLE2IndexedTextEncryptedValue |-> 17,
     FLE2FindTextPayload |-> 18]

Has(doc, f) == f \in DOMAIN doc
OptField(doc, f) == IF Has(doc, f) THEN <<doc[f]>> ELSE <<>>
\* The fields of doc, and those of more that doc does not have.
Joined(doc, more) ==
    [f \in DOMAIN doc \union DOMAIN more |-> IF f \in DOMAIN doc THEN doc[f] ELSE more[f]]
\* The document with field f only if the optional o is set.
WithOpt(doc, f, o) == IF o = <<>> THEN doc ELSE Joined(doc, [x \in {f} |-> o[1]])

-----------------------------------------------------------------------------
(* Placeholders and specifications *)

mc_validate_contention(cm) == cm >= 0 /\ cm # Int64Max
mc_validate_sparsity(sparsity) == sparsity >= 0

mc_FLE2EncryptionPlaceholder_parse(doc) ==
    IF \/ ~({"t", "a", "ki", "ku", "v", "cm"} \subseteq DOMAIN doc)
       \/ doc.t \notin {"insert", "find"}
       \/ doc.a \notin {"unindexed", "equality", "range", "textSearch"}
       \/ ~mc_validate_contention(doc.cm)
       \/ Has(doc, "s") /\ ~mc_validate_sparsity(doc.s)
    THEN Refused
    ELSE [ok |-> TRUE, type |-> doc.t, algorithm |-> doc.a, index_key_id |-> doc.ki,
          user_key_id |-> doc.ku, v |-> doc.v, maxContentionFactor |-> doc.cm,
          sparsity |-> IF Has(doc, "s") THEN doc.s ELSE 0]

mc_FLE2RangeFindSpecEdgesInfo_parse(doc) ==
    IF \/ ~({"lowerBound", "lbIncluded", "upperBound", "ubIncluded",
             "indexMin", "indexMax"} \subseteq DOMAIN doc)
       \/ Has(doc, "precision") /\ doc.precision \notin Nat
       \/ Has(doc, "trimFactor") /\ doc.trimFactor \notin Nat
    THEN Refused
    ELSE [ok |-> TRUE, lowerBound |-> doc.lowerBound, lbIncluded |-> doc.lbIncluded,
          upperBound |-> doc.upperBound, ubIncluded |-> doc.ubIncluded,
          indexMin |-> doc.indexMin, indexMax |-> doc.indexMax,
          precision |-> OptField(doc, "precision"),
          trimFactor |-> OptField(doc, "trimFactor")]

RangeOperators == {"gt", "gte", "lt", "lte"}

mc_FLE2RangeFindSpec_parse(doc) ==
    LET edges == mc_FLE2RangeFindSpecEdgesInfo_parse(doc.edgesInfo)
    IN IF \/ ~({"firstOperator", "payloadId"} \subseteq DOMAIN doc)
          \/ doc.firstOperator \notin RangeOperators
          \/ Has(doc, "secondOperator") /\ doc.secondOperator \notin RangeOperators
          \/ Has(doc, "edgesInfo") /\ ~edges.ok
       THEN Refused
       ELSE [ok |-> TRUE, payloadId |-> doc.payloadId,
             firstOperator |-> doc.firstOperator,
             secondOperator |-> OptField(doc, "secondOperator"),
             edgesInfo |-> IF Has(doc, "edgesInfo") THEN <<edges>> ELSE <<>>]

mc_FLE2RangeInsertSpec_parse(doc) ==
    IF \/ ~({"v", "min", "max"} \subseteq DOMAIN doc)
       \/ Has(doc, "precision") /\ doc.precision \notin Nat
       \/ Has(doc, "trimFactor") /\ doc.trimFactor \notin Nat
    THEN Refused
    ELSE [ok |-> TRUE, v |-> doc.v, min |-> doc.min, max |-> doc.max,
          precision |-> OptField(doc, "precision"),
          trimFactor |-> OptField(doc, "trimFactor")]

mc_FLE2SubstringInsertSpec_parse(doc) ==
    /\ {"mlen", "ub", "lb"} \subseteq DOMAIN doc
    /\ {doc.mlen, doc.ub, doc.lb} \subseteq Nat \ {0}
    /\ doc.ub >= doc.lb /\ doc.mlen >= doc.ub

AffixInsertSpec_parse(doc) ==
    {"ub", "lb"} \subseteq DOMAIN doc /\ {doc.ub, doc.lb} \subseteq Nat \ {0} /\ doc.ub >= doc.lb

mc_FLE2SuffixInsertSpec_parse(doc) == AffixInsertSpec_parse(doc)
mc_FLE2PrefixInsertSpec_parse(doc) == AffixInsertSpec_parse(doc)

mc_FLE2TextSearchInsertSpec_parse(doc) ==
    IF \/ ~({"v", "casef", "diacf"} \subseteq DOMAIN doc)
       \/ Has(doc, "substr") /\ ~mc_FLE2SubstringInsertSpec_parse(doc.substr)
       \/ Has(doc, "suffix") /\ ~mc_FLE2SuffixInsertSpec_parse(doc.suffix)
       \/ Has(doc, "prefix") /\ ~mc_FLE2PrefixInsertSpec_parse(doc.prefix)
    THEN Refused
    ELSE [ok |-> TRUE, v |-> doc.v, casef |-> doc.casef, diacf |-> doc.diacf,
          substr |-> OptField(doc, "substr"), suffix |-> OptField(doc, "suffix"),
          prefix |-> OptField(doc, "prefix")]

-----------------------------------------------------------------------------
(* Payloads for the server *)

mc_FLE2InsertUpdatePayloadV2_serialize(iup) ==
    [d |-> iup.edcDerivedToken, s |-> iup.escDerivedToken, p |-> iup.encryptedTokens,
     u |-> iup.indexKeyId, t |-> iup.valueType, v |-> iup.value,
     e |-> iup.serverEncryptionToken, l |-> iup.serverDerivedFromDataToken,
     k |-> iup.contentionFactor]

mc_FLE2InsertUpdatePayloadV2_serializeForRange(iup) ==
    WithOpt(Joined(mc_FLE2InsertUpdatePayloadV2_serialize(iup),
                   [g |-> iup.edgeTokenSets, sp |-> iup.sparsity,
                    tf |-> iup.trimFactor, mn |-> iup.indexMin, mx |-> iup.indexMax]),
            "pn", iup.precision)

mc_FLE2InsertUpdatePayloadV2_serializeForTextSearch(iup) ==
    Joined(mc_FLE2InsertUpdatePayloadV2_serialize(iup),
           [b |-> [e |-> iup.tsts.exact, s |-> iup.tsts.substr,
                   u |-> iup.tsts.suffix, p |-> iup.tsts.prefix]])

\* userKeyId is the first 16 bytes of v.
mc_FLE2InsertUpdatePayloadV2_parse(doc) ==
    IF \/ ~({"d", "s", "p", "u", "t", "v", "e", "l", "k"} \subseteq DOMAIN doc)
       \/ doc.t \notin 0..255 \/ doc.k < 0
    THEN Refused
    ELSE [ok |-> TRUE, valueType |-> doc.t, indexKeyId |-> doc.u, value |-> doc.v,
          userKeyId |-> doc.v.keyId, serverEncryptionToken |-> doc.e,
          contentionFactor |-> doc.k]

mc_FLE2InsertUpdatePayloadV2_decrypt(iup, user_key) ==
    do_decryption(FLE2v2AEADAlgorithm, <<iup.userKeyId>>, user_key, iup.value.c)

\* Version 1: the same fields with a token c of ECC and without l and k.
mc_FLE2InsertUpdatePayload_parse(doc) ==
    IF ~({"d", "s", "c", "p", "u", "t", "v", "e"} \subseteq DOMAIN doc) \/ doc.t \notin 0..255
    THEN Refused
    ELSE [ok |-> TRUE, valueType |-> doc.t, value |-> doc.v, userKeyId |-> doc.v.keyId]

mc_FLE2InsertUpdatePayload_decrypt(iup, user_key) ==
    do_decryption(FLE2AEADAlgorithm, <<iup.userKeyId>>, user_key, iup.value.c)

mc_FLE2FindEqualityPayloadV2_serialize(payload) ==
    [d |-> payload.edcDerivedToken, s |-> payload.escDerivedToken,
     l |-> payload.serverDerivedFromDataToken, cm |-> payload.maxContentionFactor]

mc_FLE2FindEqualityPayloadV2_parse(doc) ==
    {"d", "s", "l", "cm"} \subseteq DOMAIN doc /\ mc_validate_contention(doc.cm)

\* A stub has no "payload".
mc_FLE2FindRangePayloadV2_serialize(payload) ==
    LET base == [payloadId |-> payload.payloadId, firstOperator |-> payload.firstOperator]
        second == WithOpt(base, "secondOperator", payload.secondOperator)
        full == WithOpt(second, "payload", payload.payload)
        sp == WithOpt(full, "sp", payload.sparsity)
        pn == WithOpt(sp, "pn", payload.precision)
        tf == WithOpt(pn, "tf", payload.trimFactor)
    IN WithOpt(WithOpt(tf, "mn", payload.indexMin), "mx", payload.indexMax)

\* The token sets: e, s, u or p, whichever the query has.
mc_FLE2FindTextPayload_serialize(payload) ==
    LET base == [ts |-> payload.tokenSets, cm |-> payload.maxContentionFactor,
                 cf |-> payload.caseFold, df |-> payload.diacriticFold]
    IN WithOpt(WithOpt(WithOpt(base, "ss", payload.substringSpec),
                       "fs", payload.suffixSpec), "ps", payload.prefixSpec)

mc_TextSearchFindTokenSets_parse(ts) ==
    Cardinality(DOMAIN ts) = 1 /\ DOMAIN ts \subseteq {"e", "s", "u", "p"}

mc_FLE2FindTextPayload_parse(doc) ==
    /\ {"ts", "cm", "cf", "df"} \subseteq DOMAIN doc
    /\ mc_TextSearchFindTokenSets_parse(doc.ts) /\ mc_validate_contention(doc.cm)
    /\ Has(doc, "ss") => mc_FLE2SubstringInsertSpec_parse(doc.ss)
    /\ Has(doc, "fs") => mc_FLE2SuffixInsertSpec_parse(doc.fs)
    /\ Has(doc, "ps") => mc_FLE2PrefixInsertSpec_parse(doc.ps)

-----------------------------------------------------------------------------
(* Stored values: [subtype, keyId, t, ...] *)

\* fle_blob_subtype || key_uuid || original_bson_type
serialize_associated_data(blob) == <<blob.subtype, blob.keyId, blob.t>>

mongocrypt_ciphertext_parse(blob) ==
    blob.subtype \in {Subtype.FLE1DeterministicEncryptedValue,
                      Subtype.FLE1RandomEncryptedValue}

mc_FLE2UnindexedEncryptedValue_parse(blob) ==
    blob.subtype = Subtype.FLE2UnindexedEncryptedValue

mc_FLE2UnindexedEncryptedValueV2_parse(blob) ==
    blob.subtype = Subtype.FLE2UnindexedEncryptedValueV2

UnindexedAlgorithm(subtype) ==
    IF subtype = Subtype.FLE2UnindexedEncryptedValue
    THEN FLE2AEADAlgorithm ELSE FLE2v2AEADAlgorithm

UnindexedEncryptedValueCommon_encrypt(subtype, keyId, t, iv, plaintext, key) ==
    do_encryption(UnindexedAlgorithm(subtype), iv, <<subtype, keyId, t>>, key, plaintext)

UnindexedEncryptedValueCommon_decrypt(blob, key) ==
    do_decryption(UnindexedAlgorithm(blob.subtype), serialize_associated_data(blob),
                  key, blob.c)

(* Indexed values.  Reading one is a sequence of calls: parse, add_S_Key,      *)
(* add_K_Key.  The server's envelope "sev" seals [keyId, c] (for version 1      *)
(* also a length, a counter and three tokens) without authentication, so an    *)
(* envelope opened wrongly yields a key id no key has.                        *)

NoKeyId == -1

IevNew == [parsed |-> FALSE, S_KeyId |-> NoKeyId, t |-> 0, sev |-> <<>>,
           inner |-> <<>>, ClientValue |-> <<>>]

mc_FLE2IndexedEncryptedValueV2_parse(iev, blob) ==
    LET edge_count == IF blob.subtype = Subtype.FLE2IndexedEqualityEncryptedValueV2
                      THEN 1 ELSE blob.counts[1]
    IN IF \/ iev.parsed
          \/ blob.subtype \notin {Subtype.FLE2IndexedEqualityEncryptedValueV2,
                                  Subtype.FLE2IndexedRangeEncryptedValueV2,
                                  Subtype.FLE2IndexedTextEncryptedValue}
          \/ edge_count = 0
          \/ /\ blob.subtype = Subtype.FLE2IndexedTextEncryptedValue
             /\ edge_count < blob.counts[2] + blob.counts[3] + 1
          \/ Len(blob.metadata) < edge_count
       THEN Refused
       ELSE [ok |-> TRUE, iev |-> [iev EXCEPT !.parsed = TRUE, !.S_KeyId = blob.keyId,
                                              !.t = blob.t, !.sev = <<blob.sev>>]]

\* A server block: the tag is what queries match against.
mc_FLE2TagAndEncryptedMetadataBlock_parse(block) == block.tag

Envelope(sev, token) ==
    IF sev.s.token = token /\ sev.s.iv = sev.iv
    THEN sev.s.data ELSE [sev.s.data EXCEPT !.keyId = NoKeyId]

IevAddSKey(iev, S_Key) ==
    IF ~iev.parsed \/ iev.inner # <<>> \/ Len(S_Key) # 3 THEN Refused
    ELSE [ok |-> TRUE,
          iev |-> [iev EXCEPT !.inner =
                     <<Envelope(iev.sev[1], ServerDataEncryptionLevel1Token(TokenKey(S_Key)))>>]]

IevAddKKey(alg, iev, K_Key) ==
    LET plain == do_decryption(alg, <<iev.inner[1].keyId>>, K_Key, iev.inner[1].c)
    IN IF iev.inner = <<>> \/ iev.ClientValue # <<>> THEN Refused
       ELSE IF ~plain.ok THEN Refused
       ELSE [ok |-> TRUE, iev |-> [iev EXCEPT !.ClientValue = <<plain.data>>]]

mc_FLE2IndexedEncryptedValueV2_add_S_Key(iev, S_Key) == IevAddSKey(iev, S_Key)
mc_FLE2IndexedEncryptedValueV2_add_K_Key(iev, K_Key) ==
    IevAddKKey(FLE2v2AEADAlgorithm, iev, K_Key)

mc_FLE2IndexedEncryptedValue_parse(iev, blob) ==
    IF iev.parsed \/ blob.subtype # Subtype.FLE2IndexedEqualityEncryptedValue THEN Refused
    ELSE [ok |-> TRUE, iev |-> [iev EXCEPT !.parsed = TRUE, !.S_KeyId = blob.keyId,
                                           !.t = blob.t, !.sev = <<blob.sev>>]]

mc_FLE2IndexedEncryptedValue_add_S_Key(iev, S_Key) == IevAddSKey(iev, S_Key)
mc_FLE2IndexedEncryptedValue_add_K_Key(iev, K_Key) ==
    IevAddKKey(FLE2AEADAlgorithm, iev, K_Key)

\* What writes an envelope: the server for version 2, and
\* mc_FLE2IndexedEncryptedValue_write for version 1.
SealEnvelope(token, iv, inner) ==
    [iv |-> iv, s |-> [token |-> token, iv |-> iv, data |-> inner]]

mc_FLE2IndexedEncryptedValue_write(S_KeyId, t, token, iv, inner) ==
    [subtype |-> Subtype.FLE2IndexedEqualityEncryptedValue, keyId |-> S_KeyId,
     t |-> t, sev |-> SealEnvelope(token, iv, inner)]
=============================================================================
