-------------------------------- MODULE Marking --------------------------------
(*****************************************************************************)
(* From a marking to a ciphertext (mongocrypt-marking.c), and back from a    *)
(* stored ciphertext to a value (mongocrypt-ctx-decrypt.c).                  *)
(*                                                                           *)
(* "keys" is the set of key ids whose keys the key broker decrypted.  Random *)
(* IVs and contention factors are parameters, chosen by the caller's action. *)
(* A value is a record as in RangeIndex, or [t |-> "string", s |-> chars].   *)
(*****************************************************************************)
EXTENDS RangeFind, TextIndex

TypeCode == [double |-> 1, string |-> 2, date |-> 9, int32 |-> 16, int64 |-> 18,
             decimal |-> 19]

\* The bytes of a BSON value.  Those of eight bytes all have one shape, whatever
\* they stand for; the other types have a length and a shape of their own.
StringBytes(str) == <<ByteLen(str) + 1>> \o Utf8(str) \o <<0>>
mongocrypt_buffer_from_iter(v) ==
    CASE v.t = "int32"   -> <<4, v.n>>
      [] v.t \in {"int64", "date", "double"} -> <<8, v.n>>
      [] v.t = "decimal" -> <<16, IF v.neg THEN 1 ELSE 0, v.c, v.e>>
      [] v.t = "string"  -> StringBytes(v.s)

\* The bytes read as a value of BSON type t, if they have its shape.  (A value of
\* another type that takes the first of the bytes only, the rest being a
\* well-formed further element by chance, is left out.)
mongocrypt_buffer_to_bson_value(bytes, t) ==
    LET shape == CASE t = 16 -> Len(bytes) = 2 /\ bytes[1] = 4
                   [] t \in {1, 9, 18} -> Len(bytes) = 2 /\ bytes[1] = 8
                   [] t = 19 -> Len(bytes) = 4 /\ bytes[1] = 16
                   [] t = 2  -> Len(bytes) >= 2 /\ bytes[1] = Len(bytes) - 1
                   [] OTHER -> FALSE
    IN IF shape THEN [ok |-> TRUE, t |-> t, bytes |-> bytes] ELSE Refused

\* A data key: 96 bytes, three parts.
KeyMaterial(id) == <<<<id, 1>>, <<id, 2>>, <<id, 3>>>>
decrypted_key_by_id(keys, id) ==
    IF id \in keys THEN [ok |-> TRUE, key |-> KeyMaterial(id)] ELSE Refused

-----------------------------------------------------------------------------
(* Tokens common to all queryable payloads *)

get_tokenKey(keys, index_key_id) ==
    LET got == decrypted_key_by_id(keys, index_key_id)
    IN IF ~got.ok \/ Len(got.key) # 3 THEN Refused
       ELSE [ok |-> TRUE, tokenKey |-> TokenKey(got.key)]

\* With a contention factor, the derived tokens are hashed once more.
fle2_derive_EDC_token(edc, value, useContention, cf) ==
    LET fromData == EDCDerivedFromDataToken(edc, value)
    IN IF useContention THEN EDCDerivedFromDataTokenAndContentionFactor(fromData, cf) ELSE fromData

fle2_derive_ESC_token(esc, value, useContention, cf) ==
    LET fromData == ESCDerivedFromDataToken(esc, value)
    IN IF useContention THEN ESCDerivedFromDataTokenAndContentionFactor(fromData, cf) ELSE fromData

fle2_placeholder_common(keys, index_key_id, value, useContention, cf) ==
    LET root == get_tokenKey(keys, index_key_id)
        level1 == CollectionsLevel1Token(root.tokenKey)
    IN IF ~root.ok THEN root
       ELSE IF useContention /\ cf < 0 THEN Aborts
       ELSE [ok |-> TRUE, collectionsLevel1Token |-> level1,
             serverDataEncryptionLevel1Token |-> ServerDataEncryptionLevel1Token(root.tokenKey),
             edcDerivedToken |-> fle2_derive_EDC_token(EDCToken(level1), value, useContention, cf),
             escDerivedToken |-> fle2_derive_ESC_token(ESCToken(level1), value, useContention, cf),
             serverDerivedFromDataToken |->
                 ServerDerivedFromDataToken(ServerTokenDerivationLevel1Token(root.tokenKey), value)]

\* ESC token, then nothing, the leaf flag or the size of the text token set,
\* under CTR with the ECOC token.
fle2_encrypted_token(level1, escDerived, extra, iv) ==
    [iv |-> iv, s |-> [token |-> ECOCToken(level1), iv |-> iv,
                       data |-> [esc |-> escDerived, extra |-> extra]]]

fle2_placeholder_aes_aead_encrypt(keys, alg, keyId, bytes, iv) ==
    LET got == decrypted_key_by_id(keys, keyId)
        enc == do_encryption(alg, iv, <<keyId>>, got.key, bytes)
    IN IF ~got.ok THEN got ELSE IF ~enc.ok THEN enc
       ELSE [ok |-> TRUE, value |-> [keyId |-> keyId, c |-> enc.c]]

\* The contention factors an insert may draw.
choose_contention(max) == IF max > 0 THEN random_int64(max + 1) ELSE {0}

-----------------------------------------------------------------------------
(* Inserts *)

\* The fields every insert/update payload has.
InsertUpdateFields(ph, t, common, enc, extra, cf, iv) ==
    IF ~common.ok THEN common ELSE IF ~enc.ok THEN enc
    ELSE [ok |-> TRUE, contentionFactor |-> cf, indexKeyId |-> ph.index_key_id,
          valueType |-> TypeCode[t], value |-> enc.value,
          edcDerivedToken |-> common.edcDerivedToken,
          escDerivedToken |-> common.escDerivedToken,
          serverDerivedFromDataToken |-> common.serverDerivedFromDataToken,
          serverEncryptionToken |-> common.serverDataEncryptionLevel1Token,
          encryptedTokens |-> fle2_encrypted_token(common.collectionsLevel1Token,
                                                  common.escDerivedToken, extra, iv)]

fle2_insert_update_common(keys, ph, v, extra, cf, iv) ==
    LET bytes == mongocrypt_buffer_from_iter(v)
    IN InsertUpdateFields(ph, v.t,
           fle2_placeholder_common(keys, ph.index_key_id, bytes, TRUE, cf),
           fle2_placeholder_aes_aead_encrypt(keys, FLE2v2AEADAlgorithm, ph.user_key_id, bytes, iv),
           extra, cf, iv)

Blob(subtype, doc) == [ok |-> TRUE, subtype |-> subtype, doc |-> doc]

InsertBlob(iup) ==
    IF ~iup.ok THEN iup
    ELSE Blob(Subtype.FLE2InsertUpdatePayloadV2, mc_FLE2InsertUpdatePayloadV2_serialize(iup))

fle2_placeholder_to_insert_update_ciphertext(keys, ph, cf, iv) ==
    InsertBlob(fle2_insert_update_common(keys, ph, ph.v, <<>>, cf, iv))

\* Without precision the bounds of a floating index are not part of the encoding.
get_edges(spec, sparsity) ==
    LET bound(b) == IF ~IsFloating(spec.v) \/ IsSet(spec.precision) THEN <<b>> ELSE <<>>
    IN mc_getEdges(spec.v, bound(spec.min), bound(spec.max), spec.precision,
                   sparsity, spec.trimFactor)

EdgeTokens(common, leaf, iv) ==
    [d |-> common.edcDerivedToken, s |-> common.escDerivedToken,
     l |-> common.serverDerivedFromDataToken,
     p |-> fle2_encrypted_token(common.collectionsLevel1Token, common.escDerivedToken,
                               <<leaf>>, iv)]

EdgeTokenSet(keys, ph, edges, edge, cf, iv) ==
    EdgeTokens(fle2_placeholder_common(keys, ph.index_key_id, edge, TRUE, cf),
               mc_edges_is_leaf(edges, edge), iv)

RangeInsertBlob(keys, ph, spec, iup, edges, cf, iv) ==
    IF ~spec.ok THEN spec ELSE IF ~iup.ok THEN iup
    ELSE IF spec.v.t # spec.min.t \/ spec.v.t # spec.max.t THEN Refused
    ELSE IF ~edges.ok THEN edges
    ELSE Blob(Subtype.FLE2InsertUpdatePayloadV2,
              mc_FLE2InsertUpdatePayloadV2_serializeForRange(
                 Joined(iup, [edgeTokenSets |->
                                [i \in DOMAIN edges.edges |->
                                   EdgeTokenSet(keys, ph, edges, edges.edges[i], cf, iv)],
                              sparsity |-> ph.sparsity, precision |-> spec.precision,
                              trimFactor |-> edges.usedTrimFactor,
                              indexMin |-> spec.min, indexMax |-> spec.max])))

fle2_placeholder_to_insert_update_ciphertextForRange(keys, ph, cf, iv) ==
    LET spec == mc_FLE2RangeInsertSpec_parse(ph.v)
    IN RangeInsertBlob(keys, ph, spec,
                       fle2_insert_update_common(keys, ph, spec.v, <<FALSE>>, cf, iv),
                       get_edges(spec, ph.sparsity), cf, iv)

\* One token set for a string of one kind of text index.
fle2_generate_TextTokenSet(root, kind, bytes, cf, msize, iv) ==
    LET level1 == CollectionsLevel1Token(root)
        esc == ESCTextDerivedFromDataTokenAndContentionFactor(
                  ESCTextDerivedFromDataToken(ESCTextToken(ESCToken(level1), kind), bytes), cf)
    IN [d |-> EDCTextDerivedFromDataTokenAndContentionFactor(
                 EDCTextDerivedFromDataToken(EDCTextToken(EDCToken(level1), kind), bytes), cf),
        s |-> esc,
        l |-> ServerTextDerivedFromDataToken(
                 ServerTextToken(ServerTokenDerivationLevel1Token(root), kind), bytes),
        p |-> fle2_encrypted_token(level1, esc, <<msize>>, iv)]

\* The exact string's token set reports the size of them all.
TextTokenSets(sets, root, cf, iv) ==
    LET expand(kind, set) ==
            FlattenSeq([i \in DOMAIN set |->
                [j \in 1..set[i].count |->
                    fle2_generate_TextTokenSet(root.tokenKey, kind, StringBytes(set[i].str),
                                               cf, 0, iv)]])
    IN IF ~sets.ok THEN sets ELSE IF ~root.ok THEN root
       ELSE [ok |-> TRUE,
             exact |-> fle2_generate_TextTokenSet(root.tokenKey, "exact",
                           StringBytes(sets.exact), cf, sets.msize, iv),
             substr |-> expand("substr", sets.substr),
             suffix |-> expand("suffix", sets.suffix),
             prefix |-> expand("prefix", sets.prefix)]

fle2_generate_TextSearchTokenSets(keys, index_key_id, spec, cf, iv) ==
    TextTokenSets(mc_text_search_str_encode(spec), get_tokenKey(keys, index_key_id), cf, iv)

\* The tokens outside the text token sets are bogus.
Bogus == <<<<0, 0>>>>
TextInsertBlob(spec, iup, tsts) ==
    LET bogus == [iup EXCEPT !.edcDerivedToken = Bogus, !.escDerivedToken = Bogus,
                             !.serverDerivedFromDataToken = Bogus]
    IN IF ~spec.ok THEN spec
       ELSE IF spec.substr = <<>> /\ spec.suffix = <<>> /\ spec.prefix = <<>> THEN Refused
       ELSE IF ~iup.ok THEN iup ELSE IF ~tsts.ok THEN tsts
       ELSE Blob(Subtype.FLE2InsertUpdatePayloadV2,
                 mc_FLE2InsertUpdatePayloadV2_serializeForTextSearch(Joined(bogus, [tsts |-> tsts])))

fle2_placeholder_to_insert_update_ciphertextForTextSearch(keys, ph, cf, iv) ==
    LET spec == mc_FLE2TextSearchInsertSpec_parse(ph.v)
    IN TextInsertBlob(spec,
           fle2_insert_update_common(keys, ph, [t |-> "string", s |-> spec.v], <<0>>, cf, iv),
           fle2_generate_TextSearchTokenSets(keys, ph.index_key_id, spec, cf, iv))

-----------------------------------------------------------------------------
(* Queries: tokens without a contention factor, and the largest one *)

FindTokenSet(common) ==
    [d |-> common.edcDerivedToken, s |-> common.escDerivedToken,
     l |-> common.serverDerivedFromDataToken]

fle2_placeholder_to_find_ciphertext(keys, ph) ==
    LET common == fle2_placeholder_common(keys, ph.index_key_id,
                      mongocrypt_buffer_from_iter(ph.v), FALSE, 0)
    IN IF ~common.ok THEN common
       ELSE Blob(Subtype.FLE2FindEqualityPayloadV2,
                 mc_FLE2FindEqualityPayloadV2_serialize(
                    Joined(common, [maxContentionFactor |-> ph.maxContentionFactor])))

\* An infinite bound of either sign stands for the end of the index.
get_mincover_from_FLE2RangeFindSpec(info, sparsity) ==
    LET openLo == IsInfinite(info.lowerBound)
        openHi == IsInfinite(info.upperBound)
        lo == IF openLo THEN info.indexMin ELSE info.lowerBound
        hi == IF openHi THEN info.indexMax ELSE info.upperBound
        incLo == openLo \/ info.lbIncluded
        incHi == openHi \/ info.ubIncluded
        end(b) == IF ~IsFloating(lo) \/ IsSet(info.precision) THEN <<b>> ELSE <<>>
    IN IF \/ info.indexMin.t # info.indexMax.t
          \/ lo.t # info.indexMin.t \/ hi.t # info.indexMin.t
       THEN Refused
       ELSE mc_getMincover(lo, incLo, hi, incHi, end(info.indexMin), end(info.indexMax),
                           info.precision, sparsity, info.trimFactor)

RangeFindBlob(keys, ph, spec, cover) ==
    LET info == spec.edgesInfo[1]
        token(edge) == FindTokenSet(fle2_placeholder_common(keys, ph.index_key_id, edge, FALSE, 0))
        stub == [payloadId |-> spec.payloadId, firstOperator |-> spec.firstOperator,
                 secondOperator |-> spec.secondOperator, payload |-> <<>>,
                 sparsity |-> <<>>, precision |-> <<>>, trimFactor |-> <<>>,
                 indexMin |-> <<>>, indexMax |-> <<>>]
        full == [stub EXCEPT
                   !.payload = <<[g |-> [i \in DOMAIN cover.mincover |-> token(cover.mincover[i])],
                                  cm |-> ph.maxContentionFactor]>>,
                   !.sparsity = <<ph.sparsity>>, !.precision = info.precision,
                   !.trimFactor = <<cover.usedTrimFactor>>,
                   !.indexMin = <<info.indexMin>>, !.indexMax = <<info.indexMax>>]
    IN IF ~spec.ok THEN spec
       ELSE IF spec.edgesInfo = <<>>
       THEN Blob(Subtype.FLE2FindRangePayloadV2, mc_FLE2FindRangePayloadV2_serialize(stub))
       ELSE IF ~cover.ok THEN cover
       ELSE IF ~get_tokenKey(keys, ph.index_key_id).ok THEN Refused
       ELSE Blob(Subtype.FLE2FindRangePayloadV2, mc_FLE2FindRangePayloadV2_serialize(full))

fle2_placeholder_to_find_ciphertextForRange(keys, ph) ==
    LET spec == mc_FLE2RangeFindSpec_parse(ph.v)
    IN RangeFindBlob(keys, ph, spec,
                     get_mincover_from_FLE2RangeFindSpec(spec.edgesInfo[1], ph.sparsity))

TextFindTokenSet(root, kind, bytes) ==
    LET level1 == CollectionsLevel1Token(root)
    IN [d |-> EDCTextDerivedFromDataToken(EDCTextToken(EDCToken(level1), kind), bytes),
        s |-> ESCTextDerivedFromDataToken(ESCTextToken(ESCToken(level1), kind), bytes),
        l |-> ServerTextDerivedFromDataToken(
                 ServerTextToken(ServerTokenDerivationLevel1Token(root), kind), bytes)]

\* At most one kind of index is queried; none means an exact match.
fle2_generate_TextSearchFindTokenSets(keys, index_key_id, spec) ==
    LET kinds == {k \in {"substr", "suffix", "prefix"} : spec[k] # <<>>}
        kind == IF kinds = {} THEN "exact" ELSE CHOOSE k \in kinds : TRUE
        field == [substr |-> "s", suffix |-> "u", prefix |-> "p", exact |-> "e"]
        query == mc_text_search_str_query(spec)
        root == get_tokenKey(keys, index_key_id)
    IN IF Cardinality(kinds) > 1 THEN Refused
       ELSE IF ~query.ok THEN query ELSE IF ~root.ok THEN root
       ELSE [ok |-> TRUE, ts |-> (field[kind] :>
                TextFindTokenSet(root.tokenKey, kind, StringBytes(query.str)))]

fle2_placeholder_to_find_ciphertextForTextSearch(keys, ph) ==
    LET spec == mc_FLE2TextSearchInsertSpec_parse(ph.v)
        sets == fle2_generate_TextSearchFindTokenSets(keys, ph.index_key_id, spec)
    IN IF ~spec.ok THEN spec ELSE IF ~sets.ok THEN sets
       ELSE Blob(Subtype.FLE2FindTextPayload,
                 mc_FLE2FindTextPayload_serialize(
                    [tokenSets |-> sets.ts, maxContentionFactor |-> ph.maxContentionFactor,
                     caseFold |-> spec.casef, diacriticFold |-> spec.diacf,
                     substringSpec |-> spec.substr, suffixSpec |-> spec.suffix,
                     prefixSpec |-> spec.prefix]))

-----------------------------------------------------------------------------
(* Values that are not indexed *)

EncryptedBlob(subtype, keyId, t, c) ==
    [ok |-> TRUE, subtype |-> subtype, keyId |-> keyId, t |-> t, c |-> c]

fle2_placeholder_to_FLE2UnindexedEncryptedValue(keys, ph, iv) ==
    LET got == decrypted_key_by_id(keys, ph.user_key_id)
        sub == Subtype.FLE2UnindexedEncryptedValueV2
        enc == UnindexedEncryptedValueCommon_encrypt(sub, ph.user_key_id, TypeCode[ph.v.t],
                   iv, mongocrypt_buffer_from_iter(ph.v), got.key)
    IN IF ~got.ok THEN got ELSE IF ~enc.ok THEN enc
       ELSE EncryptedBlob(sub, ph.user_key_id, TypeCode[ph.v.t], enc.c)

\* FLE1: the deterministic algorithm derives the IV from what it encrypts.
fle1_marking_to_ciphertext(keys, marking, iv) ==
    LET got == decrypted_key_by_id(keys, marking.key_id)
        det == marking.algorithm = "deterministic"
        sub == IF det THEN Subtype.FLE1DeterministicEncryptedValue
               ELSE Subtype.FLE1RandomEncryptedValue
        t == TypeCode[marking.v.t]
        bytes == mongocrypt_buffer_from_iter(marking.v)
        aad == <<sub, marking.key_id, t>>
        enc == do_encryption(FLE1Algorithm,
                   IF det THEN calculate_deterministic_iv(got.key, aad, bytes) ELSE iv,
                   aad, got.key, bytes)
    IN IF ~got.ok THEN got ELSE IF ~enc.ok THEN enc
       ELSE EncryptedBlob(sub, marking.key_id, t, enc.c)

fle2_marking_to_ciphertext(keys, ph, cf, iv) ==
    CASE ph.algorithm = "unindexed" /\ ph.type = "insert" ->
             fle2_placeholder_to_FLE2UnindexedEncryptedValue(keys, ph, iv)
      [] ph.algorithm = "unindexed" /\ ph.type = "find" -> Refused
      [] ph.algorithm = "range" /\ ph.type = "insert" ->
             fle2_placeholder_to_insert_update_ciphertextForRange(keys, ph, cf, iv)
      [] ph.algorithm = "range" /\ ph.type = "find" ->
             fle2_placeholder_to_find_ciphertextForRange(keys, ph)
      [] ph.algorithm = "equality" /\ ph.type = "insert" ->
             fle2_placeholder_to_insert_update_ciphertext(keys, ph, cf, iv)
      [] ph.algorithm = "equality" /\ ph.type = "find" ->
             fle2_placeholder_to_find_ciphertext(keys, ph)
      [] ph.algorithm = "textSearch" /\ ph.type = "insert" ->
             fle2_placeholder_to_insert_update_ciphertextForTextSearch(keys, ph, cf, iv)
      [] ph.algorithm = "textSearch" /\ ph.type = "find" ->
             fle2_placeholder_to_find_ciphertextForTextSearch(keys, ph)

-----------------------------------------------------------------------------
(* Decryption *)

AsValue(plain, t) ==
    IF ~plain.ok THEN Refused ELSE mongocrypt_buffer_to_bson_value(plain.data, t)

replace_FLE2IndexedEncryptedValueV2_with_plaintext(keys, blob) ==
    LET parsed == mc_FLE2IndexedEncryptedValueV2_parse(IevNew, blob)
        S_Key == decrypted_key_by_id(keys, parsed.iev.S_KeyId)
        opened == mc_FLE2IndexedEncryptedValueV2_add_S_Key(parsed.iev, S_Key.key)
        K_Key == decrypted_key_by_id(keys, opened.iev.inner[1].keyId)
        client == mc_FLE2IndexedEncryptedValueV2_add_K_Key(opened.iev, K_Key.key)
    IN IF ~parsed.ok THEN Refused ELSE IF ~S_Key.ok THEN Refused
       ELSE IF ~opened.ok THEN Refused ELSE IF ~K_Key.ok THEN Refused
       ELSE IF ~client.ok THEN Refused
       ELSE mongocrypt_buffer_to_bson_value(client.iev.ClientValue[1], client.iev.t)

replace_FLE2IndexedEncryptedValue_with_plaintext(keys, blob) ==
    LET parsed == mc_FLE2IndexedEncryptedValue_parse(IevNew, blob)
        S_Key == decrypted_key_by_id(keys, parsed.iev.S_KeyId)
        opened == mc_FLE2IndexedEncryptedValue_add_S_Key(parsed.iev, S_Key.key)
        K_Key == decrypted_key_by_id(keys, opened.iev.inner[1].keyId)
        client == mc_FLE2IndexedEncryptedValue_add_K_Key(opened.iev, K_Key.key)
    IN IF ~parsed.ok THEN Refused ELSE IF ~S_Key.ok THEN Refused
       ELSE IF ~opened.ok THEN Refused ELSE IF ~K_Key.ok THEN Refused
       ELSE IF ~client.ok THEN Refused
       ELSE mongocrypt_buffer_to_bson_value(client.iev.ClientValue[1], client.iev.t)

replace_FLE2UnindexedEncryptedValue_with_plaintext(keys, blob) ==
    LET got == decrypted_key_by_id(keys, blob.keyId)
    IN IF ~mc_FLE2UnindexedEncryptedValue_parse(blob) \/ ~got.ok THEN Refused
       ELSE AsValue(UnindexedEncryptedValueCommon_decrypt(blob, got.key), blob.t)

replace_FLE2UnindexedEncryptedValueV2_with_plaintext(keys, blob) ==
    LET got == decrypted_key_by_id(keys, blob.keyId)
    IN IF ~mc_FLE2UnindexedEncryptedValueV2_parse(blob) \/ ~got.ok THEN Refused
       ELSE AsValue(UnindexedEncryptedValueCommon_decrypt(blob, got.key), blob.t)

replace_FLE2InsertUpdatePayload_with_plaintext(keys, blob) ==
    LET iup == mc_FLE2InsertUpdatePayload_parse(blob.doc)
        got == decrypted_key_by_id(keys, iup.userKeyId)
    IN IF ~iup.ok THEN Refused ELSE IF ~got.ok THEN Refused
       ELSE AsValue(mc_FLE2InsertUpdatePayload_decrypt(iup, got.key), iup.valueType)

replace_FLE2InsertUpdatePayloadV2_with_plaintext(keys, blob) ==
    LET iup == mc_FLE2InsertUpdatePayloadV2_parse(blob.doc)
        got == decrypted_key_by_id(keys, iup.userKeyId)
    IN IF ~iup.ok THEN Refused ELSE IF ~got.ok THEN Refused
       ELSE AsValue(mc_FLE2InsertUpdatePayloadV2_decrypt(iup, got.key), iup.valueType)

replace_FLE1Payload_with_plaintext(keys, blob) ==
    LET got == decrypted_key_by_id(keys, blob.keyId)
    IN IF ~mongocrypt_ciphertext_parse(blob) \/ ~got.ok THEN Refused
       ELSE AsValue(do_decryption(FLE1Algorithm, serialize_associated_data(blob),
                                  got.key, blob.c), blob.t)

replace_ciphertext_with_plaintext(keys, blob) ==
    CASE blob.subtype \in {Subtype.FLE2IndexedTextEncryptedValue,
                           Subtype.FLE2IndexedEqualityEncryptedValueV2,
                           Subtype.FLE2IndexedRangeEncryptedValueV2} ->
             replace_FLE2IndexedEncryptedValueV2_with_plaintext(keys, blob)
      [] blob.subtype = Subtype.FLE2InsertUpdatePayloadV2 ->
             replace_FLE2InsertUpdatePayloadV2_with_plaintext(keys, blob)
      [] blob.subtype = Subtype.FLE2UnindexedEncryptedValueV2 ->
             replace_FLE2UnindexedEncryptedValueV2_with_plaintext(keys, blob)
      [] blob.subtype = Subtype.FLE2IndexedEqualityEncryptedValue ->
             replace_FLE2IndexedEncryptedValue_with_plaintext(keys, blob)
      [] blob.subtype = Subtype.FLE2InsertUpdatePayload ->
             replace_FLE2InsertUpdatePayload_with_plaintext(keys, blob)
      [] blob.subtype = Subtype.FLE2UnindexedEncryptedValue ->
             replace_FLE2UnindexedEncryptedValue_with_plaintext(keys, blob)
      [] OTHER -> replace_FLE1Payload_with_plaintext(keys, blob)
=============================================================================
