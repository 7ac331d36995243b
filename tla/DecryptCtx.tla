------------------------------ MODULE DecryptCtx -------------------------------
(***************************************************************************)
(* The context of decryption (mongocrypt-ctx-decrypt.c).  A document is a  *)
(* set of encrypted values [kind, key, skey]: "fle1", "uev" (unindexed)    *)
(* and "iup" (a payload for inserts) name their key in the clear; an       *)
(* indexed value "iev" names it inside a part encrypted with the index key *)
(* skey, so its keys are asked for in two rounds.  Any other value,        *)
(* "other", is left alone.                                                 *)
(***************************************************************************)
EXTENDS ContextBase

\* TRAVERSE_MATCH_CIPHERTEXT; in _is_decryptable_fle_blob_subtype as well
IsCiphertext(b) == b.kind \in {"fle1", "uev", "iup", "iev"}
Ciphertexts(x) == {b \in x.doc : IsCiphertext(b)}

\* _collect_key_from_ciphertext: the key that is named in the clear
FirstKey(b) == IF b.kind = "iev" THEN b.skey ELSE b.key

ById(id) == [id |-> id, names |-> {}]

(***************************************************************************)
(* _check_for_K_KeyId: with all index keys there, the keys of the indexed  *)
(* values are asked for (_collect_K_KeyIDs).                               *)
(***************************************************************************)
check_for_K_KeyId(g, x) ==
    LET indexed == {b \in Ciphertexts(x) : b.kind = "iev"}
        y == [x EXCEPT !.kb = Restart(@)]
        asked == RequestKeys(g, y, {ById(b.key) : b \in indexed})
    IN  IF x.kb.state # "DONE" THEN x
        ELSE IF \E b \in indexed : ~ CanLookUp(y.kb, b.skey, {}) THEN CtxFail(y)
        ELSE IF Stopped(asked) THEN asked
        ELSE KbRequestsDone(asked)

WithState(g, x) == IF Stopped(x) THEN x ELSE state_from_key_broker(g, x)

decrypt_init(g, doc) ==
    LET x == [mongocrypt_ctx_new EXCEPT !.kind = "decrypt", !.doc = doc]
        asked == RequestKeys(g, x, {ById(FirstKey(b)) : b \in Ciphertexts(x)})
    IN  WithState(g, check_for_K_KeyId(g, KbRequestsDone(asked)))

\* A document of one value, which must be decryptable.
explicit_decrypt_init(g, value) ==
    IF ~ IsCiphertext(value) THEN CtxFail([mongocrypt_ctx_new EXCEPT !.kind = "decrypt"])
    ELSE decrypt_init(g, {value})

decrypt_mongo_done_keys(g, x) == WithState(g, check_for_K_KeyId(g, KbDocsDone(x)))

decrypt_kms_done(g, x) ==
    LET y == KbKmsDone(x)
    IN  IF Stopped(y) THEN y ELSE WithState(g, check_for_K_KeyId(g, y))

\* _replace_ciphertext_with_plaintext finds every key by its id; the result is
\* the set of values that have been decrypted.
ValueKeys(b) == IF b.kind = "iev" THEN {b.skey, b.key} ELSE {b.key}
decrypt_finalize(x) ==
    IF x.nothing_to_do THEN [x EXCEPT !.state = "DONE", !.out = <<{}>>]
    ELSE IF \E b \in Ciphertexts(x) : \E k \in ValueKeys(b) : ~ CanLookUp(x.kb, k, {})
    THEN CtxFail(x)
    ELSE [x EXCEPT !.state = "DONE", !.out = <<Ciphertexts(x)>>]
=============================================================================
