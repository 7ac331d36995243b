------------------------------ MODULE ContextBase ------------------------------
(***************************************************************************)
(* What all contexts have in common (mongocrypt-ctx.c): the state of a     *)
(* context, its key requests, and how the state of its key broker becomes  *)
(* the state of the context.                                               *)
(*                                                                         *)
(* A context is a record x.  g is the mongocrypt_t it belongs to: its      *)
(* options and what its caches hold at the time of the call.               *)
(*   g.csfle       version of crypt_shared (major * 10 + minor), 0: none   *)
(*   g.csfleFails  analysis in crypt_shared fails                          *)
(*   g.wire        wire version of mongocryptd                             *)
(*   g.verbose     the analysis says "hasEncryptionPlaceholders"           *)
(*   g.bypass      bypass_query_analysis                                   *)
(*   g.lookups     multiple_collinfo_enabled                               *)
(*   g.withDb      use_need_mongo_collinfo_with_db_state                   *)
(*   g.creds       credentials are to be provided on demand                *)
(*   g.efcMap, g.schemaMap   the application's schemas                     *)
(*   g.keys, g.colls, g.tokens   key cache, collection infos, live tokens  *)
(* The caches have no clock here: an entry may expire between any two      *)
(* calls.                                                                  *)
(***************************************************************************)
EXTENDS SchemaBroker

NoCmd == [name |-> "", db |-> NoDb, targetDb |-> NoDb, coll |-> "", others |-> <<>>,
          values |-> {}, efc |-> <<>>, json |-> <<>>]

\* mongocrypt_ctx_t with what the kinds of context add to it.  "abort": an
\* assertion failed.
mongocrypt_ctx_new ==
    [kind |-> "none", state |-> "DONE", kb |-> NewBroker, nothing_to_do |-> FALSE,
     out |-> <<>>, abort |-> FALSE,
     \* encryption
     cmd |-> NoCmd, sb |-> mc_schema_broker_new, ismaster |-> FALSE, maxwire |-> 0,
     bypass |-> FALSE, need_keys |-> FALSE, marked |-> <<>>,
     \* decryption
     doc |-> {},
     \* rewrapping
     kek |-> "", datakeys |-> <<>>, iter |-> 1, encrypting |-> FALSE]

CtxFail(x) == [x EXCEPT !.state = "ERROR"]
CtxAbort(x) == [x EXCEPT !.abort = TRUE]
Stopped(x) == x.state = "ERROR" \/ x.abort

\* Variant: without a document from the key vault there is nothing to do.
DoneWithoutDocs(g, x) ==
    IF x.state = "ERROR" THEN x
    ELSE CASE x.kb.state = "ADDING_DOCS" ->
                [x EXCEPT !.state = IF g.creds THEN "NEED_KMS_CREDENTIALS" ELSE "NEED_MONGO_KEYS"]
           [] x.kb.state = "ADDING_DOCS_ANY" -> [x EXCEPT !.state = "NEED_MONGO_KEYS"]
           [] x.kb.state \in {"AUTHENTICATING", "DECRYPTING_KEY_MATERIAL"} ->
                [x EXCEPT !.state = "NEED_KMS"]
           [] x.kb.state = "DONE" ->
                [x EXCEPT !.state = "READY", !.nothing_to_do = @ \/ x.kb.returned = <<>>]
           [] OTHER -> CtxFail(x)

\* _mongocrypt_ctx_state_from_key_broker
state_from_key_broker(g, x) ==
    IF x.state = "ERROR" THEN x
    ELSE CASE x.kb.state = "ADDING_DOCS" ->
                [x EXCEPT !.state = IF g.creds THEN "NEED_KMS_CREDENTIALS" ELSE "NEED_MONGO_KEYS"]
           [] x.kb.state = "ADDING_DOCS_ANY" -> [x EXCEPT !.state = "NEED_MONGO_KEYS"]
           [] x.kb.state \in {"AUTHENTICATING", "DECRYPTING_KEY_MATERIAL"} ->
                [x EXCEPT !.state = "NEED_KMS"]
           [] x.kb.state = "DONE" ->
                [x EXCEPT !.state = "READY", !.nothing_to_do = @ \/ x.kb.requests = {}]
           [] OTHER -> CtxFail(x)

\* request_id or request_name, tried against the key cache.
RequestKey(g, x, key) ==
    IF x.kb.state # "REQUESTING" THEN CtxFail(x)
    ELSE IF RequestKnown(x.kb, key.id, key.names) THEN x
    ELSE [x EXCEPT !.kb = AddRequest(@, key.id, key.names, CacheGet(g.keys, key, 0))]

\* Requests for a set of keys [id, names], in any order.
RequestKeys(g, x, keys) == FoldSet(LAMBDA key, y : RequestKey(g, y, key), x, keys)

\* A field is asked for by its alt name if it has one.
KeyOf(f) == IF f.names # {} THEN [id |-> NoId, names |-> f.names]
            ELSE [id |-> f.id, names |-> {}]

KbRequestsDone(x) == [x EXCEPT !.kb = RequestsDone(@)]

TokenAtHand(g, kmsid) == kmsid \in DirectToken \/ kmsid \in g.tokens

(***************************************************************************)
(* _mongo_feed_keys, with _mongocrypt_key_broker_add_doc in one step.      *)
(* NewKeys is what it adds to the key cache: the document of a local key.  *)
(***************************************************************************)
mongo_feed_keys(g, x, doc, valid) ==
    LET known == RequestKnown(x.kb, doc.id, doc.names)
        hit == CacheGet(g.keys, doc, 0)
        asked == IF known THEN x.kb ELSE AddRequest(x.kb, doc.id, doc.names, hit)
        kb == IF x.kb.state = "ADDING_DOCS_ANY" /\ ~ known /\ hit # {} THEN asked
              ELSE IF x.kb.state = "ADDING_DOCS" /\ ~ known THEN Fail(x.kb)
              ELSE AcceptDoc(asked, doc, TokenAtHand(g, doc.kmsid), valid)
    IN  IF kb.ok THEN [x EXCEPT !.kb = kb] ELSE CtxFail([x EXCEPT !.kb = kb])

NewKeys(before, after) ==
    {e.doc : e \in {e \in Range(after.returned) \ Range(before.returned) :
                        e.decrypted /\ after.ok}}

KbDocsDone(x) == [x EXCEPT !.kb = DocsDone(@)]

(***************************************************************************)
(* _mongocrypt_key_broker_kms_done in one step (KeyBrokerSys has the       *)
(* interleavings of its parts).                                            *)
(***************************************************************************)
KbKmsDone(x) ==
    LET kb == x.kb
        auths == {kb.auth[i].kms.st : i \in DOMAIN kb.auth}
        rekeyed == [i \in DOMAIN kb.returned |->
            IF kb.returned[i].needsAuth
            THEN [kb.returned[i] EXCEPT !.needsAuth = FALSE, !.kms = KmsNew] ELSE kb.returned[i]]
        decrypted == [i \in DOMAIN kb.returned |-> [kb.returned[i] EXCEPT !.decrypted = TRUE]]
        ready == \A i \in DOMAIN kb.returned :
            SkipsKey(kb.returned[i]) \/ MaterialReady(kb.returned[i])
    IN  IF kb.state = "AUTHENTICATING"
        THEN IF "retry" \in auths THEN CtxAbort(x)
             ELSE IF auths # {"done"} THEN CtxFail([x EXCEPT !.kb = Fail(kb)])
             ELSE [x EXCEPT !.kb = [kb EXCEPT !.returned = rekeyed, !.state = "DECRYPTING_KEY_MATERIAL"]]
        ELSE IF ~ ready THEN CtxFail([x EXCEPT !.kb = Fail(kb)])
        ELSE [x EXCEPT !.kb = [kb EXCEPT !.state = "DONE", !.returned = decrypted]]

\* mongocrypt_ctx_provide_kms_providers
ProvideState(x) ==
    [x EXCEPT !.state = IF x.kb.state = "ADDING_DOCS" THEN "NEED_MONGO_KEYS" ELSE "NEED_KMS"]
=============================================================================
