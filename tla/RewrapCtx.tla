------------------------------- MODULE RewrapCtx -------------------------------
(***************************************************************************)
(* The context that rewraps data keys (mongocrypt-ctx-rewrap-many-         *)
(* datakey.c): it decrypts the keys a filter finds, then wraps each of     *)
(* them with a sub-context that creates a data key, all of them in one     *)
(* state NEED_KMS.                                                         *)
(*                                                                         *)
(* datakeys is the list of sub-contexts [doc, kek, dk] in list order; iter *)
(* is the position of datakeys_iter, Len(datakeys) + 1 for NULL.  The new  *)
(* KEK is x.kek, a KMS id, or "" to keep that of each key.                 *)
(***************************************************************************)
EXTENDS ContextBase

\* A sub-context is a data key context.  Only its operators are used.
DK == INSTANCE DatakeyCtx WITH
        Ctxs <- {}, Providers <- {Provider[k] : k \in KmsIds}, MaxNow <- 0,
        PatientDriver <- TRUE, dk <- <<>>, cacheOauth <- <<>>, now <- 0,
        held <- <<>>, drained <- <<>>, aborted <- FALSE

\* Has the position a sub-context with a request to make?
NeedsKms(x, i) == x.datakeys[i].dk.state = "NEED_KMS"
First(x, from, Skip(_)) ==
    CHOOSE i \in from..(Len(x.datakeys) + 1) :
        /\ i = Len(x.datakeys) + 1 \/ ~ Skip(i)
        /\ \A j \in from..(i - 1) : Skip(j)

\* The call of _kms_start that a datakey operation ends with
Started(g, dk, kmsid) ==
    IF dk.pc # "start" THEN dk ELSE DK!KmsStart(dk, TokenAtHand(g, kmsid), TRUE)

KekOf(x, doc) == IF x.kek = "" THEN doc.kmsid ELSE x.kek

(***************************************************************************)
(* _add_new_datakey: the new sub-context is put in front.  It takes the    *)
(* credentials of this context.                                            *)
(***************************************************************************)
add_new_datakey(g, x, doc) ==
    LET kmsid == KekOf(x, doc)
        opts == [provider |-> Provider[kmsid], delegated |-> FALSE, keyId |-> FALSE,
                 configured |-> kmsid \in Configured, onDemand |-> g.creds,
                 token |-> kmsid \in DirectToken]
        new == DK!DatakeyInit(opts)
        dk == Started(g, IF new.state = "NEED_KMS_CREDENTIALS" THEN [new EXCEPT !.pc = "start"] ELSE new,
                      kmsid)
        y == [x EXCEPT !.datakeys = <<[doc |-> doc, kek |-> kmsid, dk |-> dk]>> \o @]
    IN  IF Stopped(x) THEN x ELSE IF dk.state = "ERROR" THEN CtxFail(y) ELSE y

\* Variant: keys that came from the cache are left out.
StartWithoutCached(g, x) ==
    LET docs == Reverse([i \in DOMAIN x.kb.returned |-> x.kb.returned[i].doc])
        y == FoldLeft(LAMBDA z, doc : add_new_datakey(g, z, doc), x, docs)
        at == First(y, 1, LAMBDA i : y.datakeys[i].dk.state = "READY")
    IN  IF Stopped(y) THEN y
        ELSE IF at > Len(y.datakeys) THEN [y EXCEPT !.iter = at, !.state = "READY"]
        ELSE [y EXCEPT !.iter = at, !.state = "NEED_KMS", !.encrypting = TRUE]

\* _start_kms_encrypt once the keys are decrypted: keys from the cache first,
\* both lists from their heads.
start_kms_encrypt(g, x) ==
    LET docs == Reverse(x.kb.cached) \o Reverse([i \in DOMAIN x.kb.returned |-> x.kb.returned[i].doc])
        y == FoldLeft(LAMBDA z, doc : add_new_datakey(g, z, doc), x, docs)
        at == First(y, 1, LAMBDA i : y.datakeys[i].dk.state = "READY")
    IN  IF x.state # "READY" \/ \E i \in DOMAIN x.kb.returned : ~ x.kb.returned[i].decrypted
        THEN CtxAbort(x)
        ELSE IF Stopped(y) THEN y
        ELSE IF at > Len(y.datakeys) THEN [y EXCEPT !.iter = at, !.state = "READY"]
        ELSE [y EXCEPT !.iter = at, !.state = "NEED_KMS", !.encrypting = TRUE]

\* kms_done while decrypting
RewrapKmsDoneDecrypt(g, x) ==
    LET y == KbKmsDone(x)
        z == state_from_key_broker(g, y)
    IN  IF Stopped(y) THEN y
        ELSE IF Stopped(z) \/ z.state = "NEED_KMS" THEN z
        ELSE start_kms_encrypt(g, z)

\* mongocrypt_ctx_kms_done of the sub-contexts in turn, up to the first whose
\* request has no result: Stuck, as a set.  The tokens they got are cached.
Stuck(x) ==
    LET open == {i \in DOMAIN x.datakeys : NeedsKms(x, i) /\ x.datakeys[i].dk.kms.st # "done"}
    IN  {i \in open : \A j \in open : i <= j}
SubTokens(x) ==
    {x.datakeys[i].kek : i \in {j \in DOMAIN x.datakeys :
        NeedsKms(x, j) /\ x.datakeys[j].dk.type = "OAUTH" /\ \A k \in Stuck(x) : j < k}}
SubKmsDone(g, d) ==
    IF d.dk.state # "NEED_KMS" THEN d
    ELSE [d EXCEPT !.dk = Started(g, DK!KmsDoneWith(@, TRUE), d.kek)]

\* Variant: the search starts behind the head of the list.
IterBehindHead(x) == [x EXCEPT !.iter = First(x, 2, LAMBDA i : ~ NeedsKms(x, i))]

\* Reiterate through the sub-contexts.
IterFromStart(x) == [x EXCEPT !.iter = First(x, 1, LAMBDA i : ~ NeedsKms(x, i))]

\* _kms_done_encrypt.  An OAuth request to be retried fails an assertion.
kms_done_encrypt(g, x) ==
    LET h == [g EXCEPT !.tokens = @ \cup SubTokens(x)]
        stuck == x.datakeys[CHOOSE i \in Stuck(x) : TRUE].dk
        y == IterFromStart([x EXCEPT !.datakeys =
                [i \in DOMAIN @ |-> SubKmsDone(h, @[i])]])
    IN  IF Stuck(x) # {}
        THEN IF stuck.type = "OAUTH" /\ stuck.kms.st = "retry" THEN CtxAbort(x) ELSE CtxFail(x)
        ELSE IF \E i \in DOMAIN y.datakeys : y.datakeys[i].dk.state = "ERROR" THEN CtxFail(y)
        ELSE IF y.iter > Len(y.datakeys) THEN [y EXCEPT !.state = "READY"]
        ELSE y

rewrap_kms_done(g, x) ==
    IF x.encrypting THEN kms_done_encrypt(g, x) ELSE RewrapKmsDoneDecrypt(g, x)

(***************************************************************************)
(* _next_kms_ctx_encrypt: a request to be retried, else the one at the     *)
(* iterator, which moves on.  SubKmsRef is the position of the sub-context *)
(* whose KMS context is returned, as a set.                                *)
(***************************************************************************)
ToRetry(x) == {i \in DOMAIN x.datakeys : x.datakeys[i].dk.kms.st = "retry"}
SubKmsRef(x) ==
    IF ToRetry(x) # {} THEN {CHOOSE i \in ToRetry(x) : \A j \in ToRetry(x) : i <= j}
    ELSE {i \in {x.iter} \cap DOMAIN x.datakeys : DK!HasNextKms(x.datakeys[i].dk)}
next_kms_ctx_encrypt(x) ==
    LET moved == First(x, x.iter + 1, LAMBDA i : ~ NeedsKms(x, i))
    IN  IF ToRetry(x) # {}
        THEN [x EXCEPT !.datakeys[CHOOSE i \in SubKmsRef(x) : TRUE].dk.kms = KmsHandOut(@)]
        ELSE IF x.iter > Len(x.datakeys) THEN x
        ELSE [x EXCEPT !.datakeys[x.iter].dk = DK!NextKmsCtx(@), !.iter = moved]

rewrap_mongo_done_keys(g, x) ==
    LET y == state_from_key_broker(g, KbDocsDone(x))
    IN  IF Stopped(y) THEN y
        ELSE IF y.kb.requests = {} THEN [y EXCEPT !.state = "DONE"]
        ELSE IF y.state = "READY" THEN start_kms_encrypt(g, y)
        ELSE IF y.state # "NEED_KMS" THEN CtxAbort(y)
        ELSE y

kms_start_decrypt(g, x) ==
    LET y == [x EXCEPT !.kb = RequestAny(@)]
    IN  IF y.kb.ok THEN state_from_key_broker(g, y) ELSE y

rewrap_init(g, kek) ==
    LET x == [mongocrypt_ctx_new EXCEPT !.kind = "rewrap", !.kek = kek, !.state = "NEED_MONGO_KEYS"]
    IN  IF g.creds THEN [x EXCEPT !.state = "NEED_KMS_CREDENTIALS"] ELSE kms_start_decrypt(g, x)

\* The rewrapped keys: the id of the original, the KEK it is now wrapped with.
rewrap_finalize(x) ==
    IF \E i \in DOMAIN x.datakeys : x.datakeys[i].dk.state # "READY" THEN CtxFail(x)
    ELSE [x EXCEPT !.state = "DONE",
            !.out = <<[i \in DOMAIN x.datakeys |->
                        [id |-> x.datakeys[i].doc.id, kek |-> x.datakeys[i].kek,
                         wrapped |-> x.datakeys[i].dk.material]]>>]
=============================================================================
