----------------------------- MODULE DatakeyCtx -----------------------------
(***************************************************************************)
(* Contexts that create a data key (mongocrypt-ctx-datakey.c) behind the   *)
(* public calls of mongocrypt-ctx.c, sharing the OAuth cache of one        *)
(* mongocrypt_t.  A context sends one KMS request at a time: to get a      *)
(* token, to wrap the new key, or the three of a KMIP flow.                *)
(*                                                                         *)
(* The KMS id of a key is its provider.  Key material, identifiers and     *)
(* documents are abstracted to whether they are there.                     *)
(***************************************************************************)
EXTENDS OAuthCache, KmsRequest, Sequences

CONSTANTS
    Ctxs,           \* the contexts
    Providers,      \* the KMS providers keys are created with
    MaxNow,         \* bound on the clock
    PatientDriver   \* does the driver follow integrating.md in NEED_KMS?

OAuthProviders == {"azure", "gcp"}

ASSUME DatakeyAssumption ==
    /\ Providers # {}
    /\ Providers \subseteq OAuthProviders \cup {"local", "aws", "kmip"}
    /\ MaxNow \in Nat
    /\ PatientDriver \in BOOLEAN

VARIABLES
    dk,         \* the contexts
    cacheOauth, \* mongocrypt_t.cache_oauth
    now,        \* bson_get_monotonic_time
    held,       \* is the driver of the context still feeding its request?
    drained,    \* has next_kms_ctx returned NULL since the last other call?
    aborted     \* a BSON_ASSERT has ended the process

vars == <<dk, cacheOauth, now, held, drained, aborted>>
driver == <<held, drained>>

-----------------------------------------------------------------------------
KmipTypes == {"REGISTER", "CREATE", "ACTIVATE", "GET", "ENCRYPT"}
RequestTypes == {"NONE", "OAUTH", "WRAP"} \cup KmipTypes

CtxStates == {"NEED_KMS_CREDENTIALS", "NEED_KMS", "READY", "DONE", "ERROR"}

\* What the application sets: with "token", the credentials hold an access token
\* already; with "onDemand", they are to come in NEED_KMS_CREDENTIALS.
Opts == [provider : Providers, delegated : BOOLEAN, keyId : BOOLEAN,
         configured : BOOLEAN, onDemand : BOOLEAN, token : BOOLEAN]

(***************************************************************************)
(* _mongocrypt_ctx_datakey_t with its mongocrypt_ctx_t.  "uid" is          *)
(* kmip_unique_identifier, "material" encrypted_key_material, "masterKey"  *)
(* the key_id of opts.kek; "pc" is "start" from the call of _kms_start to  *)
(* its end.  "flow" records the KMIP requests handed out.                  *)
(***************************************************************************)
Ctx == [initialized : BOOLEAN, state : CtxStates, pc : {"idle", "start"}, opts : Opts,
        type : RequestTypes, kms : Kms, returned : BOOLEAN,
        uid : BOOLEAN, activated : BOOLEAN, secretdata : BOOLEAN,
        material : BOOLEAN, masterKey : BOOLEAN, flow : Seq(KmipTypes)]

SomeOpts == CHOOSE o \in Opts : ~ o.configured /\ ~ o.onDemand

\* mongocrypt_ctx_new
NewCtx == [initialized |-> FALSE, state |-> "DONE", pc |-> "idle", opts |-> SomeOpts,
           type |-> "NONE", kms |-> KmsUnset, returned |-> FALSE,
           uid |-> FALSE, activated |-> FALSE, secretdata |-> FALSE,
           material |-> FALSE, masterKey |-> FALSE, flow |-> <<>>]

\* _mongocrypt_ctx_fail
Fail(d) == [d EXCEPT !.state = "ERROR", !.pc = "idle"]

\* mongocrypt_ctx_datakey_init with these options
DatakeyInit(o) ==
    LET d == [NewCtx EXCEPT !.initialized = TRUE, !.opts = o, !.masterKey = o.keyId]
    IN  IF ~ o.configured /\ ~ o.onDemand THEN Fail(d)
        ELSE IF o.onDemand THEN [d EXCEPT !.state = "NEED_KMS_CREDENTIALS"]
        ELSE [d EXCEPT !.pc = "start"]

\* Variant: the states after the credentials are mixed up.
ProvideForKeys(d, configured) ==
    [d EXCEPT !.opts.configured = configured, !.state = "NEED_MONGO_KEYS", !.pc = "start"]

\* mongocrypt_ctx_provide_kms_providers
Provide(d, configured) ==
    [d EXCEPT !.opts.configured = configured, !.state = "NEED_KMS", !.pc = "start"]

-----------------------------------------------------------------------------
\* A new request in state NEED_KMS
Sends(d, type) == [d EXCEPT !.type = type, !.kms = KmsNew, !.state = "NEED_KMS"]

\* Variants: the identifier is not put into the master key; it counts as active.
KmipStartNoKeyId(e) ==
    LET d == IF e.opts.keyId /\ ~ e.uid
             THEN [e EXCEPT !.uid = TRUE, !.activated = TRUE] ELSE e
    IN  IF ~ d.uid
        THEN Sends(d, IF d.opts.delegated THEN "CREATE" ELSE "REGISTER")
        ELSE IF ~ d.activated THEN Sends(d, "ACTIVATE")
        ELSE IF d.opts.delegated /\ ~ d.material THEN Sends(d, "ENCRYPT")
        ELSE IF ~ d.opts.delegated /\ ~ d.secretdata THEN Sends(d, "GET")
        ELSE [d EXCEPT !.material = TRUE, !.state = "READY"]
KmipStartInactive(e) ==
    IF ~ e.uid /\ ~ e.opts.keyId
    THEN Sends(e, IF e.opts.delegated THEN "CREATE" ELSE "REGISTER")
    ELSE IF e.opts.delegated /\ ~ e.material THEN Sends(e, "ENCRYPT")
    ELSE IF ~ e.opts.delegated /\ ~ e.secretdata THEN Sends(e, "GET")
    ELSE [e EXCEPT !.material = TRUE, !.masterKey = TRUE, !.state = "READY"]

(***************************************************************************)
(* _kms_kmip_start: the next request of the flow.  A key id of the user    *)
(* stands for a key that exists and is active.                             *)
(***************************************************************************)
KmipStart(e) ==
    LET d == IF e.opts.keyId /\ ~ e.uid
             THEN [e EXCEPT !.uid = TRUE, !.activated = TRUE] ELSE e
        ready == [d EXCEPT !.material = TRUE, !.masterKey = TRUE, !.state = "READY"]
    IN  IF ~ d.uid
        THEN Sends(d, IF d.opts.delegated THEN "CREATE" ELSE "REGISTER")
        ELSE IF ~ d.activated THEN Sends(d, "ACTIVATE")
        ELSE IF d.opts.delegated /\ ~ d.material THEN Sends(d, "ENCRYPT")
        ELSE IF ~ d.opts.delegated /\ ~ d.secretdata THEN Sends(d, "GET")
        ELSE ready

\* Variant: kms_returned is not reset.
KmsStartKeepsReturned(d, cached, valid) ==
    LET clear == [d EXCEPT !.type = "NONE", !.kms = KmsUnset, !.pc = "idle"]
        p == d.opts.provider
    IN  IF ~ d.opts.configured THEN Fail(d)
        ELSE IF ~ valid THEN Fail(clear)
        ELSE CASE p = "local" -> [clear EXCEPT !.material = TRUE, !.state = "READY"]
               [] p = "aws" -> Sends(clear, "WRAP")
               [] p \in OAuthProviders ->
                    Sends(clear, IF d.opts.token \/ cached THEN "WRAP" ELSE "OAUTH")
               [] p = "kmip" -> KmipStart(clear)

(***************************************************************************)
(* _kms_start.  "cached" says that the OAuth cache returned a token; with  *)
(* "valid" false the request cannot be built or the key not be wrapped.    *)
(***************************************************************************)
KmsStart(d, cached, valid) ==
    LET clear == [d EXCEPT !.type = "NONE", !.kms = KmsUnset,
                           !.returned = FALSE, !.pc = "idle"]
        p == d.opts.provider
    IN  IF ~ d.opts.configured THEN Fail(d)
        ELSE IF ~ valid THEN Fail(clear)
        ELSE CASE p = "local" -> [clear EXCEPT !.material = TRUE, !.state = "READY"]
               [] p = "aws" -> Sends(clear, "WRAP")
               [] p \in OAuthProviders ->
                    Sends(clear, IF d.opts.token \/ cached THEN "WRAP" ELSE "OAUTH")
               [] p = "kmip" -> KmipStart(clear)

\* _next_kms_ctx: is there a context to return, and the state after it
HasNextKms(d) == d.kms.st = "retry" \/ ~ d.returned

NextKmsCtx(d) ==
    IF ~ HasNextKms(d) THEN d
    ELSE [d EXCEPT !.kms = KmsHandOut(@), !.returned = TRUE,
                   !.flow = IF d.type \in KmipTypes THEN Append(@, d.type) ELSE @]

(***************************************************************************)
(* _kms_done of a request with a result, up to its call of _kms_start;     *)
(* "valid" false: the wrapped key is too short, or the OAuth response      *)
(* lacks a field.                                                          *)
(***************************************************************************)
KmsDoneWith(d, valid) ==
    CASE d.type \in {"OAUTH", "WRAP"} /\ ~ valid -> Fail(d)
      [] d.type = "WRAP" /\ valid -> [d EXCEPT !.material = TRUE, !.state = "READY"]
      [] d.type = "OAUTH" /\ valid -> [d EXCEPT !.pc = "start"]
      [] d.type \in {"REGISTER", "CREATE"} -> [d EXCEPT !.uid = TRUE, !.pc = "start"]
      [] d.type = "ACTIVATE" -> [d EXCEPT !.activated = TRUE, !.pc = "start"]
      [] d.type = "GET" -> [d EXCEPT !.secretdata = TRUE, !.pc = "start"]
      [] d.type = "ENCRYPT" -> [d EXCEPT !.material = TRUE, !.pc = "start"]

-----------------------------------------------------------------------------
TypeOK ==
    /\ dk \in [Ctxs -> Ctx]
    /\ cacheOauth \in [Providers -> Token \cup {NoToken}]
    /\ now \in 0..MaxNow
    /\ held \in [Ctxs -> BOOLEAN]
    /\ drained \in [Ctxs -> BOOLEAN]
    /\ aborted \in BOOLEAN

Init ==
    /\ dk = [c \in Ctxs |-> NewCtx]
    /\ cacheOauth = [p \in Providers |-> NoToken]
    /\ now = 0
    /\ held = [c \in Ctxs |-> FALSE]
    /\ drained = [c \in Ctxs |-> FALSE]
    /\ aborted = FALSE

Becomes(c, d) == dk' = [dk EXCEPT ![c] = d]

\* The driver makes a call on an initialised context.
In(c, states) ==
    /\ ~ aborted
    /\ dk[c].initialized /\ dk[c].pc = "idle"
    /\ dk[c].state \in states

InitCtx(c) ==
    /\ ~ aborted /\ ~ dk[c].initialized
    /\ \E o \in Opts : Becomes(c, DatakeyInit(o))
    /\ UNCHANGED <<cacheOauth, now, driver, aborted>>

ProvideKmsProviders(c) ==
    /\ In(c, {"NEED_KMS_CREDENTIALS"})
    /\ \E valid, configured \in BOOLEAN :
        Becomes(c, IF valid THEN Provide(dk[c], configured) ELSE Fail(dk[c]))
    /\ UNCHANGED <<cacheOauth, now, driver, aborted>>

Start(c) ==
    /\ ~ aborted /\ dk[c].pc = "start"
    /\ \E valid \in BOOLEAN :
        Becomes(c, KmsStart(dk[c], HasToken(cacheOauth, dk[c].opts.provider, now), valid))
    /\ UNCHANGED <<cacheOauth, now, driver, aborted>>

GetNextKms(c) ==
    /\ In(c, {"NEED_KMS"})
    /\ Becomes(c, NextKmsCtx(dk[c]))
    /\ held' = [held EXCEPT ![c] = @ \/ HasNextKms(dk[c])]
    /\ drained' = [drained EXCEPT ![c] = ~ HasNextKms(dk[c])]
    /\ UNCHANGED <<cacheOauth, now, aborted>>

\* The driver feeds the request to its end, or reports a network error.
Complete(c) ==
    /\ In(c, {"NEED_KMS"})
    /\ held[c]
    /\ \E kms \in KmsEnds(dk[c].kms, dk[c].type \in {"OAUTH", "WRAP"}) :
        /\ Becomes(c, [dk[c] EXCEPT !.kms = kms])
        /\ held' \in {[held EXCEPT ![c] = FALSE], [held EXCEPT ![c] = kms.st = "retry"]}
    /\ drained' = [drained EXCEPT ![c] = FALSE]
    /\ UNCHANGED <<cacheOauth, now, aborted>>

\* A request that waits for a retry counts as finished; its empty result is
\* no BSON document, and not long enough for a wrapped key.  The OAuth cache
\* asserts on the lifetime of a token.
KmsDone(c) ==
    /\ In(c, {"NEED_KMS"})
    /\ PatientDriver => drained[c] /\ ~ held[c]
    /\ LET d == dk[c]
       IN  \/ /\ \/ d.kms.st \in {"failed", "pending"}
                 \/ d.kms.st = "retry" /\ d.type = "WRAP"
              /\ Becomes(c, Fail(d))
              /\ UNCHANGED <<cacheOauth, aborted>>
           \/ /\ d.type = "OAUTH"
              /\ \/ d.kms.st = "retry"
                 \/ d.kms.st = "done" /\ \E life \in TokenLives : ~ LifeFits(life, now)
              /\ aborted' = TRUE
              /\ UNCHANGED <<dk, cacheOauth>>
           \/ \E valid \in BOOLEAN :
              /\ d.kms.st = "done" /\ ~ (d.type = "OAUTH" /\ valid)
              /\ Becomes(c, KmsDoneWith(d, valid))
              /\ UNCHANGED <<cacheOauth, aborted>>
           \/ \E life \in TokenLives :
              /\ d.kms.st = "done" /\ d.type = "OAUTH" /\ LifeFits(life, now)
              /\ Becomes(c, KmsDoneWith(d, TRUE))
              /\ cacheOauth' = AddResponse(cacheOauth, d.opts.provider, now, life, now)
              /\ UNCHANGED aborted
    /\ held' = [held EXCEPT ![c] = FALSE]
    /\ drained' = [drained EXCEPT ![c] = FALSE]
    /\ UNCHANGED now

Finalize(c) ==
    /\ In(c, {"READY"})
    /\ \E valid \in BOOLEAN :
        Becomes(c, IF valid THEN [dk[c] EXCEPT !.state = "DONE"] ELSE Fail(dk[c]))
    /\ UNCHANGED <<cacheOauth, now, driver, aborted>>

\* Every call in a state it is not meant for, and a second init, is an error.
CallInWrongState(c) ==
    /\ In(c, CtxStates)
    /\ Becomes(c, Fail(dk[c]))
    /\ UNCHANGED <<cacheOauth, now, driver, aborted>>

\* mongocrypt_ctx_destroy; the application goes on with a new context.
Destroy(c) ==
    /\ In(c, {"DONE", "ERROR"})
    /\ Becomes(c, NewCtx)
    /\ held' = [held EXCEPT ![c] = FALSE]
    /\ drained' = [drained EXCEPT ![c] = FALSE]
    /\ UNCHANGED <<cacheOauth, now, aborted>>

Tick ==
    /\ ~ aborted
    /\ now < MaxNow
    /\ now' = now + 1
    /\ UNCHANGED <<dk, cacheOauth, driver, aborted>>

Next ==
    \/ Tick
    \/ \E c \in Ctxs :
        \/ InitCtx(c) \/ ProvideKmsProviders(c) \/ Start(c) \/ GetNextKms(c)
        \/ Complete(c) \/ KmsDone(c) \/ Finalize(c) \/ CallInWrongState(c) \/ Destroy(c)

Spec == Init /\ [][Next]_vars

(***************************************************************************)
(* The driver runs its loop until the context is done, and its KMS         *)
(* requests end in a reply or a network error.                             *)
(***************************************************************************)
Advance(c) ==
    \/ ProvideKmsProviders(c) \/ Start(c) \/ GetNextKms(c)
    \/ Complete(c) \/ KmsDone(c) \/ Finalize(c)

FairSpec == Spec /\ \A c \in Ctxs : WF_vars(Advance(c))
-----------------------------------------------------------------------------
(***************************************************************************)
(* Properties.                                                             *)
(***************************************************************************)
\* "The KMIP createDataKey flow" and "the KMIP delegated createDataKey flow"
KmipFlow(o) ==
    LET third == IF o.delegated THEN "ENCRYPT" ELSE "GET"
        first == IF o.delegated THEN "CREATE" ELSE "REGISTER"
    IN  IF o.keyId THEN <<third>> ELSE <<first, "ACTIVATE", third>>

(***************************************************************************)
(* However calls fail or are made in the wrong order, the KMIP requests a  *)
(* context hands out follow the flow its comments describe, each at most   *)
(* once: a key is not created twice, nor used before it is active          *)
(* (_kms_kmip_start, _kms_done).                                           *)
(***************************************************************************)
KmipFlowFollowed ==
    \A c \in Ctxs :
        LET flow == dk[c].flow
            plan == KmipFlow(dk[c].opts)
        IN  Len(flow) <= Len(plan) /\ flow = SubSeq(plan, 1, Len(flow))

(***************************************************************************)
(* A context is ready only with a wrapped key.  With KMIP the whole flow   *)
(* was then gone through and the master key of the document names the      *)
(* KMIP object (_kms_start, _kms_done, _finalize).                         *)
(***************************************************************************)
ReadyWithWrappedKey ==
    \A c \in Ctxs : dk[c].initialized /\ dk[c].state \in {"READY", "DONE"} /\ dk[c].pc = "idle" =>
        /\ dk[c].material
        /\ dk[c].opts.provider = "kmip" =>
                dk[c].flow = KmipFlow(dk[c].opts) /\ dk[c].masterKey

(***************************************************************************)
(* When a driver that drains next_kms_ctx calls kms_done, the request of   *)
(* the moment has been handed out and is finished: _kms_start makes each   *)
(* new request available again, and retries are not lost.                  *)
(***************************************************************************)
RequestHandedOut ==
    PatientDriver => \A c \in Ctxs :
        dk[c].state = "NEED_KMS" /\ dk[c].pc = "idle" /\ drained[c] /\ ~ held[c] =>
            dk[c].returned /\ dk[c].kms.st \in {"done", "failed"}

\* A token is still valid when it is first used.
TokensOutliveEviction ==
    \A life \in TokenLives, t \in 0..MaxNow :
        LifeFits(life, t) => Lifetime(life) > EvictionPeriod

(***************************************************************************)
(* A context that is given its credentials ends with a document or with an *)
(* error, unless the process ends before, or tokens come too close to      *)
(* their end: the context then asks for another one, again and again.      *)
(***************************************************************************)
EveryDatakeyFinishes ==
    TokensOutliveEviction =>
        \A c \in Ctxs : dk[c].initialized ~>
            \/ dk[c].state \in {"DONE", "ERROR"} /\ dk[c].pc = "idle"
            \/ aborted
=============================================================================
