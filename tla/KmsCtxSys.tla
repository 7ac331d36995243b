----------------------------- MODULE KmsCtxSys -----------------------------
(***************************************************************************)
(* One KMS context with the context that hands it out and a driver that    *)
(* works on it as integrating.md says: it writes the request, feeds the    *)
(* reply piece by piece with either feed function, calls                   *)
(* mongocrypt_kms_ctx_fail on a network error at any point, and retries    *)
(* lazily (the context is handed out again) or in place.                   *)
(***************************************************************************)
EXTENDS KmsCtx, FiniteSets

CONSTANTS
    Types,          \* the request types
    Statuses,       \* the HTTP status codes the server may answer with
    MaxParts        \* bound on the pieces of one response

ASSUME KmsCtxSysAssumption ==
    /\ Types \subseteq ReqTypes
    /\ Statuses \subseteq Nat
    /\ MaxParts \in Nat

VARIABLES
    k,          \* the KMS context
    returned,   \* kms_returned of the context that owns it
    retry,      \* crypt->retry_enabled
    driver,     \* "idle", "write" or "read"
    sent,       \* the requests written, which numbers the last one
    parts,      \* the pieces of the response to the last request fed so far
    ended,      \* the whole response to the last request has been fed
    aborted     \* an assertion has ended the process

vars == <<k, returned, retry, driver, sent, parts, ended, aborted>>

TypeOK ==
    /\ k \in KmsCtx
    /\ returned \in BOOLEAN
    /\ retry \in BOOLEAN
    /\ driver \in {"idle", "write", "read"}
    /\ sent \in Nat
    /\ parts \in 0..MaxParts
    /\ ended \in BOOLEAN
    /\ aborted \in BOOLEAN

Init ==
    /\ \E type \in Types : k = NewCtx(type)
    /\ returned = FALSE
    /\ retry \in BOOLEAN
    /\ driver = "idle"
    /\ sent = 0
    /\ parts = 0
    /\ ended = FALSE
    /\ aborted = FALSE

-----------------------------------------------------------------------------
\* _next_kms_ctx under mongocrypt_ctx_next_kms_ctx, when it returns a context.
\* A driver whose feed or fail returned false reports the error and stops.
HandOut ==
    /\ ~ aborted
    /\ driver = "idle"
    /\ k.ok
    /\ k.shouldRetry \/ ~ returned
    /\ k' = [ClearRetry(k) EXCEPT !.retryEnabled = retry]
    /\ returned' = TRUE
    /\ driver' = "write"
    /\ UNCHANGED <<retry, sent, parts, ended, aborted>>

Write ==
    /\ ~ aborted
    /\ driver = "write"
    /\ sent' = sent + 1
    /\ parts' = 0
    /\ ended' = FALSE
    /\ driver' = "read"
    /\ UNCHANGED <<k, returned, retry, aborted>>

\* Where the driver goes from here: on with the reply, back to the owner, or
\* to a retry in place.
Proceeds(after) ==
    driver' \in IF Wants(after) THEN {"read"}
                ELSE IF after.ok /\ after.shouldRetry THEN {"idle", "write"}
                ELSE {"idle"}

\* The context the driver feeds: with feed_with_retry, should_retry is cleared.
\* A plain feed of a context that waits for a retry is an error.
FeedVia == {k, ClearRetry(k)}

ReadPart ==
    /\ ~ aborted
    /\ driver = "read" /\ ~ ended
    /\ parts < MaxParts
    /\ \E via \in FeedVia : k' = FeedPart(via, sent)
    /\ Proceeds(k')
    /\ parts' = parts + 1
    /\ UNCHANGED <<returned, retry, sent, ended, aborted>>

ReadLast ==
    /\ ~ aborted
    /\ driver = "read" /\ ~ ended
    /\ \E via \in FeedVia, status \in Statuses, body \in Bodies :
        /\ k' = FeedLast(via, sent, status, body)
        /\ aborted' \in {FALSE, ~ FeedRefused(via) /\ MayAbort(via, status, body)}
    /\ Proceeds(k')
    /\ ended' = TRUE
    /\ UNCHANGED <<returned, retry, sent, parts>>

ReadBad ==
    /\ ~ aborted
    /\ driver = "read" /\ ~ ended
    /\ \E via \in FeedVia : k' = FeedBad(via)
    /\ Proceeds(k')
    /\ UNCHANGED <<returned, retry, sent, parts, ended, aborted>>

\* The connection breaks, or nothing more arrives in time.
NetworkError ==
    /\ ~ aborted
    /\ driver \in {"write", "read"}
    /\ k' = FailCtx(k)
    /\ Proceeds(k')
    /\ UNCHANGED <<returned, retry, sent, parts, ended, aborted>>

Next == HandOut \/ Write \/ ReadPart \/ ReadLast \/ ReadBad \/ NetworkError

Spec == Init /\ [][Next]_vars

\* The driver keeps going, and its reads end in bytes or in a time-out.
FairSpec == Spec /\ WF_vars(Next)
-----------------------------------------------------------------------------
(***************************************************************************)
(* Properties.                                                             *)
(***************************************************************************)
(***************************************************************************)
(* A result is never put together from the responses to different          *)
(* attempts, however an attempt breaks off: set_retry and the completion   *)
(* of a response both empty the parser.                                    *)
(***************************************************************************)
OneResponse ==
    Cardinality(k.parser) <= 1 /\ Cardinality(k.result) <= 1

(***************************************************************************)
(* A request is written at most 1 + kms_max_attempts times, and one that   *)
(* is not retryable (KMIP register and create are not idempotent) or that  *)
(* the application did not allow to be retried is written only once,       *)
(* whichever way the driver retries and whichever way attempts fail.       *)
(***************************************************************************)
RetriesBounded ==
    /\ sent <= 1 + MaxAttempts
    /\ ~ retry \/ ~ IsRetryable(k.type) => sent <= 1

(***************************************************************************)
(* mongocrypt-kms-ctx.c, at each _ctx_done function: a context that "has   *)
(* received full response" is parsed into "the result or error", so a      *)
(* context that has the whole response wants no more bytes of it.          *)
(***************************************************************************)
ResponseSettles == ended /\ driver = "read" => ~ Wants(k)

\* The owner's view of the context
Viewed ==
    [st |-> IF ~ k.ok THEN "failed" ELSE IF k.result # {} THEN "done"
            ELSE IF k.shouldRetry THEN "retry" ELSE "pending",
     attempts |-> k.attempts]

Owner == INSTANCE KmsAbstract
            WITH kms <- Viewed, retryable <- IsRetryable(k.type) /\ retry

(***************************************************************************)
(* The context implements the view that the key broker has of it: in       *)
(* particular a result or an error is final, and the attempts count up to  *)
(* the limit one by one.                                                   *)
(***************************************************************************)
ImplementsView == Owner!Spec

(***************************************************************************)
(* Every request ends in a result or an error: retries do not go on for    *)
(* ever.                                                                   *)
(***************************************************************************)
Settles == <>(aborted \/ ~ k.ok \/ k.result # {})
=============================================================================
