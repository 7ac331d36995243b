------------------------------- MODULE KmsCtx -------------------------------
(***************************************************************************)
(* One mongocrypt_kms_ctx_t (mongocrypt-kms-ctx.c): a request to a KMS,    *)
(* the parser of its response, the result or the error that came of it,    *)
(* and the retry bookkeeping.  A context is a record; each operator is the *)
(* context after one call.                                                 *)
(*                                                                         *)
(* Bytes are abstracted to the number of the request they answer: the      *)
(* parser holds the set of requests whose response bytes it has, and a     *)
(* result is the set of requests whose bytes it was built from (empty:     *)
(* result.data is NULL).  Module ResponseParser models the parsers.        *)
(***************************************************************************)
EXTENDS KmsRequest

KmipTypes == {"KMIP_REGISTER", "KMIP_ACTIVATE", "KMIP_GET",
              "KMIP_CREATE", "KMIP_ENCRYPT", "KMIP_DECRYPT"}
AwsTypes == {"AWS_ENCRYPT", "AWS_DECRYPT"}
AzureTypes == {"AZURE_OAUTH", "AZURE_WRAPKEY", "AZURE_UNWRAPKEY"}
GcpTypes == {"GCP_OAUTH", "GCP_ENCRYPT", "GCP_DECRYPT"}
ReqTypes == KmipTypes \cup AwsTypes \cup AzureTypes \cup GcpTypes

\* _is_retryable_req: a KMIP request may not be safe to repeat.
IsRetryable(type) == type \in AwsTypes \cup AzureTypes \cup GcpTypes

\* should_retry_http
ShouldRetryHttp(status, type) ==
    \/ type \in AwsTypes /\ status \in {408, 429, 500, 502, 503, 509}
    \/ type \in AzureTypes /\ status \in {408, 429, 500, 502, 503, 504}
    \/ type \in GcpTypes /\ (status \in {408, 429} \/ status \div 500 = 1)

KmsCtx == [type : ReqTypes, retryEnabled : BOOLEAN, ok : BOOLEAN,
           result : SUBSET Nat, shouldRetry : BOOLEAN, attempts : Nat,
           parser : SUBSET Nat]

\* _init_common; the context that hands it out sets retry_enabled.
NewCtx(type) == [type |-> type, retryEnabled |-> FALSE, ok |-> TRUE,
                 result |-> {}, shouldRetry |-> FALSE, attempts |-> 0,
                 parser |-> {}]

\* CLIENT_ERR: the status is set and stays set.
Error(k) == [k EXCEPT !.ok = FALSE]

\* mongocrypt_kms_ctx_bytes_needed is not 0: once a response is complete, its
\* retrieval has reset the parser, which asks for bytes again.
Wants(k) == k.ok /\ k.result = {} /\ ~ k.shouldRetry

\* Variants: the parser is not reset; the attempt is not counted.
SetRetryKeepsBytes(k) == [k EXCEPT !.shouldRetry = TRUE, !.attempts = @ + 1]
SetRetryUncounted(k) == [k EXCEPT !.shouldRetry = TRUE, !.parser = {}]

\* set_retry
SetRetry(k) == [k EXCEPT !.shouldRetry = TRUE, !.attempts = @ + 1, !.parser = {}]

-----------------------------------------------------------------------------
(***************************************************************************)
(* A complete response: its HTTP status, and whether its body is JSON with *)
(* the field wanted ("bad" if not) whose value decodes ("undecodable" if   *)
(* not).  For KMIP only good or bad matters.                               *)
(***************************************************************************)
Bodies == {"good", "bad", "undecodable"}

\* Variant: one attempt too many.
RetryOrFailLate(k) == IF k.attempts > MaxAttempts THEN Error(k) ELSE SetRetry(k)

\* The section that every HTTP _ctx_done function begins with: a status to
\* retry on is retried, or is an error when the attempts are used up.
Transient(k, status) == k.retryEnabled /\ ShouldRetryHttp(status, k.type)
RetryOrFail(k) == IF k.attempts >= MaxAttempts THEN Error(k) ELSE SetRetry(k)

\* Retrieving the response from the parser resets the parser.
Retrieved(k) == [k EXCEPT !.parser = {}]
Stored(k) == [k EXCEPT !.result = k.parser, !.parser = {}]

\* _ctx_done_aws
CtxDoneAws(k, status, body) ==
    IF Transient(k, status) THEN RetryOrFail(Retrieved(k))
    ELSE IF status = 200 /\ body = "good" THEN Stored(k)
    ELSE Error(Retrieved(k))

\* _ctx_done_oauth: the body is kept as it is, nothing is decoded.
CtxDoneOauth(k, status, body) ==
    IF Transient(k, status) THEN RetryOrFail(Retrieved(k))
    ELSE IF status = 200 /\ body # "bad" THEN Stored(k)
    ELSE Error(Retrieved(k))

\* _ctx_done_azure_wrapkey_unwrapkey
CtxDoneAzure(k, status, body) ==
    IF Transient(k, status) THEN RetryOrFail(Retrieved(k))
    ELSE IF status = 200 /\ body = "good" THEN Stored(k)
    ELSE Error(Retrieved(k))

\* _ctx_done_gcp: whether the value could be decoded is not looked at.  If it
\* could not, the result stays NULL and no error is set.
CtxDoneGcp(k, status, body) ==
    IF Transient(k, status) THEN RetryOrFail(Retrieved(k))
    ELSE IF status # 200 \/ body = "bad" THEN Error(Retrieved(k))
    ELSE IF body = "undecodable" THEN Retrieved(k)
    ELSE Stored(k)

\* _ctx_done_kmip_register, _activate, _get, _create, _encrypt and _decrypt: no
\* status code, and no retry.
CtxDoneKmip(k, body) ==
    IF body = "good" THEN Stored(k) ELSE Error(Retrieved(k))

\* The _ctx_done function of the request's type
CtxDone(k, status, body) ==
    CASE k.type \in AwsTypes -> CtxDoneAws(k, status, body)
      [] k.type \in {"AZURE_OAUTH", "GCP_OAUTH"} -> CtxDoneOauth(k, status, body)
      [] k.type \in {"AZURE_WRAPKEY", "AZURE_UNWRAPKEY"} -> CtxDoneAzure(k, status, body)
      [] k.type \in {"GCP_ENCRYPT", "GCP_DECRYPT"} -> CtxDoneGcp(k, status, body)
      [] k.type \in KmipTypes -> CtxDoneKmip(k, body)

\* The length of a GCP result that could not be decoded is uninitialised: the
\* assertion on it may end the process.
MayAbort(k, status, body) ==
    /\ k.type \in {"GCP_ENCRYPT", "GCP_DECRYPT"}
    /\ status = 200
    /\ body = "undecodable"

\* The checks mongocrypt_kms_ctx_feed makes before it parses
FeedRefused(k) == ~ k.ok \/ k.shouldRetry \/ ~ Wants(k)

\* mongocrypt_kms_ctx_feed of bytes of request n that do not end its response
FeedPart(k, n) ==
    IF FeedRefused(k) THEN Error(k) ELSE [k EXCEPT !.parser = @ \cup {n}]

\* mongocrypt_kms_ctx_feed of the last bytes of the response to request n
FeedLast(k, n, status, body) ==
    IF FeedRefused(k) THEN Error(k)
    ELSE CtxDone([k EXCEPT !.parser = @ \cup {n}], status, body)

\* mongocrypt_kms_ctx_feed of no bytes, of too many, or of bytes that do not parse
FeedBad(k) == Error(k)

\* Variant: a retry gives its attempt back.
ClearRetryRefunds(k) == [k EXCEPT !.shouldRetry = FALSE, !.attempts = @ - 1]

\* mongocrypt_kms_ctx_feed_with_retry clears should_retry, then feeds.
ClearRetry(k) == [k EXCEPT !.shouldRetry = FALSE]

\* Variant: the type of the request is not looked at.
FailCtxAnyType(k) ==
    LET cleared == ClearRetry(k)
    IN  IF ~ k.retryEnabled \/ k.attempts >= MaxAttempts
        THEN Error(cleared)
        ELSE SetRetry(cleared)

\* mongocrypt_kms_ctx_fail
FailCtx(k) ==
    LET cleared == ClearRetry(k)
    IN  IF ~ k.retryEnabled \/ k.attempts >= MaxAttempts \/ ~ IsRetryable(k.type)
        THEN Error(cleared)
        ELSE SetRetry(cleared)
=============================================================================
