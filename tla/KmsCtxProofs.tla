---------------------------- MODULE KmsCtxProofs ----------------------------
(***************************************************************************)
(* Proofs about KmsCtxSys for every request type, set of status codes,     *)
(* limit of attempts and cutting of responses: the bounds on retries, one  *)
(* response per result, and that a KMS context implements the view of it   *)
(* that its owner has.                                                     *)
(***************************************************************************)
EXTENDS KmsCtxSys, FiniteSetTheorems, TLAPS

-----------------------------------------------------------------------------
(***************************************************************************)
(* The inductive invariant.                                                *)
(***************************************************************************)
\* A driver at work has a context that is waiting for bytes or for a retry.
DriverSound ==
    /\ driver # "idle" => k.ok /\ k.result = {} /\ returned
    /\ k.shouldRetry => k.result = {}
    /\ ~ returned => k.ok /\ k.result = {} /\ k.attempts = 0 /\ ~ k.shouldRetry /\ sent = 0

\* The parser has bytes of the last request only, and none when a request is
\* about to be written.
BytesSound ==
    /\ k.parser \subseteq {sent}
    /\ driver # "read" /\ k.ok => k.parser = {}
    /\ \A m, n \in k.result : m = n

\* Each request but the first was paid for by an attempt.
AttemptsSound ==
    /\ k.attempts <= MaxAttempts
    /\ sent <= k.attempts + 1
    /\ driver = "write" \/ (driver = "idle" /\ k.ok /\ (k.shouldRetry \/ ~ returned))
            => sent <= k.attempts
    /\ k.retryEnabled => retry
    /\ ~ retry \/ ~ IsRetryable(k.type) => k.attempts = 0 /\ ~ k.shouldRetry

Inv == TypeOK /\ DriverSound /\ BytesSound /\ AttemptsSound

(***************************************************************************)
(* What a call of the driver makes of the context: an error, a context     *)
(* that wants bytes, a result from the bytes of the last request, or a     *)
(* retry that may be made.                                                 *)
(***************************************************************************)
Errs(c) == ~ c.ok /\ c.result = {} /\ c.attempts = k.attempts /\ c.parser \subseteq {sent}

GoesOn(c) ==
    /\ driver = "read"
    /\ c.ok /\ c.result = {} /\ c.attempts = k.attempts /\ c.parser \subseteq {sent}
    /\ ~ c.shouldRetry

Ends(c) ==
    /\ c.ok /\ c.result = {sent} /\ c.attempts = k.attempts /\ c.parser = {}
    /\ ~ c.shouldRetry

Retries(c) ==
    /\ c.ok /\ c.result = {} /\ c.parser = {}
    /\ c.shouldRetry
    /\ k.attempts < MaxAttempts /\ c.attempts = k.attempts + 1
    /\ retry /\ IsRetryable(k.type)

StepsTo(c) ==
    /\ c \in KmsCtx /\ c.type = k.type /\ c.retryEnabled = k.retryEnabled
    /\ c.shouldRetry => k.shouldRetry \/ Retries(c)
    /\ Errs(c) \/ GoesOn(c) \/ Ends(c) \/ Retries(c)

-----------------------------------------------------------------------------
\* A context whose status is to be looked at can be retried by its type.
LEMMA TransientRetryable ==
    ASSUME NEW c \in KmsCtx, NEW status, Transient(c, status)
    PROVE  c.retryEnabled /\ IsRetryable(c.type)
BY DEF Transient, ShouldRetryHttp, IsRetryable

\* The four things a complete response can make of a context
LEMMA CtxDoneOutcome ==
    ASSUME NEW c \in KmsCtx, NEW status, NEW body
    PROVE  \/ CtxDone(c, status, body) = Error(Retrieved(c))
           \/ CtxDone(c, status, body) = Retrieved(c)
           \/ CtxDone(c, status, body) = Stored(c)
           \/ /\ CtxDone(c, status, body) = SetRetry(Retrieved(c))
              /\ c.attempts < MaxAttempts
              /\ c.retryEnabled
              /\ IsRetryable(c.type)
<1> DEFINE Outcome(r) == \/ r = Error(Retrieved(c))
                      \/ r = Retrieved(c)
                      \/ r = Stored(c)
                      \/ /\ r = SetRetry(Retrieved(c))
                         /\ c.attempts < MaxAttempts
                         /\ c.retryEnabled
                         /\ IsRetryable(c.type)
<1>1. Transient(c, status) => Outcome(RetryOrFail(Retrieved(c)))
  <2> SUFFICES ASSUME Transient(c, status)
               PROVE  Outcome(RetryOrFail(Retrieved(c)))
    OBVIOUS
  <2>1. c.retryEnabled /\ IsRetryable(c.type)
    BY TransientRetryable
  <2>2. Retrieved(c).attempts = c.attempts
    BY DEF Retrieved, KmsCtx
  <2>3. c.attempts \in Nat /\ MaxAttempts \in Nat
    BY KmsRequestAssumption DEF KmsCtx
  <2> QED BY <2>1, <2>2, <2>3 DEF RetryOrFail
<1>2. /\ Outcome(CtxDoneAws(c, status, body))
      /\ Outcome(CtxDoneOauth(c, status, body))
      /\ Outcome(CtxDoneAzure(c, status, body))
      /\ Outcome(CtxDoneGcp(c, status, body))
      /\ Outcome(CtxDoneKmip(c, body))
  BY <1>1 DEF CtxDoneAws, CtxDoneOauth, CtxDoneAzure, CtxDoneGcp, CtxDoneKmip
<1>3. Outcome(CtxDone(c, status, body))
  <2> HIDE DEF Outcome
  <2>1. c.type \in ReqTypes
    BY DEF KmsCtx
  <2> QED BY <1>2, <2>1
          DEF CtxDone, ReqTypes, AwsTypes, AzureTypes, GcpTypes
<1> QED BY <1>3

-----------------------------------------------------------------------------
\* The initial states
LEMMA InitInv == Init => Inv
<1> SUFFICES ASSUME Init PROVE Inv
  OBVIOUS
<1>1. PICK type \in Types : k = NewCtx(type)
  BY DEF Init
<1>2. k \in KmsCtx
  BY <1>1, KmsCtxSysAssumption DEF NewCtx, KmsCtx
<1>3. /\ k.ok /\ k.result = {} /\ k.parser = {} /\ k.attempts = 0
      /\ ~ k.shouldRetry /\ ~ k.retryEnabled
  BY <1>1 DEF NewCtx
<1>a. sent \in Nat /\ parts \in 0..MaxParts
  BY KmsCtxSysAssumption DEF Init
<1>4. TypeOK
  BY <1>2, <1>a DEF Init, TypeOK
<1>5. DriverSound /\ BytesSound
  BY <1>3 DEF Init, DriverSound, BytesSound
<1>6. AttemptsSound
  BY <1>3, KmsRequestAssumption DEF Init, AttemptsSound
<1> QED BY <1>4, <1>5, <1>6 DEF Inv

\* Handing the context out
LEMMA HandOutInv == Inv /\ HandOut => Inv'
<1> SUFFICES ASSUME Inv, HandOut PROVE Inv'
  OBVIOUS
<1>1. /\ k' \in KmsCtx
      /\ k'.type = k.type /\ k'.ok = k.ok /\ k'.result = k.result
      /\ k'.parser = k.parser /\ k'.attempts = k.attempts
      /\ k'.shouldRetry = FALSE /\ k'.retryEnabled = retry
  BY DEF Inv, TypeOK, HandOut, ClearRetry, KmsCtx
<1>2. k.ok /\ driver = "idle" /\ k.result = {}
  BY DEF HandOut, Inv, DriverSound
<1>3. TypeOK'
  BY <1>1 DEF Inv, TypeOK, HandOut
<1>4. DriverSound'
  BY <1>1, <1>2 DEF HandOut, DriverSound
<1>5. BytesSound'
  BY <1>1, <1>2 DEF Inv, HandOut, BytesSound
<1>6. AttemptsSound'
  BY <1>1, <1>2 DEF Inv, TypeOK, HandOut, AttemptsSound
<1> QED BY <1>3, <1>4, <1>5, <1>6 DEF Inv

\* Writing the request
LEMMA WriteInv == Inv /\ Write => Inv'
<1> SUFFICES ASSUME Inv, Write PROVE Inv'
  OBVIOUS
<1>1. k' = k /\ k \in KmsCtx /\ k.parser = {} /\ k.attempts \in Nat
  BY DEF Inv, Write, TypeOK, DriverSound, BytesSound, KmsCtx
<1>a. sent' \in Nat /\ parts' \in 0..MaxParts
  BY KmsCtxSysAssumption DEF Inv, Write, TypeOK
<1>2. TypeOK'
  BY <1>1, <1>a DEF Inv, Write, TypeOK
<1>3. DriverSound'
  BY <1>1 DEF Inv, Write, DriverSound
<1>4. BytesSound'
  BY <1>1 DEF Inv, Write, BytesSound
<1>5. AttemptsSound'
  BY <1>1 DEF Inv, Write, TypeOK, AttemptsSound
<1> QED BY <1>2, <1>3, <1>4, <1>5 DEF Inv

-----------------------------------------------------------------------------
\* A call of the driver keeps the invariant.
LEMMA CallInv ==
    ASSUME Inv, driver # "idle", StepsTo(k'), Proceeds(k'),
           UNCHANGED <<returned, retry, sent>>,
           parts' \in 0..MaxParts, ended' \in BOOLEAN, aborted' \in BOOLEAN
    PROVE  Inv'
<1>1. /\ k.ok /\ k.result = {} /\ returned /\ returned' /\ retry' = retry /\ sent' = sent
      /\ k.attempts \in Nat /\ sent \in Nat /\ MaxAttempts \in Nat
  BY KmsRequestAssumption DEF Inv, DriverSound, TypeOK, KmsCtx
<1>2. driver' \in {"idle", "write", "read"}
  BY DEF Proceeds
<1>3. TypeOK'
  BY <1>1, <1>2 DEF Inv, TypeOK, StepsTo
<1>4. driver' # "idle" => k'.ok /\ k'.result = {}
  BY DEF Proceeds, Wants, StepsTo, Errs, GoesOn, Ends, Retries
<1>5. DriverSound'
  BY <1>1, <1>4 DEF DriverSound, StepsTo, Errs, GoesOn, Ends, Retries
<1>6. driver' # "read" /\ k'.ok => k'.parser = {}
  BY DEF Proceeds, Wants, StepsTo, Errs, GoesOn, Ends, Retries
<1>7. BytesSound'
  BY <1>1, <1>6 DEF BytesSound, StepsTo, Errs, GoesOn, Ends, Retries
<1>8. driver' # "read" /\ k'.ok /\ k'.shouldRetry => Retries(k')
  BY DEF StepsTo, Errs, GoesOn, Ends
<1>9. driver' = "write" => k'.ok /\ k'.shouldRetry
  BY DEF Proceeds
<1>10. driver' = "write" => Retries(k')
  BY <1>8, <1>9
<1>11. k'.attempts \in Nat /\ k'.attempts <= MaxAttempts /\ sent <= k'.attempts + 1
  BY <1>1 DEF Inv, AttemptsSound, StepsTo, Errs, GoesOn, Ends, Retries
<1>12. Retries(k') => sent <= k'.attempts
  BY <1>1 DEF Inv, AttemptsSound, Retries
<1>13. ~ retry \/ ~ IsRetryable(k.type) => k'.attempts = 0 /\ ~ k'.shouldRetry
  BY DEF Inv, AttemptsSound, StepsTo, Errs, GoesOn, Ends, Retries
<1>14. IsRetryable(k'.type) = IsRetryable(k.type) /\ k'.retryEnabled = k.retryEnabled
  BY DEF StepsTo
<1>15. AttemptsSound'
  BY <1>1, <1>8, <1>10, <1>11, <1>12, <1>13, <1>14 DEF Inv, AttemptsSound
<1> QED BY <1>3, <1>5, <1>7, <1>15 DEF Inv

-----------------------------------------------------------------------------
\* The context a feed function works on
LEMMA ViaSame ==
    ASSUME Inv, driver = "read", NEW via \in FeedVia
    PROVE  /\ via \in KmsCtx /\ via.type = k.type /\ via.retryEnabled = k.retryEnabled
           /\ via.ok /\ via.result = {} /\ via.attempts = k.attempts
           /\ via.parser = k.parser /\ k.parser \subseteq {sent}
           /\ via.shouldRetry => k.shouldRetry
           /\ sent \in Nat
<1>1. k \in KmsCtx /\ k.ok /\ k.result = {} /\ k.parser \subseteq {sent} /\ sent \in Nat
  BY DEF Inv, TypeOK, DriverSound, BytesSound
<1>2. via = k \/ via = [k EXCEPT !.shouldRetry = FALSE]
  BY DEF FeedVia, ClearRetry
<1> QED BY <1>1, <1>2 DEF KmsCtx

\* A feed that is refused or fails sets an error.
LEMMA ErrorSteps ==
    ASSUME Inv, driver = "read", NEW via \in FeedVia
    PROVE  StepsTo(Error(via))
<1>1. /\ via \in KmsCtx /\ via.type = k.type /\ via.retryEnabled = k.retryEnabled
      /\ via.result = {} /\ via.attempts = k.attempts
      /\ via.parser \subseteq {sent} /\ (via.shouldRetry => k.shouldRetry)
  BY ViaSame
<1>2. /\ Error(via) \in KmsCtx /\ Error(via).type = via.type
      /\ Error(via).retryEnabled = via.retryEnabled /\ ~ Error(via).ok
      /\ Error(via).result = via.result /\ Error(via).attempts = via.attempts
      /\ Error(via).parser = via.parser /\ Error(via).shouldRetry = via.shouldRetry
  BY <1>1 DEF Error, KmsCtx
<1>3. Errs(Error(via))
  BY <1>1, <1>2 DEF Errs
<1> QED BY <1>1, <1>2, <1>3 DEF StepsTo

\* Bytes that do not end the response
LEMMA FeedPartSteps ==
    ASSUME Inv, driver = "read", NEW via \in FeedVia
    PROVE  StepsTo(FeedPart(via, sent))
<1>1. CASE FeedRefused(via)
  BY <1>1, ErrorSteps DEF FeedPart
<1>2. CASE ~ FeedRefused(via)
  <2> DEFINE new == [via EXCEPT !.parser = @ \cup {sent}]
  <2>1. FeedPart(via, sent) = new
    BY <1>2 DEF FeedPart
  <2>2. ~ via.shouldRetry
    BY <1>2 DEF FeedRefused
  <2>3. /\ new \in KmsCtx /\ new.type = via.type /\ new.retryEnabled = via.retryEnabled
        /\ new.ok = via.ok /\ new.result = via.result /\ new.attempts = via.attempts
        /\ new.parser = via.parser \cup {sent} /\ new.shouldRetry = via.shouldRetry
    BY ViaSame DEF KmsCtx
  <2> HIDE DEF new
  <2>4. GoesOn(new)
    BY <2>2, <2>3, ViaSame DEF GoesOn
  <2>5. StepsTo(new)
    BY <2>2, <2>3, <2>4, ViaSame DEF StepsTo
  <2> QED BY <2>1, <2>5
<1> QED BY <1>1, <1>2

\* The bytes that end the response
LEMMA FeedLastSteps ==
    ASSUME Inv, driver = "read", NEW via \in FeedVia, NEW status, NEW body
    PROVE  StepsTo(FeedLast(via, sent, status, body))
<1>1. CASE FeedRefused(via)
  BY <1>1, ErrorSteps DEF FeedLast
<1>2. CASE ~ FeedRefused(via)
  <2> DEFINE full == [via EXCEPT !.parser = @ \cup {sent}]
             new == CtxDone(full, status, body)
  <2>1. FeedLast(via, sent, status, body) = new
    BY <1>2 DEF FeedLast
  <2>2. ~ via.shouldRetry
    BY <1>2 DEF FeedRefused
  <2>3. /\ full \in KmsCtx /\ full.type = k.type /\ full.retryEnabled = k.retryEnabled
        /\ full.ok /\ full.result = {} /\ full.attempts = k.attempts
        /\ full.parser = {sent} /\ ~ full.shouldRetry
    BY <2>2, ViaSame DEF KmsCtx
  <2>4. full.retryEnabled => retry
    BY <2>3 DEF Inv, AttemptsSound
  <2>a. k.attempts \in Nat /\ k.attempts + 1 \in Nat
    BY DEF Inv, TypeOK, KmsCtx
  <2> HIDE DEF full, new
  <2>5. CASE new = Error(Retrieved(full))
    <3>1. /\ new \in KmsCtx /\ new.type = k.type /\ new.retryEnabled = k.retryEnabled
          /\ ~ new.shouldRetry /\ Errs(new)
      BY <2>3, <2>5 DEF Error, Retrieved, KmsCtx, Errs
    <3> QED BY <3>1, <2>1 DEF StepsTo
  <2>6. CASE new = Retrieved(full)
    <3>1. /\ new \in KmsCtx /\ new.type = k.type /\ new.retryEnabled = k.retryEnabled
          /\ ~ new.shouldRetry /\ GoesOn(new)
      BY <2>3, <2>6 DEF Retrieved, KmsCtx, GoesOn
    <3> QED BY <3>1, <2>1 DEF StepsTo
  <2>7. CASE new = Stored(full)
    <3>1. /\ new \in KmsCtx /\ new.type = k.type /\ new.retryEnabled = k.retryEnabled
          /\ ~ new.shouldRetry /\ Ends(new)
      BY <2>3, <2>7 DEF Stored, KmsCtx, Ends
    <3> QED BY <3>1, <2>1 DEF StepsTo
  <2>8. CASE /\ new = SetRetry(Retrieved(full))
             /\ full.attempts < MaxAttempts
             /\ full.retryEnabled
             /\ IsRetryable(full.type)
    <3>a. new = [full EXCEPT !.shouldRetry = TRUE, !.attempts = k.attempts + 1,
                             !.parser = {}]
      BY <2>3, <2>8 DEF SetRetry, Retrieved, KmsCtx
    <3>1. /\ new \in KmsCtx /\ new.type = k.type /\ new.retryEnabled = k.retryEnabled
          /\ new.ok /\ new.result = {} /\ new.parser = {} /\ new.shouldRetry
          /\ new.attempts = k.attempts + 1
      BY <2>3, <2>a, <3>a DEF KmsCtx
    <3>2. Retries(new)
      BY <3>1, <2>3, <2>4, <2>8 DEF Retries
    <3> QED BY <3>1, <3>2, <2>1 DEF StepsTo
  <2> QED BY <2>3, <2>5, <2>6, <2>7, <2>8, CtxDoneOutcome DEF new
<1> QED BY <1>1, <1>2

\* A network error
LEMMA FailSteps ==
    ASSUME Inv, driver # "idle"
    PROVE  StepsTo(FailCtx(k))
<1> DEFINE cleared == [k EXCEPT !.shouldRetry = FALSE]
<1>1. /\ cleared \in KmsCtx /\ cleared.type = k.type
      /\ cleared.retryEnabled = k.retryEnabled
      /\ cleared.ok /\ cleared.result = {} /\ cleared.attempts = k.attempts
      /\ cleared.parser \subseteq {sent} /\ ~ cleared.shouldRetry /\ k.attempts \in Nat
  BY DEF Inv, TypeOK, DriverSound, BytesSound, KmsCtx
<1>2. \/ FailCtx(k) = Error(cleared)
      \/ /\ FailCtx(k) = SetRetry(cleared)
         /\ k.retryEnabled /\ k.attempts < MaxAttempts /\ IsRetryable(k.type)
  BY <1>1, KmsRequestAssumption DEF FailCtx, ClearRetry
<1> HIDE DEF cleared
<1>3. CASE FailCtx(k) = Error(cleared)
  <2>1. /\ Error(cleared) \in KmsCtx /\ Error(cleared).type = k.type
        /\ Error(cleared).retryEnabled = k.retryEnabled
        /\ ~ Error(cleared).shouldRetry /\ Errs(Error(cleared))
    BY <1>1 DEF Error, KmsCtx, Errs
  <2> QED BY <1>3, <2>1 DEF StepsTo
<1>4. CASE /\ FailCtx(k) = SetRetry(cleared)
           /\ k.retryEnabled /\ k.attempts < MaxAttempts /\ IsRetryable(k.type)
  <2> DEFINE new == SetRetry(cleared)
  <2>a. k.attempts + 1 \in Nat
    BY <1>1
  <2>b. new = [cleared EXCEPT !.shouldRetry = TRUE, !.attempts = k.attempts + 1,
                              !.parser = {}]
    BY <1>1 DEF SetRetry, KmsCtx
  <2>1. /\ new \in KmsCtx /\ new.type = k.type /\ new.retryEnabled = k.retryEnabled
        /\ new.ok /\ new.result = {} /\ new.parser = {} /\ new.shouldRetry
        /\ new.attempts = k.attempts + 1
    BY <1>1, <2>a, <2>b DEF KmsCtx
  <2> HIDE DEF new
  <2>2. retry
    BY <1>4 DEF Inv, AttemptsSound
  <2>3. Retries(new)
    BY <1>4, <2>1, <2>2 DEF Retries
  <2>4. StepsTo(new)
    BY <2>1, <2>3 DEF StepsTo
  <2> QED BY <1>4, <2>4 DEF new
<1> QED BY <1>2, <1>3, <1>4

\* Everything the driver does with the context once it has written a request
DriverCall == ReadPart \/ ReadLast \/ ReadBad \/ NetworkError

\* Each of these calls makes of the context what StepsTo allows.
LEMMA DriverCallSteps ==
    ASSUME Inv, DriverCall
    PROVE  driver # "idle" /\ StepsTo(k')
<1>1. CASE ReadPart
  BY <1>1, FeedPartSteps DEF ReadPart
<1>2. CASE ReadLast
  BY <1>2, FeedLastSteps DEF ReadLast
<1>3. CASE ReadBad
  BY <1>3, ErrorSteps DEF ReadBad, FeedBad
<1>4. CASE NetworkError
  BY <1>4, FailSteps DEF NetworkError
<1> QED BY <1>1, <1>2, <1>3, <1>4 DEF DriverCall

\* Each of these calls keeps the invariant.
LEMMA DriverCallInv == Inv /\ DriverCall => Inv'
<1> SUFFICES ASSUME Inv, DriverCall PROVE Inv'
  OBVIOUS
<1>1. driver # "idle" /\ StepsTo(k')
  BY DriverCallSteps
<1>2. Proceeds(k') /\ UNCHANGED <<returned, retry, sent>>
  BY DEF DriverCall, ReadPart, ReadLast, ReadBad, NetworkError
<1>3. parts' \in 0..MaxParts
  <2>1. parts \in 0..MaxParts
    BY DEF Inv, TypeOK
  <2>2. CASE ReadPart
    BY <2>1, <2>2, KmsCtxSysAssumption DEF ReadPart
  <2>3. CASE ReadLast \/ ReadBad \/ NetworkError
    BY <2>1, <2>3 DEF ReadLast, ReadBad, NetworkError
  <2> QED BY <2>2, <2>3 DEF DriverCall
<1>4. ended' \in BOOLEAN /\ aborted' \in BOOLEAN
  <2>1. CASE ReadLast
    BY <2>1 DEF ReadLast
  <2>2. CASE ReadPart \/ ReadBad \/ NetworkError
    BY <2>2 DEF ReadPart, ReadBad, NetworkError, Inv, TypeOK
  <2> QED BY <2>1, <2>2 DEF DriverCall
<1> QED BY <1>1, <1>2, <1>3, <1>4, CallInv

\* Every step keeps the invariant.
LEMMA NextInv == Inv /\ [Next]_vars => Inv'
<1> SUFFICES ASSUME Inv, [Next]_vars PROVE Inv'
  OBVIOUS
<1>1. CASE UNCHANGED vars
  BY <1>1 DEF vars, Inv, TypeOK, DriverSound, BytesSound, AttemptsSound
<1>2. CASE Next
  BY <1>2, HandOutInv, WriteInv, DriverCallInv DEF Next, DriverCall
<1> QED BY <1>1, <1>2

\* The inductive invariant holds in every behaviour.
THEOREM InvHolds == Spec => []Inv
BY InitInv, NextInv, PTL DEF Spec

(***************************************************************************)
(* The context, its counters and the driver's place keep their types       *)
(* (mongocrypt_kms_ctx_t).                                                 *)
(***************************************************************************)
THEOREM TypeCorrect == Spec => []TypeOK
<1>1. Inv => TypeOK
  BY DEF Inv
<1> QED BY <1>1, InvHolds, PTL

\* A set whose elements are all equal has at most one.
LEMMA AtMostOne ==
    ASSUME NEW S, \A m, n \in S : m = n
    PROVE  Cardinality(S) <= 1
<1>1. CASE S = {}
  BY <1>1, FS_EmptySet
<1>2. CASE S # {}
  <2>1. PICK x : x \in S
    BY <1>2
  <2>2. S = {x}
    BY <2>1
  <2> QED BY <2>2, FS_Singleton
<1> QED BY <1>1, <1>2

(***************************************************************************)
(* No result is put together from the bytes of two attempts, wherever an   *)
(* attempt breaks off (set_retry, the _ctx_done functions).                *)
(***************************************************************************)
THEOREM OneResponseAlways == Spec => []OneResponse
<1>1. Inv => OneResponse
  <2> SUFFICES ASSUME Inv PROVE OneResponse
    OBVIOUS
  <2>1. \A m, n \in k.parser : m = n
    BY DEF Inv, BytesSound
  <2>2. \A m, n \in k.result : m = n
    BY DEF Inv, BytesSound
  <2> QED BY <2>1, <2>2, AtMostOne DEF OneResponse
<1> QED BY <1>1, InvHolds, PTL

(***************************************************************************)
(* A request is written at most 1 + kms_max_attempts times, and only once  *)
(* if it may not be retried (mongocrypt_kms_ctx_fail, should_retry_http).  *)
(***************************************************************************)
THEOREM RetriesAlwaysBounded == Spec => []RetriesBounded
<1>1. Inv => RetriesBounded
  <2> SUFFICES ASSUME Inv PROVE RetriesBounded
    OBVIOUS
  <2>1. sent \in Nat /\ k.attempts \in Nat /\ MaxAttempts \in Nat
    BY KmsRequestAssumption DEF Inv, TypeOK, KmsCtx
  <2> QED BY <2>1 DEF Inv, AttemptsSound, RetriesBounded
<1> QED BY <1>1, InvHolds, PTL

-----------------------------------------------------------------------------
(***************************************************************************)
(* The refinement.                                                         *)
(***************************************************************************)
\* A new context is a pending request without attempts.
LEMMA InitView == Init => Owner!Init
<1> SUFFICES ASSUME Init PROVE Owner!Init
  OBVIOUS
<1>1. PICK type \in Types : k = NewCtx(type)
  BY DEF Init
<1>2. k.ok /\ k.result = {} /\ ~ k.shouldRetry /\ k.attempts = 0
  BY <1>1 DEF NewCtx
<1>3. Viewed = Owner!KmsNew
  BY <1>2 DEF Viewed, Owner!KmsNew
<1>4. (IsRetryable(k.type) /\ retry) \in BOOLEAN
  OBVIOUS
<1> QED BY <1>3, <1>4 DEF Owner!Init

\* Each call of the driver is a step of the view: it ends the request, has it
\* wait for a retry, starts the retry, or cannot be seen.
LEMMA CallView ==
    ASSUME Inv, driver # "idle", StepsTo(k'), retry' = retry
    PROVE  [Owner!Next]_(Owner!view)
<1> DEFINE rt == IsRetryable(k.type) /\ retry
<1>1. k.ok /\ k.result = {}
  BY DEF Inv, DriverSound
<1>2. k'.type = k.type
  BY DEF StepsTo
<1>3. (IsRetryable(k.type) /\ retry)' = rt
  BY <1>2
<1>4. Viewed = [st |-> IF k.shouldRetry THEN "retry" ELSE "pending", attempts |-> k.attempts]
  BY <1>1 DEF Viewed
<1>5. Viewed.st \in {"pending", "retry"} /\ Viewed.attempts = k.attempts
  BY <1>4
<1>6. CASE Errs(k')
  <2>1. Viewed' = [st |-> "failed", attempts |-> k.attempts]
    BY <1>6 DEF Viewed, Errs
  <2>2. Viewed' = [Viewed EXCEPT !.st = "failed"]
    BY <2>1, <1>4
  <2>3. Owner!Advance
    BY <2>2, <1>3, <1>5 DEF Owner!Advance, Owner!KmsEnds
  <2> QED BY <2>3 DEF Owner!Next
<1>7. CASE GoesOn(k')
  <2>1. Viewed' = [st |-> "pending", attempts |-> k.attempts]
    BY <1>7 DEF Viewed, GoesOn
  <2>2. Viewed' = Owner!KmsHandOut(Viewed)
    BY <2>1, <1>4 DEF Owner!KmsHandOut
  <2>3. Owner!HandOut
    BY <2>2, <1>3 DEF Owner!HandOut
  <2> QED BY <2>3 DEF Owner!Next
<1>8. CASE Ends(k')
  <2>1. Viewed' = [st |-> "done", attempts |-> k.attempts]
    BY <1>8 DEF Viewed, Ends
  <2>2. Viewed' = [Viewed EXCEPT !.st = "done"]
    BY <2>1, <1>4
  <2>3. Owner!Advance
    BY <2>2, <1>3, <1>5 DEF Owner!Advance, Owner!KmsEnds
  <2> QED BY <2>3 DEF Owner!Next
<1>9. CASE Retries(k')
  <2>1. Viewed' = [st |-> "retry", attempts |-> k.attempts + 1]
    BY <1>9 DEF Viewed, Retries
  <2>2. rt /\ Viewed.attempts < MaxAttempts
    BY <1>9, <1>5 DEF Retries
  <2>3. Viewed' \in Owner!KmsEnds(Viewed, rt)
    BY <2>1, <2>2, <1>5 DEF Owner!KmsEnds
  <2>4. Owner!Advance
    BY <2>3, <1>3, <1>5 DEF Owner!Advance
  <2> QED BY <2>4 DEF Owner!Next
<1> QED BY <1>6, <1>7, <1>8, <1>9 DEF StepsTo

\* Every step of the context is a step of the view or cannot be seen.
LEMMA NextView == Inv /\ [Next]_vars => [Owner!Next]_(Owner!view)
<1> SUFFICES ASSUME Inv, [Next]_vars PROVE [Owner!Next]_(Owner!view)
  OBVIOUS
<1>1. CASE UNCHANGED vars
  BY <1>1 DEF vars, Owner!view, Viewed
<1>2. CASE HandOut
  <2>1. /\ k'.type = k.type /\ k'.ok = k.ok /\ k'.result = k.result
        /\ k'.attempts = k.attempts /\ k'.shouldRetry = FALSE /\ retry' = retry
    BY <1>2 DEF Inv, TypeOK, HandOut, ClearRetry, KmsCtx
  <2>2. k.ok /\ k.result = {}
    BY <1>2 DEF HandOut, Inv, DriverSound
  <2>3. Viewed = [st |-> IF k.shouldRetry THEN "retry" ELSE "pending", attempts |-> k.attempts]
    BY <2>2 DEF Viewed
  <2>4. Viewed' = [st |-> "pending", attempts |-> k.attempts]
    BY <2>1, <2>2 DEF Viewed
  <2>5. Viewed' = Owner!KmsHandOut(Viewed)
    BY <2>3, <2>4 DEF Owner!KmsHandOut
  <2>6. Owner!HandOut
    BY <2>1, <2>5 DEF Owner!HandOut
  <2> QED BY <2>6 DEF Owner!Next
<1>3. CASE Write
  BY <1>3 DEF Write, Owner!view, Viewed
<1>4. CASE DriverCall
  <2>1. retry' = retry
    BY <1>4 DEF DriverCall, ReadPart, ReadLast, ReadBad, NetworkError
  <2> QED BY <2>1, <1>4, DriverCallSteps, CallView
<1> QED BY <1>1, <1>2, <1>3, <1>4 DEF Next, DriverCall

(***************************************************************************)
(* The context of mongocrypt-kms-ctx.c implements the view of it that the  *)
(* key broker and the data key context are modelled with: a result or an   *)
(* error is final, and attempts are counted one by one up to the limit.    *)
(***************************************************************************)
THEOREM ViewImplemented == Spec => ImplementsView
<1>1. Spec => []Inv
  BY InvHolds
<1> QED BY <1>1, InitView, NextView, PTL DEF Spec, ImplementsView, Owner!Spec
=============================================================================
