----------------------------- MODULE KmsRequest -----------------------------
(***************************************************************************)
(* What the owner of a mongocrypt_kms_ctx_t relies on: a KMS request is    *)
(* not initialised, waiting for bytes, waiting to be retried, holding a    *)
(* result, or holding an error.  The key broker is modelled over this      *)
(* view; module KmsCtxSys shows that the code of mongocrypt-kms-ctx.c      *)
(* implements it.                                                          *)
(***************************************************************************)
EXTENDS Integers

CONSTANT MaxAttempts    \* kms_max_attempts

ASSUME KmsRequestAssumption == MaxAttempts \in Nat

Kms == [st : {"unset", "pending", "retry", "done", "failed"}, attempts : Nat]

KmsUnset == [st |-> "unset", attempts |-> 0]
KmsNew == [st |-> "pending", attempts |-> 0]

\* Variant: attempts are not counted.
KmsEndsUncounted(kms, retryable) ==
    {[kms EXCEPT !.st = "done"], [kms EXCEPT !.st = "failed"]} \cup
    (IF retryable THEN {[kms EXCEPT !.st = "retry"]} ELSE {})

(***************************************************************************)
(* What a request can be once its driver has fed it or has reported a      *)
(* network error (mongocrypt_kms_ctx_feed, mongocrypt_kms_ctx_fail).  A    *)
(* request that waits for a retry can be fed in place.                     *)
(***************************************************************************)
KmsEnds(kms, retryable) ==
    {[kms EXCEPT !.st = "done"], [kms EXCEPT !.st = "failed"]} \cup
    (IF retryable /\ kms.attempts < MaxAttempts
     THEN {[st |-> "retry", attempts |-> kms.attempts + 1]}
     ELSE {})

\* Handing a request out clears should_retry.
KmsHandOut(kms) ==
    IF kms.st = "retry" THEN [kms EXCEPT !.st = "pending"] ELSE kms
=============================================================================
