----------------------------- MODULE KmsAbstract -----------------------------
(***************************************************************************)
(* The life of one KMS request as its owner sees it.                       *)
(***************************************************************************)
EXTENDS KmsRequest

VARIABLES
    kms,
    retryable   \* may the request be sent more than once?

view == <<kms, retryable>>

Init ==
    /\ kms = KmsNew
    /\ retryable \in BOOLEAN

Advance ==
    /\ kms.st \in {"pending", "retry"}
    /\ kms' \in KmsEnds(kms, retryable)
    /\ UNCHANGED retryable

HandOut ==
    /\ kms' = KmsHandOut(kms)
    /\ UNCHANGED retryable

Next == Advance \/ HandOut

Spec == Init /\ [][Next]_view
=============================================================================
