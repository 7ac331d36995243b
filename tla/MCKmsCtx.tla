------------------------------ MODULE MCKmsCtx ------------------------------
(***************************************************************************)
(* Instances of KmsCtxSys for TLC: status codes that tell the retry tables *)
(* of the providers apart (504: not AWS, 509: not Azure, 700: GCP only).   *)
(***************************************************************************)
EXTENDS KmsCtxSys

AllStatuses == {200, 404, 408, 504, 509, 700}
GcpKeyTypes == {"GCP_ENCRYPT", "GCP_DECRYPT"}
=============================================================================
