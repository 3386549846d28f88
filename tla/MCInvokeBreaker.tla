-------------------------- MODULE MCInvokeBreaker --------------------------
(***************************************************************************)
(* InvokeBreaker with three concurrent requests and small thresholds.      *)
(***************************************************************************)
EXTENDS InvokeBreaker

CONSTANTS r1, r2, r3

MCRequests == {r1, r2, r3}
=============================================================================
