------------------------------ MODULE MCWorker ------------------------------
(***************************************************************************)
(* Worker with a background and a blocking message, and two configs, one   *)
(* of which has a system prompt.                                           *)
(***************************************************************************)
EXTENDS Worker

CONSTANTS b1, b2, c1, c2

MCMessages == {b1, b2}
MCBackground == {b1}
MCConfigs == {c1, c2}
MCPrompting == {c2}
=============================================================================
