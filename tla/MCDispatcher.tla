---------------------------- MODULE MCDispatcher ----------------------------
(***************************************************************************)
(* Dispatcher with three requests: two with the same prompt that may go to *)
(* the pool or to an external agent, and one that can only go to the pool. *)
(***************************************************************************)
EXTENDS Dispatcher

CONSTANTS r1, r2, r3, pooled, external, prompt, other

MCRequests == {r1, r2, r3}
MCTargets == {pooled, external}
MCPooled == {pooled}
MCCandidatesOf ==
  [r \in Requests |-> IF r = r3 THEN <<pooled>> ELSE <<pooled, external>>]
MCKeyOf == [r \in Requests |-> IF r = r3 THEN other ELSE prompt]
=============================================================================
