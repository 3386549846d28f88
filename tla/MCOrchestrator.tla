--------------------------- MODULE MCOrchestrator ---------------------------
(* Three requests of a session, a frontend and a backend agent.            *)
EXTENDS Orchestrator, TLC

CONSTANTS e1, e2, e3, front, back, frontRole, backRole

MCExecutions == {e1, e2, e3}
MCCuttable == {e3}
MCTypes == {front, back}
MCRoleOf == (front :> frontRole) @@ (back :> backRole)

LookCall == [tool |-> "look", agents |-> {}]
FinalizeCall == [tool |-> "finalize", agents |-> {}]
DispatchCall(agents) == [tool |-> "dispatch", agents |-> agents]

(* Two agents at once, and finalize as the last call and before another.   *)
MCCallLists ==
  {<<DispatchCall({front, back})>>,
   <<FinalizeCall, LookCall>>,
   <<FinalizeCall>>}
=============================================================================
