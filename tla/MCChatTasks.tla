---------------------------- MODULE MCChatTasks ----------------------------
(***************************************************************************)
(* ChatTasks with two requests that have the same idempotency key, one of  *)
(* which may be a direct chat.                                             *)
(***************************************************************************)
EXTENDS ChatTasks

CONSTANTS r1, r2, key, tenant

MCRequests == {r1, r2}
MCCancellable == {r1}
MCKeyOf == [r \in Requests |-> key]
MCTenantOf == [r \in Requests |-> tenant]
MCFaults == {"disk", "crash"}
MCNoFaults == {}
MCDirect == {r1}
MCNoDirect == {}
=============================================================================
