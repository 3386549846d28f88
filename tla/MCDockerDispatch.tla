------------------------- MODULE MCDockerDispatch -------------------------
(***************************************************************************)
(* DockerDispatch on a small instance: two containers, and two dispatches  *)
(* of different tasks: one is streaming, and its agent card has a system   *)
(* prompt; the other has neither.                                          *)
(***************************************************************************)
EXTENDS DockerDispatch

CONSTANTS d1, d2, t1, t2

MCDispatches == {d1, d2}
MCStreaming == {d1}
MCPrompting == {d1}
MCTasks == {t1, t2}
MCTaskOf == [d \in Dispatches |-> IF d = d1 THEN t1 ELSE t2]
MCSlots == {0, 1}
MCFaults == {"daemon", "disk"}
=============================================================================
