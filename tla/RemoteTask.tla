----------------------------- MODULE RemoteTask -----------------------------
(***************************************************************************)
(* What a worker promises to those who send it messages over A2A, as the   *)
(* backends that call it rely on: a message becomes at most one task, the  *)
(* end of a task is final, tasks/get tells how it stands, and tasks/cancel *)
(* is refused only for a task that does not run any more.  A task that was *)
(* cancelled is shown working for ever.  Ended tasks may be forgotten, and *)
(* do not come back.                                                       *)
(*                                                                         *)
(* The module is the abstract specification that Worker implements;        *)
(* src/agents/worker.py is the implementation, src/common/a2a_client.py    *)
(* its client.                                                             *)
(***************************************************************************)
CONSTANTS
  Messages,     (* message/send requests                                   *)
  Background    (* those with blocking = false                             *)

VARIABLES
  state,        (* per message: how its task stands                        *)
  told          (* per message: what its sender was last answered          *)

vars == <<state, told>>

Final == {"completed", "failed"}

(* The answer to tasks/get about a task.                                   *)
Shown(s) ==
  CASE s = "stuck" -> "working"
    [] s = "forgotten" -> "not_found"
    [] OTHER -> s

Init ==
  /\ state = [m \in Messages |-> "unknown"]
  /\ told = [m \in Messages |-> "nothing"]

(* A message is taken, and ended tasks are forgotten.                      *)
Accept(m, old) ==
  /\ state[m] = "unknown"
  /\ \A n \in old : state[n] \in Final
  /\ state' = [n \in Messages |->
       IF n = m THEN "working" ELSE IF n \in old THEN "forgotten" ELSE state[n]]
  /\ told' = IF m \in Background THEN [told EXCEPT ![m] = "working"] ELSE told

(* A blocking message is answered with the end.                            *)
End(m, how) ==
  /\ state[m] = "working"
  /\ state' = [state EXCEPT ![m] = how]
  /\ told' = IF m \in Background THEN told ELSE [told EXCEPT ![m] = how]

Get(m) ==
  /\ state[m] # "unknown"
  /\ told' = [told EXCEPT ![m] = Shown(state[m])]
  /\ UNCHANGED state

Stop(m) ==
  /\ state[m] \in {"working", "stuck"}
  /\ state' = [state EXCEPT ![m] = "stuck"]
  /\ told' = [told EXCEPT ![m] = "canceled"]

RefuseToStop(m) ==
  /\ state[m] \notin {"unknown", "working"}
  /\ told' = [told EXCEPT ![m] = "refused"]
  /\ UNCHANGED state

Next ==
  \E m \in Messages :
    \/ \E old \in SUBSET Messages : Accept(m, old)
    \/ \E how \in Final : End(m, how)
    \/ Get(m) \/ Stop(m) \/ RefuseToStop(m)

Spec == Init /\ [][Next]_vars
=============================================================================
