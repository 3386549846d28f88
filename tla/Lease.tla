------------------------------- MODULE Lease -------------------------------
(***************************************************************************)
(* What the warm container pool promises to the code that dispatches work: *)
(* a container is lent to one client at a time.  A client that is cut off  *)
(* may never give its container back (Abandon, Lose); such a container is  *)
(* lost to the pool, but it is never lent a second time.  When the pool is *)
(* closed it forgets its loans, and lends nothing any more.                *)
(*                                                                         *)
(* The module is the abstract specification that DockerDispatch            *)
(* implements; src/container_pool/pool.py and src/dispatcher/backends.py   *)
(* are the implementation.                                                 *)
(***************************************************************************)
CONSTANTS
  Clients,      (* who borrows: calls of DockerBackend.invoke              *)
  Slots         (* what is lent: the containers of the pool                *)

VARIABLES
  open,         (* the pool lends                                          *)
  lent,         (* the slots the pool counts as lent                       *)
  holds         (* pairs <<client, slot>>: who works in which slot         *)

vars == <<open, lent, holds>>

Init ==
  /\ open \in BOOLEAN
  /\ lent = {}
  /\ holds = {}

Acquire(c, s) ==
  /\ open
  /\ s \notin lent
  /\ \A x \in Slots : <<c, x>> \notin holds
  /\ lent' = lent \cup {s}
  /\ holds' = holds \cup {<<c, s>>}
  /\ UNCHANGED open

Release(c, s) ==
  /\ <<c, s>> \in holds
  /\ lent' = lent \ {s}
  /\ holds' = holds \ {<<c, s>>}
  /\ UNCHANGED open

(* A client ends without releasing: its slot stays lent, to nobody.        *)
Abandon(c, s) ==
  /\ <<c, s>> \in holds
  /\ holds' = holds \ {<<c, s>>}
  /\ UNCHANGED <<open, lent>>

(* A slot is taken and its taker fails before it can use it.               *)
Lose(s) ==
  /\ open
  /\ s \notin lent
  /\ lent' = lent \cup {s}
  /\ UNCHANGED <<open, holds>>

Close ==
  /\ open
  /\ open' = FALSE
  /\ lent' = {}
  /\ UNCHANGED holds

Next ==
  \/ \E c \in Clients, s \in Slots :
       Acquire(c, s) \/ Release(c, s) \/ Abandon(c, s)
  \/ \E s \in Slots : Lose(s)
  \/ Close

Spec == Init /\ [][Next]_vars
=============================================================================
