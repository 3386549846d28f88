----------------------------- MODULE SessionLog -----------------------------
(***************************************************************************)
(* What a session promises to the tasks of a conversation: every call of   *)
(* append_event and update_state takes effect at once or not at all, and   *)
(* what it has written when it returns is never dropped.  A call that is   *)
(* cancelled gets no such promise: its change may come later than its      *)
(* answer, and may go again.                                               *)
(*                                                                         *)
(* The module is the abstract specification that SessionService implements *)
(* as long as no save outside the session's lock replaces a row that has   *)
(* changed; src/session/service.py is the implementation.                  *)
(***************************************************************************)
CONSTANTS
  Creators,     (* calls that open the session                             *)
  Writers       (* calls that change it                                    *)

VARIABLES
  exists,       (* the session is there                                    *)
  content,      (* the writes that are in it                               *)
  answer        (* per call: what its caller got, "none" as yet            *)

vars == <<exists, content, answer>>

Init ==
  /\ exists \in BOOLEAN
  /\ content = {}
  /\ answer = [c \in Creators \cup Writers |-> "none"]

Answered(result) == {w \in Writers : answer[w] = result}

Answer(c, result) ==
  /\ answer[c] = "none"
  /\ answer' = [answer EXCEPT ![c] = result]

(* The session is made by one of the calls that open it; the others get it *)
(* as it is.                                                               *)
Open(c) ==
  /\ Answer(c, "returned")
  /\ exists' = TRUE
  /\ UNCHANGED content

(* The write is in, and of all the others only cancelled ones may go.      *)
Write(w) ==
  /\ exists
  /\ Answer(w, "returned")
  /\ w \in content'
  /\ content' \subseteq content \cup {w}
  /\ content \ content' \subseteq Answered("cancelled")
  /\ UNCHANGED exists

(* Nothing to write to.                                                    *)
Miss(w) ==
  /\ ~exists
  /\ Answer(w, "missing")
  /\ UNCHANGED <<exists, content>>

(* No effect, now or ever, for "failed"; none so far for "cancelled".      *)
GiveUp(c) ==
  /\ \E result \in {"failed", "cancelled"} : Answer(c, result)
  /\ UNCHANGED <<exists, content>>

(* A cancelled call takes effect after all.                                *)
WriteLate(w) ==
  /\ exists
  /\ answer[w] = "cancelled"
  /\ content' = content \cup {w}
  /\ UNCHANGED <<exists, answer>>

OpenLate(c) ==
  /\ ~exists
  /\ answer[c] = "cancelled"
  /\ exists' = TRUE
  /\ UNCHANGED <<content, answer>>

Next ==
  \/ \E c \in Creators : Open(c) \/ OpenLate(c)
  \/ \E w \in Writers : Write(w) \/ Miss(w) \/ WriteLate(w)
  \/ \E c \in Creators \cup Writers : GiveUp(c)

Spec == Init /\ [][Next]_vars
=============================================================================
