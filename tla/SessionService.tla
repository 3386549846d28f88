--------------------------- MODULE SessionService ---------------------------
(***************************************************************************)
(* One session of the session service (src/session/service.py), which all  *)
(* tasks of a conversation share: get_or_create_with_id of the requests    *)
(* that open it, append_event and update_state of what works for them.     *)
(*                                                                         *)
(* A session is a row of SQLite that is read and written as a whole, each  *)
(* time in a thread.  A cancellation ends the call that awaits the thread, *)
(* and releases the session's lock, but it does not end the thread.        *)
(*                                                                         *)
(* An event and a change of the state differ in which column of the row    *)
(* they change, and a session is the set of calls whose change it has.     *)
(* asyncio.Lock is first come, first served; here any caller may be next.  *)
(***************************************************************************)
EXTENDS FiniteSets

CONSTANTS
  Creators,     (* calls of get_or_create_with_id                          *)
  Writers,      (* calls of append_event and of update_state               *)
  Cancellable,  (* bound: the calls whose task may be cancelled            *)
  StoreFails,   (* SQLite raises, when a lock on the file is held too long *)
  NoCall

Calls == Creators \cup Writers

ASSUME SessionAssumption ==
  /\ Creators \cap Writers = {}
  /\ Cancellable \subseteq Calls
  /\ StoreFails \in BOOLEAN
  /\ NoCall \notin Calls

VARIABLES
  exists,      (* the session has a row                                    *)
  row,         (* the calls whose change is in it                          *)
  lock,        (* the call that holds the session's lock                   *)
  pc,
  read,        (* per call: the row it has read                            *)
  saving,      (* the calls whose thread is about to save                  *)
  overwritten  (* history: a save outside the lock replaced a row other    *)
               (* than the one that its call had read                      *)

vars == <<exists, row, lock, pc, read, saving, overwritten>>

Ended == {"returned", "missing", "failed", "cancelled"}
Points == {"new", "waiting", "reading", "saving"} \cup Ended

TypeOK ==
  /\ exists \in BOOLEAN
  /\ row \in SUBSET Writers
  /\ lock \in Writers \cup {NoCall}
  /\ pc \in [Calls -> Points]
  /\ read \in [Calls -> SUBSET Writers]
  /\ saving \in SUBSET Calls
  /\ overwritten \in BOOLEAN
  /\ lock # NoCall => pc[lock] \in {"reading", "saving"}

Init ==
  /\ exists \in BOOLEAN
  /\ row = {}
  /\ lock = NoCall
  /\ pc = [c \in Calls |-> "new"]
  /\ read = [c \in Calls |-> {}]
  /\ saving = {}
  /\ overwritten = FALSE

-----------------------------------------------------------------------------
Goes(c, point) == pc' = [pc EXCEPT ![c] = point]

(* Leaving "async with lock", in whatever way.                             *)
Release(c) == lock' = IF lock = c THEN NoCall ELSE lock

(* A creation reads at once, a write asks for the lock first.              *)
Call(c) ==
  /\ pc[c] = "new"
  /\ Goes(c, IF c \in Creators THEN "reading" ELSE "waiting")
  /\ UNCHANGED <<exists, row, lock, read, saving, overwritten>>

(* Mutant: nobody waits for the lock.                                      *)
MutAcquire(c) ==
  /\ pc[c] = "waiting"
  /\ lock' = c
  /\ Goes(c, "reading")
  /\ UNCHANGED <<exists, row, read, saving, overwritten>>

Acquire(c) ==
  /\ pc[c] = "waiting"
  /\ lock = NoCall
  /\ lock' = c
  /\ Goes(c, "reading")
  /\ UNCHANGED <<exists, row, read, saving, overwritten>>

(* get_session finds what the call needs no save for: a creation a         *)
(* session, a write none.                                                  *)
NeedsNoSave(c) == (c \in Creators) = exists

(* Mutant: a write to a missing session returns with the lock.             *)
MutReturnAtOnce(c) ==
  /\ pc[c] = "reading"
  /\ NeedsNoSave(c)
  /\ Goes(c, IF c \in Creators THEN "returned" ELSE "missing")
  /\ UNCHANGED <<exists, row, lock, read, saving, overwritten>>

ReturnAtOnce(c) ==
  /\ pc[c] = "reading"
  /\ NeedsNoSave(c)
  /\ Goes(c, IF c \in Creators THEN "returned" ELSE "missing")
  /\ Release(c)
  /\ UNCHANGED <<exists, row, read, saving, overwritten>>

(* The row is read, and the thread started that will save it as changed   *)
(* (a creation's after its mkdir).                                         *)
ReadThenSave(c) ==
  /\ pc[c] = "reading"
  /\ ~NeedsNoSave(c)
  /\ read' = [read EXCEPT ![c] = row]
  /\ saving' = saving \cup {c}
  /\ Goes(c, "saving")
  /\ UNCHANGED <<exists, row, lock, overwritten>>

(* What a call saves: an empty session, or the one read with its change.   *)
Changed(c) == IF c \in Creators THEN {} ELSE read[c] \cup {c}

(* Another row is there than the call has read: none, for a creation.      *)
Stale(c) == IF c \in Creators THEN exists ELSE row # read[c]

(* INSERT OR REPLACE of the whole row, whoever is still waiting for it.    *)
SaveLands(c) ==
  /\ c \in saving
  /\ exists' = TRUE
  /\ row' = Changed(c)
  /\ saving' = saving \ {c}
  /\ overwritten' = (overwritten \/ (lock # c /\ Stale(c)))
  /\ Goes(c, IF pc[c] = "saving" THEN "returned" ELSE pc[c])
  /\ Release(c)
  /\ UNCHANGED read

(* SQLite raises out of the call.                                          *)
Fails(c) ==
  /\ StoreFails
  /\ pc[c] \in {"reading", "saving"}
  /\ saving' = saving \ {c}
  /\ Goes(c, "failed")
  /\ Release(c)
  /\ UNCHANGED <<exists, row, read, overwritten>>

(* Mutant: the lock is not released.                                       *)
MutCancel(c) ==
  /\ c \in Cancellable
  /\ pc[c] \in {"waiting", "reading", "saving"}
  /\ Goes(c, "cancelled")
  /\ UNCHANGED <<exists, row, lock, read, saving, overwritten>>

(* The task that makes the call is cancelled: a save that runs runs on.    *)
Cancel(c) ==
  /\ c \in Cancellable
  /\ pc[c] \in {"waiting", "reading", "saving"}
  /\ Goes(c, "cancelled")
  /\ Release(c)
  /\ UNCHANGED <<exists, row, read, saving, overwritten>>

(* The save of a cancelled call raises, or its thread had not started yet  *)
(* and never does.                                                         *)
SaveIsLost(c) ==
  /\ pc[c] = "cancelled"
  /\ c \in saving
  /\ saving' = saving \ {c}
  /\ UNCHANGED <<exists, row, lock, pc, read, overwritten>>

-----------------------------------------------------------------------------
Proceeds(c) == Acquire(c) \/ ReturnAtOnce(c) \/ ReadThenSave(c) \/ SaveLands(c) \/ Fails(c)

Next == \E c \in Calls : Call(c) \/ Proceeds(c) \/ Cancel(c) \/ SaveIsLost(c)

Spec == Init /\ [][Next]_vars

(* Threads end: SQLite gives up after ten seconds.  Callers are not fair,  *)
(* and nobody has to cancel.                                               *)
FairSpec == Spec /\ \A c \in Calls : WF_vars(Proceeds(c))

-----------------------------------------------------------------------------
(* Properties                                                              *)

(* What append_event or update_state has written when it returns stays in  *)
(* the session, however calls overlap, fail and are cancelled, as long as  *)
(* no save outside the lock (a creation's, a cancelled call's) replaces a  *)
(* row that has changed since its call read it.                            *)
ReturnedWritesAreKept ==
  ~overwritten =>
    \A w \in Writers : pc[w] = "returned" => w \in row

(* Every call ends: no failure and no cancellation keeps the lock.         *)
EveryCallEnds == \A c \in Calls : pc[c] # "new" ~> pc[c] \in Ended

(* service.py:169: the lock serves to "prevent concurrent append_event     *)
(* calls from losing events".                                              *)
NoEventIsLost == \A w \in Writers : pc[w] = "returned" => w \in row
=============================================================================
