------------------------ MODULE SessionServiceProofs ------------------------
(***************************************************************************)
(* Writes to a session that return are kept, nothing else gets into it,    *)
(* its calls implement SessionLog, and lead on, for any number of calls:   *)
(* but for saves outside the lock, and without those always.               *)
(***************************************************************************)
EXTENDS SessionService, Naturals, TLAPS

(* The writes that have returned.                                          *)
Returned == {w \in Writers : pc[w] = "returned"}

(* A write reads and saves under the lock; a creation never asks for it.   *)
LockedWrites ==
  /\ \A w \in Writers : pc[w] \in {"reading", "saving"} => lock = w
  /\ \A c \in Creators : pc[c] # "waiting"

(* A thread that saves has its call waiting for it, or was left alone.     *)
SavesHaveCalls ==
  \A c \in Calls : /\ c \in saving => pc[c] \in {"saving", "cancelled"}
                   /\ pc[c] = "saving" => c \in saving

(* What the holder of the lock has read has all that returned: nothing can *)
(* return while it holds the lock.                                         *)
ReadIsCurrent ==
  ~overwritten => \A w \in Writers : pc[w] = "saving" => Returned \subseteq read[w]

Kept == ~overwritten => Returned \subseteq row

Inv ==
  /\ TypeOK
  /\ LockedWrites
  /\ SavesHaveCalls
  /\ ReadIsCurrent
  /\ Kept
  /\ ~exists => row = {}

USE DEF Calls, Points, Ended

(* The invariant holds when the session is first asked for.                *)
LEMMA InitInv == Init => Inv
<1> SUFFICES ASSUME Init PROVE Inv
  OBVIOUS
<1> QED
  BY DEF Init, Inv, TypeOK, LockedWrites, SavesHaveCalls, ReadIsCurrent, Kept, Returned

(* The types and the lock: a call leaves the lock when it leaves the code  *)
(* that the lock protects.                                                 *)
LEMMA LockStep ==
  ASSUME Inv, NEW c \in Calls,
         \/ Call(c) \/ Acquire(c) \/ ReturnAtOnce(c) \/ ReadThenSave(c)
         \/ SaveLands(c) \/ Fails(c) \/ Cancel(c) \/ SaveIsLost(c)
  PROVE  TypeOK' /\ LockedWrites'
<1>1. CASE Call(c)
  BY <1>1, SessionAssumption DEF Inv, TypeOK, LockedWrites, Call, Goes
<1>5. CASE Acquire(c)
  <2>1. c \in Writers
    BY <1>5 DEF Inv, LockedWrites, Acquire
  <2> QED
    BY <1>5, <2>1, SessionAssumption DEF Inv, TypeOK, LockedWrites, Acquire, Goes
<1>2. CASE ReturnAtOnce(c) \/ Fails(c) \/ Cancel(c)
  <2>1. \E point \in Ended : Goes(c, point)
    BY <1>2 DEF ReturnAtOnce, Fails, Cancel
  <2>2. /\ pc' \in [Calls -> Points]
        /\ pc'[c] \in Ended
        /\ \A d \in Calls \ {c} : pc'[d] = pc[d]
    BY <2>1 DEF Inv, TypeOK, Goes
  <2>3. Release(c) /\ saving' \in SUBSET Calls /\ UNCHANGED <<exists, row, read, overwritten>>
    BY <1>2 DEF Inv, TypeOK, ReturnAtOnce, Fails, Cancel
  <2>4. lock' # c /\ lock' \in {lock, NoCall}
    BY <2>3, SessionAssumption DEF Release
  <2>5. TypeOK'
    BY <2>2, <2>3, <2>4, SessionAssumption DEF Inv, TypeOK
  <2>6. LockedWrites'
    BY <2>2, <2>3 DEF Inv, LockedWrites, Release
  <2> QED
    BY <2>5, <2>6
<1>3. CASE ReadThenSave(c) \/ SaveIsLost(c)
  BY <1>3, SessionAssumption
     DEF Inv, TypeOK, LockedWrites, ReadThenSave, SaveIsLost, Goes
<1>4. CASE SaveLands(c)
  <2>1. Changed(c) \in SUBSET Writers
    BY DEF Inv, TypeOK, Changed
  <2> QED
    BY <1>4, <2>1, SessionAssumption
       DEF Inv, TypeOK, LockedWrites, SavesHaveCalls, SaveLands, Goes, Release
<1> QED
  BY <1>1, <1>2, <1>3, <1>4, <1>5

(* A step that changes neither the row nor what was read, and by which no  *)
(* write returns.                                                          *)
LEMMA QuietStep ==
  ASSUME Inv, TypeOK', LockedWrites', NEW c \in Calls, NEW point \in Points,
         Goes(c, point), point # "saving", c \in Writers => point # "returned",
         UNCHANGED <<exists, row, read, overwritten>>,
         saving' = IF point = "cancelled" THEN saving ELSE saving \ {c},
         point = "cancelled" => pc[c] # "new"
  PROVE  Inv'
<1>1. pc'[c] = point /\ \A d \in Calls \ {c} : pc'[d] = pc[d]
  BY DEF Inv, TypeOK, Goes
<1>2. SavesHaveCalls'
  BY <1>1 DEF Inv, SavesHaveCalls
<1>3. Returned' \subseteq Returned
  BY <1>1 DEF Returned
<1>4. ReadIsCurrent' /\ Kept'
  BY <1>1, <1>3 DEF Inv, ReadIsCurrent, Kept
<1> QED
  BY <1>2, <1>4 DEF Inv

(* A call is made, waits for the lock, gets it, and returns at once.       *)
LEMMA BeginStep ==
  ASSUME Inv, NEW c \in Calls, Call(c) \/ Acquire(c) \/ ReturnAtOnce(c)
  PROVE  Inv'
<1>1. TypeOK' /\ LockedWrites'
  BY LockStep
<1>2. c \notin saving
  BY DEF Inv, SavesHaveCalls, Call, Acquire, ReturnAtOnce
<1>3. saving' = saving \ {c} /\ UNCHANGED <<exists, row, read, overwritten>>
  BY <1>2 DEF Call, Acquire, ReturnAtOnce
<1>4. \E point \in {"waiting", "reading", "missing", "returned"} :
        Goes(c, point) /\ (c \in Writers => point # "returned")
  BY SessionAssumption DEF Call, Acquire, ReturnAtOnce
<1> QED
  BY <1>1, <1>3, <1>4, QuietStep

(* The row is read under the lock: it has all that returned.               *)
LEMMA ReadStep ==
  ASSUME Inv, NEW c \in Calls, ReadThenSave(c)
  PROVE  Inv'
<1>1. TypeOK' /\ LockedWrites'
  BY LockStep
<1>2. pc'[c] = "saving" /\ \A d \in Calls \ {c} : pc'[d] = pc[d]
  BY DEF Inv, TypeOK, ReadThenSave, Goes
<1>3. read'[c] = row /\ \A d \in Calls \ {c} : read'[d] = read[d]
  BY DEF Inv, TypeOK, ReadThenSave
<1>4. UNCHANGED <<exists, row, overwritten>> /\ saving' = saving \cup {c}
  BY DEF ReadThenSave
<1>5. SavesHaveCalls'
  BY <1>2, <1>4 DEF Inv, SavesHaveCalls
<1>6. Returned' \subseteq Returned
  BY <1>2 DEF Returned
<1>7. ReadIsCurrent' /\ Kept'
  BY <1>2, <1>3, <1>4, <1>6 DEF Inv, ReadIsCurrent, Kept
<1> QED
  BY <1>1, <1>4, <1>5, <1>7 DEF Inv

(* A call fails or is cancelled, or its thread ends without a save.        *)
LEMMA EndStep ==
  ASSUME Inv, NEW c \in Calls, Fails(c) \/ Cancel(c) \/ SaveIsLost(c)
  PROVE  Inv'
<1>1. TypeOK' /\ LockedWrites'
  BY LockStep
<1>2. CASE Fails(c)
  BY <1>1, <1>2, QuietStep DEF Fails
<1>3. CASE Cancel(c)
  BY <1>1, <1>3, QuietStep DEF Cancel
<1>4. CASE SaveIsLost(c)
  BY <1>1, <1>4 DEF Inv, SavesHaveCalls, ReadIsCurrent, Kept, Returned, SaveIsLost
<1> QED
  BY <1>2, <1>3, <1>4

(* A save lands.  Under the lock it keeps what was there when it was read; *)
(* outside, it keeps what is there, or the history notes it.               *)
LEMMA SaveStep ==
  ASSUME Inv, NEW c \in Calls, SaveLands(c)
  PROVE  Inv'
<1>1. TypeOK' /\ LockedWrites'
  BY LockStep
<1>2. exists' /\ row' = Changed(c) /\ saving' = saving \ {c} /\ read' = read
  BY DEF SaveLands
<1>3. /\ pc'[c] = IF pc[c] = "saving" THEN "returned" ELSE pc[c]
      /\ \A d \in Calls \ {c} : pc'[d] = pc[d]
  BY DEF Inv, TypeOK, SaveLands, Goes
<1>4. SavesHaveCalls'
  BY <1>2, <1>3 DEF Inv, SavesHaveCalls, SaveLands
<1>5. Returned' \subseteq Returned \cup (IF pc[c] = "saving" THEN {c} ELSE {})
  BY <1>3 DEF Returned
<1>6. CASE c \in Writers /\ pc[c] = "saving"
  <2>1. lock = c
    BY <1>6 DEF Inv, LockedWrites
  <2>2. overwritten' = overwritten
    BY <2>1 DEF Inv, TypeOK, SaveLands
  <2>3. row' = read[c] \cup {c}
    BY <1>2, <1>6, SessionAssumption DEF Changed
  <2>4. Kept'
    BY <1>5, <1>6, <2>2, <2>3 DEF Inv, ReadIsCurrent, Kept
  <2>5. \A w \in Writers : pc'[w] # "saving"
    BY <1>3, <1>6, <2>1 DEF Inv, LockedWrites
  <2> QED
    BY <1>1, <1>2, <1>4, <2>4, <2>5 DEF Inv, ReadIsCurrent
<1>7. CASE ~(c \in Writers /\ pc[c] = "saving")
  <2>1. Returned' \subseteq Returned
    BY <1>5, <1>7 DEF Returned
  <2>2. lock # c
    <3>1. CASE c \in Creators
      BY <3>1, SessionAssumption DEF Inv, TypeOK
    <3>2. CASE c \in Writers
      <4>1. pc[c] = "cancelled"
        BY <1>7, <3>2 DEF Inv, SavesHaveCalls, SaveLands
      <4> QED
        BY <4>1, SessionAssumption DEF Inv, TypeOK
    <3> QED
      BY <3>1, <3>2
  <2>3. ~overwritten' => ~overwritten /\ ~Stale(c)
    BY <2>2 DEF SaveLands
  <2>4. ~Stale(c) => row \subseteq Changed(c)
    BY DEF Inv, Stale, Changed
  <2>5. Kept'
    BY <1>2, <2>1, <2>3, <2>4 DEF Inv, Kept
  <2>6. ReadIsCurrent'
    BY <1>2, <1>3, <2>1, <2>3 DEF Inv, ReadIsCurrent
  <2> QED
    BY <1>1, <1>2, <1>4, <2>5, <2>6 DEF Inv
<1> QED
  BY <1>6, <1>7

(* Every step, and stuttering, keeps the invariant.                        *)
LEMMA InvStep == Inv /\ [Next]_vars => Inv'
<1> SUFFICES ASSUME Inv, [Next]_vars PROVE Inv'
  OBVIOUS
<1>1. CASE UNCHANGED vars
  BY <1>1 DEF vars, Inv, TypeOK, LockedWrites, SavesHaveCalls, ReadIsCurrent, Kept, Returned
<1>2. ASSUME NEW c \in Calls, Call(c) \/ Proceeds(c) \/ Cancel(c) \/ SaveIsLost(c)
      PROVE  Inv'
  BY <1>2, BeginStep, ReadStep, SaveStep, EndStep DEF Proceeds
<1> QED
  BY <1>1, <1>2 DEF Next

LEMMA SessionInvariant == Spec => []Inv
<1> QED
  BY InitInv, InvStep, PTL DEF Spec

-----------------------------------------------------------------------------
(* The session, its lock and its calls keep their types, and the lock is   *)
(* held only inside the code it protects, for any calls (service.py:166).  *)
THEOREM TypeCorrect == Spec => []TypeOK
<1>1. Inv => TypeOK
  BY DEF Inv
<1> QED
  BY <1>1, SessionInvariant, PTL

(* A write that returned stays, until a save outside the lock replaces a   *)
(* row that has changed since its call read it: for any number of writes,  *)
(* creations, failures and cancellations (service.py:166 and 182).         *)
THEOREM WritesAreKept == Spec => []ReturnedWritesAreKept
<1>1. Inv => ReturnedWritesAreKept
  BY DEF Inv, Kept, Returned, ReturnedWritesAreKept
<1> QED
  BY <1>1, SessionInvariant, PTL

(* Without cancellations and creations every save is under the lock.       *)
LEMMA SavesAreLocked ==
  ASSUME Cancellable = {}, Creators = {}
  PROVE  Spec => []~overwritten
<1> DEFINE Calm == Inv /\ ~overwritten /\ \A c \in Calls : pc[c] # "cancelled"
<1>1. Init => Calm
  BY InitInv DEF Init
<1>2. Calm /\ [Next]_vars => Calm'
  <2> SUFFICES ASSUME Calm, [Next]_vars PROVE Calm'
    OBVIOUS
  <2>1. Inv'
    BY InvStep
  <2>2. CASE UNCHANGED vars
    BY <2>1, <2>2 DEF vars
  <2>3. ASSUME NEW c \in Calls, Call(c) \/ Proceeds(c) \/ Cancel(c) \/ SaveIsLost(c)
        PROVE  Calm'
    <3>1. ~SaveIsLost(c) /\ ~Cancel(c)
      BY DEF SaveIsLost, Cancel
    <3>2. \E point \in Points \ {"cancelled"} : Goes(c, point)
      BY <2>3, <3>1 DEF Call, Proceeds, Acquire, ReturnAtOnce, ReadThenSave, SaveLands,
                        Fails, Inv, TypeOK
    <3>3. \A d \in Calls : pc'[d] # "cancelled"
      BY <3>2 DEF Goes, Inv, TypeOK
    <3>4. SaveLands(c) => lock = c
      BY DEF SaveLands, Inv, SavesHaveCalls, LockedWrites
    <3>5. overwritten' = overwritten
      BY <2>3, <3>1, <3>4 DEF Call, Proceeds, Acquire, ReturnAtOnce, ReadThenSave,
                              SaveLands, Fails, Inv, TypeOK
    <3> QED
      BY <2>1, <3>3, <3>5
  <2> QED
    BY <2>2, <2>3 DEF Next
<1>3. Calm => ~overwritten
  OBVIOUS
<1> QED
  BY <1>1, <1>2, <1>3, PTL DEF Spec

(* Cancellations and creations are all there is: without them no write     *)
(* that returned is ever lost (service.py:169).                            *)
THEOREM OnlyCancellationsAndCreationsLose ==
  ASSUME Cancellable = {}, Creators = {}
  PROVE  Spec => []NoEventIsLost
<1>1. Inv /\ ~overwritten => NoEventIsLost
  BY DEF Inv, Kept, Returned, NoEventIsLost
<1> QED
  BY <1>1, SavesAreLocked, SessionInvariant, PTL

-----------------------------------------------------------------------------
(* What is in the row, and where it came from.                             *)

Certain(w) == pc[w] \in {"returned", "cancelled"}

(* A write that failed, or found no session, is in no row and in nothing   *)
(* that will be saved: what the row has came from a call that returned or  *)
(* was cancelled.                                                          *)
NoGhosts ==
  /\ \A w \in row : Certain(w)
  /\ \A c \in saving : \A w \in read[c] : Certain(w)

(* Threads that save a write do so into a session that is there.           *)
SavesHaveSession == \A w \in Writers : w \in saving => exists

(* What the lock's holder has read is still there.                         *)
ReadIsThere ==
  ~overwritten => \A w \in Writers : pc[w] = "saving" => read[w] \subseteq row

LogInv == Inv /\ NoGhosts /\ SavesHaveSession /\ ReadIsThere

LEMMA InitLogInv == Init => LogInv
BY InitInv DEF Init, LogInv, NoGhosts, SavesHaveSession, ReadIsThere

(* A call that has returned or was cancelled has, for good.                *)
LEMMA CertainStays ==
  ASSUME Inv, NEW c \in Calls, Call(c) \/ Proceeds(c) \/ Cancel(c) \/ SaveIsLost(c),
         NEW w \in Calls, Certain(w)
  PROVE  Certain(w)'
BY DEF Inv, TypeOK, SavesHaveCalls, Certain, Call, Proceeds, Acquire, ReturnAtOnce,
       ReadThenSave, SaveLands, Fails, Cancel, SaveIsLost, Goes

(* A save lands: whether it was under the lock, and what it replaces.      *)
LEMMA SaveEffect ==
  ASSUME LogInv, NEW c \in Calls, SaveLands(c)
  PROVE  /\ c \in Writers /\ pc[c] = "saving" => lock = c /\ row' = read[c] \cup {c}
         /\ ~(c \in Writers /\ pc[c] = "saving") /\ ~overwritten' =>
              row' = (IF c \in Writers THEN row \cup {c} ELSE row)
         /\ c \in Creators /\ ~overwritten' => ~exists
         /\ overwritten => overwritten'
<1> USE DEF LogInv, Inv, TypeOK
<1>1. ASSUME c \in Writers, pc[c] = "saving"
      PROVE  lock = c /\ row' = read[c] \cup {c}
  BY <1>1, SessionAssumption DEF LockedWrites, SaveLands, Changed
<1>2. ASSUME ~(c \in Writers /\ pc[c] = "saving")
      PROVE  lock # c
  <2>1. CASE c \in Creators
    BY <2>1, SessionAssumption
  <2>2. CASE c \in Writers
    <3>1. pc[c] = "cancelled"
      BY <1>2, <2>2 DEF SavesHaveCalls, SaveLands
    <3> QED
      BY <3>1, SessionAssumption
  <2> QED
    BY <2>1, <2>2
<1>3. ASSUME ~(c \in Writers /\ pc[c] = "saving"), ~overwritten'
      PROVE  row' = (IF c \in Writers THEN row \cup {c} ELSE row)
  <2>1. ~Stale(c)
    BY <1>2, <1>3 DEF SaveLands
  <2>2. CASE c \in Writers
    BY <2>1, <2>2, SessionAssumption DEF SaveLands, Stale, Changed
  <2>3. CASE c \in Creators
    BY <2>1, <2>3, SessionAssumption DEF SaveLands, Stale, Changed
  <2> QED
    BY <2>2, <2>3
<1>4. ASSUME c \in Creators, ~overwritten'
      PROVE  ~exists
  BY <1>2, <1>4, SessionAssumption DEF SaveLands, Stale
<1>5. overwritten => overwritten'
  BY DEF SaveLands
<1> QED
  BY <1>1, <1>3, <1>4, <1>5

LEMMA LogStep == LogInv /\ [Next]_vars => LogInv'
<1> SUFFICES ASSUME LogInv, [Next]_vars PROVE LogInv'
  OBVIOUS
<1>1. Inv'
  BY InvStep DEF LogInv
<1>2. CASE UNCHANGED vars
  BY <1>1, <1>2 DEF vars, LogInv, NoGhosts, Certain, SavesHaveSession, ReadIsThere
<1>3. ASSUME NEW c \in Calls, SaveLands(c)
      PROVE  LogInv'
  <2>1. /\ exists' /\ row' = Changed(c) /\ saving' = saving \ {c} /\ read' = read
        /\ c \in saving
    BY <1>3 DEF SaveLands
  <2>2. /\ pc'[c] = IF pc[c] = "saving" THEN "returned" ELSE pc[c]
        /\ \A d \in Calls \ {c} : pc'[d] = pc[d]
    BY <1>3 DEF LogInv, Inv, TypeOK, SaveLands, Goes
  <2>3. \A w \in Calls : Certain(w) => Certain(w)'
    BY <1>3, CertainStays DEF LogInv, Proceeds
  <2>4. Certain(c)'
    BY <2>1, <2>2 DEF LogInv, Inv, SavesHaveCalls, Certain
  <2>5. NoGhosts'
    <3>1. \A d \in saving : read[d] \subseteq Writers
      BY DEF LogInv, Inv, TypeOK
    <3>2. \A d \in saving : \A w \in read[d] : Certain(w)'
      BY <2>3, <3>1 DEF LogInv, NoGhosts
    <3>3. \A w \in row' : Certain(w)'
      BY <2>1, <2>4, <3>2 DEF Changed
    <3> QED
      BY <2>1, <3>2, <3>3 DEF NoGhosts
  <2>6. SavesHaveSession'
    BY <2>1 DEF SavesHaveSession
  <2>7. ReadIsThere'
    <3> SUFFICES ASSUME ~overwritten', NEW w \in Writers, pc'[w] = "saving"
                 PROVE  read'[w] \subseteq row'
      BY DEF ReadIsThere
    <3>1. ~overwritten /\ w # c /\ pc[w] = "saving" /\ read'[w] = read[w]
      BY <1>3, <2>1, <2>2, SaveEffect
    <3>2. lock = w /\ read[w] \subseteq row
      BY <3>1 DEF LogInv, ReadIsThere, Inv, LockedWrites
    <3>3. ~(c \in Writers /\ pc[c] = "saving")
      BY <3>1, <3>2 DEF LogInv, Inv, LockedWrites
    <3>4. row \subseteq row'
      BY <1>3, <3>3, SaveEffect
    <3> QED
      BY <3>1, <3>2, <3>4
  <2> QED
    BY <1>1, <2>5, <2>6, <2>7 DEF LogInv
<1>4. ASSUME NEW c \in Calls, ReadThenSave(c)
      PROVE  LogInv'
  <2>1. /\ UNCHANGED <<exists, row, overwritten>> /\ saving' = saving \cup {c}
        /\ c \in Writers => exists
    <3>1. ASSUME c \in Writers
          PROVE  exists
      <4>1. c \notin Creators
        BY <3>1, SessionAssumption
      <4> QED
        BY <1>4, <4>1 DEF ReadThenSave, NeedsNoSave, LogInv, Inv, TypeOK
    <3> QED
      BY <1>4, <3>1 DEF ReadThenSave
  <2>2. read'[c] = row /\ \A d \in Calls \ {c} : read'[d] = read[d]
    BY <1>4 DEF LogInv, Inv, TypeOK, ReadThenSave
  <2>3. \A d \in Calls \ {c} : pc'[d] = pc[d]
    BY <1>4 DEF LogInv, Inv, TypeOK, ReadThenSave, Goes
  <2>4. \A w \in Calls : Certain(w) => Certain(w)'
    BY <1>4, CertainStays DEF LogInv, Proceeds
  <2>5. NoGhosts'
    <3>1. row \subseteq Writers /\ saving \subseteq Calls /\ \A d \in Calls : read[d] \subseteq Writers
      BY DEF LogInv, Inv, TypeOK
    <3> QED
      BY <2>1, <2>2, <2>4, <3>1 DEF LogInv, NoGhosts
  <2>6. SavesHaveSession'
    BY <2>1 DEF LogInv, SavesHaveSession
  <2>7. ReadIsThere'
    BY <2>1, <2>2, <2>3 DEF LogInv, ReadIsThere
  <2> QED
    BY <1>1, <2>5, <2>6, <2>7 DEF LogInv
<1>5. ASSUME NEW c \in Calls,
             \/ Call(c) \/ Acquire(c) \/ ReturnAtOnce(c) \/ Fails(c)
             \/ Cancel(c) \/ SaveIsLost(c)
      PROVE  LogInv'
  <2>1. /\ UNCHANGED <<exists, row, read, overwritten>>
        /\ saving' \subseteq saving
    BY <1>5 DEF Call, Acquire, ReturnAtOnce, Fails, Cancel, SaveIsLost
  <2>2. \A w \in Calls : Certain(w) => Certain(w)'
    BY <1>5, CertainStays DEF LogInv, Proceeds
  <2>3. NoGhosts'
    <3>1. row \subseteq Writers /\ saving \subseteq Calls /\ \A d \in Calls : read[d] \subseteq Writers
      BY DEF LogInv, Inv, TypeOK
    <3> QED
      BY <2>1, <2>2, <3>1 DEF LogInv, NoGhosts
  <2>4. SavesHaveSession'
    BY <2>1 DEF LogInv, SavesHaveSession
  <2>5. \A w \in Calls : pc'[w] = "saving" => pc[w] = "saving"
    BY <1>5 DEF LogInv, Inv, TypeOK, Call, Acquire, ReturnAtOnce, Fails, Cancel,
                SaveIsLost, Goes
  <2>6. ReadIsThere'
    BY <2>1, <2>5 DEF LogInv, ReadIsThere
  <2> QED
    BY <1>1, <2>3, <2>4, <2>6 DEF LogInv
<1> QED
  BY <1>2, <1>3, <1>4, <1>5 DEF Next, Proceeds

LEMMA LogInvariant == Spec => []LogInv
<1> QED
  BY InitLogInv, LogStep, PTL DEF Spec

(* The changes that the session has, and who made them.                    *)
OnlyWhatWasDone == \A w \in row : pc[w] \in {"returned", "cancelled"}

(* A write that raised, found no session, or is still under way has left   *)
(* nothing in the row, nor do other calls carry it back there: this holds  *)
(* even when saves overwrite each other (service.py:179 and 194).          *)
THEOREM NothingElseIsWritten == Spec => []OnlyWhatWasDone
<1>1. LogInv => OnlyWhatWasDone
  BY DEF LogInv, NoGhosts, Certain, OnlyWhatWasDone
<1> QED
  BY <1>1, LogInvariant, PTL

-----------------------------------------------------------------------------
(* The session implements SessionLog.                                      *)

Answers == [c \in Calls |-> IF pc[c] \in Ended THEN pc[c] ELSE "none"]

SL == INSTANCE SessionLog WITH content <- row, answer <- Answers

LEMMA AbstractInit == Init => SL!Init
BY DEF Init, SL!Init, Answers

(* A call that gets its answer by a step, and nobody else does.            *)
LEMMA AnswerStep ==
  ASSUME Inv, NEW c \in Calls, NEW result \in Ended, pc[c] \notin Ended, Goes(c, result)
  PROVE  SL!Answer(c, result)
<1>1. Answers[c] = "none"
  BY DEF Answers
<1>2. pc' = [pc EXCEPT ![c] = result] /\ pc \in [Calls -> Points]
  BY DEF Goes, Inv, TypeOK
<1>3. Answers' = [Answers EXCEPT ![c] = result]
  BY <1>2 DEF Answers
<1> QED
  BY <1>1, <1>3 DEF SL!Answer

(* A step that gives no answer.                                            *)
LEMMA NoAnswerStep ==
  ASSUME Inv, NEW c \in Calls, NEW point \in Points, Goes(c, point),
         point = pc[c] \/ (pc[c] \notin Ended /\ point \notin Ended)
  PROVE  Answers' = Answers
<1>1. pc' = [pc EXCEPT ![c] = point] /\ pc \in [Calls -> Points]
  BY DEF Goes, Inv, TypeOK
<1> QED
  BY <1>1 DEF Answers

LEMMA AbstractSave ==
  ASSUME LogInv, NEW c \in Calls, SaveLands(c), ~overwritten'
  PROVE  SL!Next
<1> USE DEF LogInv
<1>1. c \in saving /\ exists' = TRUE /\ ~overwritten
  BY SaveEffect DEF SaveLands, Inv, TypeOK
<1>2. CASE c \in Writers /\ pc[c] = "saving"
  <2>1. SL!Answer(c, "returned")
    BY <1>2, AnswerStep DEF SaveLands
  <2>2. row' = read[c] \cup {c} /\ read[c] \subseteq row /\ Returned \subseteq read[c]
    BY <1>1, <1>2, SaveEffect DEF ReadIsThere, Inv, ReadIsCurrent
  <2>3. row \ row' \subseteq SL!Answered("cancelled")
    <3> SUFFICES ASSUME NEW w \in row, w \notin row'
                 PROVE  w \in SL!Answered("cancelled")
      OBVIOUS
    <3>1. w \in Writers /\ Certain(w)
      BY DEF Inv, TypeOK, NoGhosts
    <3>2. pc[w] = "cancelled"
      BY <2>2, <3>1 DEF Certain, Returned
    <3> QED
      BY <3>1, <3>2 DEF SL!Answered, Answers
  <2>4. exists /\ exists' = exists
    BY <1>1, <1>2 DEF SavesHaveSession, Inv, TypeOK
  <2>5. SL!Write(c)
    BY <2>1, <2>2, <2>3, <2>4 DEF SL!Write
  <2> QED
    BY <1>2, <2>5 DEF SL!Next
<1>3. CASE c \in Writers /\ pc[c] # "saving"
  <2>1. pc[c] = "cancelled"
    BY <1>1, <1>3 DEF Inv, SavesHaveCalls
  <2>2. Answers' = Answers
    BY <2>1, NoAnswerStep DEF SaveLands
  <2>3. row' = row \cup {c}
    BY <1>3, SaveEffect
  <2>4. exists /\ exists' = exists
    BY <1>1, <1>3 DEF SavesHaveSession, Inv, TypeOK
  <2>5. SL!WriteLate(c)
    BY <2>1, <2>2, <2>3, <2>4 DEF SL!WriteLate, Answers
  <2> QED
    BY <1>3, <2>5 DEF SL!Next
<1>4. CASE c \in Creators
  <2>1. c \notin Writers /\ row' = row /\ ~exists
    BY <1>4, SaveEffect, SessionAssumption
  <2>2. CASE pc[c] = "saving"
    <3>1. SL!Answer(c, "returned")
      BY <2>2, AnswerStep DEF SaveLands
    <3>2. SL!Open(c)
      BY <1>1, <2>1, <3>1 DEF SL!Open
    <3> QED
      BY <1>4, <3>2 DEF SL!Next
  <2>3. CASE pc[c] # "saving"
    <3>1. pc[c] = "cancelled"
      BY <1>1, <2>3 DEF Inv, SavesHaveCalls
    <3>2. Answers' = Answers
      BY <3>1, NoAnswerStep DEF SaveLands
    <3>3. SL!OpenLate(c)
      BY <1>1, <2>1, <3>1, <3>2 DEF SL!OpenLate, Answers
    <3> QED
      BY <1>4, <3>3 DEF SL!Next
  <2> QED
    BY <2>2, <2>3
<1> QED
  BY <1>2, <1>3, <1>4

LEMMA AbstractStep ==
  LogInv /\ [Next]_vars /\ ~overwritten' => [SL!Next]_(SL!vars)
<1> SUFFICES ASSUME LogInv, [Next]_vars, ~overwritten' PROVE [SL!Next]_(SL!vars)
  OBVIOUS
<1> USE DEF LogInv
<1>1. ASSUME NEW c \in Calls, SaveLands(c)
      PROVE  SL!Next
  BY <1>1, AbstractSave
<1>2. ASSUME NEW c \in Calls, ReturnAtOnce(c)
      PROVE  SL!Next
  <2>1. CASE c \in Creators
    <3>1. SL!Answer(c, "returned") /\ exists
      BY <1>2, <2>1, AnswerStep DEF ReturnAtOnce, NeedsNoSave, Inv, TypeOK
    <3>2. SL!Open(c)
      BY <1>2, <3>1 DEF SL!Open, ReturnAtOnce, Inv, TypeOK
    <3> QED
      BY <2>1, <3>2 DEF SL!Next
  <2>2. CASE c \in Writers
    <3>1. SL!Answer(c, "missing") /\ ~exists
      BY <1>2, <2>2, AnswerStep, SessionAssumption
         DEF ReturnAtOnce, NeedsNoSave, Inv, TypeOK
    <3>2. SL!Miss(c)
      BY <1>2, <3>1 DEF SL!Miss, ReturnAtOnce
    <3> QED
      BY <2>2, <3>2 DEF SL!Next
  <2> QED
    BY <2>1, <2>2
<1>3. ASSUME NEW c \in Calls, Fails(c) \/ Cancel(c)
      PROVE  SL!Next
  <2>1. SL!Answer(c, "failed") \/ SL!Answer(c, "cancelled")
    <3>1. CASE Fails(c)
      BY <3>1, AnswerStep DEF Fails
    <3>2. CASE Cancel(c)
      BY <3>2, AnswerStep DEF Cancel
    <3> QED
      BY <1>3, <3>1, <3>2
  <2>2. SL!GiveUp(c)
    BY <1>3, <2>1 DEF SL!GiveUp, Fails, Cancel
  <2> QED
    BY <2>2 DEF SL!Next
<1>4. ASSUME NEW c \in Calls, Call(c) \/ Acquire(c) \/ ReadThenSave(c)
      PROVE  UNCHANGED SL!vars
  <2>1. Answers' = Answers
    <3>1. pc[c] \notin Ended /\ \E point \in Points \ Ended : Goes(c, point)
      BY <1>4 DEF Call, Acquire, ReadThenSave
    <3> QED
      BY <3>1, NoAnswerStep
  <2>2. UNCHANGED <<exists, row>>
    BY <1>4 DEF Call, Acquire, ReadThenSave
  <2> QED
    BY <2>1, <2>2 DEF SL!vars
<1>5. ASSUME NEW c \in Calls, SaveIsLost(c)
      PROVE  UNCHANGED SL!vars
  BY <1>5 DEF SaveIsLost, SL!vars, Answers
<1>6. ASSUME UNCHANGED vars
      PROVE  UNCHANGED SL!vars
  BY <1>6 DEF vars, SL!vars, Answers
<1> QED
  BY <1>1, <1>2, <1>3, <1>4, <1>5, <1>6 DEF Next, Proceeds

(* Reads and saves in threads, under a lock that a cancellation releases,  *)
(* are as good as calls that take effect at once (service.py:182): up to a *)
(* save outside the lock that replaces a row which has changed.            *)
THEOREM ImplementsSessionLog == Spec /\ []~overwritten => SL!Spec
<1>1. Init => SL!Init
  BY AbstractInit
<1>2. LogInv /\ [Next]_vars /\ ~overwritten' => [SL!Next]_(SL!vars)
  BY AbstractStep
<1> QED
  BY <1>1, <1>2, LogInvariant, PTL DEF Spec, SL!Spec

(* And without cancellations and creations, unconditionally: append_event  *)
(* and update_state are then atomic (service.py:166 to 195).               *)
THEOREM LockedCallsAreAtomic ==
  ASSUME Cancellable = {}, Creators = {}
  PROVE  Spec => SL!Spec
<1> QED
  BY SavesAreLocked, ImplementsSessionLog, PTL

-----------------------------------------------------------------------------
(* Calls end                                                               *)

(* What a call still has before it, and the thread that outlives it.       *)
StepsLeft(c) ==
  (CASE pc[c] = "new" -> 8
     [] pc[c] = "waiting" -> 6
     [] pc[c] = "reading" -> 4
     [] pc[c] = "saving" -> 2
     [] OTHER -> 0)
  + (IF c \in saving THEN 1 ELSE 0)

(* Every step of a call brings it nearer to its end, and no step brings    *)
(* another one farther from its own: what EveryCallEnds rests on, with the *)
(* holder of the lock always having a step (TypeOK).                       *)
NoCallGoesBack ==
  [][\A c \in Calls :
       /\ StepsLeft(c)' <= StepsLeft(c)
       /\ Call(c) \/ Proceeds(c) \/ Cancel(c) \/ SaveIsLost(c)
            => StepsLeft(c)' < StepsLeft(c)]_vars

(* A step of a call.                                                       *)
LEMMA CallAdvances ==
  ASSUME TypeOK, NEW c \in Calls,
         Call(c) \/ Proceeds(c) \/ Cancel(c) \/ SaveIsLost(c)
  PROVE  StepsLeft(c)' < StepsLeft(c) /\ StepsLeft(c)' <= StepsLeft(c)
<1>1. pc \in [Calls -> Points]
  BY DEF TypeOK
<1>2. CASE Call(c)
  <2>1. pc[c] = "new" /\ pc'[c] \in {"reading", "waiting"} /\ saving' = saving
    BY <1>1, <1>2 DEF Call, Goes
  <2> QED
    BY <2>1 DEF StepsLeft
<1>3. CASE Acquire(c)
  <2>1. pc[c] = "waiting" /\ pc'[c] = "reading" /\ saving' = saving
    BY <1>1, <1>3 DEF Acquire, Goes
  <2> QED
    BY <2>1 DEF StepsLeft
<1>4. CASE ReturnAtOnce(c)
  <2>1. pc[c] = "reading" /\ pc'[c] \in {"returned", "missing"} /\ saving' = saving
    BY <1>1, <1>4 DEF ReturnAtOnce, Goes
  <2> QED
    BY <2>1 DEF StepsLeft
<1>5. CASE ReadThenSave(c)
  <2>1. pc[c] = "reading" /\ pc'[c] = "saving"
    BY <1>1, <1>5 DEF ReadThenSave, Goes
  <2> QED
    BY <2>1 DEF StepsLeft
<1>6. CASE SaveLands(c)
  <2>1. c \in saving /\ c \notin saving' /\ pc'[c] \in {pc[c], "returned"}
    BY <1>1, <1>6 DEF SaveLands, Goes
  <2> QED
    BY <2>1 DEF StepsLeft
<1>7. CASE Fails(c)
  <2>1. pc[c] \in {"reading", "saving"} /\ pc'[c] = "failed" /\ c \notin saving'
    BY <1>1, <1>7 DEF Fails, Goes
  <2> QED
    BY <2>1 DEF StepsLeft
<1>8. CASE Cancel(c)
  <2>1. /\ pc[c] \in {"waiting", "reading", "saving"} /\ pc'[c] = "cancelled"
        /\ saving' = saving
    BY <1>1, <1>8 DEF Cancel, Goes
  <2> QED
    BY <2>1 DEF StepsLeft
<1>9. CASE SaveIsLost(c)
  <2>1. pc[c] = "cancelled" /\ pc'[c] = "cancelled" /\ c \in saving /\ c \notin saving'
    BY <1>9 DEF SaveIsLost
  <2> QED
    BY <2>1 DEF StepsLeft
<1> QED
  BY <1>2, <1>3, <1>4, <1>5, <1>6, <1>7, <1>8, <1>9 DEF Proceeds

(* A call that is not touched.                                             *)
LEMMA OthersStay ==
  ASSUME NEW c \in Calls, pc'[c] = pc[c], c \in saving' <=> c \in saving
  PROVE  StepsLeft(c)' <= StepsLeft(c)
<1> QED
  BY DEF StepsLeft

(* A session's calls have no loops and no retries, whatever is cancelled   *)
(* or fails: the safety half of EveryCallEnds (service.py's methods).      *)
THEOREM CallsLeadOn == Spec => NoCallGoesBack
<1> DEFINE Step ==
      \A c \in Calls :
        /\ StepsLeft(c)' <= StepsLeft(c)
        /\ Call(c) \/ Proceeds(c) \/ Cancel(c) \/ SaveIsLost(c)
             => StepsLeft(c)' < StepsLeft(c)
<1>1. TypeOK /\ [Next]_vars => [Step]_vars
  <2> SUFFICES ASSUME TypeOK, Next, NEW c \in Calls
               PROVE  /\ StepsLeft(c)' <= StepsLeft(c)
                      /\ Call(c) \/ Proceeds(c) \/ Cancel(c) \/ SaveIsLost(c)
                           => StepsLeft(c)' < StepsLeft(c)
    OBVIOUS
  <2>1. PICK d \in Calls : Call(d) \/ Proceeds(d) \/ Cancel(d) \/ SaveIsLost(d)
    BY DEF Next
  <2>2. CASE d # c
    <3>1. pc'[c] = pc[c] /\ (c \in saving' <=> c \in saving)
      BY <2>1, <2>2 DEF TypeOK, Call, Proceeds, Acquire, ReturnAtOnce, ReadThenSave, SaveLands,
         Fails, Cancel, SaveIsLost, Goes
    <3> QED
      BY <3>1, OthersStay, CallAdvances
  <2>3. CASE d = c
    BY <2>1, <2>3, CallAdvances
  <2> QED
    BY <2>2, <2>3
<1> QED
  BY <1>1, TypeCorrect, PTL DEF Spec, NoCallGoesBack
=============================================================================
