----------------------- MODULE DockerDispatchProofs -----------------------
(***************************************************************************)
(* Proofs about DockerDispatch: type correctness, the exclusive lending of *)
(* containers, how the pool loses one, what a success means, why a call of *)
(* invoke ends, and that the pool with its dispatches implements Lease,    *)
(* for any number of containers, dispatches and cancellations and any      *)
(* max_container_uses.                                                     *)
(***************************************************************************)
EXTENDS DockerDispatch, TLAPS

(* The dispatch is the one that answers for its container.                 *)
Owns(d) == Holds(d) \/ pc[d] = "abandoned"

(* A dispatch that owns a container, or once did and sent it a message,    *)
(* has been given one.                                                     *)
Placed ==
  \A d \in Dispatches : Owns(d) \/ work[d] # "none" => where[d] \in ContainerIds

(* LeaseBacked and ExclusiveLease are not inductive by themselves: what    *)
(* they say must hold of abandoned containers too.                         *)
Backed ==
  \A d \in Dispatches : Owns(d) =>
    \/ pool[SlotOf(d)].state = "absent"
    \/ /\ pool[SlotOf(d)].state = "busy"
       /\ pool[SlotOf(d)].gen = where[d][2]
       /\ pool[SlotOf(d)].task = TaskOf[d]

Exclusive ==
  \A d, e \in Dispatches : Owns(d) /\ Owns(e) /\ d # e => where[d] # where[e]

Accounted ==
  \A s \in Slots : pool[s].state = "busy" =>
    \E d \in Dispatches : Owns(d) /\ where[d] = <<s, pool[s].gen>>

(* The part of the inductive invariant about who has which container.      *)
LeaseInv == TypeOK /\ Placed /\ Backed /\ Exclusive /\ Accounted

-----------------------------------------------------------------------------
(* The initial states.                                                     *)
LEMMA NothingBusyAtFirst == Init => \A s \in Slots : pool[s].state # "busy"
<1> SUFFICES ASSUME Init PROVE \A s \in Slots : pool[s].state # "busy"
  OBVIOUS
<1>1. PICK started \in SUBSET Slots :
        pool = [s \in Slots |->
                  [gen |-> 0, task |-> NoTask, uses |-> 0,
                   state |-> IF s \in started THEN "idle" ELSE "absent"]]
  BY DEF Init, PoolInit
<1> QED
  BY <1>1

LEMMA InitLeaseInv == Init => LeaseInv
<1> SUFFICES ASSUME Init PROVE LeaseInv
  OBVIOUS
<1>1. TypeOK
  BY PoolAssumption, DispatchAssumption
     DEF Init, PoolInit, TypeOK, PoolTypeOK, Entry, EntryStates, Points,
         WorkStates, Outcomes
<1>2. \A d \in Dispatches : ~Owns(d)
  BY DEF Init, Owns, Holds
<1>3. \A s \in Slots : pool[s].state # "busy"
  BY NothingBusyAtFirst
<1> QED
  BY <1>1, <1>2, <1>3 DEF Init, LeaseInv, Placed, Backed, Exclusive, Accounted

(***************************************************************************)
(* What the operations of the pool do to its entries.  They are stated     *)
(* once, entry by entry, so that the proofs below do not open a record.    *)
(***************************************************************************)

LEMMA EntryEffect ==
  ASSUME NEW entry \in Entry
  PROVE  /\ MarkDead(entry) \in Entry /\ MarkDead(entry).state = "dead"
         /\ Freed(entry) \in Entry /\ Freed(entry).state = "idle"
<1>1. /\ MarkDead(entry) \in Entry /\ MarkDead(entry).state = "dead"
  BY DEF MarkDead, Entry, EntryStates
<1>2. /\ Freed(entry) \in Entry /\ Freed(entry).state = "idle"
  BY DEF Freed, Entry, EntryStates
<1> QED
  BY <1>1, <1>2

LEMMA TakenEffect ==
  ASSUME NEW entry \in Entry, NEW t \in Tasks
  PROVE  /\ Taken(entry, t) \in Entry
         /\ Taken(entry, t).state = "busy"
         /\ Taken(entry, t).task = t
         /\ Taken(entry, t).gen = entry.gen
<1>1. /\ Taken(entry, t).state = "busy"
      /\ Taken(entry, t).task = t
      /\ Taken(entry, t).gen = entry.gen
      /\ Taken(entry, t).uses \in Nat
  BY DEF Taken, Entry, EntryStates
<1> QED
  BY <1>1 DEF Taken, Entry, EntryStates

(* A checkout takes an idle entry, and kills only idle ones.               *)
LEMMA TakesEffect ==
  ASSUME PoolTypeOK, NEW s \in Slots, NEW t \in Tasks, NEW seen,
         CheckoutTakes(s, t, seen)
  PROVE  /\ PoolTypeOK'
         /\ pool[s].state = "idle"
         /\ pool'[s].state = "busy" /\ pool'[s].task = t /\ pool'[s].gen = pool[s].gen
         /\ \A x \in Slots \ {s} : \/ pool'[x] = pool[x]
                                   \/ /\ pool[x].state = "idle"
                                      /\ pool'[x].state = "dead"
<1>1. \A x \in Slots : pool[x] \in Entry
  BY DEF PoolTypeOK
<1>2. pool[s].state = "idle"
  BY DEF CheckoutTakes, Idle
<1>3. /\ pool'[s].state = "busy" /\ pool'[s].task = t /\ pool'[s].gen = pool[s].gen
      /\ pool'[s] \in Entry
  <2>1. pool'[s] = Taken(pool[s], t)
    BY DEF CheckoutTakes
  <2> QED
    BY <1>1, <2>1, TakenEffect
<1>4. \A x \in Slots \ {s} : /\ pool'[x] \in Entry
                             /\ \/ pool'[x] = pool[x]
                                \/ /\ pool[x].state = "idle"
                                   /\ pool'[x].state = "dead"
  <2> TAKE x \in Slots \ {s}
  <2>1. CASE x \in MetBefore(s)
    <3>1. pool'[x] = MarkDead(pool[x]) /\ pool[x].state = "idle"
      BY <2>1 DEF CheckoutTakes, MetBefore, Idle
    <3> QED
      BY <1>1, <3>1, EntryEffect
  <2>2. CASE x \notin MetBefore(s)
    <3>1. pool'[x] = pool[x]
      BY <2>2 DEF CheckoutTakes
    <3> QED
      BY <1>1, <3>1
  <2> QED
    BY <2>1, <2>2
<1>5. PoolTypeOK'
  <2>1. pool' \in [Slots -> Entry]
    BY <1>3, <1>4 DEF CheckoutTakes
  <2> QED
    BY <2>1 DEF PoolTypeOK, CheckoutTakes
<1> QED
  BY <1>1, <1>2, <1>3, <1>4, <1>5 DEF Entry

(* A checkout that finds nothing kills only idle entries.                  *)
LEMMA ExhaustedEffect ==
  ASSUME PoolTypeOK, NEW seen, CheckoutExhausted(seen)
  PROVE  /\ PoolTypeOK'
         /\ \A x \in Slots : \/ pool'[x] = pool[x]
                             \/ /\ pool[x].state = "idle"
                                /\ pool'[x].state = "dead"
<1>1. \A x \in Slots : pool[x] \in Entry
  BY DEF PoolTypeOK
<1>2. \A x \in Slots : /\ pool'[x] \in Entry
                       /\ \/ pool'[x] = pool[x]
                          \/ /\ pool[x].state = "idle"
                             /\ pool'[x].state = "dead"
  BY <1>1, EntryEffect DEF CheckoutExhausted, Idle
<1>3. pool' \in [Slots -> Entry]
  BY <1>2 DEF CheckoutExhausted
<1> QED
  BY <1>2, <1>3 DEF PoolTypeOK, CheckoutExhausted

(* The return of a container touches its entry only, and frees it, unless  *)
(* the pool does not know the container.                                   *)
LEMMA ReturnEffect ==
  ASSUME PoolTypeOK, NEW c \in ContainerIds,
         \/ ReturnUnknown(c) \/ ReturnIdle(c) \/ ReturnReplaced(c)
         \/ \E removed \in BOOLEAN : ReturnNotReplaced(c, removed)
  PROVE  /\ PoolTypeOK'
         /\ \A x \in Slots \ {c[1]} : pool'[x] = pool[x]
         /\ \/ ~Current(c) /\ pool' = pool
            \/ Current(c) /\ pool'[c[1]].state = "idle"
<1>1. c[1] \in Slots /\ \A x \in Slots : pool[x] \in Entry
  BY DEF PoolTypeOK, ContainerIds
<1>3. CASE ReturnUnknown(c)
  BY <1>3 DEF ReturnUnknown, poolVars, PoolTypeOK
<1>4. CASE ReturnIdle(c)
  <2>1. pool' = [pool EXCEPT ![c[1]] = Freed(pool[c[1]])]
    BY <1>4 DEF ReturnIdle
  <2> QED
    BY <1>1, <1>4, <2>1, EntryEffect DEF ReturnIdle, PoolTypeOK
<1>5. CASE ReturnReplaced(c)
  <2>1. /\ pool'[c[1]] \in Entry /\ pool'[c[1]].state = "idle"
        /\ \A x \in Slots \ {c[1]} : pool'[x] = pool[x]
        /\ pool' \in [Slots -> Entry]
    BY <1>1, <1>5 DEF ReturnReplaced, PoolTypeOK, Entry, EntryStates
  <2>2. precedes' \subseteq Slots \X Slots
    BY <1>1, <1>5 DEF ReturnReplaced, PoolTypeOK
  <2>3. alive' \in [Slots -> BOOLEAN]
    BY <1>1, <1>5 DEF ReturnReplaced, PoolTypeOK
  <2> QED
    BY <1>5, <2>1, <2>2, <2>3 DEF ReturnReplaced, PoolTypeOK
<1>6. CASE \E removed \in BOOLEAN : ReturnNotReplaced(c, removed)
  <2>1. PICK removed \in BOOLEAN : ReturnNotReplaced(c, removed)
    BY <1>6
  <2>2. /\ pool'[c[1]] \in Entry /\ pool'[c[1]].state = "idle"
        /\ \A x \in Slots \ {c[1]} : pool'[x] = pool[x]
        /\ pool' \in [Slots -> Entry]
    <3>1. pool' = [pool EXCEPT ![c[1]] = Freed(pool[c[1]])]
      BY <2>1 DEF ReturnNotReplaced
    <3> QED
      BY <1>1, <3>1, EntryEffect DEF PoolTypeOK
  <2>3. precedes' \subseteq Slots \X Slots /\ alive' \in [Slots -> BOOLEAN]
    BY <1>1, <2>1 DEF ReturnNotReplaced, PoolTypeOK
  <2> QED
    BY <2>1, <2>2, <2>3 DEF ReturnNotReplaced, PoolTypeOK
<1> QED
  BY <1>3, <1>4, <1>5, <1>6

-----------------------------------------------------------------------------
(* Type correctness.                                                       *)

LEMMA LosingType ==
  ASSUME TypeOK, NEW c
  PROVE  WorkAfterLosing(c) \in [Dispatches -> WorkStates]
BY DEF TypeOK, WorkAfterLosing, WorkStates

LEMMA TypeStep ==
  ASSUME TypeOK, Placed, [Next]_vars
  PROVE  TypeOK'
<1> USE DEF TypeOK, Points, Outcomes, Moves, Ends, poolVars, promptVars
<1>1. ASSUME NEW d \in Dispatches, NEW s \in Slots, NEW seen,
             Checkout(d, s, seen) \/ CheckoutFails(d, s, seen)
      PROVE  TypeOK'
  <2>1. CheckoutTakes(s, TaskOf[d], seen) /\ TaskOf[d] \in Tasks
    BY <1>1, DispatchAssumption DEF Checkout, CheckoutFails
  <2>2. PoolTypeOK'
    BY <2>1, TakesEffect
  <2>3. <<s, pool[s].gen>> \in ContainerIds
    BY DEF PoolTypeOK, Entry, ContainerIds
  <2> QED
    BY <1>1, <2>2, <2>3 DEF Checkout, CheckoutFails
<1>2. ASSUME NEW d \in Dispatches, NEW seen, Refused(d, seen)
      PROVE  TypeOK'
  <2>1. PoolTypeOK'
    BY <1>2, ExhaustedEffect DEF Refused
  <2> QED
    BY <1>2, <2>1 DEF Refused
<1>3. ASSUME NEW d \in Dispatches, Return(d)
      PROVE  TypeOK'
  <2>1. where[d] \in ContainerIds
    BY <1>3 DEF Return, Placed, Owns, Holds
  <2>2. PoolTypeOK'
    BY <1>3, <2>1, ReturnEffect DEF Return
  <2>3. work' \in [Dispatches -> WorkStates]
    BY <1>3, LosingType DEF Return
  <2>4. env' \in [Slots -> Dispatches \cup {Nobody, NotStarted}]
    BY <1>3 DEF Return
  <2> QED
    BY <1>3, <2>2, <2>3, <2>4 DEF Return
<1>4. ASSUME NEW d \in Dispatches, Ready(d)
      PROVE  TypeOK'
  BY <1>4 DEF Ready, PoolTypeOK, WorkStates
<1>5. ASSUME NEW d \in Dispatches, WorkerAccepts(d)
      PROVE  TypeOK'
  <2>1. SlotOf(d) \in Slots
    BY <1>5 DEF WorkerAccepts, Placed, SlotOf, ContainerIds
  <2>2. /\ config[SlotOf(d)] \in Dispatches \cup {Nobody}
        /\ PromptAfterReload(SlotOf(d)) \in Dispatches \cup {Nobody}
    BY <1>5, <2>1 DEF WorkerAccepts, PromptAfterReload
  <2> QED
    BY <1>5, <2>2 DEF WorkerAccepts, PoolTypeOK, WorkStates
<1>6. ASSUME NEW d \in Dispatches, WorkerFinishes(d)
      PROVE  TypeOK'
  BY <1>6 DEF WorkerFinishes, PoolTypeOK, WorkStates
<1>7. ASSUME NEW s \in Slots, ContainerDies(s)
      PROVE  TypeOK'
  BY <1>7, LosingType DEF ContainerDies, Dies, PoolTypeOK
<1>8. ASSUME NEW d \in Dispatches,
             SendAnswered(d) \/ SendCompletes(d) \/ SendFails(d)
               \/ PollSeesEnd(d) \/ PollGivesUp(d)
      PROVE  TypeOK'
  BY <1>8 DEF SendAnswered, SendCompletes, SendFails, PollSeesEnd, PollGivesUp,
              OutcomeOf, PoolTypeOK
<1>9. ASSUME NEW d \in Dispatches, Cancel(d) \/ CancelTaskReturns(d)
      PROVE  TypeOK'
  BY <1>9 DEF Cancel, CancelAbandons, CancelSend, CancelPoll, CancelDuringCancel,
              CancelTaskReturns, CancelArrives, PoolTypeOK, WorkStates
<1>10. CASE PoolShutdown
  <2>1. PICK remaining \in SUBSET Slots :
          /\ Shutdown(remaining)
          /\ work' = [d \in Dispatches |->
               IF work[d] # "none" /\ SlotOf(d) \notin remaining THEN "lost" ELSE work[d]]
    BY <1>10 DEF PoolShutdown
  <2>2. PoolTypeOK'
    <3>1. \A s \in Slots : [pool[s] EXCEPT !.state = "absent"] \in Entry
      BY DEF PoolTypeOK, Entry, EntryStates
    <3> QED
      BY <2>1, <3>1 DEF Shutdown, PoolTypeOK
  <2> QED
    BY <1>10, <2>1, <2>2 DEF PoolShutdown, WorkStates
<1>11. ASSUME NEW s \in Slots, WorkerStarts(s)
       PROVE  TypeOK'
  BY <1>11 DEF WorkerStarts, PoolTypeOK
<1>12. CASE UNCHANGED vars
  BY <1>12 DEF vars, PoolTypeOK
<1> QED
  BY <1>1, <1>2, <1>3, <1>4, <1>5, <1>6, <1>7, <1>8, <1>9, <1>10, <1>11, <1>12
     DEF Next, Arrive, Proceed

-----------------------------------------------------------------------------
(* Who has which container: every step keeps LeaseInv.                     *)

(* A step that leaves the entries alone, and lets nobody in or out.        *)
LEMMA QuietStep ==
  ASSUME LeaseInv, TypeOK', UNCHANGED <<pool, where>>,
         \A d \in Dispatches : Owns(d)' <=> Owns(d),
         \A d \in Dispatches : work'[d] # "none" => work[d] # "none" \/ Owns(d)
  PROVE  LeaseInv'
BY DEF LeaseInv, Placed, Backed, Exclusive, Accounted, SlotOf

(* A new owner of an entry that was idle.                                  *)
LEMMA CheckoutStep ==
  ASSUME LeaseInv, TypeOK',
         NEW d \in Dispatches, NEW s \in Slots, NEW seen,
         Checkout(d, s, seen) \/ CheckoutFails(d, s, seen)
  PROVE  LeaseInv'
<1> USE DEF LeaseInv
<1>1. CheckoutTakes(s, TaskOf[d], seen) /\ TaskOf[d] \in Tasks /\ PoolTypeOK
  BY DispatchAssumption DEF Checkout, CheckoutFails, TypeOK
<1>2. /\ pool[s].state = "idle"
      /\ pool'[s].state = "busy" /\ pool'[s].task = TaskOf[d]
      /\ pool'[s].gen = pool[s].gen
      /\ \A x \in Slots \ {s} : \/ pool'[x] = pool[x]
                                \/ /\ pool[x].state = "idle"
                                   /\ pool'[x].state = "dead"
  BY <1>1, TakesEffect
<1>3. /\ where' = [where EXCEPT ![d] = <<s, pool[s].gen>>]
      /\ <<s, pool[s].gen>> \in ContainerIds
      /\ work' = work
  BY <1>1 DEF Checkout, CheckoutFails, PoolTypeOK, Entry, ContainerIds
<1>4. /\ ~Owns(d) /\ Owns(d)'
      /\ \A e \in Dispatches \ {d} : Owns(e)' <=> Owns(e)
  BY DEF Checkout, CheckoutFails, Moves, Owns, Holds, TypeOK
<1>5. \A e \in Dispatches \ {d} : where'[e] = where[e]
  BY <1>3 DEF TypeOK
<1>6. where'[d] = <<s, pool[s].gen>>
  BY <1>3 DEF TypeOK
<1>7. \A e \in Dispatches \ {d} : Owns(e) =>
        where[e][1] \in Slots /\ where[e][1] # s
  BY <1>2 DEF Backed, Placed, SlotOf, ContainerIds
<1>8. Placed'
  BY <1>3, <1>4, <1>5, <1>6 DEF Placed
<1>9. Backed'
  BY <1>2, <1>4, <1>5, <1>6, <1>7 DEF Backed, SlotOf
<1>10. Exclusive'
  BY <1>4, <1>5, <1>6, <1>7 DEF Exclusive
<1>11. Accounted'
  <2> SUFFICES ASSUME NEW x \in Slots, pool'[x].state = "busy"
               PROVE  \E e \in Dispatches : Owns(e)' /\ where'[e] = <<x, pool'[x].gen>>
    BY DEF Accounted
  <2>1. CASE x = s
    BY <1>2, <1>4, <1>6, <2>1
  <2>2. CASE x # s
    <3>1. pool'[x] = pool[x]
      BY <1>2, <2>2
    <3>2. PICK e \in Dispatches : Owns(e) /\ where[e] = <<x, pool[x].gen>>
      BY <3>1 DEF Accounted
    <3>3. e # d
      BY <1>4, <3>2
    <3> QED
      BY <1>4, <1>5, <3>1, <3>2, <3>3
  <2> QED
    BY <2>1, <2>2
<1> QED
  BY <1>8, <1>9, <1>10, <1>11

LEMMA RefusedStep ==
  ASSUME LeaseInv, TypeOK', NEW d \in Dispatches, NEW seen, Refused(d, seen)
  PROVE  LeaseInv'
<1> USE DEF LeaseInv
<1>1. \A x \in Slots : \/ pool'[x] = pool[x]
                      \/ /\ pool[x].state = "idle"
                         /\ pool'[x].state = "dead"
  BY ExhaustedEffect DEF Refused, TypeOK
<1>2. where' = where /\ work' = work /\ \A e \in Dispatches : Owns(e)' <=> Owns(e)
  BY DEF Refused, Moves, Owns, Holds, TypeOK
<1> QED
  BY <1>1, <1>2 DEF Placed, Backed, Exclusive, Accounted, SlotOf, ContainerIds

(* The owner gives the container back and owns nothing any more.           *)
LEMMA ReturnStep ==
  ASSUME LeaseInv, TypeOK', NEW d \in Dispatches, Return(d)
  PROVE  LeaseInv'
<1> USE DEF LeaseInv
<1>1. /\ Owns(d) /\ ~Owns(d)'
      /\ \A e \in Dispatches \ {d} : Owns(e)' <=> Owns(e)
      /\ where' = where
  BY DEF Return, Moves, Owns, Holds, TypeOK
<1>2. where[d] \in ContainerIds /\ where[d][1] \in Slots
  BY <1>1 DEF Placed, ContainerIds
<1>3. /\ \A x \in Slots \ {where[d][1]} : pool'[x] = pool[x]
      /\ \/ ~Current(where[d]) /\ pool' = pool
         \/ Current(where[d]) /\ pool'[where[d][1]].state = "idle"
  BY <1>2, ReturnEffect DEF Return, TypeOK
<1>4. \A e \in Dispatches : work'[e] # "none" => work[e] # "none"
  BY DEF Return, WorkAfterLosing, TypeOK
<1>5. \A e \in Dispatches \ {d} :
        Owns(e) => \/ where[e][1] # where[d][1]
                   \/ pool[where[d][1]].state = "absent"
  BY <1>1, <1>2 DEF Backed, Exclusive, Placed, SlotOf, ContainerIds
<1>6. Placed' /\ Exclusive'
  BY <1>1, <1>4 DEF Placed, Exclusive
<1>7. Backed'
  BY <1>1, <1>3, <1>5 DEF Backed, Placed, SlotOf, ContainerIds, Current
<1>8. Accounted'
  <2> SUFFICES ASSUME NEW x \in Slots, pool'[x].state = "busy"
               PROVE  \E e \in Dispatches : Owns(e)' /\ where'[e] = <<x, pool'[x].gen>>
    BY DEF Accounted
  <2>1. pool'[x] = pool[x] /\ where[d] # <<x, pool[x].gen>>
    BY <1>2, <1>3 DEF Current
  <2>2. PICK e \in Dispatches : Owns(e) /\ where[e] = <<x, pool[x].gen>>
    BY <2>1 DEF Accounted
  <2> QED
    BY <1>1, <2>1, <2>2
<1> QED
  BY <1>6, <1>7, <1>8

LEMMA ShutdownStep ==
  ASSUME LeaseInv, TypeOK', PoolShutdown
  PROVE  LeaseInv'
<1> USE DEF LeaseInv
<1>1. /\ \A s \in Slots : pool'[s].state = "absent"
      /\ where' = where
      /\ \A e \in Dispatches : Owns(e)' <=> Owns(e)
      /\ \A e \in Dispatches : work'[e] # "none" => work[e] # "none"
  BY DEF PoolShutdown, Shutdown, Owns, Holds, TypeOK, PoolTypeOK, Entry
<1> QED
  BY <1>1 DEF Placed, Backed, Exclusive, Accounted, SlotOf, ContainerIds

LEMMA LeaseStep == LeaseInv /\ [Next]_vars => LeaseInv'
<1> SUFFICES ASSUME LeaseInv, [Next]_vars PROVE LeaseInv'
  OBVIOUS
<1>1. TypeOK'
  BY TypeStep DEF LeaseInv
<1> USE <1>1 DEF poolVars
<1>2. ASSUME NEW d \in Dispatches, Arrive(d)
      PROVE  LeaseInv'
  BY <1>2, CheckoutStep, RefusedStep DEF Arrive
<1>3. ASSUME NEW d \in Dispatches, Proceed(d) \/ Cancel(d)
      PROVE  LeaseInv'
  <2>1. CASE Return(d)
    BY <2>1, ReturnStep
  <2>2. CASE ~Return(d)
    <3>1. UNCHANGED <<pool, where>>
      BY <1>3, <2>2
         DEF Proceed, Cancel, Ready, SendAnswered, SendCompletes, SendFails,
             PollSeesEnd, PollGivesUp, CancelTaskReturns, CancelAbandons, CancelSend,
             CancelPoll, CancelDuringCancel
    <3>2. \A e \in Dispatches : Owns(e)' <=> Owns(e)
      BY <1>3, <2>2
         DEF LeaseInv, TypeOK, Owns, Holds, Moves, Proceed, Cancel, Ready, SendAnswered,
             SendCompletes, SendFails, PollSeesEnd, PollGivesUp, CancelTaskReturns,
             CancelAbandons, CancelSend, CancelPoll, CancelDuringCancel
    <3>3. \A e \in Dispatches : work'[e] # "none" => work[e] # "none" \/ Owns(e)
      BY <1>3, <2>2
         DEF LeaseInv, TypeOK, Owns, Holds, Moves, Proceed, Cancel, Ready, SendAnswered,
             SendCompletes, SendFails, PollSeesEnd, PollGivesUp, CancelTaskReturns,
             CancelAbandons, CancelSend, CancelPoll, CancelDuringCancel
    <3> QED
      BY <3>1, <3>2, <3>3, QuietStep
  <2> QED
    BY <2>1, <2>2
<1>4. ASSUME NEW d \in Dispatches, WorkerAccepts(d) \/ WorkerFinishes(d)
      PROVE  LeaseInv'
  <2>1. /\ UNCHANGED <<pool, where, pc>>
        /\ \A e \in Dispatches : work'[e] # "none" => work[e] # "none"
    BY <1>4 DEF WorkerAccepts, WorkerFinishes, LeaseInv, TypeOK
  <2> QED
    BY <2>1, QuietStep DEF Owns, Holds
<1>5. ASSUME NEW s \in Slots, WorkerStarts(s) \/ ContainerDies(s)
      PROVE  LeaseInv'
  <2>1. /\ UNCHANGED <<pool, where, pc>>
        /\ \A e \in Dispatches : work'[e] # "none" => work[e] # "none"
    BY <1>5 DEF WorkerStarts, ContainerDies, Dies, WorkAfterLosing, LeaseInv, TypeOK
  <2> QED
    BY <2>1, QuietStep DEF Owns, Holds
<1>6. CASE PoolShutdown
  BY <1>6, ShutdownStep
<1>7. CASE UNCHANGED vars
  BY <1>7, QuietStep DEF vars, Owns, Holds
<1> QED
  BY <1>2, <1>3, <1>4, <1>5, <1>6, <1>7 DEF Next

THEOREM LeaseInvariant == Spec => []LeaseInv
<1>1. Init => LeaseInv
  BY InitLeaseInv
<1>2. LeaseInv /\ [Next]_vars => LeaseInv'
  BY LeaseStep
<1> QED
  BY <1>1, <1>2, PTL DEF Spec

(* Every variable of the pool and of its dispatches keeps its type.        *)
THEOREM TypeCorrect == Spec => []TypeOK
BY LeaseInvariant, PTL DEF LeaseInv

(* checkout never lends a container that invoke still works in: what       *)
(* ContainerPoolManager.checkout and return_container promise invoke.      *)
THEOREM ContainersAreExclusive == Spec => []ExclusiveLease
<1>1. LeaseInv => ExclusiveLease
  BY DEF LeaseInv, Exclusive, ExclusiveLease, Owns
<1> QED
  BY <1>1, LeaseInvariant, PTL

(* While invoke holds a container, neither another checkout's scan, nor a  *)
(* return or a recycling takes its entry away: only shutdown does.         *)
THEOREM HeldContainersStayBusy == Spec => []LeaseBacked
<1>1. LeaseInv => LeaseBacked
  BY DEF LeaseInv, Backed, LeaseBacked, Owns
<1> QED
  BY <1>1, LeaseInvariant, PTL

(* A BUSY entry always has exactly one dispatch that answers for it: the   *)
(* pool shrinks only with dispatches that were cut off.                    *)
THEOREM BusyContainersAreAccounted == Spec => []BusyAccounted
<1>1. LeaseInv => BusyAccounted
  BY DEF LeaseInv, Exclusive, Accounted, BusyAccounted, Owns, Answers
<1> QED
  BY <1>1, LeaseInvariant, PTL

-----------------------------------------------------------------------------
(* What a success means.                                                   *)

(* SuccessIsOwnWork is about the end of a dispatch.  It holds because the  *)
(* config.json in a held container is its holder's (ConfigOwned), so that  *)
(* a message accepted while its sender waits is run with it (RunOwned).    *)
ConfigOwned == \A d \in Dispatches : Holds(d) => config[SlotOf(d)] = d

RunOwned ==
  \A d \in Dispatches :
    Holds(d) /\ work[d] \in {"running", "completed", "failed"} => ranWith[d] = d

(* No message before the readiness poll is over.                           *)
NotSentYet ==
  \A d \in Dispatches : pc[d] \in {"new", "readiness"} => work[d] = "none"

SuccessOwned ==
  \A d \in Dispatches : outcome[d] = "success" =>
    ranWith[d] = d /\ work[d] \in {"completed", "lost"}

WorkInv == ConfigOwned /\ RunOwned /\ NotSentYet /\ SuccessOwned

LEMMA InitWorkInv == Init => WorkInv
BY DEF Init, WorkInv, ConfigOwned, RunOwned, NotSentYet, SuccessOwned, Holds

LEMMA ConfigStep ==
  ASSUME LeaseInv, ConfigOwned, [Next]_vars
  PROVE  ConfigOwned'
<1> USE DEF LeaseInv
<1>1. ASSUME NEW d \in Dispatches, NEW s \in Slots, NEW seen, Checkout(d, s, seen)
      PROVE  ConfigOwned'
  <2>1. /\ pool[s].state = "idle" /\ where' = [where EXCEPT ![d] = <<s, pool[s].gen>>]
        /\ config' = [config EXCEPT ![s] = d]
        /\ pc' = [pc EXCEPT ![d] = "readiness"]
    BY <1>1 DEF Checkout, CheckoutTakes, Idle, Moves
  <2>2. ASSUME NEW e \in Dispatches \ {d}, Holds(e)
        PROVE  SlotOf(e) \in Slots /\ SlotOf(e) # s
    BY <2>1, <2>2 DEF Backed, Placed, Owns, SlotOf, ContainerIds
  <2> QED
    BY <2>1, <2>2 DEF ConfigOwned, Holds, SlotOf, TypeOK
<1>2. CASE UNCHANGED <<where, config>> /\ \A d \in Dispatches : Holds(d)' => Holds(d)
  BY <1>2 DEF ConfigOwned, SlotOf
<1>3. ASSUME NEW d \in Dispatches, NEW s \in Slots, NEW seen, CheckoutFails(d, s, seen)
      PROVE  ConfigOwned'
  BY <1>3 DEF CheckoutFails, Moves, Ends, ConfigOwned, Holds, SlotOf, TypeOK
<1>4. ASSUME NEW d \in Dispatches, NEW seen, Refused(d, seen)
      PROVE  ConfigOwned'
  BY <1>2, <1>4 DEF Refused, Moves, Holds, TypeOK
<1>5. ASSUME NEW d \in Dispatches, Proceed(d) \/ Cancel(d)
      PROVE  ConfigOwned'
  BY <1>2, <1>5
     DEF TypeOK, Holds, Moves, Proceed, Cancel, Ready, SendAnswered,
         SendCompletes, SendFails, PollSeesEnd, PollGivesUp, CancelTaskReturns, Return,
         CancelAbandons, CancelSend, CancelPoll, CancelDuringCancel
<1>6. ASSUME NEW d \in Dispatches, WorkerAccepts(d) \/ WorkerFinishes(d)
      PROVE  ConfigOwned'
  BY <1>2, <1>6 DEF WorkerAccepts, WorkerFinishes, Holds
<1>7. ASSUME NEW s \in Slots, WorkerStarts(s) \/ ContainerDies(s)
      PROVE  ConfigOwned'
  BY <1>2, <1>7 DEF WorkerStarts, ContainerDies, Holds
<1>8. CASE PoolShutdown
  BY <1>2, <1>8 DEF PoolShutdown, Holds
<1>9. CASE UNCHANGED vars
  BY <1>2, <1>9 DEF vars, Holds
<1> QED
  BY <1>1, <1>3, <1>4, <1>5, <1>6, <1>7, <1>8, <1>9 DEF Next, Arrive

LEMMA WorkStep == LeaseInv /\ WorkInv /\ [Next]_vars => WorkInv'
<1> SUFFICES ASSUME LeaseInv, WorkInv, [Next]_vars PROVE WorkInv'
  OBVIOUS
<1>1. ConfigOwned'
  BY ConfigStep DEF WorkInv
<1> DEFINE Rest == RunOwned /\ NotSentYet /\ SuccessOwned
<1> USE DEF LeaseInv, TypeOK, WorkInv, RunOwned, NotSentYet, SuccessOwned, Moves, Ends, Holds
<1>2. ASSUME NEW d \in Dispatches, Arrive(d)
      PROVE  Rest'
  BY <1>2 DEF Arrive, Checkout, CheckoutFails, Refused
<1>3. ASSUME NEW d \in Dispatches, Ready(d)
      PROVE  Rest'
  BY <1>3 DEF Ready
<1>4. ASSUME NEW d \in Dispatches,
             SendAnswered(d) \/ SendCompletes(d) \/ SendFails(d)
               \/ PollSeesEnd(d) \/ PollGivesUp(d)
      PROVE  Rest'
  BY <1>4 DEF SendAnswered, SendCompletes, SendFails, PollSeesEnd, PollGivesUp, OutcomeOf
<1>5. ASSUME NEW d \in Dispatches, Cancel(d) \/ CancelTaskReturns(d)
      PROVE  Rest'
  BY <1>5 DEF Cancel, CancelAbandons, CancelSend, CancelPoll, CancelDuringCancel,
              CancelTaskReturns
<1>6. ASSUME NEW d \in Dispatches, Return(d)
      PROVE  Rest'
  BY <1>6 DEF Return, WorkAfterLosing
<1>7. ASSUME NEW d \in Dispatches, WorkerAccepts(d)
      PROVE  Rest'
  BY <1>7 DEF WorkerAccepts, ConfigOwned
<1>8. ASSUME NEW d \in Dispatches, WorkerFinishes(d)
      PROVE  Rest'
  BY <1>8 DEF WorkerFinishes
<1>9. ASSUME NEW s \in Slots, ContainerDies(s)
      PROVE  Rest'
  BY <1>9 DEF ContainerDies, WorkAfterLosing
<1>10. ASSUME PoolShutdown
       PROVE  Rest'
  <2>1. /\ UNCHANGED <<pc, ranWith, outcome>>
        /\ \A d \in Dispatches : work'[d] \in {"lost", work[d]}
        /\ \A d \in Dispatches : work[d] = "none" => work'[d] = "none"
    BY <1>10 DEF PoolShutdown
  <2> QED
    BY <2>1
<1>11. ASSUME UNCHANGED vars \/ \E s \in Slots : WorkerStarts(s)
       PROVE  Rest'
  <2>1. UNCHANGED <<pc, work, ranWith, outcome>>
    BY <1>11 DEF WorkerStarts, vars
  <2> QED
    BY <2>1
<1>12. Rest'
  BY <1>2, <1>3, <1>4, <1>5, <1>6, <1>7, <1>8, <1>9, <1>10, <1>11 DEF Next, Proceed
<1> QED
  BY <1>1, <1>12

(* The system prompts.  A config.json, and a prompt in the environment of  *)
(* a worker, come from a dispatch that was given a container of that slot. *)
WasHere(d, s) == pc[d] # "new" /\ SlotOf(d) = s

FilesFromHere ==
  \A s \in Slots :
    /\ config[s] \in Dispatches => WasHere(config[s], s)
    /\ env[s] \in Dispatches => env[s] \in Prompting /\ WasHere(env[s], s)

(* The dispatch's own prompt, or, if it has none, that of somebody who was *)
(* given the slot, too.                                                    *)
RightPrompt(d) ==
  \/ ranPrompt[d] = OwnPrompt(d)
  \/ /\ d \notin Prompting
     /\ ranPrompt[d] \in Prompting
     /\ WasHere(ranPrompt[d], SlotOf(d))

(* The dispatch's message has run, for all that invoke can learn.          *)
HasRun(d) ==
  \/ Holds(d) /\ work[d] \in {"running", "completed", "failed"}
  \/ outcome[d] = "success"

PromptOwned == \A d \in Dispatches : HasRun(d) => pc[d] # "new" /\ RightPrompt(d)

PromptInv == FilesFromHere /\ PromptOwned

(* Whoever was given a container keeps its slot: only checkout sets it.    *)
LEMMA PlacesStay ==
  ASSUME TypeOK, [Next]_vars, NEW d \in Dispatches, pc[d] # "new"
  PROVE  pc'[d] # "new" /\ where'[d] = where[d]
<1> USE DEF TypeOK, Moves
<1>1. ASSUME NEW e \in Dispatches, Arrive(e)
      PROVE  pc'[d] # "new" /\ where'[d] = where[d]
  BY <1>1 DEF Arrive, Checkout, CheckoutFails, Refused
<1>2. ASSUME NEW e \in Dispatches, Proceed(e) \/ Cancel(e)
      PROVE  pc'[d] # "new" /\ where'[d] = where[d]
  BY <1>2 DEF Proceed, Ready, SendAnswered, SendCompletes, SendFails, PollSeesEnd,
              PollGivesUp, CancelTaskReturns, Return, Cancel, CancelAbandons,
              CancelSend, CancelPoll, CancelDuringCancel
<1>3. ASSUME ~\E e \in Dispatches : Arrive(e) \/ Proceed(e) \/ Cancel(e)
      PROVE  UNCHANGED <<pc, where>>
  BY <1>3 DEF Next, WorkerAccepts, WorkerFinishes, WorkerStarts, ContainerDies,
              PoolShutdown, vars
<1> QED
  BY <1>1, <1>2, <1>3

LEMMA FilesStep ==
  ASSUME LeaseInv, FilesFromHere, [Next]_vars
  PROVE  FilesFromHere'
<1>1. \A d \in Dispatches, s \in Slots : WasHere(d, s) => WasHere(d, s)'
  BY PlacesStay DEF LeaseInv, WasHere, SlotOf
<1>2. TypeOK /\ TypeOK'
  BY LeaseStep DEF LeaseInv
<1>3. CASE UNCHANGED <<config, env>>
  BY <1>1, <1>2, <1>3 DEF FilesFromHere, TypeOK
<1>4. ASSUME NEW d \in Dispatches, NEW s \in Slots, NEW seen, Checkout(d, s, seen)
      PROVE  FilesFromHere'
  <2>1. /\ config' = [config EXCEPT ![s] = d]
        /\ env' = env
        /\ pc'[d] = "readiness" /\ where'[d][1] = s
    BY <1>2, <1>4 DEF Checkout, Moves, TypeOK, promptVars
  <2>2. WasHere(d, s)'
    BY <2>1 DEF WasHere, SlotOf
  <2> QED
    BY <1>1, <1>2, <2>1, <2>2 DEF FilesFromHere, TypeOK
<1>5. ASSUME NEW s \in Slots, config' = config, NEW from,
             env' = [env EXCEPT ![s] = from],
             from \in {env[s], NotStarted, Nobody}
               \/ (from = config[s] /\ from \in Prompting)
      PROVE  FilesFromHere'
  <2>1. Prompting \subseteq Dispatches /\ {NotStarted, Nobody} \cap Dispatches = {}
    BY DispatchAssumption
  <2>2. \A x \in Slots \ {s} : env'[x] = env[x]
    BY <1>2, <1>5 DEF TypeOK
  <2>3. env'[s] = from
    BY <1>2, <1>5 DEF TypeOK
  <2> QED
    BY <1>1, <1>2, <1>5, <2>1, <2>2, <2>3 DEF FilesFromHere, TypeOK
<1>6. ASSUME NEW s \in Slots, WorkerStarts(s)
      PROVE  FilesFromHere'
  BY <1>5, <1>6 DEF WorkerStarts
<1>7. ASSUME NEW d \in Dispatches, WorkerAccepts(d)
      PROVE  FilesFromHere'
  <2>1. SlotOf(d) \in Slots
    BY <1>7 DEF WorkerAccepts, LeaseInv, Placed, SlotOf, ContainerIds
  <2> QED
    BY <1>5, <1>7, <2>1 DEF WorkerAccepts, PromptAfterReload
<1>8. ASSUME NEW d \in Dispatches, Return(d)
      PROVE  FilesFromHere'
  <2>1. SlotOf(d) \in Slots
    BY <1>8 DEF Return, Moves, LeaseInv, Placed, Owns, Holds, SlotOf, ContainerIds
  <2>2. config' = config /\ (env' = env \/ env' = [env EXCEPT ![SlotOf(d)] = NotStarted])
    BY <1>8 DEF Return
  <2> QED
    BY <1>3, <1>5, <2>1, <2>2
<1>9. ASSUME ~\E d \in Dispatches : Return(d) \/ WorkerAccepts(d),
             ~\E s \in Slots : WorkerStarts(s),
             ~\E d \in Dispatches, s \in Slots, seen \in DaemonAnswers :
                Checkout(d, s, seen)
      PROVE  UNCHANGED <<config, env>>
  BY <1>9 DEF Next, Arrive, CheckoutFails, Refused, Proceed, Ready, SendAnswered,
              SendCompletes, SendFails, PollSeesEnd, PollGivesUp, CancelTaskReturns,
              Cancel, CancelAbandons, CancelSend, CancelPoll, CancelDuringCancel,
              WorkerFinishes, ContainerDies, PoolShutdown, vars, promptVars
<1> QED
  BY <1>3, <1>4, <1>6, <1>7, <1>8, <1>9

LEMMA PromptStep ==
  ASSUME LeaseInv, WorkInv, PromptInv, [Next]_vars
  PROVE  PromptOwned'
<1> USE DEF PromptInv
<1>1. TypeOK
  BY DEF LeaseInv
<1>2. ASSUME NEW d \in Dispatches, pc[d] # "new", RightPrompt(d), ranPrompt'[d] = ranPrompt[d]
      PROVE  pc'[d] # "new" /\ RightPrompt(d)'
  BY <1>1, <1>2, PlacesStay, DispatchAssumption DEF RightPrompt, OwnPrompt, WasHere, SlotOf
<1>3. ASSUME ranPrompt' = ranPrompt, \A d \in Dispatches : HasRun(d)' => HasRun(d)
      PROVE  PromptOwned'
  BY <1>2, <1>3 DEF PromptOwned
<1>4. ASSUME NEW d \in Dispatches, Arrive(d)
      PROVE  PromptOwned'
  BY <1>1, <1>3, <1>4
     DEF TypeOK, Arrive, Checkout, CheckoutFails, Refused, Moves, Ends, HasRun, Holds,
         WorkInv, NotSentYet, promptVars
<1>5. ASSUME NEW d \in Dispatches, Cancel(d) \/ (Proceed(d) /\ ~Return(d))
      PROVE  PromptOwned'
  BY <1>1, <1>3, <1>5
     DEF TypeOK, Proceed, Ready, SendAnswered, SendCompletes, SendFails, PollSeesEnd,
         PollGivesUp, CancelTaskReturns, Cancel, CancelAbandons, CancelSend,
         CancelPoll, CancelDuringCancel, Moves, Ends, OutcomeOf, HasRun, Holds, promptVars
<1>6. ASSUME NEW d \in Dispatches, Return(d)
      PROVE  PromptOwned'
  BY <1>1, <1>3, <1>6 DEF TypeOK, Return, WorkAfterLosing, Moves, HasRun, Holds
<1>7. ASSUME NEW d \in Dispatches, WorkerAccepts(d)
      PROVE  PromptOwned'
  <2>1. /\ UNCHANGED <<pc, where, outcome>>
        /\ \A e \in Dispatches \ {d} : work'[e] = work[e] /\ ranPrompt'[e] = ranPrompt[e]
        /\ ranPrompt'[d] = PromptAfterReload(SlotOf(d))
        /\ work[d] = "inflight"
        /\ env[SlotOf(d)] # NotStarted
    BY <1>1, <1>7 DEF WorkerAccepts, TypeOK
  <2>2. \A e \in Dispatches \ {d} : HasRun(e)' => pc'[e] # "new" /\ RightPrompt(e)'
    BY <1>2, <2>1 DEF PromptOwned, HasRun, Holds
  <2>3. outcome[d] # "success"
    BY <2>1 DEF WorkInv, SuccessOwned
  <2>4. ASSUME Holds(d)
        PROVE  RightPrompt(d)'
    <3>1. SlotOf(d) \in Slots /\ config[SlotOf(d)] = d
      BY <2>4 DEF LeaseInv, Placed, Owns, SlotOf, ContainerIds, WorkInv, ConfigOwned
    <3>2. CASE d \in Prompting
      BY <2>1, <3>1, <3>2 DEF PromptAfterReload, RightPrompt, OwnPrompt
    <3>3. CASE d \notin Prompting
      <4>1. ranPrompt'[d] = env[SlotOf(d)]
        BY <2>1, <3>1, <3>3 DEF PromptAfterReload
      <4>2. env[SlotOf(d)] \in Dispatches \cup {Nobody}
        BY <1>1, <2>1, <3>1 DEF TypeOK
      <4>3. CASE env[SlotOf(d)] = Nobody
        BY <3>3, <4>1, <4>3 DEF RightPrompt, OwnPrompt
      <4>4. CASE env[SlotOf(d)] \in Dispatches
        BY <2>1, <3>1, <3>3, <4>1, <4>4 DEF FilesFromHere, RightPrompt, WasHere, SlotOf
      <4> QED
        BY <4>2, <4>3, <4>4
    <3> QED
      BY <3>2, <3>3
  <2>5. HasRun(d)' => pc'[d] # "new" /\ RightPrompt(d)'
    BY <2>1, <2>3, <2>4 DEF HasRun, Holds
  <2> QED
    BY <2>2, <2>5 DEF PromptOwned
<1>8. ASSUME NEW d \in Dispatches, WorkerFinishes(d)
      PROVE  PromptOwned'
  BY <1>1, <1>3, <1>8 DEF WorkerFinishes, TypeOK, HasRun, Holds, promptVars
<1>9. ASSUME NEW s \in Slots, WorkerStarts(s) \/ ContainerDies(s)
      PROVE  PromptOwned'
  BY <1>1, <1>3, <1>9
     DEF WorkerStarts, ContainerDies, WorkAfterLosing, TypeOK, HasRun, Holds, promptVars
<1>10. CASE PoolShutdown
  <2>1. /\ UNCHANGED <<pc, outcome, ranPrompt>>
        /\ \A d \in Dispatches : work'[d] \in {"lost", work[d]}
    BY <1>10 DEF PoolShutdown, promptVars
  <2> QED
    BY <1>3, <2>1 DEF HasRun, Holds
<1>11. CASE UNCHANGED vars
  BY <1>3, <1>11 DEF vars, promptVars, HasRun, Holds
<1> QED
  BY <1>4, <1>5, <1>6, <1>7, <1>8, <1>9, <1>10, <1>11 DEF Next

(* A success of invoke was produced under the config.json this dispatch    *)
(* wrote, in spite of the reuse of containers and of late messages, and    *)
(* under its own system prompt, except that reload_config leaves the       *)
(* prompt of an earlier user in force for a card that has none.            *)
THEOREM SuccessesAreOwnWork == Spec => []SuccessIsOwnWork
<1> DEFINE IInv == LeaseInv /\ WorkInv /\ PromptInv
<1>1. Init => IInv
  <2>1. Init => PromptInv
    BY DispatchAssumption DEF Init, PromptInv, FilesFromHere, PromptOwned, HasRun, Holds
  <2> QED
    BY <2>1, InitLeaseInv, InitWorkInv
<1>2. IInv /\ [Next]_vars => IInv'
  BY LeaseStep, WorkStep, FilesStep, PromptStep DEF PromptInv
<1>3. IInv => SuccessIsOwnWork
  <2> SUFFICES ASSUME IInv, NEW d \in Dispatches, outcome[d] = "success"
               PROVE  /\ ranWith[d] = d
                      /\ \/ ranPrompt[d] = OwnPrompt(d)
                         \/ d \notin Prompting /\ LeftoverPrompt(d)
    BY DEF SuccessIsOwnWork
  <2>1. ranWith[d] = d
    BY DEF WorkInv, SuccessOwned
  <2>2. RightPrompt(d)
    BY DEF PromptInv, PromptOwned, HasRun
  <2> QED
    BY <2>1, <2>2 DEF RightPrompt, LeftoverPrompt, WasHere
<1> QED
  BY <1>1, <1>2, <1>3, PTL DEF Spec

-----------------------------------------------------------------------------
(* How the pool loses containers, and how it does not.                     *)

(* The only ways out of invoke that skip return_container.                 *)
CutOff ==
  \A d \in Dispatches : pc[d] = "abandoned" => cancels[d] > 0 \/ "disk" \in Faults

LEMMA CutOffStep == TypeOK /\ CutOff /\ [Next]_vars => CutOff'
<1> SUFFICES ASSUME TypeOK, CutOff, [Next]_vars PROVE CutOff'
  OBVIOUS
<1> USE DEF CutOff, TypeOK, Moves
<1>1. ASSUME NEW d \in Dispatches, Arrive(d)
      PROVE  CutOff'
  BY <1>1 DEF Arrive, Checkout, CheckoutFails, Refused
<1>2. ASSUME NEW d \in Dispatches, Proceed(d)
      PROVE  CutOff'
  BY <1>2 DEF Proceed, Ready, SendAnswered, SendCompletes, SendFails, PollSeesEnd,
              PollGivesUp, CancelTaskReturns, Return
<1>3. ASSUME NEW d \in Dispatches, Cancel(d)
      PROVE  CutOff'
  <2>1. /\ cancels' = [cancels EXCEPT ![d] = cancels[d] + 1]
        /\ \E to \in Points : pc' = [pc EXCEPT ![d] = to]
    BY <1>3 DEF Cancel, CancelAbandons, CancelSend, CancelPoll, CancelDuringCancel,
                CancelArrives, Points
  <2>2. cancels'[d] > 0 /\ \A e \in Dispatches \ {d} : cancels'[e] = cancels[e]
    BY <2>1
  <2>3. \A e \in Dispatches \ {d} : pc'[e] = pc[e]
    BY <2>1
  <2> QED
    BY <2>2, <2>3
<1>4. ASSUME UNCHANGED <<pc, cancels>>
      PROVE  CutOff'
  BY <1>4
<1>5. ASSUME NEW d \in Dispatches, WorkerAccepts(d) \/ WorkerFinishes(d)
      PROVE  CutOff'
  BY <1>4, <1>5 DEF WorkerAccepts, WorkerFinishes
<1>6. ASSUME NEW s \in Slots, WorkerStarts(s) \/ ContainerDies(s)
      PROVE  CutOff'
  BY <1>4, <1>6 DEF WorkerStarts, ContainerDies
<1>7. CASE PoolShutdown
  BY <1>4, <1>7 DEF PoolShutdown
<1>8. CASE UNCHANGED vars
  BY <1>4, <1>8 DEF vars
<1> QED
  BY <1>1, <1>2, <1>3, <1>5, <1>6, <1>7, <1>8 DEF Next

LEMMA CutOffInvariant == Spec => [](LeaseInv /\ CutOff)
<1>1. Init => CutOff
  BY DEF Init, CutOff
<1>2. LeaseInv /\ CutOff /\ [Next]_vars => CutOff'
  BY CutOffStep DEF LeaseInv
<1> QED
  BY <1>1, <1>2, LeaseInvariant, PTL DEF Spec

(* Who has a BUSY container, when its config.json can always be written.   *)
InUseOrCutOff ==
  \A s \in Slots : pool[s].state = "busy" =>
    \E d \in Dispatches :
      /\ where[d] = <<s, pool[s].gen>>
      /\ Holds(d) \/ (pc[d] = "abandoned" /\ cancels[d] > 0)

InUse ==
  \A s \in Slots : pool[s].state = "busy" =>
    \E d \in Dispatches : where[d] = <<s, pool[s].gen>> /\ Holds(d)

(* checkout and invoke lose a container only with a cancellation: as long  *)
(* as config.json can be written, a BUSY entry has a user, or a dispatch   *)
(* that was cancelled outside the try block or in client.close.            *)
THEOREM OnlyCancellationsLose ==
  ASSUME "disk" \notin Faults
  PROVE  Spec => []InUseOrCutOff
<1>1. LeaseInv /\ CutOff => InUseOrCutOff
  BY DEF LeaseInv, Accounted, CutOff, Owns, InUseOrCutOff
<1> QED
  BY <1>1, CutOffInvariant, PTL

(* With neither, the pool never loses a container: every BUSY entry is one *)
(* that a call of invoke is working in, so that return_container will be   *)
(* called for it.                                                          *)
THEOREM NothingIsLostUndisturbed ==
  ASSUME "disk" \notin Faults, MaxCancels = 0
  PROVE  Spec => []InUse
<1> DEFINE NoCancels == \A d \in Dispatches : cancels[d] = 0
<1>1. Init => NoCancels
  BY DEF Init
<1>2. TypeOK /\ NoCancels /\ [Next]_vars => NoCancels'
  <2> SUFFICES ASSUME TypeOK, NoCancels, [Next]_vars PROVE NoCancels'
    OBVIOUS
  <2>1. ASSUME NEW d \in Dispatches, Cancel(d)
        PROVE  FALSE
    BY <2>1 DEF Cancel, CancelAbandons, CancelSend, CancelPoll, CancelDuringCancel,
                CancelArrives
  <2>2. cancels' = cancels
    BY <2>1 DEF Next, Arrive, Checkout, CheckoutFails, Refused, Proceed, Ready,
                SendAnswered, SendCompletes, SendFails, PollSeesEnd, PollGivesUp,
                CancelTaskReturns, Return, WorkerAccepts, WorkerFinishes, WorkerStarts,
                ContainerDies, PoolShutdown, vars
  <2> QED
    BY <2>2
<1>3. LeaseInv /\ CutOff /\ NoCancels => InUse
  BY DEF LeaseInv, Accounted, CutOff, Owns, InUse
<1> QED
  BY <1>1, <1>2, <1>3, CutOffInvariant, TypeCorrect, PTL DEF Spec

(* s is freed by the call of invoke that had been given this very          *)
(* container, in its finally block, or by shutdown.                        *)
FreedByItsUser(s) ==
  \E d \in Dispatches :
    /\ pc[d] = "closing" /\ pc'[d] = "done"
    /\ where[d] = <<s, pool[s].gen>>
Closed == \A s \in Slots : pool[s].state = "absent"

FreedByUsersOnly ==
  [][\A s \in Slots : pool[s].state = "busy" /\ pool'[s].state # "busy" =>
       FreedByItsUser(s) \/ Closed']_vars

LEMMA FreedStep ==
  ASSUME LeaseInv, [Next]_vars,
         NEW s \in Slots, pool[s].state = "busy", pool'[s].state # "busy"
  PROVE  FreedByItsUser(s) \/ Closed'
<1> USE DEF LeaseInv, TypeOK, poolVars
<1>1. ASSUME NEW d \in Dispatches, NEW x \in Slots, NEW seen,
             Checkout(d, x, seen) \/ CheckoutFails(d, x, seen)
      PROVE  FALSE
  <2>1. CheckoutTakes(x, TaskOf[d], seen) /\ TaskOf[d] \in Tasks
    BY <1>1, DispatchAssumption DEF Checkout, CheckoutFails
  <2> QED
    BY <2>1, TakesEffect
<1>2. ASSUME NEW d \in Dispatches, NEW seen, Refused(d, seen)
      PROVE  FALSE
  BY <1>2, ExhaustedEffect DEF Refused
<1>3. ASSUME NEW d \in Dispatches, Return(d)
      PROVE  FreedByItsUser(s)
  <2>1. /\ pc[d] = "closing" /\ pc'[d] = "done" /\ Owns(d)
        /\ where[d] \in ContainerIds
    BY <1>3 DEF Return, Moves, Owns, Holds, Placed
  <2>2. /\ \A x \in Slots \ {where[d][1]} : pool'[x] = pool[x]
        /\ \/ ~Current(where[d]) /\ pool' = pool
           \/ Current(where[d]) /\ pool'[where[d][1]].state = "idle"
    BY <1>3, <2>1, ReturnEffect DEF Return
  <2>3. where[d] = <<s, pool[s].gen>>
    BY <2>1, <2>2 DEF Current, ContainerIds
  <2> QED
    BY <2>1, <2>3 DEF FreedByItsUser
<1>4. ASSUME PoolShutdown
      PROVE  Closed'
  BY <1>4 DEF PoolShutdown, Shutdown, Closed, PoolTypeOK, Entry
<1>5. ASSUME NEW d \in Dispatches, (Proceed(d) /\ ~Return(d)) \/ Cancel(d)
      PROVE  FALSE
  BY <1>5 DEF Proceed, Cancel, Ready, SendAnswered, SendCompletes, SendFails,
              PollSeesEnd, PollGivesUp, CancelTaskReturns, CancelAbandons, CancelSend,
              CancelPoll, CancelDuringCancel
<1>6. ASSUME NEW d \in Dispatches, WorkerAccepts(d) \/ WorkerFinishes(d)
      PROVE  FALSE
  BY <1>6 DEF WorkerAccepts, WorkerFinishes
<1>7. ASSUME NEW x \in Slots, WorkerStarts(x) \/ ContainerDies(x)
      PROVE  FALSE
  BY <1>7 DEF WorkerStarts, ContainerDies, Dies
<1>8. ASSUME UNCHANGED vars
      PROVE  FALSE
  BY <1>8 DEF vars
<1> QED
  BY <1>1, <1>2, <1>3, <1>4, <1>5, <1>6, <1>7, <1>8 DEF Next, Arrive

(* A late or second return_container, a recycling or another checkout's    *)
(* scan never frees a container somebody else works in.                    *)
THEOREM ContainersAreFreedByTheirUsers == Spec => FreedByUsersOnly
<1>1. LeaseInv /\ [Next]_vars =>
        [\A s \in Slots : pool[s].state = "busy" /\ pool'[s].state # "busy" =>
           FreedByItsUser(s) \/ Closed']_vars
  BY FreedStep
<1> QED
  BY <1>1, LeaseInvariant, PTL DEF Spec, FreedByUsersOnly

(* The pool has no way to notice it: a BUSY container whose dispatch was   *)
(* cut off stays BUSY, with the same dispatch to blame, until shutdown.    *)
AbandonedStayLost ==
  [][\A s \in Slots : pool[s].state = "busy" /\ Abandoned(s) =>
       (pool'[s].state = "busy" /\ Abandoned(s)') \/ Closed']_vars

(* Nothing in pool.py takes a container back whose user was cut off: what  *)
(* ContainerComesBack has to except is lost until shutdown.                *)
THEOREM AbandonedContainersStayLost == Spec => AbandonedStayLost
<1>1. ASSUME LeaseInv, [Next]_vars,
             NEW s \in Slots, pool[s].state = "busy", Abandoned(s)
      PROVE  (pool'[s].state = "busy" /\ Abandoned(s)') \/ Closed'
  <2>1. PICK d \in Dispatches :
          where[d] = <<s, pool[s].gen>> /\ pc[d] = "abandoned"
    BY <1>1 DEF Abandoned, Answers
  <2>2. ~FreedByItsUser(s)
    BY <1>1, <2>1 DEF FreedByItsUser, LeaseInv, Exclusive, Owns, Holds
  <2>3. pool'[s].state = "busy" \/ Closed'
    BY <1>1, <2>2, FreedStep
  <2>4. /\ pc'[d] = "abandoned" /\ where'[d] = where[d]
    BY <1>1, <2>1
       DEF LeaseInv, TypeOK, Next, Arrive, Checkout, CheckoutFails, Refused, Proceed,
           Ready, SendAnswered, SendCompletes, SendFails, PollSeesEnd, PollGivesUp,
           CancelTaskReturns, Return, Cancel, CancelAbandons, CancelSend, CancelPoll,
           CancelDuringCancel, WorkerAccepts, WorkerFinishes, WorkerStarts,
           ContainerDies, PoolShutdown, Moves, vars
  <2>5. ASSUME pool'[s].state = "busy"
        PROVE  pool'[s].gen = pool[s].gen
    BY <1>1, <2>1, <2>4, <2>5, LeaseStep
       DEF LeaseInv, Backed, Owns, SlotOf
  <2> QED
    BY <2>1, <2>3, <2>4, <2>5 DEF Abandoned, Answers
<1>2. LeaseInv /\ [Next]_vars =>
        [\A s \in Slots : pool[s].state = "busy" /\ Abandoned(s) =>
           (pool'[s].state = "busy" /\ Abandoned(s)') \/ Closed']_vars
  BY <1>1
<1> QED
  BY <1>2, LeaseInvariant, PTL DEF Spec, AbandonedStayLost

-----------------------------------------------------------------------------
(* Why a dispatch ends: the awaits it can still be suspended in.           *)
AwaitsLeft(d) ==
  CASE pc[d] = "new"        -> 6
    [] pc[d] = "readiness"  -> 5
    [] pc[d] = "sending"    -> 4
    [] pc[d] = "polling"    -> 3
    [] pc[d] = "cancelling" -> 2
    [] pc[d] = "closing"    -> 1
    [] OTHER                -> 0

(* No step of anybody brings a dispatch back to an await it has left, and  *)
(* each step of its own leaves one for good.                               *)
NoDispatchGoesBack ==
  [][\A d \in Dispatches :
       /\ pc'[d] = pc[d] \/ AwaitsLeft(d)' < AwaitsLeft(d)
       /\ Proceed(d) => AwaitsLeft(d)' < AwaitsLeft(d)]_vars

(* invoke has no loop over its awaits: a dispatch that was let in is out   *)
(* of it after at most five steps of its own, whatever workers, callers and*)
(* the pool do meanwhile.  The safety half of ContainerComesBack.          *)
THEOREM DispatchesLeadOn == Spec => NoDispatchGoesBack
<1> DEFINE Leads(d) ==
      /\ pc'[d] = pc[d] \/ AwaitsLeft(d)' < AwaitsLeft(d)
      /\ Proceed(d) => AwaitsLeft(d)' < AwaitsLeft(d)
<1>1. ASSUME TypeOK, [Next]_vars, NEW d \in Dispatches
      PROVE  Leads(d)
  <2> USE <1>1 DEF TypeOK, Moves, AwaitsLeft
  <2>1. ASSUME Proceed(d)
        PROVE  AwaitsLeft(d)' < AwaitsLeft(d)
    BY <2>1 DEF Proceed, Ready, SendAnswered, SendCompletes, SendFails, PollSeesEnd,
                PollGivesUp, CancelTaskReturns, Return
  <2>2. ASSUME Arrive(d) \/ Cancel(d)
        PROVE  AwaitsLeft(d)' < AwaitsLeft(d)
    BY <2>2 DEF Arrive, Checkout, CheckoutFails, Refused, Cancel, CancelAbandons,
                CancelSend, CancelPoll, CancelDuringCancel
  <2>3. ASSUME NEW e \in Dispatches \ {d}, Arrive(e) \/ Proceed(e) \/ Cancel(e)
        PROVE  pc'[d] = pc[d]
    BY <2>3 DEF Arrive, Checkout, CheckoutFails, Refused, Proceed, Ready,
                SendAnswered, SendCompletes, SendFails, PollSeesEnd, PollGivesUp,
                CancelTaskReturns, Return, Cancel, CancelAbandons, CancelSend,
                CancelPoll, CancelDuringCancel
  <2>4. ASSUME NEW e \in Dispatches, WorkerAccepts(e) \/ WorkerFinishes(e)
        PROVE  pc'[d] = pc[d]
    BY <2>4 DEF WorkerAccepts, WorkerFinishes
  <2>5. ASSUME NEW s \in Slots, WorkerStarts(s) \/ ContainerDies(s)
        PROVE  pc'[d] = pc[d]
    BY <2>5 DEF WorkerStarts, ContainerDies
  <2>6. ASSUME PoolShutdown \/ UNCHANGED vars
        PROVE  pc'[d] = pc[d]
    BY <2>6 DEF PoolShutdown, vars
  <2>7. pc'[d] = pc[d] \/ AwaitsLeft(d)' < AwaitsLeft(d)
    <3> HIDE DEF TypeOK, Moves, AwaitsLeft
    <3> QED
      BY <2>1, <2>2, <2>3, <2>4, <2>5, <2>6 DEF Next
  <2> QED
    BY <2>1, <2>7
<1>2. TypeOK /\ [Next]_vars => [\A d \in Dispatches : Leads(d)]_vars
  BY <1>1
<1> QED
  BY <1>2, TypeCorrect, PTL DEF Spec, NoDispatchGoesBack

-----------------------------------------------------------------------------
(* The pool and its dispatches implement Lease.                            *)

(* The variables of Lease, as the instance L computes them.                *)
Open == \E s \in Slots : pool[s].state # "absent"
Lent == {s \in Slots : pool[s].state = "busy"}
Loans == {p \in Dispatches \X Slots : Holds(p[1]) /\ SlotOf(p[1]) = p[2]}

LEMMA AbstractInit == Init => L!Init
<1> SUFFICES ASSUME Init PROVE L!Init
  OBVIOUS
<1>1. \A s \in Slots : pool[s].state # "busy"
  BY NothingBusyAtFirst
<1>2. \A d \in Dispatches : ~Holds(d)
  BY DEF Init, Holds
<1> QED
  BY <1>1, <1>2 DEF L!Init

(* A step that changes no loan and no entry's being busy or absent.        *)
LEMMA AbstractStutter ==
  ASSUME \A s \in Slots : (pool'[s].state = "busy") <=> (pool[s].state = "busy"),
         \A s \in Slots : (pool'[s].state = "absent") <=> (pool[s].state = "absent"),
         \A d \in Dispatches : Holds(d)' <=> Holds(d),
         \A d \in Dispatches : Holds(d) => where'[d] = where[d]
  PROVE  UNCHANGED L!vars
<1>1. Open' = Open
  BY DEF Open
<1>2. Lent' = Lent
  BY DEF Lent
<1>3. Loans' = Loans
  BY DEF Loans, SlotOf
<1> QED
  BY <1>1, <1>2, <1>3 DEF L!vars, Open, Lent, Loans

LEMMA AbstractAcquire ==
  ASSUME LeaseInv, NEW d \in Dispatches, NEW s \in Slots, NEW seen, Checkout(d, s, seen)
  PROVE  L!Acquire(d, s)
<1> USE DEF LeaseInv
<1>1. CheckoutTakes(s, TaskOf[d], seen) /\ TaskOf[d] \in Tasks /\ PoolTypeOK
  BY DispatchAssumption DEF Checkout, TypeOK
<1>2. /\ pool[s].state = "idle" /\ pool'[s].state = "busy"
      /\ \A x \in Slots \ {s} : \/ pool'[x] = pool[x]
                                \/ /\ pool[x].state = "idle"
                                   /\ pool'[x].state = "dead"
  BY <1>1, TakesEffect
<1>3. /\ ~Holds(d) /\ Holds(d)' /\ where'[d][1] = s
      /\ \A e \in Dispatches \ {d} : (Holds(e)' <=> Holds(e)) /\ where'[e] = where[e]
  BY DEF Checkout, Moves, Holds, TypeOK
<1>4. Open /\ (Open' <=> Open)
  BY <1>2 DEF Open
<1>5. s \notin Lent /\ Lent' = Lent \cup {s}
  BY <1>2 DEF Lent
<1>6. /\ \A x \in Slots : <<d, x>> \notin Loans
      /\ Loans' = Loans \cup {<<d, s>>}
  BY <1>3 DEF Loans, SlotOf
<1> QED
  BY <1>4, <1>5, <1>6 DEF L!Acquire, Open, Lent, Loans

LEMMA AbstractLose ==
  ASSUME LeaseInv, NEW d \in Dispatches, NEW s \in Slots, NEW seen,
         CheckoutFails(d, s, seen)
  PROVE  L!Lose(s)
<1> USE DEF LeaseInv
<1>1. CheckoutTakes(s, TaskOf[d], seen) /\ TaskOf[d] \in Tasks /\ PoolTypeOK
  BY DispatchAssumption DEF CheckoutFails, TypeOK
<1>2. /\ pool[s].state = "idle" /\ pool'[s].state = "busy"
      /\ \A x \in Slots \ {s} : \/ pool'[x] = pool[x]
                                \/ /\ pool[x].state = "idle"
                                   /\ pool'[x].state = "dead"
  BY <1>1, TakesEffect
<1>3. \A e \in Dispatches : (Holds(e)' <=> Holds(e)) /\ (Holds(e) => where'[e] = where[e])
  BY DEF CheckoutFails, Moves, Holds, TypeOK
<1>4. Open /\ (Open' <=> Open)
  BY <1>2 DEF Open
<1>5. s \notin Lent /\ Lent' = Lent \cup {s}
  BY <1>2 DEF Lent
<1>6. Loans' = Loans
  BY <1>3 DEF Loans, SlotOf
<1> QED
  BY <1>4, <1>5, <1>6 DEF L!Lose, Open, Lent, Loans

LEMMA AbstractRelease ==
  ASSUME LeaseInv, NEW d \in Dispatches, Return(d)
  PROVE  \E s \in Slots : L!Release(d, s)
<1> USE DEF LeaseInv
<1>1. /\ Holds(d) /\ ~Holds(d)' /\ where' = where
      /\ \A e \in Dispatches \ {d} : Holds(e)' <=> Holds(e)
  BY DEF Return, Moves, Holds, TypeOK
<1>2. PICK s \in Slots : where[d] \in ContainerIds /\ s = where[d][1]
  BY <1>1 DEF Placed, Owns, ContainerIds
<1>3. /\ \A x \in Slots \ {s} : pool'[x] = pool[x]
      /\ \/ ~Current(where[d]) /\ pool' = pool
         \/ Current(where[d]) /\ pool'[s].state = "idle"
  BY <1>2, ReturnEffect DEF Return, TypeOK
<1>4. \/ pool[s].state = "absent"
      \/ pool[s].state = "busy" /\ Current(where[d])
  BY <1>1, <1>2 DEF Backed, Owns, SlotOf, Current
<1>5. Open' <=> Open
  BY <1>2, <1>3, <1>4 DEF Open, Current
<1>6. Lent' = Lent \ {s}
  BY <1>2, <1>3, <1>4 DEF Lent, Current
<1>7. <<d, s>> \in Loans /\ Loans' = Loans \ {<<d, s>>}
  BY <1>1, <1>2 DEF Loans, SlotOf
<1> QED
  BY <1>2, <1>5, <1>6, <1>7 DEF L!Release, Open, Lent, Loans

LEMMA AbstractAbandon ==
  ASSUME LeaseInv, NEW d \in Dispatches, CancelAbandons(d)
  PROVE  \E s \in Slots : L!Abandon(d, s)
<1> USE DEF LeaseInv
<1>1. /\ Holds(d) /\ ~Holds(d)' /\ where' = where /\ pool' = pool
      /\ \A e \in Dispatches \ {d} : Holds(e)' <=> Holds(e)
  BY DEF CancelAbandons, Holds, TypeOK, poolVars
<1>2. PICK s \in Slots : s = where[d][1]
  BY <1>1 DEF Placed, Owns, ContainerIds
<1>3. <<d, s>> \in Loans /\ Loans' = Loans \ {<<d, s>>}
  BY <1>1, <1>2 DEF Loans, SlotOf
<1>4. (Open' <=> Open) /\ Lent' = Lent
  BY <1>1 DEF Open, Lent
<1> QED
  BY <1>2, <1>3, <1>4 DEF L!Abandon, Open, Lent, Loans

LEMMA AbstractClose ==
  ASSUME LeaseInv, PoolShutdown
  PROVE  L!Close
<1>1. /\ \A s \in Slots : pool'[s].state = "absent"
      /\ \E s \in Slots : pool[s].state # "absent"
      /\ UNCHANGED <<pc, where>>
  BY DEF PoolShutdown, Shutdown, LeaseInv, TypeOK, PoolTypeOK, Entry
<1>2. Open /\ Open' = FALSE
  BY <1>1 DEF Open
<1>3. Lent' = {}
  BY <1>1 DEF Lent
<1>4. Loans' = Loans
  BY <1>1 DEF Loans, Holds, SlotOf
<1> QED
  BY <1>2, <1>3, <1>4 DEF L!Close, Open, Lent, Loans

LEMMA AbstractStep == LeaseInv /\ [Next]_vars => [L!Next]_(L!vars)
<1> SUFFICES ASSUME LeaseInv, [Next]_vars PROVE [L!Next]_(L!vars)
  OBVIOUS
<1> USE DEF poolVars
<1>1. ASSUME NEW d \in Dispatches, Arrive(d)
      PROVE  [L!Next]_(L!vars)
  <2>1. ASSUME NEW seen, NEW s \in Slots, Checkout(d, s, seen)
        PROVE  L!Next
    BY <2>1, AbstractAcquire DEF L!Next
  <2>2. ASSUME NEW seen, NEW s \in Slots, CheckoutFails(d, s, seen)
        PROVE  L!Next
    BY <2>2, AbstractLose DEF L!Next
  <2>3. ASSUME NEW seen, Refused(d, seen)
        PROVE  UNCHANGED L!vars
    <3>1. \A x \in Slots : \/ pool'[x] = pool[x]
                          \/ /\ pool[x].state = "idle"
                             /\ pool'[x].state = "dead"
      BY <2>3, ExhaustedEffect DEF Refused, LeaseInv, TypeOK
    <3>2. where' = where /\ \A e \in Dispatches : Holds(e)' <=> Holds(e)
      BY <2>3 DEF Refused, Moves, Holds, LeaseInv, TypeOK
    <3> QED
      BY <3>1, <3>2, AbstractStutter
  <2> QED
    BY <1>1, <2>1, <2>2, <2>3 DEF Arrive
<1>2. ASSUME NEW d \in Dispatches, Return(d)
      PROVE  L!Next
  BY <1>2, AbstractRelease DEF L!Next
<1>3. ASSUME NEW d \in Dispatches, CancelAbandons(d)
      PROVE  L!Next
  BY <1>3, AbstractAbandon DEF L!Next
<1>4. ASSUME NEW d \in Dispatches, (Proceed(d) /\ ~Return(d)) \/ (Cancel(d) /\ ~CancelAbandons(d))
      PROVE  UNCHANGED L!vars
  <2>1. UNCHANGED <<pool, where>> /\ \A e \in Dispatches : Holds(e)' <=> Holds(e)
    BY <1>4
       DEF LeaseInv, TypeOK, Holds, Moves, Proceed, Cancel, Ready, SendAnswered,
           SendCompletes, SendFails, PollSeesEnd, PollGivesUp, CancelTaskReturns,
           CancelSend, CancelPoll, CancelDuringCancel
  <2> QED
    BY <2>1, AbstractStutter
<1>5. ASSUME NEW d \in Dispatches, WorkerAccepts(d) \/ WorkerFinishes(d)
      PROVE  UNCHANGED L!vars
  BY <1>5, AbstractStutter DEF WorkerAccepts, WorkerFinishes, Holds
<1>6. ASSUME NEW s \in Slots, WorkerStarts(s) \/ ContainerDies(s)
      PROVE  UNCHANGED L!vars
  BY <1>6, AbstractStutter DEF WorkerStarts, ContainerDies, Dies, Holds
<1>7. ASSUME PoolShutdown
      PROVE  L!Next
  BY <1>7, AbstractClose DEF L!Next
<1>8. ASSUME UNCHANGED vars
      PROVE  UNCHANGED L!vars
  BY <1>8, AbstractStutter DEF vars, Holds
<1> QED
  BY <1>1, <1>2, <1>3, <1>4, <1>5, <1>6, <1>7, <1>8 DEF Next

(* DockerBackend.invoke and the pool lend as Lease does: every step is a   *)
(* loan of a free slot, a return by its borrower, an abandoned loan, the   *)
(* closing of the pool, or no step of Lease at all.                        *)
THEOREM ImplementsLease == Spec => LeaseSpec
<1>1. Init => L!Init
  BY AbstractInit
<1>2. LeaseInv /\ [Next]_vars => [L!Next]_(L!vars)
  BY AbstractStep
<1> QED
  BY <1>1, <1>2, LeaseInvariant, PTL DEF Spec, LeaseSpec, L!Spec
=============================================================================
