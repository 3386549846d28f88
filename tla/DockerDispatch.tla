--------------------------- MODULE DockerDispatch ---------------------------
(***************************************************************************)
(* Concurrent calls of DockerBackend.invoke (src/dispatcher/backends.py)   *)
(* on the shared container pool, and the worker inside each container.     *)
(*                                                                         *)
(* A dispatch is one call of invoke, run by the Dispatcher as an asyncio   *)
(* task of its own.  Its program counter stands at the await where it is   *)
(* suspended, so every action is the code between two awaits:              *)
(*   "new"        not started                                              *)
(*   "readiness"  in checkout, polling the worker's agent card             *)
(*   "sending"    in client.send_message                                   *)
(*   "polling"    in client.poll_task (streaming only)                     *)
(*   "cancelling" in client.cancel_task, in the CancelledError handler     *)
(*   "closing"    in client.close, in the finally block                    *)
(*   "done"       returned or raised after return_container                *)
(*   "abandoned"  raised without return_container                          *)
(* A cancellation (a user's cancel, or the Dispatcher's timeout) raises    *)
(* CancelledError at whatever await the dispatch is suspended in.          *)
(*                                                                         *)
(* A worker takes its role and its directory from the config.json of each  *)
(* message, but the system prompt from its process's environment, where    *)
(* only a config.json that has one replaces it.                            *)
(***************************************************************************)
EXTENDS ContainerPool

CONSTANTS
  Dispatches,   (* calls of invoke                                         *)
  Streaming,    (* those with an on_progress callback: sent non-blocking   *)
  TaskOf,       (* the task_id in a dispatch's context                     *)
  Prompting,    (* those whose agent card has a system_prompt              *)
  MaxCancels,   (* bound: cancellations delivered to one dispatch          *)
  Nobody,       (* no dispatch                                             *)
  NoContainer,  (* no container                                            *)
  NotStarted    (* the container's worker process has not started          *)

ASSUME DispatchAssumption ==
  /\ Streaming \subseteq Dispatches
  /\ Prompting \subseteq Dispatches
  /\ TaskOf \in [Dispatches -> Tasks]
  /\ MaxCancels \in Nat
  /\ Nobody \notin Dispatches
  /\ NoContainer \notin ContainerIds
  /\ NotStarted \notin Dispatches \cup {Nobody}

VARIABLES
  pc,           (* where the dispatch is                                   *)
  where,        (* the container checked out                               *)
  cancels,      (* cancellations delivered so far                          *)
  work,         (* the dispatch's message as its worker sees it            *)
  ranWith,      (* whose config.json the worker loaded with the message    *)
  outcome,      (* what invoke returns or raises                           *)
  config,       (* per slot: whose config.json is mounted in it            *)
  env,          (* per slot: whose system prompt its worker has in its     *)
                (* environment; Nobody's when it has none                  *)
  ranPrompt     (* whose prompt was there when the message ran; Nobody's   *)
                (* means the one built in for its role                     *)

promptVars == <<env, ranPrompt>>
vars == <<pool, precedes, alive, pc, where, cancels, work, ranWith, outcome,
          config, promptVars>>

Points == {"new", "readiness", "sending", "polling", "cancelling", "closing",
           "done", "abandoned"}
WorkStates == {"none", "inflight", "running", "completed", "failed", "lost"}
Outcomes == {"none", "success", "failure", "cancelled"}

TypeOK ==
  /\ PoolTypeOK
  /\ pc \in [Dispatches -> Points]
  /\ where \in [Dispatches -> ContainerIds \cup {NoContainer}]
  /\ cancels \in [Dispatches -> Nat]
  /\ work \in [Dispatches -> WorkStates]
  /\ ranWith \in [Dispatches -> Dispatches \cup {Nobody}]
  /\ outcome \in [Dispatches -> Outcomes]
  /\ config \in [Slots -> Dispatches \cup {Nobody}]
  /\ env \in [Slots -> Dispatches \cup {Nobody, NotStarted}]
  /\ ranPrompt \in [Dispatches -> Dispatches \cup {Nobody}]

(* The config files are empty: none is left from an earlier run.           *)
Init ==
  /\ PoolInit
  /\ pc = [d \in Dispatches |-> "new"]
  /\ where = [d \in Dispatches |-> NoContainer]
  /\ cancels = [d \in Dispatches |-> 0]
  /\ work = [d \in Dispatches |-> "none"]
  /\ ranWith = [d \in Dispatches |-> Nobody]
  /\ outcome = [d \in Dispatches |-> "none"]
  /\ config = [s \in Slots |-> Nobody]
  /\ env = [s \in Slots |-> NotStarted]
  /\ ranPrompt = [d \in Dispatches |-> Nobody]

(* The dispatch is inside invoke with a container checked out.             *)
Holds(d) == pc[d] \in {"readiness", "sending", "polling", "cancelling", "closing"}
SlotOf(d) == where[d][1]

(* The container the dispatch was given is still there, and runs.          *)
Reachable(d) == pool[SlotOf(d)].gen = where[d][2] /\ alive[SlotOf(d)]

Moves(d, from, to) ==
  /\ pc[d] = from
  /\ pc' = [pc EXCEPT ![d] = to]

Ends(d, result) == outcome' = [outcome EXCEPT ![d] = result]

(* The tasks of a worker live in its process: they end with the container. *)
WorkAfterLosing(c) ==
  [d \in Dispatches |-> IF where[d] = c /\ work[d] # "none" THEN "lost" ELSE work[d]]

-----------------------------------------------------------------------------
(* Checking out                                                            *)

(* Mutant: checkout leaves the previous task's config.json in place.       *)
MutCheckout(d, s, seen) ==
  /\ Moves(d, "new", "readiness")
  /\ CheckoutTakes(s, TaskOf[d], seen)
  /\ where' = [where EXCEPT ![d] = <<s, pool[s].gen>>]
  /\ config' = [config EXCEPT ![s] = IF @ = Nobody THEN d ELSE @]
  /\ UNCHANGED <<cancels, work, ranWith, outcome, promptVars>>

(* checkout hands out a container and writes its config.json, with no      *)
(* await in between.                                                       *)
Checkout(d, s, seen) ==
  /\ Moves(d, "new", "readiness")
  /\ CheckoutTakes(s, TaskOf[d], seen)
  /\ where' = [where EXCEPT ![d] = <<s, pool[s].gen>>]
  /\ config' = [config EXCEPT ![s] = d]
  /\ UNCHANGED <<cancels, work, ranWith, outcome, promptVars>>

(* The same when the file cannot be written: the exception leaves invoke,   *)
(* which is not yet in its try block.                                      *)
CheckoutFails(d, s, seen) ==
  /\ "disk" \in Faults
  /\ Moves(d, "new", "abandoned")
  /\ CheckoutTakes(s, TaskOf[d], seen)
  /\ where' = [where EXCEPT ![d] = <<s, pool[s].gen>>]
  /\ Ends(d, "failure")
  /\ UNCHANGED <<cancels, work, ranWith, config, promptVars>>

(* No idle worker container is available.                                  *)
Refused(d, seen) ==
  /\ Moves(d, "new", "done")
  /\ CheckoutExhausted(seen)
  /\ Ends(d, "failure")
  /\ UNCHANGED <<where, cancels, work, ranWith, config, promptVars>>

(* The readiness poll is over, whether or not the worker answered it: the  *)
(* message is posted.  It is lost when there is no worker to take it.      *)
Ready(d) ==
  /\ Moves(d, "readiness", "sending")
  /\ work' = [work EXCEPT ![d] =
       IF Reachable(d) /\ env[SlotOf(d)] # NotStarted THEN "inflight" ELSE "lost"]
  /\ UNCHANGED <<poolVars, where, cancels, ranWith, outcome, config, promptVars>>

-----------------------------------------------------------------------------
(* The worker (src/agents/worker.py)                                       *)

(* entrypoint.sh: a container waits for a config.json that is not empty,   *)
(* takes the prompt from it, if it has one, and starts the worker.  The    *)
(* file of a recycled container is its predecessor's, and not empty.       *)
WorkerStarts(s) ==
  /\ alive[s]
  /\ env[s] = NotStarted
  /\ config[s] # Nobody
  /\ env' = [env EXCEPT ![s] = IF config[s] \in Prompting THEN config[s] ELSE Nobody]
  /\ UNCHANGED <<poolVars, pc, where, cancels, work, ranWith, outcome, config>>
  /\ UNCHANGED ranPrompt

(* The prompt in the worker's environment after it has loaded config.json: *)
(* the file's, if it has one; else the one that was there before stays.    *)
PromptAfterReload(s) == IF config[s] \in Prompting THEN config[s] ELSE env[s]

(* The worker takes the message, also when its sender has gone meanwhile,  *)
(* loads the config.json that is mounted at that moment, and runs with the *)
(* prompt in its environment.  (Polls and cancellations load it, too: they *)
(* come from the container's user, whose config.json is loaded already.)   *)
WorkerAccepts(d) ==
  LET s == SlotOf(d)
  IN  /\ work[d] = "inflight"
      /\ Reachable(d)
      /\ env[s] # NotStarted
      /\ work' = [work EXCEPT ![d] = "running"]
      /\ ranWith' = [ranWith EXCEPT ![d] = config[s]]
      /\ env' = [env EXCEPT ![s] = PromptAfterReload(s)]
      /\ ranPrompt' = [ranPrompt EXCEPT ![d] = PromptAfterReload(s)]
      /\ UNCHANGED <<poolVars, pc, where, cancels, outcome, config>>

WorkerFinishes(d) ==
  /\ work[d] = "running"
  /\ \E result \in {"completed", "failed"} : work' = [work EXCEPT ![d] = result]
  /\ UNCHANGED <<poolVars, pc, where, cancels, ranWith, outcome, config, promptVars>>

ContainerDies(s) ==
  /\ Dies(s)
  /\ work' = WorkAfterLosing(<<s, pool[s].gen>>)
  /\ UNCHANGED <<pc, where, cancels, ranWith, outcome, config, promptVars>>

-----------------------------------------------------------------------------
(* Waiting for the worker                                                  *)

(* Mutant: the worker's state is passed on as it is.                       *)
MutOutcomeOf(state) == state

(* The outcome a terminal state of the worker's task stands for.           *)
OutcomeOf(state) == IF state = "completed" THEN "success" ELSE "failure"

(* Non-blocking: the answer comes at once and names the worker's task.     *)
SendAnswered(d) ==
  /\ d \in Streaming
  /\ work[d] \in {"running", "completed", "failed"}
  /\ Moves(d, "sending", "polling")
  /\ UNCHANGED <<poolVars, where, cancels, work, ranWith, outcome, config, promptVars>>

(* Blocking: the answer comes when the worker has finished.                *)
SendCompletes(d) ==
  /\ d \notin Streaming
  /\ work[d] \in {"completed", "failed"}
  /\ Moves(d, "sending", "closing")
  /\ Ends(d, OutcomeOf(work[d]))
  /\ UNCHANGED <<poolVars, where, cancels, work, ranWith, config, promptVars>>

(* A connection error, an HTTP timeout or an error answer: send_message    *)
(* returns None.  The worker may have the message all the same.            *)
SendFails(d) ==
  /\ Moves(d, "sending", "closing")
  /\ Ends(d, "failure")
  /\ UNCHANGED <<poolVars, where, cancels, work, ranWith, config, promptVars>>

PollSeesEnd(d) ==
  /\ work[d] \in {"completed", "failed"}
  /\ Moves(d, "polling", "closing")
  /\ Ends(d, OutcomeOf(work[d]))
  /\ UNCHANGED <<poolVars, where, cancels, work, ranWith, config, promptVars>>

(* Mutant: poll_task waits for a terminal state, however long it takes.    *)
MutPollGivesUp(d) ==
  /\ work[d] \in {"completed", "failed"}
  /\ Moves(d, "polling", "closing")
  /\ Ends(d, "failure")
  /\ UNCHANGED <<poolVars, where, cancels, work, ranWith, config, promptVars>>

(* poll_task reaches its deadline: the last snapshot is not "completed".   *)
PollGivesUp(d) ==
  /\ Moves(d, "polling", "closing")
  /\ Ends(d, "failure")
  /\ UNCHANGED <<poolVars, where, cancels, work, ranWith, config, promptVars>>

-----------------------------------------------------------------------------
(* Cancellation                                                            *)

CancelArrives(d) ==
  /\ cancels[d] < MaxCancels
  /\ cancels' = [cancels EXCEPT ![d] = @ + 1]

(* In checkout, before the try block, or in client.close, in the finally   *)
(* block, whose handlers do not catch CancelledError: return_container is  *)
(* never called.                                                           *)
CancelAbandons(d) ==
  /\ CancelArrives(d)
  /\ pc[d] \in {"readiness", "closing"}
  /\ pc' = [pc EXCEPT ![d] = "abandoned"]
  /\ Ends(d, "cancelled")
  /\ UNCHANGED <<poolVars, where, work, ranWith, config, promptVars>>

(* Mutant: the CancelledError handler re-raises with no finally block.     *)
MutCancelSend(d) ==
  /\ CancelArrives(d)
  /\ Moves(d, "sending", "done")
  /\ Ends(d, "cancelled")
  /\ UNCHANGED <<poolVars, where, work, ranWith, config, promptVars>>

(* In send_message: no worker task is known, nothing can be cancelled.     *)
CancelSend(d) ==
  /\ CancelArrives(d)
  /\ Moves(d, "sending", "closing")
  /\ Ends(d, "cancelled")
  /\ UNCHANGED <<poolVars, where, work, ranWith, config, promptVars>>

CancelPoll(d) ==
  /\ CancelArrives(d)
  /\ Moves(d, "polling", "cancelling")
  /\ Ends(d, "cancelled")
  /\ UNCHANGED <<poolVars, where, work, ranWith, config, promptVars>>

(* tasks/cancel ends.  It stops the worker's task if it reached the worker  *)
(* while the task ran.                                                     *)
CancelTaskReturns(d) ==
  /\ Moves(d, "cancelling", "closing")
  /\ \/ work' = work
     \/ /\ work[d] = "running"
        /\ work' = [work EXCEPT ![d] = "lost"]
  /\ UNCHANGED <<poolVars, where, cancels, ranWith, outcome, config, promptVars>>

(* A second cancellation, in the middle of tasks/cancel.                   *)
CancelDuringCancel(d) ==
  /\ CancelArrives(d)
  /\ Moves(d, "cancelling", "closing")
  /\ \/ work' = work
     \/ /\ work[d] = "running"
        /\ work' = [work EXCEPT ![d] = "lost"]
  /\ UNCHANGED <<poolVars, where, ranWith, outcome, config, promptVars>>

-----------------------------------------------------------------------------
(* Giving the container back                                               *)

Return(d) ==
  /\ Moves(d, "closing", "done")
  /\ \/ /\ ReturnUnknown(where[d]) \/ ReturnIdle(where[d])
        /\ UNCHANGED <<work, env>>
     \/ /\ ReturnReplaced(where[d])
        /\ work' = WorkAfterLosing(where[d])
        /\ env' = [env EXCEPT ![SlotOf(d)] = NotStarted]
     \/ \E removed \in BOOLEAN :
          /\ ReturnNotReplaced(where[d], removed)
          /\ work' = IF removed THEN WorkAfterLosing(where[d]) ELSE work
          /\ env' = env
  /\ UNCHANGED <<where, cancels, ranWith, outcome, config, ranPrompt>>

PoolShutdown ==
  /\ \E remaining \in SUBSET Slots :
       /\ Shutdown(remaining)
       /\ work' = [d \in Dispatches |->
            IF work[d] # "none" /\ SlotOf(d) \notin remaining THEN "lost" ELSE work[d]]
  /\ UNCHANGED <<pc, where, cancels, ranWith, outcome, config, promptVars>>

-----------------------------------------------------------------------------
Arrive(d) ==
  \E seen \in DaemonAnswers :
    \/ \E s \in Slots : Checkout(d, s, seen) \/ CheckoutFails(d, s, seen)
    \/ Refused(d, seen)

(* What the dispatch does by itself once it is under way.                  *)
Proceed(d) ==
  \/ Ready(d)
  \/ SendAnswered(d) \/ SendCompletes(d) \/ SendFails(d)
  \/ PollSeesEnd(d) \/ PollGivesUp(d)
  \/ CancelTaskReturns(d)
  \/ Return(d)

Cancel(d) ==
  CancelAbandons(d) \/ CancelSend(d) \/ CancelPoll(d) \/ CancelDuringCancel(d)

Next ==
  \/ \E d \in Dispatches :
       Arrive(d) \/ Proceed(d) \/ Cancel(d) \/ WorkerAccepts(d) \/ WorkerFinishes(d)
  \/ \E s \in Slots : WorkerStarts(s) \/ ContainerDies(s)
  \/ PoolShutdown

Spec == Init /\ [][Next]_vars

(* Every await of a dispatch ends: the readiness poll is bounded, the HTTP  *)
(* client and poll_task have deadlines.  Nothing is assumed of callers,    *)
(* workers, cancellations and the daemon.                                  *)
FairSpec == Spec /\ \A d \in Dispatches : WF_vars(Proceed(d))

-----------------------------------------------------------------------------
(* Properties                                                              *)

(* No container is lent twice: two calls of invoke that are inside their   *)
(* checkout-to-return section never work in the same container, whatever   *)
(* cancellations, timeouts, recyclings, deaths and shutdown do in between. *)
ExclusiveLease ==
  \A d, e \in Dispatches : Holds(d) /\ Holds(e) /\ d # e => where[d] # where[e]

(* The pool agrees with the dispatch: as long as invoke holds a container, *)
(* the pool's entry for that very container id is BUSY and assigned to the *)
(* dispatch's task, until shutdown drops all entries.  So the entry is not *)
(* marked DEAD by another checkout's scan, nor recycled under its user.    *)
LeaseBacked ==
  \A d \in Dispatches : Holds(d) =>
    LET entry == pool[SlotOf(d)]
    IN  \/ entry.state = "absent"
        \/ /\ entry.state = "busy"
           /\ entry.gen = where[d][2]
           /\ entry.task = TaskOf[d]

(* Who answers for slot s being BUSY: its user, or a dispatch that was cut *)
(* off before return_container.                                            *)
Answers(d, s) ==
  /\ where[d] = <<s, pool[s].gen>>
  /\ Holds(d) \/ pc[d] = "abandoned"

(* A BUSY entry is never an accounting error: exactly one dispatch answers *)
(* for it.  The pool loses a container only with a dispatch that was cut   *)
(* off in checkout or in the finally block's client.close.                 *)
BusyAccounted ==
  \A s \in Slots : pool[s].state = "busy" =>
    \E d \in Dispatches :
      /\ Answers(d, s)
      /\ \A e \in Dispatches : Answers(e, s) => e = d

(* Whose system prompt the dispatch's message is meant to run with.        *)
OwnPrompt(d) == IF d \in Prompting THEN d ELSE Nobody

(* The prompt of an earlier user of the container, or of one that the      *)
(* container has replaced.                                                 *)
LeftoverPrompt(d) ==
  \E p \in Prompting \ {d} : ranPrompt[d] = p /\ SlotOf(p) = SlotOf(d)

(* invoke reports success only for a message that its worker ran with the  *)
(* config.json that this dispatch's checkout wrote, not with that of the   *)
(* previous or the next user of the container.  A card's own system prompt *)
(* is in force, too; a card without one may have run with that of an       *)
(* earlier user of the slot, which reload_config does not take out of the  *)
(* environment.                                                            *)
SuccessIsOwnWork ==
  \A d \in Dispatches : outcome[d] = "success" =>
    /\ ranWith[d] = d
    /\ ranPrompt[d] = OwnPrompt(d) \/ (d \notin Prompting /\ LeftoverPrompt(d))

(* The pool with its dispatches implements the abstract lender.            *)
L == INSTANCE Lease WITH
       Clients <- Dispatches,
       open <- \E s \in Slots : pool[s].state # "absent",
       lent <- {s \in Slots : pool[s].state = "busy"},
       holds <- {p \in Dispatches \X Slots : Holds(p[1]) /\ SlotOf(p[1]) = p[2]}

(* Every step of the code is a loan, a return, an abandoned loan, the      *)
(* closing of the pool, or invisible to the borrowers.                     *)
LeaseSpec == L!Spec

Abandoned(s) == \E d \in Dispatches : Answers(d, s) /\ pc[d] = "abandoned"

(* A BUSY container comes back to the pool, or was abandoned by a dispatch *)
(* that was cut off: no await of invoke keeps a container for ever.        *)
ContainerComesBack ==
  \A s \in Slots :
    pool[s].state = "busy" ~> pool[s].state # "busy" \/ Abandoned(s)
=============================================================================
