------------------------------ MODULE ChatTasks ------------------------------
(***************************************************************************)
(* The life of chat tasks: POST /api/chat and its background orchestration *)
(* (src/api/routes.py), the gateway's direct chat with one agent           *)
(* (src/gateway/routes.py), the task manager's status changes              *)
(* (src/task_manager/manager.py), their saves in worker threads            *)
(* (src/storage/sqlite_store.py), the WebSocket's cancel, the resolver's   *)
(* fallback (src/orchestrator/resolver.py), and a restart of the process.  *)
(*                                                                         *)
(* A request creates at most one task, which has its name here.  pc stands *)
(* at the await where the request, later its orchestration, is suspended:  *)
(*   "new"             not received                                        *)
(*   "opening"         in the session service                              *)
(*   "creating"        in create_task's save                               *)
(*   "starting"        in the event of status RUNNING                      *)
(*   "accepting"       in the save of status RUNNING                       *)
(*   "queued"          accepted; the orchestration waits for its tenant    *)
(*   "delegating"      in the external orchestrator                        *)
(*   "orchestrating"   in a built-in orchestrator                          *)
(*   "completing"      in the event of status COMPLETED                    *)
(*   "storing"         in update_status's save of status COMPLETED         *)
(*   "storing_again"   in complete_task's own save                         *)
(*   "failing"         in the event of status FAILED                       *)
(*   "storing_failure" in the save of status FAILED                        *)
(*   "reporting"       in the last event                                   *)
(*   "unwinding"       cancelled, its CancelledError is under way          *)
(* A direct chat is, instead of "queued" to "orchestrating", and instead   *)
(* of "reporting",                                                         *)
(*   "announcing"      in the session's event that it is dispatched        *)
(*   "dispatching"     in the Dispatcher                                   *)
(*   "telling"         in the last event and the session's event of its    *)
(*                     success,                                            *)
(*   "telling_failure" or of its failure                                   *)
(* or it is over: "replayed" (answered with an earlier task), "refused"    *)
(* (answered with an error), "ended", "raised" (an exception left the      *)
(* orchestration), "cancelled", "gone" (its process has crashed).          *)
(***************************************************************************)
EXTENDS Naturals, FiniteSets

CONSTANTS
  Requests,     (* POST /api/chat calls, or /invoke calls with a session   *)
  KeyOf,        (* their Idempotency-Key, or NoKey                         *)
  NoKey,
  TenantOf,     (* their tenant                                            *)
  TenantLimit,  (* DEFAULT_TENANT_MAX_CONCURRENT                           *)
  Delegating,   (* the provider is external, with fallback to the built-in *)
  Cancellable,  (* bound: the requests whose task a WebSocket cancels      *)
  Direct,       (* bound: those that may be direct chats                   *)
  Faults,       (* the faults a run explores: "disk", "crash"              *)
  NoTask        (* no task                                                 *)

ASSUME ChatAssumption ==
  /\ TenantLimit \in Nat \ {0}
  /\ Delegating \in BOOLEAN
  /\ NoTask \notin Requests
  /\ Direct \subseteq Requests
  /\ Faults \subseteq {"disk", "crash"}

VARIABLES
  pc,           (* where the request or its orchestration is               *)
  canceller,    (* where the WebSocket's cancel of the task is             *)
  status,       (* the task in the manager's memory                        *)
  stored,       (* its row in the database                                 *)
  saving,       (* per task and saver: the status a thread is to write     *)
  index,        (* idempotency key -> task                                 *)
  builtin,      (* the built-in orchestrator the resolver points at        *)
  runsOn,       (* the built-in orchestrator a task runs on                *)
  direct,       (* the requests that are direct chats                      *)
  handled,      (* direct chats that are in their except branch            *)
  heard,        (* the end of a direct chat that its session has heard of  *)
  crashed       (* bound: the process crashes once                         *)

directVars == <<direct, handled, heard>>

vars == <<pc, canceller, status, stored, saving, index, builtin, runsOn,
          directVars, crashed>>

Registered == {"queued", "delegating", "orchestrating", "completing", "storing",
               "storing_again", "failing", "storing_failure", "reporting"}
Over == {"replayed", "refused", "ended", "raised", "cancelled", "gone"}
Points == {"new", "opening", "creating", "starting", "accepting", "unwinding",
           "announcing", "dispatching", "telling", "telling_failure"}
            \cup Registered \cup Over
Statuses == {"created", "running", "completed", "failed", "cancelled"}
Savers == {"own", "cancel"}
Keys == {KeyOf[r] : r \in Requests} \ {NoKey}

TypeOK ==
  /\ pc \in [Requests -> Points]
  /\ canceller \in [Requests -> {"none", "emitting", "saving", "over"}]
  /\ status \in [Requests -> Statuses \cup {"absent"}]
  /\ stored \in [Requests -> Statuses \cup {"absent"}]
  /\ saving \in [Requests -> [Savers -> Statuses \cup {"none"}]]
  /\ index \in [Keys -> Requests \cup {NoTask}]
  /\ builtin \in Requests \cup {NoTask}
  /\ runsOn \in [Requests -> Requests \cup {NoTask}]
  /\ direct \in SUBSET Direct
  /\ handled \in SUBSET Requests
  /\ heard \in [Requests -> {"nothing", "success", "failure"}]
  /\ crashed \in BOOLEAN

Init ==
  /\ pc = [r \in Requests |-> "new"]
  /\ canceller = [r \in Requests |-> "none"]
  /\ status = [r \in Requests |-> "absent"]
  /\ stored = [r \in Requests |-> "absent"]
  /\ saving = [r \in Requests |-> [w \in Savers |-> "none"]]
  /\ index = [k \in Keys |-> NoTask]
  /\ builtin = NoTask
  /\ runsOn = [r \in Requests |-> NoTask]
  /\ direct = {}
  /\ handled = {}
  /\ heard = [r \in Requests |-> "nothing"]
  /\ crashed = FALSE

-----------------------------------------------------------------------------
Moves(r, from, to) ==
  /\ pc[r] = from
  /\ pc' = [pc EXCEPT ![r] = to]

SetStatus(r, s) == status' = [status EXCEPT ![r] = s]

(* asyncio.to_thread(save_task): a thread is to write the row.             *)
Save(r, saver, s) == saving' = [saving EXCEPT ![r][saver] = s]

Saved(r, saver) == saving[r][saver] = "none"

(* Mutant: a cancelled orchestration keeps its permit.                     *)
MutInFlight(tenant) ==
  {r \in Requests \ direct :
                    /\ TenantOf[r] = tenant
                    /\ pc[r] \in (Registered \ {"queued"}) \cup {"unwinding", "cancelled"}}

(* The orchestrations inside "async with sem".                             *)
InFlight(tenant) ==
  {r \in Requests \ direct :
     TenantOf[r] = tenant /\ pc[r] \in (Registered \ {"queued"}) \cup {"unwinding"}}

-----------------------------------------------------------------------------
(* The request                                                             *)

HasTask(r) ==
  /\ KeyOf[r] # NoKey
  /\ index[KeyOf[r]] # NoTask
  /\ status[index[KeyOf[r]]] # "absent"

(* A key that is known is answered with its task.                          *)
Replay(r) ==
  /\ HasTask(r)
  /\ Moves(r, "new", "replayed")
  /\ UNCHANGED <<canceller, status, stored, saving, index, builtin, runsOn, directVars, crashed>>

Receive(r) ==
  /\ ~HasTask(r)
  /\ Moves(r, "new", "opening")
  /\ UNCHANGED <<canceller, status, stored, saving, index, builtin, runsOn, directVars, crashed>>

(* /invoke with a session: a direct chat, which has no key.                *)
ReceiveDirect(r) ==
  /\ r \in Direct
  /\ Moves(r, "new", "opening")
  /\ direct' = direct \cup {r}
  /\ UNCHANGED <<canceller, status, stored, saving, index, builtin, runsOn, handled, heard, crashed>>

(* The session is there, or its database fails.  create_task puts the task *)
(* into memory and saves it.                                               *)
CreateTask(r) ==
  /\ Moves(r, "opening", "creating")
  /\ SetStatus(r, "created")
  /\ Save(r, "own", "created")
  /\ UNCHANGED <<canceller, stored, index, builtin, runsOn, directVars, crashed>>

SessionFails(r) ==
  /\ "disk" \in Faults
  /\ Moves(r, "opening", "refused")
  /\ UNCHANGED <<canceller, status, stored, saving, index, builtin, runsOn, directVars, crashed>>

(* Mutant: the key is not recorded.                                        *)
MutStart(r) ==
  /\ Saved(r, "own")
  /\ Moves(r, "creating", "starting")
  /\ SetStatus(r, "running")
  /\ UNCHANGED <<canceller, stored, saving, index, builtin, runsOn, directVars, crashed>>

(* The idempotency key is recorded, and the task set RUNNING.  A direct    *)
(* chat records none.                                                      *)
Start(r) ==
  /\ Saved(r, "own")
  /\ Moves(r, "creating", "starting")
  /\ SetStatus(r, "running")
  /\ index' = [k \in Keys |-> IF k = KeyOf[r] /\ r \notin direct THEN r ELSE index[k]]
  /\ UNCHANGED <<canceller, stored, saving, builtin, runsOn, directVars, crashed>>

SaveRunning(r) ==
  /\ Moves(r, "starting", "accepting")
  /\ Save(r, "own", "running")
  /\ UNCHANGED <<canceller, status, stored, index, builtin, runsOn, directVars, crashed>>

(* The orchestration is created and registered, or a direct chat created   *)
(* and not registered; the request is answered.                            *)
Accept(r) ==
  /\ Saved(r, "own")
  /\ Moves(r, "accepting", IF r \in direct THEN "announcing" ELSE "queued")
  /\ UNCHANGED <<canceller, status, stored, saving, index, builtin, runsOn, directVars, crashed>>

-----------------------------------------------------------------------------
(* The orchestration                                                       *)

(* It has a permit of its tenant, copies the orchestrator and points the   *)
(* resolver at the copy.                                                   *)
Begin(r) ==
  /\ Cardinality(InFlight(TenantOf[r])) < TenantLimit
  /\ Moves(r, "queued", IF Delegating THEN "delegating" ELSE "orchestrating")
  /\ builtin' = r
  /\ runsOn' = [runsOn EXCEPT ![r] = IF Delegating THEN NoTask ELSE r]
  /\ UNCHANGED <<canceller, status, stored, saving, index, directVars, crashed>>

(* The external orchestrator fails: the resolver runs the built-in         *)
(* orchestrator it points at by now.                                       *)
FallBack(r) ==
  /\ Moves(r, "delegating", "orchestrating")
  /\ runsOn' = [runsOn EXCEPT ![r] = builtin]
  /\ UNCHANGED <<canceller, status, stored, saving, index, builtin, directVars, crashed>>

(* execute returns, or dispatch does with a success: complete_task,        *)
(* update_status.                                                          *)
Completes(r) ==
  /\ pc[r] \in {"delegating", "orchestrating", "dispatching"}
  /\ pc' = [pc EXCEPT ![r] = "completing"]
  /\ SetStatus(r, "completed")
  /\ UNCHANGED <<canceller, stored, saving, index, builtin, runsOn, directVars, crashed>>

(* execute raises, or the saving of the session after it: the dead letter  *)
(* is recorded; fail_task, update_status.  The same for a direct chat that *)
(* dispatch returns a failure of.                                          *)
Fails(r) ==
  /\ \/ Moves(r, "orchestrating", "failing") \/ Moves(r, "dispatching", "failing")
     \/ "disk" \in Faults /\ Moves(r, "delegating", "failing")
  /\ SetStatus(r, "failed")
  /\ UNCHANGED <<canceller, stored, saving, index, builtin, runsOn, directVars, crashed>>

(* Saving the session raises in the except branch, too: the exception      *)
(* leaves the orchestration, and its task as it is.                        *)
SessionSaveRaises(r) ==
  /\ "disk" \in Faults
  /\ pc[r] \in {"delegating", "orchestrating"}
  /\ pc' = [pc EXCEPT ![r] = "raised"]
  /\ UNCHANGED <<canceller, status, stored, saving, index, builtin, runsOn, directVars, crashed>>

SaveCompleted(r) ==
  /\ \/ Moves(r, "completing", "storing")
     \/ /\ Saved(r, "own")
        /\ Moves(r, "storing", "storing_again")
  /\ Save(r, "own", "completed")
  /\ UNCHANGED <<canceller, status, stored, index, builtin, runsOn, directVars, crashed>>

(* Mutant: the row gets the status the task had before.                    *)
MutSaveFailed(r) ==
  /\ Moves(r, "failing", "storing_failure")
  /\ Save(r, "own", "running")
  /\ UNCHANGED <<canceller, status, stored, index, builtin, runsOn, directVars, crashed>>

SaveFailed(r) ==
  /\ Moves(r, "failing", "storing_failure")
  /\ Save(r, "own", "failed")
  /\ UNCHANGED <<canceller, status, stored, index, builtin, runsOn, directVars, crashed>>

Report(r) ==
  /\ Saved(r, "own")
  /\ \/ Moves(r, "storing_again", IF r \in direct THEN "telling" ELSE "reporting")
     \/ Moves(r, "storing_failure", IF r \in direct THEN "telling_failure" ELSE "reporting")
  /\ UNCHANGED <<canceller, status, stored, saving, index, builtin, runsOn, directVars, crashed>>

(* The permit goes back, the done callback unregisters the orchestration.  *)
End(r) ==
  /\ Moves(r, "reporting", "ended")
  /\ UNCHANGED <<canceller, status, stored, saving, index, builtin, runsOn, directVars, crashed>>

-----------------------------------------------------------------------------
(* The direct chat, run_direct                                             *)

Announce(r) ==
  /\ Moves(r, "announcing", "dispatching")
  /\ UNCHANGED <<canceller, status, stored, saving, index, builtin, runsOn, directVars, crashed>>

(* The session is told how the chat ended.                                 *)
Tell(r) ==
  /\ \/ /\ Moves(r, "telling", "ended")
        /\ heard' = [heard EXCEPT ![r] = "success"]
     \/ /\ Moves(r, "telling_failure", "ended")
        /\ heard' = [heard EXCEPT ![r] = "failure"]
  /\ UNCHANGED <<canceller, status, stored, saving, index, builtin, runsOn, direct, handled, crashed>>

(* Mutant: the except branch tells the session only.                       *)
MutDirectRaises(r) ==
  /\ \/ pc[r] = "dispatching"
     \/ "disk" \in Faults /\ pc[r] \in {"announcing", "telling", "telling_failure"}
  /\ r \notin handled
  /\ pc' = [pc EXCEPT ![r] = "telling_failure"]
  /\ handled' = handled \cup {r}
  /\ UNCHANGED <<canceller, status, stored, saving, index, builtin, runsOn, direct, heard, crashed>>

(* append_event raises, or dispatch does, in the try block: fail_task,     *)
(* whatever the task's status is by now.                                   *)
DirectRaises(r) ==
  /\ \/ pc[r] = "dispatching"
     \/ "disk" \in Faults /\ pc[r] \in {"announcing", "telling", "telling_failure"}
  /\ r \notin handled
  /\ pc' = [pc EXCEPT ![r] = "failing"]
  /\ SetStatus(r, "failed")
  /\ handled' = handled \cup {r}
  /\ UNCHANGED <<canceller, stored, saving, index, builtin, runsOn, direct, heard, crashed>>

(* append_event raises in the except branch.                               *)
TellingRaises(r) ==
  /\ "disk" \in Faults
  /\ r \in handled
  /\ Moves(r, "telling_failure", "raised")
  /\ UNCHANGED <<canceller, status, stored, saving, index, builtin, runsOn, directVars, crashed>>

-----------------------------------------------------------------------------
(* The threads                                                             *)

SaveLands(r, saver) ==
  /\ ~Saved(r, saver)
  /\ stored' = [stored EXCEPT ![r] = saving[r][saver]]
  /\ Save(r, saver, "none")
  /\ UNCHANGED <<pc, canceller, status, index, builtin, runsOn, directVars, crashed>>

(* The database is locked, or the disk is full: save_task raises.  Who     *)
(* waits for it gets the exception: a request is answered with an error,   *)
(* the try block of an orchestration or of a direct chat goes on in its    *)
(* except branch, which fails the task (an orchestration's unless saving   *)
(* its session raises, too), and an except branch ends.                    *)
SaveRaises(r) ==
  /\ "disk" \in Faults
  /\ ~Saved(r, "own")
  /\ Save(r, "own", "none")
  /\ \/ /\ Moves(r, "creating", "refused") \/ Moves(r, "accepting", "refused")
        /\ UNCHANGED <<status, handled>>
     \/ /\ pc[r] \in {"storing", "storing_again"}
        /\ pc' = [pc EXCEPT ![r] = "failing"]
        /\ SetStatus(r, "failed")
        /\ handled' = handled \cup ({r} \cap direct)
     \/ /\ r \notin direct
        /\ Moves(r, "storing", "raised") \/ Moves(r, "storing_again", "raised")
        /\ UNCHANGED <<status, handled>>
     \/ /\ r \in direct \ handled
        /\ Moves(r, "storing_failure", "failing")
        /\ SetStatus(r, "failed")
        /\ handled' = handled \cup {r}
     \/ /\ r \notin direct \ handled
        /\ Moves(r, "storing_failure", "raised")
        /\ UNCHANGED <<status, handled>>
     \/ /\ pc[r] \in {"unwinding", "cancelled"}
        /\ UNCHANGED <<pc, status, handled>>
  /\ UNCHANGED <<canceller, stored, index, builtin, runsOn, direct, heard, crashed>>

-----------------------------------------------------------------------------
(* The WebSocket's cancel                                                  *)

(* Mutant: the orchestration is cancelled, and its task left as it is.     *)
MutCancel(r) ==
  /\ r \in Cancellable
  /\ canceller[r] = "none"
  /\ status[r] # "absent"
  /\ pc[r] \in Registered /\ r \notin direct
  /\ pc' = [pc EXCEPT ![r] = IF @ = "queued" THEN "cancelled" ELSE "unwinding"]
  /\ canceller' = [canceller EXCEPT ![r] = "emitting"]
  /\ UNCHANGED <<status, stored, saving, index, builtin, runsOn, directVars, crashed>>

(* cancel_running cancels an orchestration that is registered.  The thread *)
(* it may be waiting for is not stopped, unless it has not begun.  A       *)
(* direct chat goes on.  The task is set CANCELLED whatever its status is. *)
Cancel(r) ==
  /\ r \in Cancellable
  /\ canceller[r] = "none"
  /\ status[r] # "absent"
  /\ \/ /\ pc[r] \in Registered /\ r \notin direct
        /\ pc' = [pc EXCEPT ![r] = IF @ = "queued" THEN "cancelled" ELSE "unwinding"]
        /\ UNCHANGED saving \/ Save(r, "own", "none")
     \/ /\ pc[r] \notin Registered \/ r \in direct
        /\ UNCHANGED <<pc, saving>>
  /\ canceller' = [canceller EXCEPT ![r] = "emitting"]
  /\ SetStatus(r, "cancelled")
  /\ UNCHANGED <<stored, index, builtin, runsOn, directVars, crashed>>

(* Mutant: the status is spelled as the worker protocol spells it.         *)
MutSaveCancelled(r) ==
  /\ canceller[r] = "emitting"
  /\ canceller' = [canceller EXCEPT ![r] = "saving"]
  /\ Save(r, "cancel", "canceled")
  /\ UNCHANGED <<pc, status, stored, index, builtin, runsOn, directVars, crashed>>

SaveCancelled(r) ==
  /\ canceller[r] = "emitting"
  /\ canceller' = [canceller EXCEPT ![r] = "saving"]
  /\ Save(r, "cancel", "cancelled")
  /\ UNCHANGED <<pc, status, stored, index, builtin, runsOn, directVars, crashed>>

CancelEnds(r) ==
  /\ canceller[r] = "saving"
  /\ Saved(r, "cancel")
  /\ canceller' = [canceller EXCEPT ![r] = "over"]
  /\ UNCHANGED <<pc, status, stored, saving, index, builtin, runsOn, directVars, crashed>>

(* The save of status CANCELLED raises.                                    *)
CancelRaises(r) ==
  /\ "disk" \in Faults
  /\ ~Saved(r, "cancel")
  /\ Save(r, "cancel", "none")
  /\ canceller' = [canceller EXCEPT ![r] = "over"]
  /\ UNCHANGED <<pc, status, stored, index, builtin, runsOn, directVars, crashed>>

(* Mutant: the cancellation is handled like an error.                      *)
MutUnwound(r) ==
  /\ Moves(r, "unwinding", "failing")
  /\ SetStatus(r, "failed")
  /\ UNCHANGED <<canceller, stored, saving, index, builtin, runsOn, directVars, crashed>>

(* CancelledError has left the orchestration, which has no handler for it. *)
Unwound(r) ==
  /\ Moves(r, "unwinding", "cancelled")
  /\ UNCHANGED <<canceller, status, stored, saving, index, builtin, runsOn, directVars, crashed>>

-----------------------------------------------------------------------------
(* A restart                                                               *)

(* Everything in memory is gone: tasks, index, requests, threads.          *)
Crash ==
  /\ "crash" \in Faults
  /\ ~crashed
  /\ crashed' = TRUE
  /\ pc' = [r \in Requests |-> IF pc[r] = "new" THEN "new" ELSE "gone"]
  /\ canceller' = [r \in Requests |-> IF canceller[r] = "none" THEN "none" ELSE "over"]
  /\ status' = [r \in Requests |-> "absent"]
  /\ saving' = [r \in Requests |-> [w \in Savers |-> "none"]]
  /\ index' = [k \in Keys |-> NoTask]
  /\ builtin' = NoTask
  /\ runsOn' = [r \in Requests |-> NoTask]
  /\ handled' = {}
  /\ UNCHANGED <<stored, direct, heard>>

(* get_task of a task that is not in memory restores it from its row.      *)
Restore(r) ==
  /\ status[r] = "absent"
  /\ stored[r] # "absent"
  /\ SetStatus(r, stored[r])
  /\ UNCHANGED <<pc, canceller, stored, saving, index, builtin, runsOn, directVars, crashed>>

-----------------------------------------------------------------------------
(* What a request and its orchestration do once they are under way.        *)
Proceed(r) ==
  \/ CreateTask(r) \/ SessionFails(r) \/ Start(r) \/ SaveRunning(r) \/ Accept(r)
  \/ Begin(r) \/ FallBack(r) \/ Completes(r) \/ Fails(r)
  \/ SaveCompleted(r) \/ SaveFailed(r) \/ Report(r) \/ End(r) \/ Unwound(r)
  \/ Announce(r) \/ Tell(r)

Next ==
  \/ \E r \in Requests :
       \/ Replay(r) \/ Receive(r) \/ ReceiveDirect(r) \/ Proceed(r)
       \/ DirectRaises(r) \/ TellingRaises(r)
       \/ SessionSaveRaises(r) \/ SaveRaises(r) \/ Restore(r)
       \/ Cancel(r) \/ SaveCancelled(r) \/ CancelEnds(r) \/ CancelRaises(r)
       \/ \E w \in Savers : SaveLands(r, w)
  \/ Crash

Spec == Init /\ [][Next]_vars

(* Every await of a request and of its orchestration ends: events are sent *)
(* or dropped, orchestrators have timeouts and at most 25 rounds, threads  *)
(* end.  Nothing is assumed of clients and of restarts.                    *)
FairSpec ==
  /\ Spec
  /\ \A r \in Requests : WF_vars(Proceed(r)) /\ WF_vars(SaveLands(r, "own"))

-----------------------------------------------------------------------------
(* Properties                                                              *)

Working == {"starting", "accepting", "queued", "delegating", "orchestrating",
            "announcing", "dispatching"}

(* A task that is shown RUNNING is being worked on: whatever cancels, saves*)
(* and failures come in between, no request or orchestration goes away and *)
(* leaves its task RUNNING, but one whose save raised before it was        *)
(* accepted, one that could not save its session, and one that a restart   *)
(* has cut off.                                                            *)
RunningIsAlive ==
  \A r \in Requests : status[r] = "running" =>
    pc[r] \in Working \cup {"refused", "raised", "gone"}

Stopped(r) == pc[r] \in {"unwinding", "cancelled"}

(* Cancellation is final: once the orchestration of a task was cancelled,  *)
(* its task is CANCELLED and no late completion or failure changes that,   *)
(* until the process restarts.                                             *)
CancelSticks ==
  [][\A r \in Requests :
       Stopped(r) \/ Stopped(r)' => status'[r] \in {"cancelled", "absent"}]_vars

(* Write-through: when an orchestration has ended and nobody cancelled its *)
(* task, the row says what the memory says, so a restart loses nothing.    *)
EndedIsStored ==
  \A r \in Requests : pc[r] = "ended" /\ canceller[r] = "none" =>
    status[r] \in {"completed", "failed"} /\ stored[r] = status[r]

Accepted(r) ==
  r \notin direct /\ pc[r] \in Registered \cup {"unwinding", "ended", "raised", "cancelled"}

(* Idempotency, for a client that repeats its request after the answer: a  *)
(* request is not received as a new one once another one with its key was  *)
(* accepted, until the process restarts.                                   *)
RepeatsAreReplayed ==
  [][\A q, r \in Requests :
       KeyOf[q] = KeyOf[r] /\ KeyOf[r] # NoKey /\ Accepted(q) =>
         ~(pc[r] = "new" /\ pc'[r] = "opening" /\ r \notin direct')]_vars

(* An accepted task ends: the queue of its tenant moves on, also when the  *)
(* orchestrations before it are cancelled or cannot save, and a direct     *)
(* chat's exception branch is entered once.                                *)
AcceptedTaskEnds == \A r \in Requests : pc[r] \in {"queued", "announcing"} ~> pc[r] \in Over

(* What a session hears of a direct chat agrees with its task: it never    *)
(* hears a success of a task that is, or is found after a restart, failed, *)
(* and when the chat has ended and nobody cancelled its task, it has heard *)
(* of that end, whatever saves and events failed on the way.               *)
SessionAgrees ==
  \A r \in direct :
    /\ heard[r] = "success" => status[r] # "failed" /\ stored[r] # "failed"
    /\ pc[r] = "ended" /\ canceller[r] = "none" =>
         heard[r] = IF status[r] = "completed" THEN "success" ELSE "failure"

-----------------------------------------------------------------------------
(* What the code says of itself and does not do                            *)

(* src/api/routes.py:166: per-request mutable state of the orchestrator is *)
(* isolated.                                                               *)
OrchestratorsAreIsolated ==
  \A q, r \in Requests :
    q # r /\ pc[q] = "orchestrating" /\ pc[r] = "orchestrating" => runsOn[q] # runsOn[r]
=============================================================================
