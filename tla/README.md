# A verification of agent-swarm's core

agent-swarm takes a user's task, lets an orchestrator split it, and dispatches the
parts to agents: warm docker worker containers, or external agents that register
over HTTP.  Everything runs in one asyncio event loop (plus threads for database
writes), so what is hard about it is not parallelism but *interleaving at awaits*:
a task is cancelled in the middle of a checkout, a result arrives after its
circuit breaker opened, a message reaches a worker after its sender has given up.
The modules here model that: an action is the code between two awaits, and the
model checker tries every order of them.

Paths in this file are relative to the repository (`src/...` of it is
`src/src/...` in `PROJECT.json`).

## Inventory

| Component | State | Operations | What is hard | Correct when |
|---|---|---|---|---|
| Container pool `container_pool/pool.py` | dict of entries (id, state, task, use count), one asyncio lock | startup, checkout, return_container, recycle, shutdown | containers die, the daemon fails, entries are replaced under their users | one user per container; a BUSY entry has somebody who returns it |
| Docker backend `dispatcher/backends.py` | one invoke per dispatch: container, worker task id | checkout, send, poll, cancel, return | cancellation at every await, in the finally block too | the container always comes back; a success is the dispatch's own work |
| A2A client `common/a2a_client.py` | none but its HTTP client | send_message, get_task, poll_task, cancel_task | a lost answer is not a lost message | its caller is never held for ever |
| Worker `agents/worker.py`, `agents/agent_loop.py` | tasks in memory, mounted `config.json`, the role as a global, the system prompt in the environment, the rest of it per request | send, get, list, cancel, run, clean up | reloads its configuration per request, works on after its client left | files land where they belong; a task's end is final, told truly, and not forgotten too early |
| Circuit breaker `resilience/circuit_breaker.py` | state, window of results, opening time, successes | allow, call, record_success, record_failure, state | late results of calls admitted in another state | opens at the threshold, closes on earned successes, recovers |
| Gateway `gateway/routes.py` | a breaker per agent, adapters, direct chats under way | invoke, direct chat, register, heartbeat, deregister | concurrent invokes through one breaker; a direct chat's exception branch runs after its task has ended | rejects what fails, lets in what has recovered; session and task agree |
| Dispatcher `dispatcher/dispatcher.py`, `result_cache.py` | semaphore, a breaker per target, result cache | dispatch: resolve, health check, try, fail over, degrade | timeouts and cancellations racing answers; the permit queue | no permit lost; every dispatch ends; a degraded result is genuine |
| Registry `registry/` | Redis: agent records and skill and endpoint indexes with TTLs | register, heartbeat, deregister, find, sweep | several Redis round trips per operation, key expiry in between | indexes and records agree; one agent per endpoint |
| Session service `session/` | a row of SQLite per session, a lock per session | get_or_create_with_id, append_event, update_state | read-modify-write around awaits, threads that outlive their callers | no event is lost; no lock stays taken |
| Task manager `task_manager/manager.py`, `storage/` | tasks in memory, SQLite through threads | create, update_status, complete, fail, load | saves overtake one another; restart | the database converges to the memory; a final status is final |
| Chat API `api/routes.py`, `api/websocket.py` | running tasks, idempotency keys, per-tenant counts | chat, cancel, WebSocket | check-then-act around awaits | a repeat is answered with its task; the limit holds |
| Orchestrator, resolver `orchestrator/` | messages, what was dispatched, current task fields | execute: LLM calls, tool calls, dispatch, review, finalize | a session's list shared by reference, cut-offs in tools, one built-in instance shared by fallbacks | turns are remembered, histories stay valid, the loop ends, tasks do not mix |
| Adapters, SDK, dead letters, metrics, configuration, web pages | - | - | - | see `PROJECT.json` for why they are left out |

They interact by calls: API -> task manager -> resolver -> orchestrator ->
Dispatcher -> backends -> (pool, A2A client -> worker); Gateway -> breaker ->
adapter -> agent; Gateway -> task manager -> Dispatcher for a direct chat;
cancellation runs down the same
chain as an exception.  The shared state is what the table names.

## The modules

| Module | Models | Composed of |
|---|---|---|
| `Lease` | the abstract lender: what a pool promises | |
| `ContainerPool` | the pool's operations on entries, as action fragments | |
| `RemoteTask` | the abstract worker: what a sender may rely on | |
| `Worker` | the worker process: its requests, runs, clean-up, and the config the pool rewrites under it | implements `RemoteTask` |
| `DockerDispatch` | concurrent `DockerBackend.invoke`s, their workers, cancellation, deaths, shutdown | EXTENDS `ContainerPool`; implements `Lease` |
| `Breaker` | the circuit breaker as a value and its methods as operators | |
| `InvokeBreaker` | concurrent requests of the thin `/invoke` through one breaker | EXTENDS `Breaker` |
| `Dispatcher` | concurrent `Dispatcher.dispatch`es: health checks, semaphore, breakers, cache, failover | EXTENDS `Breaker` |
| `ChatTasks` | `POST /api/chat` from the idempotency key to the saved result, the gateway's direct chat, the WebSocket's cancel, restarts | |
| `AgentRegistry` | the registry's operations as Redis commands, the health sweep, expiring keys | |
| `SessionLog` | the abstract session: calls that take effect at once or not at all | |
| `SessionService` | concurrent calls on one session: its lock, its row, and the threads that save it | implements `SessionLog`, by proof, up to a save outside the lock |
| `Orchestrator` | concurrent `execute`s of one session: the loop of LLM and tool calls, the review, the message list they share | |
| `*Proofs` | the theorems about the module of that name (`BreakerProofs`: about `InvokeBreaker`) | EXTENDS it |
| `MC*` | the instances TLC checks | |

### ContainerPool and DockerDispatch

A container is `<<slot, gen>>`: `swarm-worker-<slot>`, and the number of times it
was replaced by recycling.  `checkout` scans the dict in insertion order
(`precedes`), asks the daemon about every idle entry, marks those that do not run
DEAD and takes the first that runs; the scan and the writing of `config.json` hold
the pool's lock and never await, so `Checkout` is one action.  After that come, an
action each, the readiness poll, the POST, polling (`Streaming` dispatches),
`client.close`, and `return_container` with its two kinds of recycling (the new
container could be spawned or not).  `CancelAbandons`, `CancelSend`, `CancelPoll`
and `CancelDuringCancel` are a CancelledError at each of those awaits; the first
is the one that skips `return_container`.  `work[d]` is the message at its worker,
which outlives the interest of its sender: `WorkerAccepts` loads whatever
`config.json` is mounted at that moment.  A container whose entry is gone or
replaced is not reachable.

A worker has its system prompt from its process's environment (`env`): the
entrypoint exports the prompt of the first `config.json` (`WorkerStarts`), and
`reload_config` sets it again only when the file has one (`PromptAfterReload`), which
the pool writes for the cards that have one (`Prompting`).  So a prompt stays in force
until the next card with a prompt, or the next container; and a container that recycling
has put in place of another finds that one's `config.json` when it starts.
`SuccessIsOwnWork` says what holds in spite of it: the configuration of a success is the
dispatch's own, the prompt too if its card has one, and otherwise it is the built-in one
or that of an earlier user of the slot (`LeftoverPrompt`).

A cancellation in checkout's readiness poll comes before `invoke`'s `try`, and one in
`client.close` skips what follows it in the `finally` block; both leave a container
BUSY for good.  That is `CancelAbandons`, and `BusyAccounted` and `ContainerComesBack`
name it as the only way, next to a `config.json` that cannot be written.

### RemoteTask and Worker

The worker is one process with one event loop, and its lock is never held across an
await, so a request is one step from its body on; a message is suspended while its
body is read, before its coroutine has run (a background one is answered first), and
in each call of the LLM.  Every request loads `config.json` (`Reload`): the role goes
to a global, its system prompt, if it has one, to the environment (`env`), everything
else to the context of the request, which the coroutine of a background run has copied.
`ResolvesPrompt` is the beginning of `call_llm`, which takes the role and the prompt for
the whole run: in the request for a blocking message, in the coroutine's first step for
a background one, after which other requests have come.  `RunTools` are the tools of one answer, which run inside
the step: what is in `written` is the directory from the context and the folder from
the global.  A `config.json` that cannot be read (`Garbled`: the pool's write is not
atomic) leaves the globals as they are and the context as the process was started
with.  `Cancel` is `tasks/cancel`; CancelledError is no Exception, so the record of a
cancelled run stays "working".  `Send` cleans up first, at most once in `Throttle`
ticks, what has ended more than `TTL` ticks ago.  `Remount` is the pool lending the
container to the next dispatch; `outlived` marks the messages that were not done then.

A sender polls in every tick (`Tick` waits for those that are due): `poll_task` asks
every two seconds, so that a poll that is lost is repeated within the tick, and records
live for 300.  That is the one assumption on time, and
`EndIsLearnt` rests on it.

`RemoteTask` is what the backends build on: one task per message, an end that is final
and told as it is, a cancellation that is refused only when nothing runs any more.

### Breaker, InvokeBreaker, Dispatcher

A breaker is a record of its state, its window of results, the time since it
opened and its successes in a row; `Observed` is the lazy open -> half-open
transition every method starts with, `Recorded` one recorded result.  The
breaker's lock is held for one method at a time, so a request of `InvokeBreaker`
begins (is admitted or rejected) and ends in two separate steps, and results
arrive in any order and in any state.  A call ends with an exception, slowly
(`slow_call_threshold`), well, with a result that reports a failure (which
`CircuitBreaker.call` counts as a success, because it does not look at results),
or not at all (cancelled, which records nothing).

A request of `Dispatcher` is suspended in a health check, in the semaphore's
queue, in an invocation, or in the cancellation of one.  The semaphore is
asyncio's (Python 3.12): a permit is handed to the waiter that is woken, and a
woken waiter that is cancelled hands it on.  Everything between two awaits is one
action: an invocation that ends gives its permit back, is recorded in the
target's breaker, and its request goes on to its next candidate or to the cache.

### ChatTasks

A request is looked up by its key, waits for the session service and for the
first save of its task, stores its key and answers; its orchestration then queues
for a permit of its tenant, runs on the built-in orchestrator, or on the external
one and falls back, and ends with a save.  A task is kept twice: its status in
memory (`status`) and its row in SQLite (`stored`).  Every save runs in a thread that a
cancellation leaves running (`saving`); it lands (`SaveLands`) or raises
(`SaveRaises`) on its own, and the next statement of the orchestration waits for it
(`Report`).  `Cancel` is what the WebSocket's cancel does at once: it cancels the
registered orchestration, sets CANCELLED and starts a save.  `Unwound` is the
CancelledError arriving in the orchestration at whatever await it is in.  `Crash`
loses the memory, keeps the rows, and `Restore` is a request that finds a task in
the database only.

A direct chat (`/invoke` with a session) takes the same way up to the answer, without a
key and without a tenant's permit, and is not registered for cancellations.  Its task
then tells the session that it is dispatched (`Announce`), waits for the Dispatcher,
completes or fails its task, and tells the session which (`Tell`).  All of that is one
`try`: whatever raises in it, the event after `complete_task` as well, leads to
`fail_task` (`DirectRaises`), once; what raises after that ends it (`TellingRaises`).

### AgentRegistry

All state of the registry is in Redis: records (`rec`), a set of agent ids per
skill (`index`), and the id of each endpoint (`lookup`), each with a time to live.
An action is one Redis command or one MULTI/EXEC pipeline, and anything can happen
between two of them: another request, a step of the sweep, a tick, in which keys
expire.  `Register`, `ReadOld`, `WriteRecord` are the GET, HGET and EXEC of
`register`; `Heartbeat` and `Renew` the HGET and EXEC of `heartbeat`; `Deregister`,
`ReadSkills`, `Remove` the two HGETs and the EXEC of the gateway's deregistration;
`Wake`, `ReadMembers`, `CheckMember`, `RemoveMissing`, `Sleep` the sweep.  Any
command may fail, and its request or the sweep with it.

One assumption on time is made: a request is not held up for longer than
`heartbeat_ttl` (30 s) between its reading of the clock and its EXEC.  A record
lives for one TTL after its EXEC and is online for two after its heartbeat, so
every record that is there is online, and the first half of the sweep, meant for
keys that Redis failed to expire, finds nothing.

### SessionService

A session is one row, read and replaced as a whole.  A write (`append_event`,
`update_state`) waits for the session's lock, reads, changes its copy and saves it in
a thread; a creation does the same without the lock.  The row is abstracted to the
set of calls whose change it has.  `ReadThenSave` ends with the thread started,
`SaveLands` is its INSERT OR REPLACE.  `Cancel` ends the call, which releases the
lock, and leaves the thread to land (`SaveLands`) or to fail (`SaveIsLost`) later.
`overwritten` remembers that a save outside the lock (a creation's or a cancelled
call's) replaced a row other than the one its call had read: the two ways in which
the code can lose an event.

`SessionLog` is what the lock is there for: a call changes the session in one step,
with its answer, or fails without a trace.  It allows what the code does even without
overwriting anything: the change of a *cancelled* call may come after its answer, and
go again.

### Orchestrator

An execution is at an LLM call (`thinking`, after the reminder `reminded`), between
two tool calls (`working`), in a dispatch, or in the awaits after a review
(`refused`, `accepted`).  A message list is a Python list, so `session.messages` and
the `_messages` of the executions are references: `session` and `uses` say which list,
`messages` what a list has.  Of that are kept the requests whose turn it has, and how many
tool calls of its last assistant message have no result yet (`open`); once a message
other than a result follows open calls, it is `broken`, and the chat API refuses
it from then on.  An answer calls one of a set of lists of tools, or none; the code asks
for no tools in the last three iterations and relies on getting none.  `todo` are the
calls left: `LookUp` is any tool without an effect here and a call whose arguments cannot
be parsed, `Dispatch` and `Dispatched` begin and end `dispatch_agent` and
`dispatch_agents_parallel`, `Review` looks at the files and the next step appends the
refusal, or ends the loop and leaves the calls behind `finalize` unanswered.  `Produce` is a
worker, which may write and remove files whenever it likes, also after its dispatch has
returned.  `CutOff` is a cancellation, or an exception from a tool or an event's
subscriber: `session.messages` is not set then, but a list that it refers to already
keeps what was appended.  `Limit` is the tenant's semaphore, as in `ChatTasks`.

Two histories mark what the code does not guard against: `forked`, two requests that
were under way while the session had no messages, of which the last to end keeps
its list; and `overlapped`, two on one list, which may put a message between a
tool call and its result.

## Runs

| Run | Shows |
|---|---|
| `docker_dispatch` | two dispatches with two cancellations each and all faults: exclusive leases, agreement of pool and dispatch, every BUSY entry accounted for, successes are own work under the own system prompt, the code implements `Lease`, and a container comes back unless its dispatch was cut off |
| `invoke_breaker` | three requests: opening, closing and rejecting are right whatever comes late, and an agent that recovers becomes usable |
| `dispatcher` | three requests on two permits, two targets, a cache of one entry: permits, degradation, every lost attempt recorded once and with its target, termination |
| `dispatcher_errors` (violated) | an exception from a backend ends the dispatch instead of failing over |
| `chat_tasks` | two requests with one key, or one of them a direct chat: no task is left RUNNING, a cancellation is final, memory and database agree in the end, a session hears how its direct chat really ended, repeats are replayed, the tenant's queue moves on |
| `chat_shared` (violated) | two tasks run on one built-in orchestrator |
| `orchestrator` | three requests of one session: the turns of those that returned are remembered, what can spoil a history, a review sees every dispatch, the loop ends |
| `registry` | a live agent keeps its place in the index but for the sweep's race; a silent one vanishes |
| `registry_declared` (violated) | a declared agent is not found through its skill |
| `sessions` | two creations and three writes: what a returned write has written stays, but for saves outside the lock; every call ends |
| `worker` | a background and a blocking message, two configs: files land in their own place, a run begins in its message's role and with its system prompt, a polling sender learns the end, the worker implements `RemoteTask` |
| `sessions_lost` (violated) | the save of a cancelled `append_event` replaces the events of later ones |

**Bounds.**  `DockerDispatch`: two containers are the fewest for which the scan can
pass one over, mark it DEAD and take the next, and for which recycling reorders the
dict; two dispatches are two users of one container, one after the other or, with
a late message, overlapping; that more of them change nothing is proved.  One of the two
has a system prompt, which the other can meet in a container that is used again.
(That of a container's *predecessor* takes a third user, and is in the theorem alone.)
`MaxUses = 2` lets a container be reused once and then recycled.  `MaxCancels`
bounds the cancellations of one dispatch: one is a user's cancel or a timeout, two
are both (a cancellation during `tasks/cancel` needs the second).  Breaker
thresholds of 2 are the least that tell "in a row" and "at the threshold" from
"once".  The `Dispatcher` run takes 2 failures, so that an attempt which is recorded
twice, or not at all, makes a difference to when a breaker opens, and 1 for successes
and ticks, because how a breaker closes is `InvokeBreaker`'s question.  Two permits for three requests give both a
permit that is free and a queue; a cache of one entry is always at its limit.
`ChatTasks`: two requests with one key of one tenant whose limit is 1, so that a
request is a repeat, an overlapping twin, or queued behind the other, and one of the
two may be a direct chat instead; that one may be cancelled over the WebSocket,
which gives every race of a cancel with an end, with a save, with the other task and with one restart.  `AgentRegistry`: two
ids, so that an agent can be there twice; two overlapping requests, so that any
two operations interleave; one skill, which the external agent may take up or give
up when it registers again and shares with the declared agent; a TTL of one tick,
which makes a skill set outlive a record by one tick.  `SessionService`: two creations
overlap each other, and of three writes one may hold the lock, one wait for it, and one
be a cancelled one whose thread is left; the session has a row at first or not.
`sessions_lost` has no creations and no failures, so that nothing but a cancellation
can be the cause.  `Orchestrator`: three executions, two at a time: one that makes the
history, one that is cut off while it uses it, and one that takes it up afterwards, or
overlaps either; `MaxIterations = 5`, the least the code's constants 4 and 3 leave room
for, gives two iterations with tools, the second after the reminder; two agents
dispatched at once, and finalize as the last call and before another.  `Worker`: a
background and a blocking message, so that each can be the one that the other's
request, reload or clean-up meets; two configs, of which one is the other's and has a system prompt; two
rounds of the agent loop, one after which it goes on and one after which it ends; a
TTL and a throttle of one tick, so that a record is young, of age, and removed or
spared by the throttle.  Windows are bounded by the
code, clocks are ages that saturate.

**Fairness.**  `DockerDispatch`: weak fairness of what a dispatch does by itself,
because each of its awaits has a deadline (the readiness poll's ten tries, the
HTTP client's timeout, `poll_task`'s).  Arrivals, workers, cancellations, the
daemon and shutdown are not fair.  `InvokeBreaker`: time passes, a client of an
unused agent comes back (`Begin`), and requests are not all cancelled (strong
fairness of a call ending with a result); the liveness property speaks of agents
that are healthy from some time on.  `Dispatcher`: a health check and an
invocation end (HTTP timeout, `wait_for`), and a woken waiter runs.  `ChatTasks`:
the awaits of a request and of its orchestration end, and a save lands or raises
(SQLite's busy timeout), a direct chat's events and dispatch too; nothing
is assumed of clients, cancels or restarts.
`AgentRegistry`: only that time passes.  `SessionService`: a call that has the lock
goes on, because its threads end (SQLite gives up after ten seconds), and a free lock
is handed to a call that waits (asyncio's locks are first come, first served); nothing
is assumed of callers and cancellations.  `Orchestrator`: an LLM call and a dispatch end
(the client's and the Dispatcher's timeouts), whatever they end with; workers need not
write anything.  `Worker` has no liveness property and assumes no fairness.

**Deadlock** is checked in the runs of `InvokeBreaker`, `Dispatcher`,
`AgentRegistry` and `Worker`.  `DockerDispatch`, `ChatTasks`, `SessionService` and
`Orchestrator` may stop: when all dispatches are done and the pool is shut down, all requests are answered
and all tasks ended, or all calls or executions have ended, nothing remains to be done.

## Findings

* `_try_one`'s `except Exception` awaits the task that has just raised, so the
  exception leaves `dispatch` instead of leading to the next candidate
  (`dispatcher/dispatcher.py:207`; run `dispatcher_errors`).
* The one resolver's `_builtin` is overwritten per request and read after an await
  (`orchestrator/resolver.py:68`; run `chat_shared`).
* An external agent's registration sets a TTL on the skill sets it shares with
  declared agents, which "never expire" (`registry/registry.py:175`; run
  `registry_declared`).
* A cancellation during `append_event`'s save releases the session's lock while the
  thread goes on: its row lands over those of later calls, whose events are lost
  (`session/service.py:200`; run `sessions_lost`).

Six more places where the code does not do what a comment or a plan says are in the
models and not in a run of their own.  `DockerBackend.invoke` checks its container out
before the `try`, and `client.close()` in its `finally` can be cut off: either loses the
container (`dispatcher/backends.py:51`, against
`docs/plans/2026-06-14-agent-scheduling-optimization-goal.md:102`, "所有后端 invoke 用
try/finally 归还容器"): the dispatches that `BusyAccounted` calls abandoned.  The
idempotency key is looked up and stored in two critical sections with awaits between
them (`api/routes.py:110`): in `ChatTasks` two overlapping requests with one key are
both orchestrated, and `RepeatsAreReplayed` speaks of repeats after the answer.  Two
requests that open a session at once each make a history, and only that of the last to
end is remembered (`orchestrator/orchestrator.py:501`, against `session/manager.py:5`):
the exception of `TurnsAreRemembered`.  A reused container is not isolated from a
message of its previous user that arrives late (`container_pool/pool.py:323`):
`WorkerAccepts` takes the configuration mounted then, the next task's.  A request does
not load all of the newest configuration, as `reload_config`'s docstring has it
("因此每个请求到来前必须重新读取最新配置", `agents/worker.py:74-75`): without a system prompt
in it, that of an earlier user of the container stays in the environment
(`agents/worker.py:107`), the exception that `SuccessIsOwnWork` and `RunsInOwnRole` name.
And the Dispatcher never gives the result cache a task id (`dispatcher/dispatcher.py:160`), so
that a task may be served the result of another one with the same prompt, which the key
is meant to prevent (`dispatcher/result_cache.py:30`): the cache keys of `Dispatcher`
have no task.

## Proofs

All theorems hold for any number of dispatches, containers, requests, targets,
agents and skills, and for all thresholds and limits the modules' assumptions allow.
They are of four kinds.

1. *What the runs check*: every invariant, action property and refinement of a passing
   run, for every instance.
2. *Where the exceptions end.*  Several properties and all findings have an exception
   or a cause.  A theorem shows that there is no other one, by assuming it away through
   the constants, or by naming its cause: `OnlyCancellationsLose`, `NothingIsLostUndisturbed`,
   `OnlyThePoolRaises`, `BuiltInsAreIsolated`, `OnlyFaultsStrand`,
   `UnsharedSkillsStayFound` (which leaves the sweep's race as the one way out of a
   set), `OnlyCancellationsAndCreationsLose`,
   `LockedCallsAreAtomic`, `OneAtATimeRemembers`, `OrderlyHistoriesAreValid`.  The
   assumptions describe real set-ups (no external provider, a tenant limit of
   one, agents without a skill in common) or a run in which a fault does not occur.
3. *Why things end.*  Liveness is out of the prover's reach, but what it rests on is
   not: a variant that no step increases and the fair steps decrease.  Each of the
   seven liveness properties has such a theorem (table below), and so have the worker's
   runs.
4. *Guarantees that no run states*: `NobodyIsOvertaken` (permits in the order of
   asking), `NothingElseIsWritten`, `ContainersAreFreedByTheirUsers`, `AbandonedContainersStayLost`, and the refinement
   of `SessionLog`.  Their definitions stand beside their proofs.

| Liveness property (TLC) | Theorem | What decreases |
|---|---|---|
| `ContainerComesBack` | `DispatchesLeadOn` | the awaits an `invoke` has before it |
| `RecoversWhenHealthy` | `HealthBringsRecovery` | ticks, the first request after them, and successes, while the agent is healthy |
| `EveryDispatchEnds` | `DispatchesTurnForward` | stages; in a stage, health checks or attempts; in an attempt, awaits |
| `AcceptedTaskEnds` | `RequestsLeadOn` | the points of a request's path, up to the saved result |
| `SilentAgentsVanish` | `SilentAgentsRunOut` | the ttl of every record of an agent without a request under way |
| `EveryCallEnds` | `CallsLeadOn` | the points of a call, and the thread that outlives it |
| `ExecutionEnds` | `ExecutionsLeadOn` | iterations, and within one the calls of the answer |
| (runs of a worker) | `RunsLeadOn` | the calls that `max_iterations` leaves |

By component:

* `DockerDispatchProofs`.  The inductive invariant says of every dispatch that
  holds a container that the entry is its own (or dropped), and of every BUSY entry
  who answers for it.  Exclusivity alone is not inductive: a checkout takes an *idle*
  entry, so one needs that a held entry is BUSY; and a return frees the
  entry of its *own* generation, so one needs that generations only grow and that a
  held container's generation is its entry's.  From it follow `ExclusiveLease`,
  `LeaseBacked`, `BusyAccounted`, and that every step is a step of `Lease` or a stutter
  (`ImplementsLease`).  `SuccessIsOwnWork` needs more: that a `config.json` in a slot, and
  a prompt in its worker's environment, come from a dispatch that was given the slot
  (`FilesFromHere`), and that a message which has run, as far as `invoke` can learn, ran
  with its own prompt or, having none, with one of those (`PromptOwned`).  `BusyAccounted` lets a cut-off dispatch
  answer for a container; `OnlyCancellationsLose` adds that, with a disk that works,
  only cancellations cut one off (`CutOff`), and `AbandonedContainersStayLost` that the
  pool never takes such a container back.
* `BreakerProofs`.  Lemmas on the window: pushing keeps it within its size and raises
  the number of failures by at most one.  They are lifted to the concurrent requests of
  `InvokeBreaker` (`InvokeTypeCorrect`, `ClosedMeansBelowThreshold`, `ClosingIsEarned`),
  and `OpenMeansRejecting` is proved with the additional invariant that an open breaker
  has cooled down once its clock is at the timeout.  `HealthBringsRecovery` speaks of
  the states in which the agent is healthy and no request is left from before: results
  that come late then are successes, which an open breaker records without closing and
  a half-open one counts.
* `DispatcherProofs` lifts the same lemmas to a table of breakers under dispatch, and
  proves the semaphore.  `Settled` counts free permits, woken waiters and running
  attempts against the limit, says that the queue and the woken waiters together are the
  requests that wait for a permit, each once, and that a free permit has woken somebody
  if somebody waits; `Loose` is the same without that, as it is between a release and
  the waking of the next.  The lemmas are about the semaphore's operators (`Acquiring`,
  `Released`, `Leaving`), each leading from settled books to settled ones of other
  waiters and holders, and an action composes them.  `DegradedIsGenuine` needs that every entry
  of the cache is of a request that succeeded, which is final (`CacheGenuine`).
  `BreakersFollowAttempts` compares what the breakers have counted with what is left of
  the attempts, the places that requests have behind them (`Follows`): a failure or a
  timeout adds one place and is recorded once (`FailureFollows`), a candidate is passed
  over only when its breaker is open, so that the places this adds change nothing
  (`MoreFollows`, `GoOnLoses`), and a cancelled or raised attempt stays the request's last
  and is never behind it.
  `OnlyThePoolRaises` follows an attempt from its target to the exception
  (`AttemptInv`).  `NobodyIsOvertaken` compares the queue before and after a step: what
  is woken is its head, and those who give up leave the order of the others alone.
* `WorkerProofs`.  `FilesInOwnPlace` needs that a message which runs in its own lease
  finds its own config mounted and loaded (`OwnConfig`): every request in between
  reloads what is mounted, and what is mounted changes only with the lease.  The same
  invariant has the environment: a mounted config with a system prompt is in it from the
  message's own reload on, from which `RunsInOwnRole` follows.
  `EndIsLearnt` needs `PolledIsYoung`: an ended record whose sender still polls is at
  most one tick old, and the clean-up takes what is older than the TTL.  `RecordsTrue`
  ties record, run, registration for cancellations and the sender's answer together, from
  which every step is one of `RemoteTask` or a stutter (`WorkerImplementsRemoteTask`).
* `ChatTasksProofs`.  `EndedIsStored` and `CancelSticks` need to know which saves are
  still under way and what they carry, so the invariant also says that a request
  that has no task yet is untouched, that a task in memory has a request behind it,
  which saves a cancelled task may still have, where in its run an orchestration is
  that ends with a status, that a cancelled orchestration is no longer registered,
  and that recorded keys belong to accepted requests (for `RepeatsAreReplayed`).
  `SessionsAgree` adds that a session hears nothing before the end (`HeardAtTheEnd`),
  and that a direct chat which may still report a success has not failed, nor has its
  row, nor is a save of a failure under way (`NotYetFailed`).
* `AgentRegistryProofs`.  `AgentsStayIndexed` needs one fact about time
  (`SetsOutliveRecords`): the set of a skill lives longer than the record of any
  external agent in it.  Registrations and heartbeats keep it by setting both TTLs in
  one pipeline, and a tick keeps the distance.  With it, a set that expires holds no
  external agent that stays live, and what is left is an SREM: of a registration or a
  deregistration, which writes the agent's record in the same pipeline, or of the
  sweep, which the property names.  For declared agents, whose records have no ttl, the
  distance does not exist; `UnsharedSkillsStayFound` uses instead that a set gets a ttl
  only for a skill that an external agent offers (`SkillsAreOffered`).
* `SessionServiceProofs`.  Mutual exclusion is not enough for `ReturnedWritesAreKept`:
  what counts is that the holder of the lock saves what it *read*.  So the invariant
  says that, until the history notes a stray save, whoever is saving under the lock has
  read everything that has returned, which stays true because nothing can return
  while it holds the lock.  `OnlyCancellationsAndCreationsLose` then shows that without
  cancellations and creations no save is ever outside the lock, so that nothing is lost
  whatever fails: the two are the only causes.  For `ImplementsSessionLog` the row is
  the abstract content and the answers are those of the calls that have ended; what the
  lock's holder has read must also still be there but for cancelled writes
  (`ReadIsThere`), and a call without effect must be in no row and in nothing that will
  be saved (`NoGhosts`), which holds even when saves overwrite each other
  (`NothingElseIsWritten`).
* `OrchestratorProofs`.  `Counted` ties the open calls of a list to `todo` of the
  execution that works on it; two that work on one list have broken it.  `Turns` says
  that, until a session is forked, everybody who is under way or has returned uses the
  session's list (for `TurnsAreRemembered`).  `HistoryStaysUsable` needs to know whose
  an open call is (`Owned`) and that, without overlaps, nobody else is under way on a
  list (`Alone`): so whoever speaks on a list with open calls does it after their owner
  has ended.  `FinalizedIsReviewed` rests on `_dispatched` being complete whenever no
  dispatch is under way (`Reviewed`).  With a limit of one (`LimitHolds`) there is
  neither a fork nor an overlap, and with no cut-off and `finalize` as the last call of
  its answer nothing else spoils a history (`Orderly`).

Only model-checked are the seven liveness properties themselves: their proofs would
need fairness and ENABLED, which the prover does not reason about.  What remains to TLC
is that some fair step of the variant is possible until the end is reached.
`ImplementsSessionLog` assumes that nothing is overwritten; a run that violates it is
`sessions_lost`.

## Not modelled

* *A history's way through a restart.*  `SessionManager.save` runs in the step that ends
  an execution, without an await in between, and a restart loads what was saved, so
  that what the next request finds is `messages[session]` as some execution left it;
  the one loss, of a history whose save raised, leaves its task RUNNING and is in
  `ChatTasks` (`SessionSaveRaises`).  Plans and the shared context are text that one
  request leaves to the next; nothing decides by them.
* *The SDK's loop* (`swarm_sdk/client.py`): `AgentRegistry` has every order of
  registrations, heartbeats and silence, its order among them.  That it never registers
  again once a heartbeat was answered 404 is listed as a hazard.
* *The adapters* that the gateway makes for registered agents: they translate protocols
  and have no state.  They are kept in memory and the records in Redis, so that after a
  restart an agent whose heartbeats go on has none until it registers again.
* *The external orchestrator's HTTP calls*: in `ChatTasks` delegation ends with a result,
  an error, or a fallback, also one after the external task was done
  (`orchestrator/external.py:156`), which does the work twice.
* *The internal endpoints* (`/api/internal/dispatch`, `/api/internal/session-event`):
  calls of the Dispatcher and of the session service, which their modules have from any
  caller.  The task that `/api/internal/dispatch` registers is never completed.
* *Files left by an earlier run of the program*: the pool's `config.json`s stay on the
  disk, and a container of the next run would start with them.  In `DockerDispatch` they
  are empty at first.
* In `Worker`: which files are read, what commands do besides writing, and the default
  directory `/workspace/artifacts`, for which the code looks at the environment once
  more; the pool never writes that one.
* JSON and A2A payloads, prompts and LLM answers (data without influence on the control
  modelled here), metrics, tracing and dead letters (nothing reads them back),
  configuration, the web pages.
