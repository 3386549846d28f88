------------------------------- MODULE Worker -------------------------------
(***************************************************************************)
(* The worker process in a container (src/agents/worker.py) with its       *)
(* agent loop (src/agents/agent_loop.py): messages that are sent to it,    *)
(* polled and cancelled, while the pool rewrites its config.json.          *)
(*                                                                         *)
(* The process has one event loop.  _tasks_lock is never held across an    *)
(* await, so a request is one step once its body is read, and a message is *)
(* suspended only where the code really awaits:                            *)
(*   "new"      not sent                                                   *)
(*   "reading"  config.json is loaded, the body is being read              *)
(*   "begun"    answered; its coroutine has been created and not run yet   *)
(*   "calling"  in a call of the LLM, in a thread                          *)
(* or its run is over: "ended", or "stopped" by a cancellation.            *)
(*                                                                         *)
(* A config.json's role is loaded into a global, its directory into the    *)
(* request's context too, and its system prompt, if it has one, into the   *)
(* process's environment; call_llm reads the prompt when the run begins.   *)
(*                                                                         *)
(* Time is in ticks.  A sender that polls its task does so in every tick   *)
(* (poll_task does every two seconds, the records live for five minutes).  *)
(***************************************************************************)
EXTENDS Naturals

CONSTANTS
  Messages,       (* message/send requests                                 *)
  Background,     (* those with blocking = false                           *)
  Configs,        (* contents of config.json: a role and a shared_dir each *)
  Prompting,      (* those that have a system_prompt                       *)
  First,          (* the one that the process is started with              *)
  Garbled,        (* config.json cannot be read                            *)
  BuiltIn,        (* no system prompt: the role's built-in one is used     *)
  MaxIterations,  (* max_iterations of the agent loop                      *)
  TTL,            (* _TASK_TTL_SECONDS                                     *)
  Throttle        (* the minute between two clean-ups                      *)

ASSUME WorkerAssumption ==
  /\ Background \subseteq Messages
  /\ First \in Configs
  /\ Prompting \subseteq Configs
  /\ Garbled \notin Configs
  /\ BuiltIn \notin Configs
  /\ MaxIterations \in Nat \ {0}
  /\ TTL \in Nat \ {0}
  /\ Throttle \in Nat

VARIABLES
  mounted,        (* the config.json that is mounted now                   *)
  loaded,         (* the config in the module's globals                    *)
  env,            (* whose system prompt is in the environment, or BuiltIn *)
  accepted,       (* per message: the config.json its request found        *)
  ran,            (* per message: the role (loaded) and the prompt (env)   *)
                  (* its run was begun with                                *)
  pc,             (* where the message is                                  *)
  rounds,         (* rounds of its agent loop                              *)
  record,         (* the state in _tasks, or "none"                        *)
  age,            (* ticks since its end                                   *)
  bg,             (* _bg_tasks                                             *)
  sinceCleanup,   (* ticks since the last clean-up                         *)
  written,        (* what the last step has written: a message, the        *)
                  (* directory and the role's folder, or nothing           *)
  client,         (* its sender: polling ("due", "asked") or not ("away")  *)
  told,           (* what its sender was last answered                     *)
  outlived        (* history: those that ran when the container was lent   *)
                  (* to another dispatch                                   *)

vars == <<mounted, loaded, env, accepted, ran, pc, rounds, record, age, bg,
          sinceCleanup, written, client, told, outlived>>

Running == {"begun", "calling"}
Points == {"new", "reading", "ended", "stopped"} \cup Running
Final == {"completed", "failed"}

TypeOK ==
  /\ mounted \in Configs \cup {Garbled}
  /\ loaded \in Configs
  /\ env \in Prompting \cup {BuiltIn}
  /\ accepted \in [Messages -> Configs \cup {Garbled}]
  /\ ran \in [Messages -> [role: Configs, prompt: Prompting \cup {BuiltIn}]]
  /\ pc \in [Messages -> Points]
  /\ rounds \in [Messages -> 0 .. MaxIterations - 1]
  /\ record \in [Messages -> {"none", "working"} \cup Final]
  /\ age \in [Messages -> 0 .. TTL + 1]
  /\ bg \in SUBSET Background
  /\ sinceCleanup \in 0 .. Throttle
  /\ written \in SUBSET (Messages \X Configs \X Configs)
  /\ client \in [Messages -> {"away", "due", "asked"}]
  /\ told \in [Messages -> {"nothing", "working", "canceled", "refused", "not_found"} \cup Final]
  /\ outlived \in SUBSET Messages

(* entrypoint.sh waits for a config.json before it starts the process, and *)
(* exports its system prompt.                                              *)
Init ==
  /\ mounted = First
  /\ loaded = First
  /\ env = IF First \in Prompting THEN First ELSE BuiltIn
  /\ accepted = [m \in Messages |-> First]
  /\ ran = [m \in Messages |-> [role |-> First, prompt |-> BuiltIn]]
  /\ pc = [m \in Messages |-> "new"]
  /\ rounds = [m \in Messages |-> 0]
  /\ record = [m \in Messages |-> "none"]
  /\ age = [m \in Messages |-> 0]
  /\ bg = {}
  /\ sinceCleanup = Throttle
  /\ written = {}
  /\ client = [m \in Messages |-> "away"]
  /\ told = [m \in Messages |-> "nothing"]
  /\ outlived = {}

-----------------------------------------------------------------------------
Moves(m, from, to) ==
  /\ pc[m] = from
  /\ pc' = [pc EXCEPT ![m] = to]

Told(m, answer) == told' = [told EXCEPT ![m] = answer]

taskVars == <<record, age, bg, sinceCleanup>>
config == <<loaded, env>>

(* The pool lends the container and writes config.json, or fails to.       *)
Remount(c) ==
  /\ mounted' = c
  /\ outlived' = outlived \cup {m \in Messages : pc[m] = "reading" \/ pc[m] \in Running}
  /\ written' = {}
  /\ UNCHANGED <<config, accepted, ran, pc, rounds, taskVars, client, told>>

(* Mutant: the globals are loaded once, the context of each request always. *)
MutReload == UNCHANGED config

(* Mutant: the system prompt is that of the config at the start, for good. *)
MutReloadPrompt ==
  /\ loaded' = IF mounted = Garbled THEN loaded ELSE mounted
  /\ env' = env

(* reload_config at the start of every request: a file that cannot be read *)
(* leaves the globals as they are, and the context as the process was      *)
(* started with.  The system prompt of an earlier config.json stays in the *)
(* environment until one comes that has a system prompt itself.            *)
Reload ==
  /\ loaded' = IF mounted = Garbled THEN loaded ELSE mounted
  /\ env' = IF mounted \in Prompting THEN mounted ELSE env

-----------------------------------------------------------------------------
(* message/send                                                            *)

Receive(m) ==
  /\ Moves(m, "new", "reading")
  /\ Reload
  /\ accepted' = [accepted EXCEPT ![m] = mounted]
  /\ written' = {}
  /\ UNCHANGED <<mounted, ran, rounds, taskVars, client, told, outlived>>

(* Mutant: every ended task is old.                                        *)
MutExpired == {n \in Messages : record[n] \in Final /\ age[n] >= TTL}

Expired == {n \in Messages : record[n] \in Final /\ age[n] > TTL}

(* _cleanup_old_tasks: at most once in a minute.                           *)
Removed == IF sinceCleanup < Throttle THEN {} ELSE Expired

(* resolve_prompt, at the beginning of call_llm: a prompt that is in the   *)
(* environment goes before the one built in for the role that is loaded.   *)
ResolvesPrompt(m) == ran' = [ran EXCEPT ![m] = [role |-> loaded, prompt |-> env]]

(* Mutant: the background task is not registered for cancellations.        *)
MutSend(m) ==
  /\ Moves(m, "reading", IF m \in Background THEN "begun" ELSE "calling")
  /\ record' = [n \in Messages |->
       IF n = m THEN "working" ELSE IF n \in Removed THEN "none" ELSE record[n]]
  /\ bg' = bg \ Removed
  /\ sinceCleanup' = IF sinceCleanup < Throttle THEN sinceCleanup ELSE 0
  /\ IF m \in Background
     THEN Told(m, "working") /\ client' = [client EXCEPT ![m] = "due"]
     ELSE UNCHANGED <<told, client>>
  /\ IF m \in Background THEN UNCHANGED ran ELSE ResolvesPrompt(m)
  /\ written' = {}
  /\ UNCHANGED <<mounted, config, accepted, rounds, age, outlived>>

(* The task is stored.  A blocking message runs at once, in the request; a *)
(* background one is registered for cancellations before it is answered.   *)
Send(m) ==
  /\ Moves(m, "reading", IF m \in Background THEN "begun" ELSE "calling")
  /\ record' = [n \in Messages |->
       IF n = m THEN "working" ELSE IF n \in Removed THEN "none" ELSE record[n]]
  /\ bg' = (bg \ Removed) \cup ({m} \cap Background)
  /\ sinceCleanup' = IF sinceCleanup < Throttle THEN sinceCleanup ELSE 0
  /\ IF m \in Background
     THEN Told(m, "working") /\ client' = [client EXCEPT ![m] = "due"]
     ELSE UNCHANGED <<told, client>>
  /\ IF m \in Background THEN UNCHANGED ran ELSE ResolvesPrompt(m)
  /\ written' = {}
  /\ UNCHANGED <<mounted, config, accepted, rounds, age, outlived>>

(* The coroutine's first step, up to the first call of the LLM.            *)
Begin(m) ==
  /\ Moves(m, "begun", "calling")
  /\ ResolvesPrompt(m)
  /\ written' = {}
  /\ UNCHANGED <<mounted, config, accepted, rounds, taskVars,
                 client, told, outlived>>

-----------------------------------------------------------------------------
(* The agent loop                                                          *)

(* The directory of the request's context, which the coroutine has copied. *)
Directory(m) == IF accepted[m] = Garbled THEN First ELSE accepted[m]

(* Tools run inside the step.  Their files go to the message's directory,  *)
(* into the folder of the role that is loaded at the moment.               *)
RunTools(m) ==
  written' \in {{}, {<<m, Directory(m), loaded>>}}

(* The run is over; a blocking message is answered.                        *)
Finishes(m, how) ==
  /\ Moves(m, "calling", "ended")
  /\ record' = [record EXCEPT ![m] = how]
  /\ age' = [age EXCEPT ![m] = 0]
  /\ rounds' = [rounds EXCEPT ![m] = 0]
  /\ IF m \in Background THEN UNCHANGED told ELSE Told(m, how)

(* The LLM answers without tool calls.                                     *)
Concludes(m) ==
  /\ Finishes(m, "completed")
  /\ written' = {}
  /\ UNCHANGED <<mounted, config, accepted, ran, bg, sinceCleanup, client, outlived>>

(* Mutant: the loop makes one call more.                                   *)
MutCallsTools(m) ==
  /\ RunTools(m)
  /\ IF rounds[m] < MaxIterations
     THEN /\ pc[m] = "calling"
          /\ rounds' = [rounds EXCEPT ![m] = @ + 1]
          /\ UNCHANGED <<pc, record, age, told>>
     ELSE Finishes(m, "completed")
  /\ UNCHANGED <<mounted, config, accepted, ran, bg, sinceCleanup, client, outlived>>

(* It calls tools: the next round, or the end of the last one, with an     *)
(* empty answer.                                                           *)
CallsTools(m) ==
  /\ RunTools(m)
  /\ IF rounds[m] + 1 < MaxIterations
     THEN /\ pc[m] = "calling"
          /\ rounds' = [rounds EXCEPT ![m] = @ + 1]
          /\ UNCHANGED <<pc, record, age, told>>
     ELSE Finishes(m, "completed")
  /\ UNCHANGED <<mounted, config, accepted, ran, bg, sinceCleanup, client, outlived>>

(* The LLM call raises, or a tool does for missing arguments, perhaps      *)
(* after another one has written.                                          *)
Errs(m) ==
  /\ RunTools(m)
  /\ Finishes(m, "failed")
  /\ UNCHANGED <<mounted, config, accepted, ran, bg, sinceCleanup, client, outlived>>

-----------------------------------------------------------------------------
(* The other requests                                                      *)

(* tasks/get by a sender that polls.                                       *)
Poll(m) ==
  /\ client[m] # "away"
  /\ Reload
  /\ Told(m, IF record[m] = "none" THEN "not_found" ELSE record[m])
  /\ client' = [client EXCEPT ![m] = IF record[m] \in Final THEN "away" ELSE "asked"]
  /\ written' = {}
  /\ UNCHANGED <<mounted, accepted, ran, pc, rounds, taskVars, outlived>>

(* poll_task's deadline, or a cancellation.                                *)
StopPolling(m) ==
  /\ client[m] # "away"
  /\ client' = [client EXCEPT ![m] = "away"]
  /\ written' = {}
  /\ UNCHANGED <<mounted, config, accepted, ran, pc, rounds, taskVars,
                 told, outlived>>

(* tasks/cancel by a sender that knows the task's id.  CancelledError is   *)
(* not caught by the run's handler: the record stays as it is.             *)
(* A second request finds the task done, or its cancellation under way.    *)
Cancel(m) ==
  /\ m \in Background
  /\ told[m] # "nothing"
  /\ Reload
  /\ \/ /\ m \in bg /\ pc[m] \in Running
        /\ pc' = [pc EXCEPT ![m] = "stopped"]
        /\ rounds' = [rounds EXCEPT ![m] = 0]
        /\ Told(m, "canceled")
     \/ /\ m \in bg /\ pc[m] = "stopped"
        /\ Told(m, "canceled")
        /\ UNCHANGED <<pc, rounds>>
     \/ /\ ~(m \in bg /\ pc[m] \in Running)
        /\ Told(m, "refused")
        /\ UNCHANGED <<pc, rounds>>
  /\ client' = [client EXCEPT ![m] = "away"]
  /\ written' = {}
  /\ UNCHANGED <<mounted, accepted, ran, taskVars, outlived>>

(* tasks/list, a method that is not known, a body that is not JSON.        *)
OtherRequest ==
  /\ Reload
  /\ written' = {}
  /\ UNCHANGED <<mounted, accepted, ran, pc, rounds, taskVars, client,
                 told, outlived>>

-----------------------------------------------------------------------------
UpTo(n, bound) == IF n < bound THEN n + 1 ELSE bound

(* Time passes; those who poll have polled.                                *)
Tick ==
  /\ \A m \in Messages : client[m] # "due"
  /\ client' = [m \in Messages |-> IF client[m] = "asked" THEN "due" ELSE client[m]]
  /\ age' = [m \in Messages |-> IF record[m] \in Final THEN UpTo(age[m], TTL + 1) ELSE age[m]]
  /\ sinceCleanup' = UpTo(sinceCleanup, Throttle)
  /\ written' = {}
  /\ UNCHANGED <<mounted, config, accepted, ran, pc, rounds, record, bg,
                 told, outlived>>

(* What the event loop does with a message that was accepted.              *)
Run(m) == Begin(m) \/ Concludes(m) \/ CallsTools(m) \/ Errs(m)

Next ==
  \/ \E m \in Messages :
       Receive(m) \/ Send(m) \/ Run(m) \/ Poll(m) \/ StopPolling(m) \/ Cancel(m)
  \/ \E c \in (Configs \cup {Garbled}) \ {mounted} : Remount(c)
  \/ OtherRequest
  \/ Tick

Spec == Init /\ [][Next]_vars

-----------------------------------------------------------------------------
(* Properties                                                              *)

(* Files of a message land in its own directory always, whatever requests  *)
(* of later users of the container come in between (the directory is part  *)
(* of the request's context), and in its own role's folder as long as the  *)
(* container is not lent to another dispatch while the message runs (the   *)
(* role is a global).  A config.json that cannot be read spoils both.      *)
FilesInOwnPlace ==
  \A m \in Messages, directory, role \in Configs :
    <<m, directory, role>> \in written /\ accepted[m] # Garbled =>
      /\ directory = accepted[m]
      /\ m \notin outlived => role = accepted[m]

(* A message whose container is not lent to another dispatch before its    *)
(* run ends is run in its own role and, when its config.json has a system  *)
(* prompt, with that one, whatever requests load the configuration between *)
(* its arrival and its first call of the LLM.  Without one of its own it   *)
(* gets the built-in prompt, or one that an earlier config.json has left   *)
(* in the environment.                                                     *)
RunsInOwnRole ==
  \A m \in Messages :
    pc[m] = "calling" /\ m \notin outlived /\ accepted[m] # Garbled =>
      /\ ran[m].role = accepted[m]
      /\ accepted[m] \in Prompting => ran[m].prompt = accepted[m]

(* The clean-up never takes a record away before a sender that polls its   *)
(* task has been told the end.                                             *)
EndIsLearnt == \A m \in Messages : told[m] # "not_found"

(* How a task stands for those who use the worker.                         *)
Standing ==
  [m \in Messages |->
     IF pc[m] \in {"new", "reading"} THEN "unknown"
     ELSE IF record[m] = "none" THEN "forgotten"
     ELSE IF record[m] = "working" /\ pc[m] = "stopped" THEN "stuck"
     ELSE record[m]]

R == INSTANCE RemoteTask WITH state <- Standing

(* The worker keeps what DockerBackend and A2AClient rely on: one task per *)
(* message, ends are final, answers are true, a cancel is refused only     *)
(* when there is nothing to stop any more.                                 *)
RemoteTaskSpec == R!Spec
=============================================================================
