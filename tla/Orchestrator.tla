---------------------------- MODULE Orchestrator ----------------------------
(***************************************************************************)
(* Orchestrator.execute (src/orchestrator/orchestrator.py) for the         *)
(* requests of one session, which share its message list and its folder:   *)
(* the loop of LLM calls and tool calls, the forced end, the review of     *)
(* finalize, exceptions and cancellations.  Every execution has its own    *)
(* copy of the orchestrator (but for the fallback, see ChatTasks).         *)
(*                                                                         *)
(* A message list is a Python list, shared by reference.  Of its contents  *)
(* it is kept whose requests are in it, and whether every tool call of an  *)
(* assistant message is followed at once by its results, as the chat API   *)
(* demands.  What the LLM answers is open, but that it calls tools only    *)
(* when it is offered some.                                                *)
(***************************************************************************)
EXTENDS Naturals, Sequences, FiniteSets

CONSTANTS
  Executions,     (* the requests of the session                           *)
  Cuttable,       (* bound: those that may be cancelled or see exceptions  *)
  Types,          (* agent types                                           *)
  RoleOf,         (* per type: its folder, agent_type.split("-")[0]        *)
  Limit,          (* the tenant's limit of orchestrations at a time        *)
  MaxIterations,  (* 25 in the code                                        *)
  CallLists,      (* bound: the tool calls that one answer may have        *)
  NoList

(* A tool call: dispatch_agent and dispatch_agents_parallel, finalize, or   *)
(* "look": a tool that leaves no trace here, or arguments that cannot be   *)
(* parsed.                                                                 *)
Calls == [tool: {"look", "dispatch", "finalize"}, agents: SUBSET Types]

Roles == {RoleOf[t] : t \in Types}

ASSUME OrchestratorAssumption ==
  /\ Cuttable \subseteq Executions
  /\ NoList \notin Executions
  /\ RoleOf \in [Types -> Roles]
  /\ Limit \in Nat \ {0}
  /\ MaxIterations \in Nat /\ MaxIterations > 4
  /\ CallLists \subseteq Seq(Calls) \ {<<>>}

VARIABLES
  session,     (* the list that session.messages refers to; NoList: empty  *)
  messages,    (* the lists, each named for the execution that made it     *)
  uses,        (* per execution: the list that its _messages refers to     *)
  pc,
  iteration,
  todo,        (* the tool calls of the last answer that have no result    *)
  dispatched,  (* the types in _dispatched                                 *)
  asked,       (* history: the types that were dispatched                  *)
  files,       (* the roles with a file that is not empty                  *)
  result,      (* how an execution ended                                   *)
  forked,      (* history: two executions were under way in a session      *)
               (* without messages                                         *)
  overlapped   (* history: two executions were under way on one list       *)

history == <<session, messages, uses, forked, overlapped>>
work == <<iteration, todo, dispatched, asked>>
vars == <<history, work, pc, files, result>>

Returned == {"answered", "finalized"}
InTool == {"working", "dispatching", "refused", "accepted"}
MessageLists == [turns: SUBSET Executions, open: Nat, broken: BOOLEAN]

TypeOK ==
  /\ session \in Executions \cup {NoList}
  /\ messages \in [Executions -> MessageLists]
  /\ uses \in [Executions -> Executions \cup {NoList}]
  /\ pc \in [Executions -> {"new", "thinking", "reminded", "ended"} \cup InTool]
  /\ iteration \in [Executions -> 0 .. MaxIterations - 1]
  /\ todo \in [Executions -> Seq(Calls)]
  /\ dispatched \in [Executions -> SUBSET Types]
  /\ asked \in [Executions -> SUBSET Types]
  /\ files \in SUBSET Roles
  /\ result \in [Executions -> Returned \cup {"none", "cut"}]
  /\ forked \in BOOLEAN
  /\ overlapped \in BOOLEAN
  /\ \A e \in Executions :
       pc[e] \in InTool => todo[e] # <<>> /\ iteration[e] < MaxIterations - 3

Init ==
  /\ session = NoList
  /\ messages = [e \in Executions |-> [turns |-> {}, open |-> 0, broken |-> FALSE]]
  /\ uses = [e \in Executions |-> NoList]
  /\ pc = [e \in Executions |-> "new"]
  /\ iteration = [e \in Executions |-> 0]
  /\ todo = [e \in Executions |-> <<>>]
  /\ dispatched = [e \in Executions |-> {}]
  /\ asked = [e \in Executions |-> {}]
  /\ files = {}
  /\ result = [e \in Executions |-> "none"]
  /\ forked = FALSE
  /\ overlapped = FALSE

-----------------------------------------------------------------------------
Live(e) == pc[e] \notin {"new", "ended"}

Goes(e, point) == pc' = [pc EXCEPT ![e] = point]

(* A message that is no tool result, with n tool calls, is appended to a   *)
(* list: calls without a result stay without.                              *)
Said(m, n) ==
  LET broken == m.broken \/ m.open > 0
  IN  [m EXCEPT !.open = IF broken THEN 0 ELSE n, !.broken = broken]

(* The message is the request of e.                                        *)
Joined(m, e) == [m EXCEPT !.turns = @ \cup {e}]

(* A tool result is appended.                                              *)
Resulted(m) == [m EXCEPT !.open = IF m.broken THEN 0 ELSE m.open - 1]

Says(e, n) == messages' = [messages EXCEPT ![uses[e]] = Said(@, n)]

(* The session's history is taken up, or a new one begun.                  *)
Begin(e) ==
  LET list == IF session = NoList THEN e ELSE session
  IN  /\ pc[e] = "new"
      /\ Cardinality({d \in Executions : Live(d)}) < Limit
      /\ uses' = [uses EXCEPT ![e] = list]
      /\ messages' = [messages EXCEPT ![list] = Joined(Said(@, 0), e)]
      /\ forked' = (forked \/ (session = NoList /\ \E d \in Executions : Live(d)))
      /\ overlapped' = (overlapped \/ \E d \in Executions : Live(d) /\ uses[d] = list)
      /\ Goes(e, "thinking")
      /\ UNCHANGED <<session, work, files, result>>

(* Four iterations before the end, who has dispatched is told to finalize. *)
ReminderDue(e) == iteration[e] = MaxIterations - 4 /\ dispatched[e] # {}

Remind(e) ==
  /\ pc[e] = "thinking"
  /\ ReminderDue(e)
  /\ Says(e, 0)
  /\ Goes(e, "reminded")
  /\ UNCHANGED <<session, uses, forked, overlapped, work, files, result>>

Asks(e) == pc[e] = "reminded" \/ (pc[e] = "thinking" /\ ~ReminderDue(e))

(* Mutant: the session does not get the history.                           *)
MutFinish(e, how) ==
  /\ session' = session
  /\ dispatched' = [dispatched EXCEPT ![e] = {}]
  /\ iteration' = [iteration EXCEPT ![e] = 0]
  /\ result' = [result EXCEPT ![e] = how]
  /\ Goes(e, "ended")

(* The loop is left: the session gets the history.                         *)
Finish(e, how) ==
  /\ session' = uses[e]
  /\ dispatched' = [dispatched EXCEPT ![e] = {}]
  /\ iteration' = [iteration EXCEPT ![e] = 0]
  /\ result' = [result EXCEPT ![e] = how]
  /\ Goes(e, "ended")

(* The LLM call raises.                                                    *)
LLMFails(e) ==
  /\ Asks(e)
  /\ Finish(e, "answered")
  /\ UNCHANGED <<messages, uses, forked, overlapped, todo, asked, files>>

(* The LLM answers without tool calls.                                     *)
Reply(e) ==
  /\ Asks(e)
  /\ Says(e, 0)
  /\ Finish(e, "answered")
  /\ UNCHANGED <<uses, forked, overlapped, todo, asked, files>>

(* Mutant: tools are offered once too often.                               *)
MutOffered(e) == iteration[e] <= MaxIterations - 3

(* The last three calls of the LLM offer it no tools.                      *)
Offered(e) == iteration[e] < MaxIterations - 3

CallTools(e) ==
  /\ Asks(e)
  /\ Offered(e)
  /\ \E calls \in CallLists :
       /\ Says(e, Len(calls))
       /\ todo' = [todo EXCEPT ![e] = calls]
  /\ Goes(e, "working")
  /\ UNCHANGED <<session, uses, forked, overlapped, iteration, dispatched, asked, files, result>>

(* Mutant: the iterations are not counted.                                 *)
MutGoOn(e) ==
  /\ todo' = [todo EXCEPT ![e] = Tail(@)]
  /\ Goes(e, IF Len(todo[e]) > 1 THEN "working" ELSE "thinking")
  /\ UNCHANGED <<session, iteration, result>>

(* After a result the next call is due, or else the next iteration.  The   *)
(* iterations are not used up here: the last of them have no tool calls.   *)
GoOn(e) ==
  /\ todo' = [todo EXCEPT ![e] = Tail(@)]
  /\ IF Len(todo[e]) > 1
     THEN Goes(e, "working") /\ UNCHANGED iteration
     ELSE Goes(e, "thinking") /\ iteration' = [iteration EXCEPT ![e] = @ + 1]
  /\ UNCHANGED <<session, result>>

Results(e) == messages' = [messages EXCEPT ![uses[e]] = Resulted(@)]

(* Mutant: a call that cannot be parsed is skipped without a result.       *)
MutLookUp(e) ==
  /\ pc[e] = "working" /\ Head(todo[e]).tool = "look"
  /\ GoOn(e)
  /\ UNCHANGED <<messages, uses, forked, overlapped, dispatched, asked, files>>

LookUp(e) ==
  /\ pc[e] = "working" /\ Head(todo[e]).tool = "look"
  /\ Results(e)
  /\ GoOn(e)
  /\ UNCHANGED <<uses, forked, overlapped, dispatched, asked, files>>

(* One agent, or several at once, are sent to work.                        *)
Dispatch(e) ==
  /\ pc[e] = "working" /\ Head(todo[e]).tool = "dispatch"
  /\ asked' = [asked EXCEPT ![e] = @ \cup Head(todo[e]).agents]
  /\ Goes(e, "dispatching")
  /\ UNCHANGED <<history, iteration, todo, dispatched, files, result>>

(* A worker writes the first file to its role's folder in the session's,   *)
(* or empties or removes the last (write_file, run_command), at any time.  *)
Produce(role) ==
  /\ \E e \in Executions : \E t \in asked[e] : RoleOf[t] = role
  /\ files' = IF role \in files THEN files \ {role} ELSE files \cup {role}
  /\ UNCHANGED <<history, work, pc, result>>

(* Mutant: what was dispatched is not noted.                               *)
MutDispatched(e) ==
  /\ pc[e] = "dispatching"
  /\ Results(e)
  /\ GoOn(e)
  /\ UNCHANGED <<uses, forked, overlapped, dispatched, asked, files>>

(* All of them have returned, whatever with.                               *)
Dispatched(e) ==
  /\ pc[e] = "dispatching"
  /\ dispatched' = [dispatched EXCEPT ![e] = @ \cup Head(todo[e]).agents]
  /\ Results(e)
  /\ GoOn(e)
  /\ UNCHANGED <<uses, forked, overlapped, asked, files>>

(* review_artifacts: every dispatched type has a file in its role's folder.*)
Passes(e) == \A t \in dispatched[e] : RoleOf[t] \in files

Review(e) ==
  /\ pc[e] = "working" /\ Head(todo[e]).tool = "finalize"
  /\ Goes(e, IF Passes(e) THEN "accepted" ELSE "refused")
  /\ UNCHANGED <<history, work, files, result>>

Refused(e) ==
  /\ pc[e] = "refused"
  /\ Results(e)
  /\ GoOn(e)
  /\ UNCHANGED <<uses, forked, overlapped, dispatched, asked, files>>

(* The execution ends; the calls after finalize never get a result.        *)
Accepted(e) ==
  /\ pc[e] = "accepted"
  /\ Results(e)
  /\ todo' = [todo EXCEPT ![e] = Tail(@)]
  /\ Finish(e, "finalized")
  /\ UNCHANGED <<uses, forked, overlapped, asked, files>>

(* A cancellation, or an exception from a tool or an event's subscriber,   *)
(* leaves execute: the session's list stays as it is.                      *)
CutOff(e) ==
  /\ e \in Cuttable
  /\ Live(e)
  /\ Goes(e, "ended")
  /\ result' = [result EXCEPT ![e] = "cut"]
  /\ dispatched' = [dispatched EXCEPT ![e] = {}]
  /\ iteration' = [iteration EXCEPT ![e] = 0]
  /\ UNCHANGED <<history, todo, asked, files>>

-----------------------------------------------------------------------------
Proceeds(e) ==
  \/ Remind(e) \/ LLMFails(e) \/ Reply(e) \/ CallTools(e)
  \/ LookUp(e) \/ Dispatch(e) \/ Dispatched(e)
  \/ Review(e) \/ Refused(e) \/ Accepted(e)

Next ==
  \/ \E e \in Executions : Begin(e) \/ Proceeds(e) \/ CutOff(e)
  \/ \E role \in Roles : Produce(role)

Spec == Init /\ [][Next]_vars

(* LLM calls and dispatches end: the HTTP client and the Dispatcher have   *)
(* timeouts.  Workers need not write anything.                             *)
FairSpec == Spec /\ \A e \in Executions : WF_vars(Proceeds(e))

-----------------------------------------------------------------------------
(* Properties                                                              *)

(* session/manager.py:5: "same session_id → orchestrator remembers        *)
(* previous turns".  The request of an execution that returned is in the   *)
(* history that the next request of the session gets, however executions   *)
(* overlap and are cut off, unless two of them opened the session at once. *)
TurnsAreRemembered ==
  ~forked =>
    \A e \in Executions :
      result[e] \in Returned => session # NoList /\ e \in messages[session].turns

(* A history in which a tool call has no result is refused by the chat API *)
(* in every later request of the session.  As long as no two executions    *)
(* are under way on it, only one that was cut off in a tool, or that       *)
(* finalized with calls left over, spoils a history: refused reviews,      *)
(* reminders, errors of tools and of the LLM do not.                       *)
HistoryStaysUsable ==
  ~overlapped =>
    \A l \in Executions :
      messages[l].broken =>
        \E e \in Executions : uses[e] = l /\ pc[e] = "ended" /\ todo[e] # <<>>

(* orchestrator.py:769: every dispatched agent must have produced files    *)
(* before finalize completes.  When a review accepts, there are files of   *)
(* every dispatch of the execution, single or parallel, also of those that *)
(* failed.                                                                 *)
FinalizedIsReviewed ==
  [][\A e \in Executions :
       pc[e] # "accepted" /\ pc'[e] = "accepted" => \A t \in asked[e] : RoleOf[t] \in files]_vars

(* The loop ends, whatever the LLM calls and however often it is refused.  *)
ExecutionEnds == \A e \in Executions : Live(e) ~> pc[e] = "ended"
=============================================================================
