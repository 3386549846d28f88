--------------------------- MODULE WorkerProofs ---------------------------
(***************************************************************************)
(* Proofs about the worker process: type correctness, where files land,    *)
(* in which role runs begin, that ends are learnt, that it implements      *)
(* RemoteTask, and that runs lead on, for any messages and configs, any    *)
(* max_iterations, any number of lendings, and any TTL of at least one     *)
(* tick.                                                                   *)
(***************************************************************************)
EXTENDS Worker, TLAPS

InRequest(m) == pc[m] = "reading" \/ pc[m] \in Running

(* The record of a message says where its run is; what runs in the         *)
(* background can be cancelled; senders are answered about what was        *)
(* accepted only.                                                          *)
RecordsTrue ==
  \A m \in Messages :
    /\ pc[m] \in {"new", "reading"} =>
         record[m] = "none" /\ told[m] = "nothing" /\ client[m] = "away"
    /\ pc[m] \in Running => record[m] = "working" /\ (m \in Background => m \in bg)
    /\ pc[m] = "ended" => record[m] \in Final \cup {"none"}
    /\ pc[m] = "stopped" => record[m] = "working"

(* A record that is polled is there, and has ended since the last poll.    *)
PolledIsYoung ==
  \A m \in Messages : client[m] # "away" =>
    /\ record[m] # "none"
    /\ record[m] \in Final => age[m] <= 1
    /\ record[m] \in Final /\ client[m] = "asked" => age[m] = 0

(* As long as nobody else was lent the container, its config.json, the     *)
(* module's globals and the prompt are those of the requests under way.    *)
OwnConfig ==
  \A m \in Messages : InRequest(m) /\ m \notin outlived =>
    /\ mounted = accepted[m]
    /\ accepted[m] # Garbled => loaded = accepted[m]
    /\ accepted[m] \in Prompting => env = accepted[m]

Inv == TypeOK /\ RecordsTrue /\ PolledIsYoung /\ OwnConfig

-----------------------------------------------------------------------------
(* Types                                                                   *)

LEMMA TypeInit == Init => TypeOK
<1> SUFFICES ASSUME Init PROVE TypeOK
  OBVIOUS
<1>1. First \in Configs /\ MaxIterations \in Nat \ {0} /\ TTL \in Nat /\ Throttle \in Nat
  BY WorkerAssumption
<1>2. QED
  BY <1>1 DEF Init, TypeOK, Points, Running, Final

(* What a step that runs tools may write.                                  *)
LEMMA ToolsTyped ==
  ASSUME TypeOK, NEW m \in Messages, RunTools(m)
  PROVE  written' \in SUBSET (Messages \X Configs \X Configs)
<1>1. Directory(m) \in Configs
  BY WorkerAssumption DEF TypeOK, Directory
<1>2. <<m, Directory(m), loaded>> \in Messages \X Configs \X Configs
  BY <1>1 DEF TypeOK
<1>3. QED
  BY <1>2 DEF RunTools

(* A request loads a config, and its system prompt.                        *)
LEMMA ReloadTyped ==
  ASSUME TypeOK, Reload
  PROVE  loaded' \in Configs /\ env' \in Prompting \cup {BuiltIn}
BY DEF TypeOK, Reload

(* A run begins with the role and the prompt that are loaded.              *)
LEMMA PromptTyped ==
  ASSUME TypeOK, NEW m \in Messages, ResolvesPrompt(m) \/ UNCHANGED ran
  PROVE  ran' \in [Messages -> [role: Configs, prompt: Prompting \cup {BuiltIn}]]
<1>1. [role |-> loaded, prompt |-> env] \in [role: Configs, prompt: Prompting \cup {BuiltIn}]
  BY DEF TypeOK
<1>2. QED
  BY <1>1 DEF TypeOK, ResolvesPrompt

(* The end of a run.                                                       *)
LEMMA FinishesTyped ==
  ASSUME TypeOK, NEW m \in Messages, NEW how \in Final, Finishes(m, how)
  PROVE  /\ pc' \in [Messages -> Points]
         /\ record' \in [Messages -> {"none", "working"} \cup Final]
         /\ age' \in [Messages -> 0 .. TTL + 1]
         /\ rounds' \in [Messages -> 0 .. MaxIterations - 1]
         /\ told' \in [Messages -> {"nothing", "working", "canceled", "refused", "not_found"} \cup Final]
<1>1. 0 \in 0 .. TTL + 1 /\ 0 \in 0 .. MaxIterations - 1
  BY WorkerAssumption
<1>2. QED
  BY <1>1 DEF TypeOK, Finishes, Moves, Told, Points

LEMMA TypeNext == TypeOK /\ [Next]_vars => TypeOK'
<1> SUFFICES ASSUME TypeOK, [Next]_vars PROVE TypeOK'
  OBVIOUS
<1> USE DEF config
<1>1. ASSUME NEW m \in Messages, Receive(m) PROVE TypeOK'
  BY <1>1, ReloadTyped DEF TypeOK, Receive, Moves, Points, taskVars
<1>2. ASSUME NEW m \in Messages, Send(m) PROVE TypeOK'
  <2>1. pc' \in [Messages -> Points]
    BY <1>2 DEF TypeOK, Send, Moves, Points, Running
  <2>2. record' \in [Messages -> {"none", "working"} \cup Final]
    BY <1>2 DEF TypeOK, Send
  <2>3. bg' \in SUBSET Background
    BY <1>2 DEF TypeOK, Send
  <2>4. sinceCleanup' \in 0 .. Throttle
    BY <1>2, WorkerAssumption DEF TypeOK, Send
  <2>5. /\ told' \in [Messages -> {"nothing", "working", "canceled", "refused", "not_found"} \cup Final]
        /\ client' \in [Messages -> {"away", "due", "asked"}]
    BY <1>2 DEF TypeOK, Send, Told
  <2>6. written' \in SUBSET (Messages \X Configs \X Configs)
    BY <1>2 DEF Send
  <2>7. ran' \in [Messages -> [role: Configs, prompt: Prompting \cup {BuiltIn}]]
    BY <1>2, PromptTyped DEF Send
  <2>8. QED
    BY <1>2, <2>1, <2>2, <2>3, <2>4, <2>5, <2>6, <2>7 DEF TypeOK, Send
<1>3. ASSUME NEW m \in Messages, Begin(m) PROVE TypeOK'
  BY <1>3, PromptTyped DEF TypeOK, Begin, Moves, Points, Running, taskVars
<1>4. ASSUME NEW m \in Messages, Concludes(m) PROVE TypeOK'
  <2>1. Finishes(m, "completed") /\ "completed" \in Final
    BY <1>4 DEF Concludes, Final
  <2>2. QED
    BY <1>4, <2>1, FinishesTyped DEF TypeOK, Concludes
<1>5. ASSUME NEW m \in Messages, CallsTools(m) PROVE TypeOK'
  <2>1. written' \in SUBSET (Messages \X Configs \X Configs)
    BY <1>5, ToolsTyped DEF CallsTools
  <2>2. CASE rounds[m] + 1 < MaxIterations
    <3>1. rounds' = [rounds EXCEPT ![m] = rounds[m] + 1]
      BY <1>5, <2>2 DEF CallsTools
    <3>2. rounds[m] + 1 \in 0 .. MaxIterations - 1
      BY <2>2, WorkerAssumption DEF TypeOK
    <3>3. rounds' \in [Messages -> 0 .. MaxIterations - 1]
      BY <3>1, <3>2 DEF TypeOK
    <3>4. QED
      BY <1>5, <2>1, <2>2, <3>3 DEF TypeOK, CallsTools
  <2>3. CASE ~(rounds[m] + 1 < MaxIterations)
    <3>1. Finishes(m, "completed") /\ "completed" \in Final
      BY <1>5, <2>3 DEF CallsTools, Final
    <3>2. QED
      BY <1>5, <2>1, <3>1, FinishesTyped DEF TypeOK, CallsTools
  <2>4. QED
    BY <2>2, <2>3
<1>6. ASSUME NEW m \in Messages, Errs(m) PROVE TypeOK'
  <2>1. Finishes(m, "failed") /\ "failed" \in Final
    BY <1>6 DEF Errs, Final
  <2>2. written' \in SUBSET (Messages \X Configs \X Configs)
    BY <1>6, ToolsTyped DEF Errs
  <2>3. QED
    BY <1>6, <2>1, <2>2, FinishesTyped DEF TypeOK, Errs
<1>7. ASSUME NEW m \in Messages, Poll(m) PROVE TypeOK'
  <2>1. told' \in [Messages -> {"nothing", "working", "canceled", "refused", "not_found"} \cup Final]
    BY <1>7 DEF TypeOK, Poll, Told
  <2>2. client' \in [Messages -> {"away", "due", "asked"}]
    BY <1>7 DEF TypeOK, Poll
  <2>3. QED
    BY <1>7, <2>1, <2>2, ReloadTyped DEF TypeOK, Poll, taskVars
<1>8. ASSUME NEW m \in Messages, StopPolling(m) PROVE TypeOK'
  BY <1>8 DEF TypeOK, StopPolling, taskVars
<1>9. ASSUME NEW m \in Messages, Cancel(m) PROVE TypeOK'
  <2>1. 0 \in 0 .. MaxIterations - 1
    BY WorkerAssumption
  <2>2. pc' \in [Messages -> Points] /\ rounds' \in [Messages -> 0 .. MaxIterations - 1]
    BY <1>9, <2>1 DEF TypeOK, Cancel, Points
  <2>3. told' \in [Messages -> {"nothing", "working", "canceled", "refused", "not_found"} \cup Final]
    BY <1>9 DEF TypeOK, Cancel, Told
  <2>4. client' \in [Messages -> {"away", "due", "asked"}]
    BY <1>9 DEF TypeOK, Cancel
  <2>5. QED
    BY <1>9, <2>2, <2>3, <2>4, ReloadTyped DEF TypeOK, Cancel, taskVars
<1>10. ASSUME NEW c \in (Configs \cup {Garbled}) \ {mounted}, Remount(c) PROVE TypeOK'
  BY <1>10 DEF TypeOK, Remount, taskVars
<1>11. ASSUME OtherRequest PROVE TypeOK'
  BY <1>11, ReloadTyped DEF TypeOK, OtherRequest, taskVars
<1>12. ASSUME Tick PROVE TypeOK'
  <2>1. \A n \in 0 .. TTL + 1 : UpTo(n, TTL + 1) \in 0 .. TTL + 1
    BY WorkerAssumption DEF UpTo
  <2>2. age' \in [Messages -> 0 .. TTL + 1]
    BY <1>12, <2>1 DEF TypeOK, Tick
  <2>3. sinceCleanup' \in 0 .. Throttle
    BY <1>12, WorkerAssumption DEF TypeOK, Tick, UpTo
  <2>4. client' \in [Messages -> {"away", "due", "asked"}]
    BY <1>12 DEF TypeOK, Tick
  <2>5. QED
    BY <1>12, <2>2, <2>3, <2>4 DEF TypeOK, Tick
<1>13. ASSUME UNCHANGED vars PROVE TypeOK'
  BY <1>13 DEF TypeOK, vars
<1>14. QED
  BY <1>1, <1>2, <1>3, <1>4, <1>5, <1>6, <1>7, <1>8, <1>9, <1>10, <1>11, <1>12,
     <1>13 DEF Next, Run

-----------------------------------------------------------------------------
(* Records                                                                 *)

LEMMA RecordsNext == TypeOK /\ RecordsTrue /\ [Next]_vars => RecordsTrue'
<1> SUFFICES ASSUME TypeOK, RecordsTrue, [Next]_vars PROVE RecordsTrue'
  OBVIOUS
<1>1. ASSUME NEW m \in Messages, Receive(m) PROVE RecordsTrue'
  BY <1>1 DEF TypeOK, RecordsTrue, Receive, Moves, Running, taskVars
<1>2. ASSUME NEW m \in Messages, Send(m) PROVE RecordsTrue'
  <2>1. pc[m] = "reading" /\ pc' = [pc EXCEPT ![m] = IF m \in Background THEN "begun" ELSE "calling"]
    BY <1>2 DEF Send, Moves
  <2>2. \A n \in Removed : record[n] \in Final
    BY DEF Removed, Expired
  <2>3. \A n \in Messages : n # m =>
          /\ pc'[n] = pc[n] /\ told'[n] = told[n] /\ client'[n] = client[n]
          /\ record'[n] = IF n \in Removed THEN "none" ELSE record[n]
          /\ n \in bg /\ n \notin Removed => n \in bg'
    BY <1>2, <2>1 DEF TypeOK, Send, Told
  <2>4. record'[m] = "working" /\ pc'[m] \in Running
        /\ (m \in Background => m \in bg')
    BY <1>2, <2>1 DEF TypeOK, Send, Running
  <2>5. QED
    BY <2>2, <2>3, <2>4 DEF RecordsTrue, Final, Running
<1>3. ASSUME NEW m \in Messages, Begin(m) PROVE RecordsTrue'
  BY <1>3 DEF TypeOK, RecordsTrue, Begin, Moves, Running, taskVars
<1>4. ASSUME NEW m \in Messages, NEW how \in Final, Finishes(m, how),
             UNCHANGED <<bg, client>>
      PROVE  RecordsTrue'
  BY <1>4 DEF TypeOK, RecordsTrue, Finishes, Moves, Told, Running, Final
<1>5. ASSUME NEW m \in Messages, Concludes(m) \/ CallsTools(m) \/ Errs(m)
      PROVE  RecordsTrue'
  <2>1. CASE UNCHANGED <<pc, record, bg, told, client>>
    BY <2>1 DEF RecordsTrue
  <2>2. CASE \E how \in Final : Finishes(m, how) /\ UNCHANGED <<bg, client>>
    BY <2>2, <1>4
  <2>3. QED
    BY <1>5, <2>1, <2>2 DEF Concludes, CallsTools, Errs, Final
<1>6. ASSUME NEW m \in Messages, Poll(m) PROVE RecordsTrue'
  BY <1>6 DEF TypeOK, RecordsTrue, Poll, Told, taskVars
<1>7. ASSUME NEW m \in Messages, StopPolling(m) PROVE RecordsTrue'
  BY <1>7 DEF TypeOK, RecordsTrue, StopPolling, taskVars
<1>8. ASSUME NEW m \in Messages, Cancel(m) PROVE RecordsTrue'
  BY <1>8 DEF TypeOK, RecordsTrue, Cancel, Told, Running, taskVars
<1>9. ASSUME Tick PROVE RecordsTrue'
  BY <1>9 DEF TypeOK, RecordsTrue, Tick
<1>10. ASSUME \/ \E c \in (Configs \cup {Garbled}) \ {mounted} : Remount(c)
              \/ OtherRequest
              \/ UNCHANGED vars
       PROVE  RecordsTrue'
  BY <1>10 DEF RecordsTrue, Remount, OtherRequest, vars, taskVars
<1>11. QED
  BY <1>1, <1>2, <1>3, <1>5, <1>6, <1>7, <1>8, <1>9, <1>10 DEF Next, Run

LEMMA PolledNext ==
  TypeOK /\ RecordsTrue /\ PolledIsYoung /\ [Next]_vars => PolledIsYoung'
<1> SUFFICES ASSUME TypeOK, RecordsTrue, PolledIsYoung, [Next]_vars PROVE PolledIsYoung'
  OBVIOUS
<1>1. ASSUME NEW m \in Messages, Send(m) PROVE PolledIsYoung'
  <2>1. \A n \in Messages : client[n] # "away" => n \notin Removed
    BY WorkerAssumption DEF TypeOK, PolledIsYoung, Removed, Expired
  <2>2. record'[m] = "working" /\ "working" \notin Final /\ "working" # "none"
    BY <1>1 DEF TypeOK, Send, Final
  <2>3. \A n \in Messages : n # m =>
          /\ client'[n] = client[n]
          /\ age'[n] = age[n]
          /\ n \notin Removed => record'[n] = record[n]
    BY <1>1 DEF TypeOK, Send
  <2>4. QED
    BY <2>1, <2>2, <2>3 DEF PolledIsYoung
<1>2. ASSUME NEW m \in Messages, NEW how \in Final, Finishes(m, how), UNCHANGED client
      PROVE  PolledIsYoung'
  BY <1>2 DEF TypeOK, PolledIsYoung, Finishes, Final
<1>3. ASSUME NEW m \in Messages, Concludes(m) \/ CallsTools(m) \/ Errs(m)
      PROVE  PolledIsYoung'
  <2>1. CASE UNCHANGED <<record, age, client>>
    BY <2>1 DEF PolledIsYoung
  <2>2. CASE \E how \in Final : Finishes(m, how) /\ UNCHANGED client
    BY <2>2, <1>2
  <2>3. QED
    BY <1>3, <2>1, <2>2 DEF Concludes, CallsTools, Errs, Final
<1>4. ASSUME NEW m \in Messages, Poll(m) PROVE PolledIsYoung'
  <2>1. \A n \in Messages : client'[n] = IF n # m THEN client[n]
                            ELSE IF record[m] \in Final THEN "away" ELSE "asked"
    BY <1>4 DEF TypeOK, Poll
  <2>2. client[m] # "away" /\ UNCHANGED <<record, age>>
    BY <1>4 DEF Poll, taskVars
  <2>3. QED
    BY <2>1, <2>2 DEF PolledIsYoung
<1>5. ASSUME NEW m \in Messages, StopPolling(m) \/ Cancel(m) PROVE PolledIsYoung'
  BY <1>5 DEF TypeOK, PolledIsYoung, StopPolling, Cancel, taskVars
<1>6. ASSUME Tick PROVE PolledIsYoung'
  <2> SUFFICES ASSUME NEW m \in Messages, client'[m] # "away"
               PROVE  /\ record[m] # "none" /\ client'[m] = "due"
                      /\ record[m] \in Final => age'[m] <= 1
    BY <1>6 DEF PolledIsYoung, Tick
  <2>1. client[m] = "asked" /\ client'[m] = "due"
    BY <1>6 DEF TypeOK, Tick
  <2>2. record[m] # "none" /\ (record[m] \in Final => age[m] = 0)
    BY <2>1 DEF PolledIsYoung
  <2>3. UpTo(0, TTL + 1) = 1
    BY WorkerAssumption DEF UpTo
  <2>4. record[m] \in Final => age'[m] = 1
    BY <1>6, <2>2, <2>3 DEF Tick
  <2>5. QED
    BY <2>1, <2>2, <2>4
<1>7. ASSUME \/ \E m \in Messages : Receive(m) \/ Begin(m)
             \/ \E c \in (Configs \cup {Garbled}) \ {mounted} : Remount(c)
             \/ OtherRequest
             \/ UNCHANGED vars
      PROVE  PolledIsYoung'
  BY <1>7 DEF PolledIsYoung, Receive, Begin, Remount, OtherRequest, vars, taskVars
<1>8. QED
  BY <1>1, <1>3, <1>4, <1>5, <1>6, <1>7 DEF Next, Run

-----------------------------------------------------------------------------
(* Configs                                                                 *)

(* A request that loads the config.json of those under way changes nothing *)
(* for them.                                                               *)
LEMMA ReloadKeeps ==
  ASSUME OwnConfig, Reload, UNCHANGED <<mounted, outlived, accepted>>,
         \A n \in Messages : InRequest(n)' => InRequest(n)
  PROVE  OwnConfig'
BY DEF OwnConfig, Reload

LEMMA OwnConfigNext == TypeOK /\ OwnConfig /\ [Next]_vars => OwnConfig'
<1> SUFFICES ASSUME TypeOK, OwnConfig, [Next]_vars PROVE OwnConfig'
  OBVIOUS
<1> USE DEF config
<1>1. ASSUME NEW m \in Messages, Receive(m) PROVE OwnConfig'
  <2>1. /\ Reload /\ UNCHANGED <<mounted, outlived>>
        /\ accepted' = [accepted EXCEPT ![m] = mounted]
        /\ pc' = [pc EXCEPT ![m] = "reading"]
    BY <1>1 DEF Receive, Moves
  <2>2. accepted'[m] = mounted
    BY <2>1 DEF TypeOK
  <2>3. \A n \in Messages : n # m => accepted'[n] = accepted[n] /\ InRequest(n)' = InRequest(n)
    BY <2>1 DEF TypeOK, InRequest
  <2>4. QED
    BY <2>1, <2>2, <2>3 DEF OwnConfig, Reload
<1>2. ASSUME NEW m \in Messages, Send(m) \/ Run(m) \/ StopPolling(m) PROVE OwnConfig'
  <2>1. UNCHANGED <<mounted, loaded, env, accepted, outlived>>
    BY <1>2 DEF Send, Run, Begin, Concludes, CallsTools, Errs, StopPolling
  <2>2. \A n \in Messages : InRequest(n)' => InRequest(n)
    BY <1>2 DEF TypeOK, Send, Run, Begin, Concludes, CallsTools, Errs, StopPolling,
                Finishes, Moves, InRequest, Running
  <2>3. QED
    BY <2>1, <2>2 DEF OwnConfig
<1>3. ASSUME (\E m \in Messages : Poll(m) \/ Cancel(m)) \/ OtherRequest PROVE OwnConfig'
  <2>1. Reload /\ UNCHANGED <<mounted, outlived, accepted>>
    BY <1>3 DEF Poll, Cancel, OtherRequest
  <2>2. \A n \in Messages : InRequest(n)' => InRequest(n)
    BY <1>3 DEF TypeOK, Poll, Cancel, OtherRequest, InRequest, Running
  <2>3. QED
    BY <2>1, <2>2, ReloadKeeps
<1>4. ASSUME NEW c \in (Configs \cup {Garbled}) \ {mounted}, Remount(c) PROVE OwnConfig'
  BY <1>4 DEF OwnConfig, Remount, InRequest
<1>5. ASSUME Tick \/ UNCHANGED vars PROVE OwnConfig'
  BY <1>5 DEF OwnConfig, InRequest, Tick, vars
<1>6. QED
  BY <1>1, <1>2, <1>3, <1>4, <1>5 DEF Next

-----------------------------------------------------------------------------
(* The inductive invariant                                                 *)

LEMMA InvInit == Init => Inv
<1> SUFFICES ASSUME Init PROVE Inv
  OBVIOUS
<1>1. RecordsTrue /\ PolledIsYoung /\ OwnConfig
  BY DEF Init, RecordsTrue, PolledIsYoung, OwnConfig, InRequest, Running
<1>2. QED
  BY <1>1, TypeInit DEF Inv

THEOREM WorkerInvariant == Spec => []Inv
<1>1. Inv /\ [Next]_vars => Inv'
  BY TypeNext, RecordsNext, PolledNext, OwnConfigNext DEF Inv
<1>2. QED
  BY <1>1, InvInit, PTL DEF Spec

(* The worker's state keeps its types; in particular no run goes beyond    *)
(* max_iterations rounds.                                                  *)
THEOREM TypeCorrect == Spec => []TypeOK
<1>1. Inv => TypeOK
  BY DEF Inv
<1>2. QED
  BY <1>1, WorkerInvariant, PTL

-----------------------------------------------------------------------------
(* What it is for                                                          *)

(* Tools of a message write into its own directory, in whatever order      *)
(* later users of the container send requests, and into its own role's     *)
(* folder until the container is lent to another dispatch.                 *)
THEOREM FilesLandInOwnPlace == Spec => []FilesInOwnPlace
<1>1. Init => FilesInOwnPlace
  BY DEF Init, FilesInOwnPlace
<1>2. Inv /\ FilesInOwnPlace /\ [Next]_vars => FilesInOwnPlace'
  <2> SUFFICES ASSUME Inv, FilesInOwnPlace, [Next]_vars PROVE FilesInOwnPlace'
    OBVIOUS
  <2>1. ASSUME NEW m \in Messages, CallsTools(m) \/ Errs(m) PROVE FilesInOwnPlace'
    <3>1. pc[m] = "calling"
      BY <2>1 DEF CallsTools, Errs, Finishes, Moves
    <3>2. UNCHANGED <<accepted, outlived>> /\ RunTools(m)
      BY <2>1 DEF CallsTools, Errs
    <3>3. accepted[m] # Garbled => Directory(m) = accepted[m]
      BY DEF Directory
    <3>4. accepted[m] # Garbled /\ m \notin outlived => loaded = accepted[m]
      BY <3>1 DEF Inv, OwnConfig, InRequest, Running
    <3>5. QED
      BY <3>2, <3>3, <3>4 DEF FilesInOwnPlace, RunTools
  <2>2. CASE written' = {}
    BY <2>2 DEF FilesInOwnPlace
  <2>3. CASE UNCHANGED vars
    BY <2>3 DEF FilesInOwnPlace, vars
  <2>4. QED
    BY <2>1, <2>2, <2>3 DEF Next, Run, Receive, Send, Begin, Concludes, Poll,
       StopPolling, Cancel, Remount, OtherRequest, Tick
<1>3. QED
  BY <1>1, <1>2, WorkerInvariant, PTL DEF Spec

(* The role and the system prompt with which call_llm begins a run are its *)
(* message's own as long as the container is not lent to another dispatch: *)
(* reload_config may load the configuration any number of times between    *)
(* the request and the coroutine's first step.                             *)
THEOREM RunsHaveOwnRole == Spec => []RunsInOwnRole
<1>1. Init => RunsInOwnRole
  BY DEF Init, RunsInOwnRole
<1>2. Inv /\ RunsInOwnRole /\ [Next]_vars => RunsInOwnRole'
  <2> SUFFICES ASSUME Inv, RunsInOwnRole, [Next]_vars PROVE RunsInOwnRole'
    OBVIOUS
  <2>1. TypeOK /\ OwnConfig
    BY DEF Inv
  <2>2. ASSUME UNCHANGED <<ran, accepted>>, outlived \subseteq outlived',
               \A m \in Messages : pc'[m] = "calling" => pc[m] = "calling"
        PROVE  RunsInOwnRole'
    BY <2>2 DEF RunsInOwnRole
  <2>3. ASSUME NEW m \in Messages, ResolvesPrompt(m), UNCHANGED <<accepted, outlived>>,
               InRequest(m),
               \A n \in Messages \ {m} : pc'[n] = pc[n]
        PROVE  RunsInOwnRole'
    <3>1. ran'[m].role = loaded /\ ran'[m].prompt = env
      BY <2>1, <2>3 DEF TypeOK, ResolvesPrompt
    <3>2. \A n \in Messages \ {m} : ran'[n] = ran[n]
      BY <2>1, <2>3 DEF TypeOK, ResolvesPrompt
    <3>3. QED
      BY <2>1, <2>3, <3>1, <3>2 DEF RunsInOwnRole, OwnConfig
  <2>4. ASSUME NEW m \in Messages, Send(m) PROVE RunsInOwnRole'
    <3>1. /\ InRequest(m) /\ UNCHANGED <<accepted, outlived>>
          /\ \A n \in Messages \ {m} : pc'[n] = pc[n]
      BY <2>1, <2>4 DEF TypeOK, Send, Moves, InRequest
    <3>2. CASE m \in Background
      <4>1. UNCHANGED ran /\ pc'[m] = "begun"
        BY <2>1, <2>4, <3>2 DEF TypeOK, Send, Moves
      <4>2. QED
        BY <2>2, <3>1, <4>1
    <3>3. CASE m \notin Background
      BY <2>3, <2>4, <3>1, <3>3 DEF Send
    <3>4. QED
      BY <3>2, <3>3
  <2>5. ASSUME NEW m \in Messages, Begin(m) PROVE RunsInOwnRole'
    <3>1. /\ InRequest(m) /\ UNCHANGED <<accepted, outlived>>
          /\ \A n \in Messages \ {m} : pc'[n] = pc[n]
      BY <2>1, <2>5 DEF TypeOK, Begin, Moves, InRequest, Running
    <3>2. QED
      BY <2>3, <2>5, <3>1 DEF Begin
  <2>6. ASSUME NEW m \in Messages, Receive(m) PROVE RunsInOwnRole'
    <3>1. /\ pc'[m] = "reading" /\ UNCHANGED <<ran, outlived>>
          /\ \A n \in Messages \ {m} : pc'[n] = pc[n] /\ accepted'[n] = accepted[n]
      BY <2>1, <2>6 DEF TypeOK, Receive, Moves
    <3>2. QED
      BY <3>1 DEF RunsInOwnRole
  <2>7. ASSUME NEW m \in Messages,
               Concludes(m) \/ CallsTools(m) \/ Errs(m) \/ Poll(m)
                 \/ StopPolling(m) \/ Cancel(m)
        PROVE  RunsInOwnRole'
    <3>1. UNCHANGED <<ran, accepted, outlived>>
      BY <2>7 DEF Concludes, CallsTools, Errs, Poll, StopPolling, Cancel
    <3>2. \A n \in Messages : pc'[n] = "calling" => pc[n] = "calling"
      BY <2>1, <2>7 DEF TypeOK, Concludes, CallsTools, Errs, Finishes, Moves, Poll,
         StopPolling, Cancel
    <3>3. QED
      BY <2>2, <3>1, <3>2
  <2>8. CASE (\E c \in (Configs \cup {Garbled}) \ {mounted} : Remount(c))
               \/ OtherRequest \/ Tick \/ UNCHANGED vars
    BY <2>2, <2>8 DEF Remount, OtherRequest, Tick, vars
  <2>9. QED
    BY <2>4, <2>5, <2>6, <2>7, <2>8 DEF Next, Run
<1>3. QED
  BY <1>1, <1>2, WorkerInvariant, PTL DEF Spec

(* _cleanup_old_tasks never removes the record of a task before a sender   *)
(* that polls it has been told its end.                                    *)
THEOREM EndsAreLearnt == Spec => []EndIsLearnt
<1>1. Init => EndIsLearnt
  BY DEF Init, EndIsLearnt
<1>2. Inv /\ EndIsLearnt /\ [Next]_vars => EndIsLearnt'
  <2> SUFFICES ASSUME Inv, EndIsLearnt, [Next]_vars PROVE EndIsLearnt'
    OBVIOUS
  <2>1. ASSUME NEW m \in Messages, Poll(m) PROVE EndIsLearnt'
    <3>1. record[m] # "none" /\ record[m] # "not_found"
      BY <2>1 DEF Inv, TypeOK, PolledIsYoung, Poll, Final
    <3>2. QED
      BY <2>1, <3>1 DEF Inv, TypeOK, EndIsLearnt, Poll, Told
  <2>2. ASSUME NEW m \in Messages, NEW answer,
               Told(m, answer), answer # "not_found"
        PROVE  EndIsLearnt'
    BY <2>2 DEF Inv, TypeOK, EndIsLearnt, Told
  <2>3. CASE UNCHANGED told
    BY <2>3 DEF EndIsLearnt
  <2>4. ASSUME NEW m \in Messages,
               Send(m) \/ Cancel(m) \/ Concludes(m) \/ CallsTools(m) \/ Errs(m)
        PROVE  EndIsLearnt'
    BY <2>2, <2>3, <2>4 DEF Send, Cancel, Concludes, CallsTools, Errs, Finishes
  <2>5. QED
    BY <2>1, <2>3, <2>4 DEF Next, Run, Receive, Begin, StopPolling, Remount,
       OtherRequest, Tick, vars
<1>3. QED
  BY <1>1, <1>2, WorkerInvariant, PTL DEF Spec

-----------------------------------------------------------------------------
(* The worker implements RemoteTask                                        *)

(* Steps that change neither a record nor where a message is.              *)
LEMMA StandingKept ==
  ASSUME UNCHANGED record,
         \A n \in Messages :
           /\ pc'[n] \in {"new", "reading"} <=> pc[n] \in {"new", "reading"}
           /\ pc'[n] = "stopped" <=> pc[n] = "stopped"
  PROVE  Standing' = Standing
BY DEF Standing

LEMMA SendAccepts ==
  ASSUME Inv, NEW m \in Messages, Send(m)
  PROVE  R!Next
<1>1. pc[m] = "reading" /\ pc' = [pc EXCEPT ![m] = IF m \in Background THEN "begun" ELSE "calling"]
  BY DEF Send, Moves
<1>2. Removed \in SUBSET Messages /\ \A n \in Removed : record[n] \in Final
  BY DEF Removed, Expired
<1>3. \A n \in Messages : record'[n] =
        IF n = m THEN "working" ELSE IF n \in Removed THEN "none" ELSE record[n]
  BY DEF Send
<1>4. \A n \in Messages : n # m => pc'[n] = pc[n]
  BY <1>1 DEF Inv, TypeOK
<1>5. pc'[m] \in {"begun", "calling"}
  BY <1>1 DEF Inv, TypeOK
<1>6. \A n \in Removed : pc[n] = "ended"
  BY <1>2 DEF Inv, TypeOK, RecordsTrue, Points, Running, Final
<1>7. \A n \in Removed : Standing[n] \in R!Final
  BY <1>2, <1>6 DEF Standing, R!Final, Final
<1>8. Standing[m] = "unknown"
  BY <1>1 DEF Standing
<1>9. Standing' = [n \in Messages |->
        IF n = m THEN "working" ELSE IF n \in Removed THEN "forgotten" ELSE Standing[n]]
  BY <1>3, <1>4, <1>5, <1>6 DEF Standing
<1>10. told' = IF m \in Background THEN [told EXCEPT ![m] = "working"] ELSE told
  BY DEF Send, Told
<1>11. R!Accept(m, Removed)
  BY <1>7, <1>8, <1>9, <1>10 DEF R!Accept
<1>12. QED
  BY <1>2, <1>11 DEF R!Next

LEMMA FinishesEnds ==
  ASSUME Inv, NEW m \in Messages, NEW how \in Final, Finishes(m, how)
  PROVE  R!Next
<1>1. pc[m] = "calling" /\ pc' = [pc EXCEPT ![m] = "ended"]
      /\ record' = [record EXCEPT ![m] = how]
  BY DEF Finishes, Moves
<1>2. record[m] = "working"
  BY <1>1 DEF Inv, RecordsTrue, Running
<1>3. Standing[m] = "working"
  BY <1>1, <1>2 DEF Standing
<1>4. \A n \in Messages : n # m => pc'[n] = pc[n] /\ record'[n] = record[n]
  BY <1>1 DEF Inv, TypeOK
<1>5. pc'[m] = "ended" /\ record'[m] = how
  BY <1>1 DEF Inv, TypeOK
<1>6. Standing'[m] = how
  BY <1>5 DEF Standing, Final
<1>7. \A n \in Messages : n # m => Standing'[n] = Standing[n]
  BY <1>4 DEF Standing
<1>8. Standing' = [Standing EXCEPT ![m] = how]
  BY <1>6, <1>7 DEF Standing
<1>9. told' = IF m \in Background THEN told ELSE [told EXCEPT ![m] = how]
  BY DEF Finishes, Told
<1>10. R!End(m, how)
  BY <1>3, <1>8, <1>9 DEF R!End
<1>11. QED
  BY <1>10 DEF R!Next, R!Final, Final

LEMMA PollGets ==
  ASSUME Inv, NEW m \in Messages, Poll(m)
  PROVE  R!Next
<1>1. pc[m] \notin {"new", "reading"} /\ record[m] # "none"
  BY DEF Inv, RecordsTrue, PolledIsYoung, Poll
<1>2. Standing[m] # "unknown" /\ R!Shown(Standing[m]) = record[m]
  BY <1>1 DEF Inv, TypeOK, Standing, R!Shown, Final
<1>3. UNCHANGED <<pc, record>>
  BY DEF Poll, taskVars
<1>4. Standing' = Standing
  BY <1>3 DEF Standing
<1>5. R!Get(m)
  BY <1>1, <1>2, <1>4 DEF R!Get, Poll, Told
<1>6. QED
  BY <1>5 DEF R!Next

LEMMA CancelStops ==
  ASSUME Inv, NEW m \in Messages, Cancel(m)
  PROVE  R!Next
<1>1. m \in Background /\ pc[m] \notin {"new", "reading"} /\ UNCHANGED record
  BY DEF Inv, RecordsTrue, Cancel, taskVars
<1>2. CASE m \in bg /\ pc[m] \in Running
  <2>1. pc' = [pc EXCEPT ![m] = "stopped"] /\ told' = [told EXCEPT ![m] = "canceled"]
    BY <1>2 DEF Cancel, Told, Running
  <2>2. record[m] = "working" /\ pc[m] # "stopped"
    BY <1>2 DEF Inv, RecordsTrue, Running
  <2>3. Standing[m] = "working"
    BY <1>1, <2>2 DEF Standing
  <2>4. pc'[m] = "stopped" /\ \A n \in Messages : n # m => pc'[n] = pc[n]
    BY <2>1 DEF Inv, TypeOK
  <2>5. Standing' = [Standing EXCEPT ![m] = "stuck"]
    BY <1>1, <2>2, <2>4 DEF Standing
  <2>6. R!Stop(m)
    BY <2>1, <2>3, <2>5 DEF R!Stop
  <2>7. QED
    BY <2>6 DEF R!Next
<1>3. CASE pc[m] = "stopped" /\ UNCHANGED pc /\ told' = [told EXCEPT ![m] = "canceled"]
  <2>1. Standing[m] = "stuck"
    BY <1>3 DEF Inv, RecordsTrue, Standing
  <2>2. Standing' = Standing
    BY <1>1, <1>3 DEF Standing
  <2>3. Standing' = [Standing EXCEPT ![m] = "stuck"]
    BY <2>1, <2>2 DEF Standing
  <2>4. R!Stop(m)
    BY <1>3, <2>1, <2>3 DEF R!Stop
  <2>5. QED
    BY <2>4 DEF R!Next
<1>4. CASE /\ ~(m \in bg /\ pc[m] \in Running)
           /\ UNCHANGED pc
           /\ told' = [told EXCEPT ![m] = "refused"]
  <2>1. pc[m] \in {"ended", "stopped"}
    BY <1>1, <1>4 DEF Inv, TypeOK, RecordsTrue, Points
  <2>2. Standing[m] \notin {"unknown", "working"}
    BY <2>1 DEF Inv, RecordsTrue, Standing, Final
  <2>3. Standing' = Standing
    BY <1>1, <1>4 DEF Standing
  <2>4. R!RefuseToStop(m)
    BY <1>4, <2>2, <2>3 DEF R!RefuseToStop
  <2>5. QED
    BY <2>4 DEF R!Next
<1>5. QED
  BY <1>2, <1>3, <1>4 DEF Cancel, Told

(* One task per message, final ends, true answers, and a cancel that is    *)
(* refused only when nothing runs any more: the worker implements          *)
(* RemoteTask.                                                             *)
THEOREM WorkerImplementsRemoteTask == Spec => RemoteTaskSpec
<1>1. Init => R!Init
  BY DEF Init, R!Init, Standing
<1>2. Inv /\ [Next]_vars => [R!Next]_(R!vars)
  <2> SUFFICES ASSUME Inv, [Next]_vars PROVE R!Next \/ UNCHANGED R!vars
    OBVIOUS
  <2>1. ASSUME NEW m \in Messages, Concludes(m) \/ CallsTools(m) \/ Errs(m)
        PROVE  R!Next \/ UNCHANGED R!vars
    <3>1. CASE UNCHANGED <<pc, record, told>>
      BY <3>1 DEF Standing, R!vars
    <3>2. CASE \E how \in Final : Finishes(m, how)
      BY <3>2, FinishesEnds
    <3>3. QED
      BY <2>1, <3>1, <3>2 DEF Concludes, CallsTools, Errs, Final
  <2>2. ASSUME NEW m \in Messages, Receive(m) \/ Begin(m) PROVE UNCHANGED R!vars
    <3>1. UNCHANGED <<record, told>>
      BY <2>2 DEF Receive, Begin, taskVars
    <3>2. \A n \in Messages :
            /\ pc'[n] \in {"new", "reading"} <=> pc[n] \in {"new", "reading"}
            /\ pc'[n] = "stopped" <=> pc[n] = "stopped"
      BY <2>2 DEF Inv, TypeOK, Receive, Begin, Moves
    <3>3. QED
      BY <3>1, <3>2, StandingKept DEF R!vars
  <2>3. CASE UNCHANGED <<pc, record, told>>
    BY <2>3 DEF Standing, R!vars
  <2>4. QED
    BY <2>1, <2>2, <2>3, SendAccepts, PollGets, CancelStops
       DEF Next, Run, StopPolling, Remount, OtherRequest, Tick, vars, taskVars
<1>3. QED
  BY <1>1, <1>2, WorkerInvariant, PTL DEF Spec, RemoteTaskSpec, R!Spec

-----------------------------------------------------------------------------
(* Runs end                                                                *)

(* What a message still has before it: its request, the start of its       *)
(* coroutine, and the calls of the LLM that max_iterations leaves.         *)
StepsLeft(m) ==
  IF pc[m] \in {"new", "reading"} THEN MaxIterations + 2
  ELSE IF pc[m] = "begun" THEN MaxIterations + 1
  ELSE IF pc[m] = "calling" THEN MaxIterations - rounds[m]
  ELSE 0

(* Nothing brings a message farther from its end, and what the event loop  *)
(* does with it brings it nearer.  Its run has at most max_iterations      *)
(* calls, whatever the LLM answers, and is not begun again after its end   *)
(* or a cancellation.                                                      *)
NoRunGoesBack ==
  [][\A m \in Messages :
       /\ StepsLeft(m)' <= StepsLeft(m)
       /\ Run(m) => StepsLeft(m)' < StepsLeft(m)]_vars

(* A message that is not touched is as far from its end as before.         *)
LEMMA StepsKept ==
  ASSUME TypeOK, NEW m \in Messages, pc'[m] = pc[m], rounds'[m] = rounds[m]
  PROVE  StepsLeft(m)' <= StepsLeft(m)
<1>1. MaxIterations \in Nat /\ rounds[m] \in Nat
  BY WorkerAssumption DEF TypeOK
<1>2. QED
  BY <1>1 DEF StepsLeft

(* What the event loop does with a message: the coroutine starts, the LLM  *)
(* is called for one round more, or the run is over.                       *)
LEMMA RunsAdvance ==
  ASSUME TypeOK, NEW m \in Messages, Run(m)
  PROVE  StepsLeft(m)' < StepsLeft(m) /\ StepsLeft(m)' <= StepsLeft(m)
<1>1. /\ MaxIterations \in Nat \ {0} /\ rounds[m] \in 0 .. MaxIterations - 1
      /\ pc \in [Messages -> Points] /\ rounds \in [Messages -> 0 .. MaxIterations - 1]
  BY WorkerAssumption DEF TypeOK
<1>2. CASE Begin(m)
  <2>1. pc[m] = "begun" /\ pc'[m] = "calling" /\ rounds'[m] = rounds[m]
    BY <1>1, <1>2 DEF Begin, Moves
  <2>2. QED
    BY <1>1, <2>1 DEF StepsLeft
<1>3. ASSUME NEW how, Finishes(m, how)
      PROVE  StepsLeft(m)' < StepsLeft(m) /\ StepsLeft(m)' <= StepsLeft(m)
  <2>1. pc[m] = "calling" /\ pc'[m] = "ended"
    BY <1>1, <1>3 DEF Finishes, Moves
  <2>2. QED
    BY <1>1, <2>1 DEF StepsLeft
<1>4. CASE CallsTools(m)
  <2>1. CASE rounds[m] + 1 < MaxIterations
    <3>1. pc[m] = "calling" /\ pc'[m] = "calling" /\ rounds'[m] = rounds[m] + 1
      BY <1>1, <1>4, <2>1 DEF CallsTools
    <3>2. QED
      BY <1>1, <3>1 DEF StepsLeft
  <2>2. CASE ~(rounds[m] + 1 < MaxIterations)
    BY <1>3, <1>4, <2>2 DEF CallsTools
  <2>3. QED
    BY <2>1, <2>2
<1>5. QED
  BY <1>2, <1>3, <1>4 DEF Run, Concludes, Errs

(* The steps that are not those of the event loop.                         *)
LEMMA OthersKeep ==
  ASSUME TypeOK, NEW m \in Messages, Receive(m) \/ Send(m) \/ Cancel(m)
  PROVE  StepsLeft(m)' <= StepsLeft(m)
<1>1. /\ MaxIterations \in Nat \ {0} /\ rounds[m] \in 0 .. MaxIterations - 1
      /\ pc \in [Messages -> Points] /\ rounds \in [Messages -> 0 .. MaxIterations - 1]
  BY WorkerAssumption DEF TypeOK
<1>2. CASE Receive(m)
  <2>1. pc[m] = "new" /\ pc'[m] = "reading"
    BY <1>1, <1>2 DEF Receive, Moves
  <2>2. QED
    BY <1>1, <2>1 DEF StepsLeft
<1>3. CASE Send(m)
  <2>1. pc[m] = "reading" /\ pc'[m] \in {"begun", "calling"} /\ rounds'[m] = rounds[m]
    BY <1>1, <1>3 DEF Send, Moves
  <2>2. QED
    BY <1>1, <2>1 DEF StepsLeft
<1>4. CASE Cancel(m)
  <2>1. CASE UNCHANGED <<pc, rounds>>
    BY <2>1, StepsKept
  <2>2. CASE pc' = [pc EXCEPT ![m] = "stopped"]
    <3>1. pc'[m] = "stopped"
      BY <1>1, <2>2
    <3>2. QED
      BY <1>1, <3>1 DEF StepsLeft
  <2>3. QED
    BY <1>4, <2>1, <2>2 DEF Cancel
<1>5. QED
  BY <1>2, <1>3, <1>4

(* Every run has at most max_iterations calls, and ends are final          *)
(* (run_agent_loop's for, the _run of handle_send_message).                *)
THEOREM RunsLeadOn == Spec => NoRunGoesBack
<1> DEFINE Step ==
      \A m \in Messages :
        /\ StepsLeft(m)' <= StepsLeft(m)
        /\ Run(m) => StepsLeft(m)' < StepsLeft(m)
<1>1. TypeOK /\ [Next]_vars => [Step]_vars
  <2> SUFFICES ASSUME TypeOK, Next, NEW m \in Messages
               PROVE  /\ StepsLeft(m)' <= StepsLeft(m)
                      /\ Run(m) => StepsLeft(m)' < StepsLeft(m)
    OBVIOUS
  <2>1. Run(m) => StepsLeft(m)' < StepsLeft(m)
    BY RunsAdvance
  <2>2. ASSUME UNCHANGED <<pc, rounds>> PROVE StepsLeft(m)' <= StepsLeft(m)
    BY <2>2, StepsKept
  <2>3. ASSUME NEW n \in Messages, Receive(n) \/ Send(n) \/ Run(n) \/ Cancel(n)
        PROVE  StepsLeft(m)' <= StepsLeft(m)
    <3>1. CASE n = m
      BY <2>3, <3>1, RunsAdvance, OthersKeep
    <3>2. CASE n # m
      <4>1. pc'[m] = pc[m] /\ rounds'[m] = rounds[m]
        BY <2>3, <3>2 DEF TypeOK, Receive, Send, Run, Cancel, Begin, Concludes, CallsTools,
           Errs, Finishes, Moves
      <4>2. QED
        BY <4>1, StepsKept
    <3>3. QED
      BY <3>1, <3>2
  <2>4. QED
    BY <2>1, <2>2, <2>3 DEF Next, Poll, StopPolling, Remount, OtherRequest, Tick
<1>2. QED
  BY <1>1, TypeCorrect, PTL DEF Spec, NoRunGoesBack
=============================================================================
