------------------------- MODULE OrchestratorProofs -------------------------
(***************************************************************************)
(* What a session's message list and finalize keep, for any number of      *)
(* executions, agent types and iterations: with overlaps and cut-offs, and *)
(* without them; and that executions lead on.                              *)
(***************************************************************************)
EXTENDS Orchestrator, FiniteSetTheorems, TLAPS

(* A list counts the calls of the answer that its execution works on; two  *)
(* that work on calls of one list have broken it.                          *)
Counted ==
  /\ \A e \in Executions : pc[e] # "new" => uses[e] \in Executions
  /\ \A e \in Executions : pc[e] \in {"new", "thinking", "reminded"} => todo[e] = <<>>
  /\ \A e \in Executions :
       pc[e] \in InTool /\ ~messages[uses[e]].broken =>
         messages[uses[e]].open = Len(todo[e])
  /\ \A d, e \in Executions :
       d # e /\ pc[d] \in InTool /\ pc[e] \in InTool /\ uses[d] = uses[e] =>
         messages[uses[e]].broken

Typed == TypeOK /\ Counted

LEMMA Appending ==
  ASSUME NEW m \in MessageLists, NEW n \in Nat
  PROVE  /\ Said(m, n) \in MessageLists
         /\ Said(m, n).turns = m.turns
         /\ Said(m, n).broken = (m.broken \/ m.open > 0)
         /\ Said(m, n).open = IF m.broken \/ m.open > 0 THEN 0 ELSE n
  BY DEF Said, MessageLists

LEMMA Answering ==
  ASSUME NEW m \in MessageLists, m.broken \/ m.open > 0
  PROVE  /\ Resulted(m) \in MessageLists
         /\ Resulted(m).turns = m.turns
         /\ Resulted(m).broken = m.broken
         /\ Resulted(m).open = IF m.broken THEN 0 ELSE m.open - 1
  BY DEF Resulted, MessageLists

LEMMA InitTyped == Init => Typed
<1> SUFFICES ASSUME Init PROVE Typed
  OBVIOUS
<1>1. messages \in [Executions -> MessageLists]
  BY DEF Init, MessageLists
<1>2. iteration \in [Executions -> 0 .. MaxIterations - 1]
  BY OrchestratorAssumption DEF Init
<1>3. todo \in [Executions -> Seq(Calls)]
  BY DEF Init
<1>4. \A e \in Executions : pc[e] = "new"
  BY DEF Init
<1>5. TypeOK
  BY <1>1, <1>2, <1>3, <1>4 DEF Init, TypeOK, InTool
<1> QED
  BY <1>4, <1>5 DEF Init, Typed, Counted, InTool

(* What the steps do to the list in use: an execution that takes a list up *)
(* or says something, and one that gets the result of a tool call.         *)
LEMMA Speaking ==
  ASSUME Typed, NEW e \in Executions, NEW n \in Nat, pc[e] # "new", Says(e, n)
  PROVE  /\ uses[e] \in Executions
         /\ messages' \in [Executions -> MessageLists]
         /\ messages'[uses[e]] = Said(messages[uses[e]], n)
         /\ \A l \in Executions \ {uses[e]} : messages'[l] = messages[l]
  BY Appending DEF Typed, TypeOK, Counted, Says

LEMMA Hearing ==
  ASSUME Typed, NEW e \in Executions, pc[e] \in InTool, Results(e)
  PROVE  /\ uses[e] \in Executions
         /\ messages[uses[e]].broken \/ messages[uses[e]].open > 0
         /\ messages' \in [Executions -> MessageLists]
         /\ messages'[uses[e]] = Resulted(messages[uses[e]])
         /\ \A l \in Executions \ {uses[e]} : messages'[l] = messages[l]
<1>1. uses[e] \in Executions /\ todo[e] # <<>> /\ todo[e] \in Seq(Calls)
  BY DEF Typed, TypeOK, Counted, InTool
<1>2. Len(todo[e]) > 0
  BY <1>1
<1>3. messages[uses[e]].broken \/ messages[uses[e]].open > 0
  BY <1>2 DEF Typed, Counted
<1> QED
  BY <1>1, <1>3, Answering DEF Typed, TypeOK, Results

(* A request takes up the session's list, or its own.                      *)
Taken(e) == IF session = NoList THEN e ELSE session

LEMMA Beginning ==
  ASSUME Typed, NEW e \in Executions, Begin(e)
  PROVE  /\ Taken(e) \in Executions
         /\ uses' \in [Executions -> Executions \cup {NoList}]
         /\ uses'[e] = Taken(e)
         /\ \A d \in Executions \ {e} : uses'[d] = uses[d]
         /\ messages' \in [Executions -> MessageLists]
         /\ messages'[Taken(e)].turns = messages[Taken(e)].turns \cup {e}
         /\ messages'[Taken(e)].broken = (messages[Taken(e)].broken \/ messages[Taken(e)].open > 0)
         /\ messages'[Taken(e)].open = 0
         /\ \A l \in Executions \ {Taken(e)} : messages'[l] = messages[l]
<1> DEFINE l == Taken(e)
           m == Said(messages[l], 0)
<1>1. l \in Executions /\ uses' = [uses EXCEPT ![e] = l]
  BY DEF Typed, TypeOK, Begin, Taken
<1>2. m \in MessageLists /\ m.turns = messages[l].turns /\ m.open = 0
      /\ m.broken = (messages[l].broken \/ messages[l].open > 0)
  <2>1. messages[l] \in MessageLists /\ 0 \in Nat
    BY <1>1 DEF Typed, TypeOK
  <2> HIDE DEF l
  <2> QED
    BY <2>1, Appending
<1>3. messages' = [messages EXCEPT ![l] = Joined(m, e)]
  BY <1>1 DEF Begin, Taken
<1> HIDE DEF m, l
<1>4. /\ Joined(m, e) \in MessageLists
      /\ Joined(m, e).turns = m.turns \cup {e}
      /\ Joined(m, e).broken = m.broken /\ Joined(m, e).open = m.open
  BY <1>2 DEF MessageLists, Joined
<1>5. /\ messages' \in [Executions -> MessageLists]
      /\ messages'[l] = Joined(m, e)
      /\ \A k \in Executions \ {l} : messages'[k] = messages[k]
  BY <1>1, <1>3, <1>4 DEF Typed, TypeOK
<1>6. uses' \in [Executions -> Executions \cup {NoList}]
      /\ uses'[e] = l /\ \A d \in Executions \ {e} : uses'[d] = uses[d]
  BY <1>1 DEF Typed, TypeOK
<1>7. /\ messages'[l].turns = messages[l].turns \cup {e}
      /\ messages'[l].broken = (messages[l].broken \/ messages[l].open > 0)
      /\ messages'[l].open = 0
  BY <1>2, <1>4, <1>5
<1> QED
  BY <1>1, <1>5, <1>6, <1>7 DEF l

(* Where an execution goes when it has the result of a tool call.          *)
LEMMA GoingOn ==
  ASSUME Typed, NEW e \in Executions, pc[e] \in InTool, GoOn(e)
  PROVE  /\ pc' \in [Executions -> {"new", "thinking", "reminded", "ended"} \cup InTool]
         /\ \A d \in Executions \ {e} : pc'[d] = pc[d] /\ todo'[d] = todo[d] /\ iteration'[d] = iteration[d]
         /\ todo' \in [Executions -> Seq(Calls)]
         /\ Len(todo'[e]) = Len(todo[e]) - 1
         /\ iteration' \in [Executions -> 0 .. MaxIterations - 1]
         /\ \/ pc'[e] = "working" /\ todo'[e] # <<>> /\ iteration'[e] = iteration[e]
            \/ pc'[e] = "thinking" /\ todo'[e] = <<>>
         /\ UNCHANGED <<session, result>>
<1>1. todo[e] \in Seq(Calls) /\ todo[e] # <<>> /\ iteration[e] \in 0 .. MaxIterations - 1
      /\ iteration[e] < MaxIterations - 3
  BY DEF Typed, TypeOK
<1>2. Tail(todo[e]) \in Seq(Calls) /\ Len(Tail(todo[e])) = Len(todo[e]) - 1 /\ Len(todo[e]) \in Nat \ {0}
  BY <1>1
<1>3. todo' = [todo EXCEPT ![e] = Tail(todo[e])] /\ UNCHANGED <<session, result>>
  BY DEF GoOn
<1>4. /\ todo' \in [Executions -> Seq(Calls)]
      /\ todo'[e] = Tail(todo[e])
      /\ \A d \in Executions \ {e} : todo'[d] = todo[d]
  BY <1>2, <1>3 DEF Typed, TypeOK
<1>5. CASE Len(todo[e]) > 1
  <2>1. Tail(todo[e]) # <<>>
    <3>1. Len(Tail(todo[e])) > 0
      BY <1>2, <1>5
    <3> QED
      BY <3>1
  <2> QED
    <3>1. iteration' = iteration /\ pc' = [pc EXCEPT ![e] = "working"]
      BY <1>5 DEF GoOn, Goes
    <3>2. /\ pc' \in [Executions -> {"new", "thinking", "reminded", "ended"} \cup InTool]
          /\ pc'[e] = "working" /\ \A d \in Executions \ {e} : pc'[d] = pc[d]
      BY <3>1 DEF Typed, TypeOK, InTool
    <3> QED
      BY <1>2, <1>3, <1>4, <2>1, <3>1, <3>2 DEF Typed, TypeOK
<1>6. CASE ~(Len(todo[e]) > 1)
  <2>1. Tail(todo[e]) = <<>>
    BY <1>2, <1>6
  <2>2. iteration[e] + 1 \in 0 .. MaxIterations - 1
    BY <1>1, OrchestratorAssumption
  <2>3. pc' = [pc EXCEPT ![e] = "thinking"] /\ iteration' = [iteration EXCEPT ![e] = @ + 1]
    BY <1>6 DEF GoOn, Goes
  <2>4. /\ iteration' \in [Executions -> 0 .. MaxIterations - 1]
        /\ \A d \in Executions \ {e} : iteration'[d] = iteration[d]
    <3>1. iteration' = [iteration EXCEPT ![e] = iteration[e] + 1]
      BY <2>3
    <3> QED
      BY <2>2, <3>1 DEF Typed, TypeOK
  <2>5. /\ pc' \in [Executions -> {"new", "thinking", "reminded", "ended"} \cup InTool]
        /\ pc'[e] = "thinking" /\ \A d \in Executions \ {e} : pc'[d] = pc[d]
    BY <2>3 DEF Typed, TypeOK
  <2> QED
    BY <1>2, <1>3, <1>4, <2>1, <2>4, <2>5
<1> QED
  BY <1>5, <1>6

(* A list that an execution works on has calls without a result, or is     *)
(* broken.                                                                 *)
LEMMA Busy ==
  ASSUME Typed, NEW e \in Executions, pc[e] \in InTool
  PROVE  messages[uses[e]].broken \/ messages[uses[e]].open > 0
<1>1. todo[e] # <<>> /\ todo[e] \in Seq(Calls)
  BY DEF Typed, TypeOK
<1>2. Len(todo[e]) > 0
  BY <1>1
<1> QED
  BY <1>2 DEF Typed, Counted

LEMMA BeginTyped ==
  ASSUME Typed, NEW e \in Executions, Begin(e)
  PROVE  Typed'
<1>1. /\ pc' \in [Executions -> {"new", "thinking", "reminded", "ended"} \cup InTool]
      /\ pc'[e] = "thinking" /\ \A d \in Executions \ {e} : pc'[d] = pc[d]
  BY DEF Begin, Goes, Typed, TypeOK
<1>2. UNCHANGED <<session, work, files, result>> /\ forked' \in BOOLEAN /\ overlapped' \in BOOLEAN
  BY DEF Begin, Typed, TypeOK
<1>3. todo[e] = <<>>
  BY DEF Begin, Typed, Counted
<1>4. TypeOK'
  BY <1>1, <1>2, Beginning DEF Typed, TypeOK, InTool, work
<1>5. \A d \in Executions : pc'[d] \in InTool =>
        d # e /\ pc[d] \in InTool /\ uses'[d] = uses[d] /\ todo'[d] = todo[d]
  BY <1>1, <1>2, Beginning DEF InTool, work
<1>6. ASSUME NEW d \in Executions, pc'[d] \in InTool, uses[d] = Taken(e)
      PROVE  messages'[uses'[d]].broken
  <2>1. messages[Taken(e)].broken \/ messages[Taken(e)].open > 0
    BY <1>5, <1>6, Busy
  <2> QED
    BY <1>5, <1>6, <2>1, Beginning
<1>7. \A d \in Executions : pc'[d] \in InTool /\ uses[d] # Taken(e) =>
        uses[d] \in Executions /\ messages'[uses[d]] = messages[uses[d]]
  BY <1>5, Beginning DEF Typed, Counted, InTool
<1>8. \A d \in Executions : pc'[d] # "new" => uses'[d] \in Executions
  BY <1>1, Beginning DEF Typed, Counted
<1>9. \A d \in Executions : pc'[d] \in {"new", "thinking", "reminded"} => todo'[d] = <<>>
  BY <1>1, <1>2, <1>3 DEF Typed, Counted, work
<1>10. \A d \in Executions :
         pc'[d] \in InTool /\ ~messages'[uses'[d]].broken =>
           messages'[uses'[d]].open = Len(todo'[d])
  BY <1>5, <1>6, <1>7 DEF Typed, Counted
<1>11. \A c, d \in Executions :
         c # d /\ pc'[c] \in InTool /\ pc'[d] \in InTool /\ uses'[c] = uses'[d] =>
           messages'[uses'[d]].broken
  BY <1>5, <1>6, <1>7 DEF Typed, Counted
<1> QED
  BY <1>4, <1>8, <1>9, <1>10, <1>11 DEF Typed, Counted

(* The steps of an execution that does not get a tool's result: what it    *)
(* says breaks the list of one that waits for results.                     *)
SaysEffect(e, n) ==
  /\ pc[e] \in {"thinking", "reminded"} /\ todo[e] = <<>> /\ uses[e] \in Executions
  /\ UNCHANGED <<uses, forked, overlapped, asked, files>>
  /\ todo' \in [Executions -> Seq(Calls)]
  /\ \A d \in Executions \ {e} : todo'[d] = todo[d]
  /\ Len(todo'[e]) = n
  /\ \/ todo'[e] = <<>> /\ pc'[e] \in {"reminded", "ended"}
     \/ todo'[e] # <<>> /\ pc'[e] = "working" /\ Offered(e)
  /\ pc' \in [Executions -> {"new", "thinking", "reminded", "ended"} \cup InTool]
  /\ \A d \in Executions \ {e} : pc'[d] = pc[d]
  /\ messages' \in [Executions -> MessageLists]
  /\ \A l \in Executions \ {uses[e]} : messages'[l] = messages[l]
  /\ \/ messages' = messages /\ pc'[e] \notin InTool
     \/ /\ messages'[uses[e]].turns = messages[uses[e]].turns
        /\ messages'[uses[e]].broken = (messages[uses[e]].broken \/ messages[uses[e]].open > 0)
        /\ messages'[uses[e]].open =
             IF messages[uses[e]].broken \/ messages[uses[e]].open > 0 THEN 0 ELSE n

LEMMA SaysHasEffect ==
  ASSUME Typed, NEW e \in Executions, Remind(e) \/ Reply(e) \/ LLMFails(e) \/ CallTools(e)
  PROVE  \E n \in Nat : SaysEffect(e, n)
<1>1. pc[e] \in {"thinking", "reminded"} /\ todo[e] = <<>> /\ uses[e] \in Executions
  BY DEF Remind, Reply, LLMFails, CallTools, Asks, Typed, Counted
<1>2. UNCHANGED <<uses, forked, overlapped, asked, files>>
  BY DEF Remind, Reply, LLMFails, CallTools, work
<1>3. PICK n \in Nat : /\ todo' \in [Executions -> Seq(Calls)]
                       /\ \A d \in Executions \ {e} : todo'[d] = todo[d]
                       /\ Len(todo'[e]) = n
                       /\ messages' = messages \/ Says(e, n)
                       /\ \/ n = 0 /\ todo'[e] = <<>> /\ pc'[e] \in {"reminded", "ended"}
                          \/ /\ n > 0 /\ todo'[e] # <<>> /\ pc'[e] = "working"
                             /\ Says(e, n) /\ Offered(e)
  <2>1. CASE Remind(e) \/ Reply(e) \/ LLMFails(e)
    <3>1. todo' = todo /\ Len(todo[e]) = 0 /\ (messages' = messages \/ Says(e, 0))
      BY <1>1, <2>1 DEF Remind, Reply, LLMFails, work
    <3>2. pc'[e] \in {"reminded", "ended"}
      BY <2>1 DEF Remind, Reply, LLMFails, Finish, Goes, Typed, TypeOK
    <3> QED
      BY <1>1, <3>1, <3>2 DEF Typed, TypeOK
  <2>2. CASE CallTools(e)
    <3>1. PICK calls \in CallLists : Says(e, Len(calls)) /\ todo' = [todo EXCEPT ![e] = calls]
      BY <2>2 DEF CallTools
    <3>2. calls \in Seq(Calls) /\ calls # <<>>
      BY OrchestratorAssumption
    <3>3. Len(calls) \in Nat /\ Len(calls) > 0
      BY <3>2
    <3>4. pc'[e] = "working" /\ Offered(e)
      BY <2>2 DEF CallTools, Goes, Typed, TypeOK
    <3> QED
      BY <3>1, <3>2, <3>3, <3>4 DEF Typed, TypeOK
  <2> QED
    BY <2>1, <2>2
<1>4. /\ pc' \in [Executions -> {"new", "thinking", "reminded", "ended"} \cup InTool]
      /\ \A d \in Executions \ {e} : pc'[d] = pc[d]
  BY DEF Remind, Reply, LLMFails, CallTools, Finish, Goes, Typed, TypeOK, InTool
<1>7. /\ messages' \in [Executions -> MessageLists]
      /\ \A l \in Executions \ {uses[e]} : messages'[l] = messages[l]
      /\ messages' # messages => messages'[uses[e]] = Said(messages[uses[e]], n)
  BY <1>1, <1>3, Speaking DEF Typed, TypeOK
<1>5. messages[uses[e]] \in MessageLists
  BY <1>1 DEF Typed, TypeOK
<1>6. /\ Said(messages[uses[e]], n).turns = messages[uses[e]].turns
      /\ Said(messages[uses[e]], n).broken = (messages[uses[e]].broken \/ messages[uses[e]].open > 0)
      /\ Said(messages[uses[e]], n).open =
           IF messages[uses[e]].broken \/ messages[uses[e]].open > 0 THEN 0 ELSE n
  BY <1>5, Appending
<1>8. (messages' = messages /\ pc'[e] \notin InTool) \/ messages'[uses[e]] = Said(messages[uses[e]], n)
  BY <1>1, <1>3, <1>7, Speaking DEF InTool
<1> QED
  BY <1>1, <1>2, <1>3, <1>4, <1>6, <1>7, <1>8 DEF SaysEffect

LEMMA SaysTyped ==
  ASSUME Typed, NEW e \in Executions, Remind(e) \/ Reply(e) \/ LLMFails(e) \/ CallTools(e)
  PROVE  Typed'
<1>1. PICK n \in Nat : SaysEffect(e, n)
  BY SaysHasEffect
<1>2. /\ session' \in Executions \cup {NoList}
      /\ dispatched' \in [Executions -> SUBSET Types]
      /\ result' \in [Executions -> Returned \cup {"none", "cut"}]
  BY <1>1 DEF SaysEffect, Remind, Reply, LLMFails, CallTools, Finish, work, Typed, TypeOK, Returned
<1>3. /\ iteration' \in [Executions -> 0 .. MaxIterations - 1]
      /\ \A d \in Executions \ {e} : iteration'[d] = iteration[d]
      /\ pc'[e] = "working" => iteration'[e] = iteration[e]
  <2>1. 0 \in 0 .. MaxIterations - 1
    BY OrchestratorAssumption
  <2>2. \/ iteration' = iteration
        \/ iteration' = [iteration EXCEPT ![e] = 0] /\ Goes(e, "ended")
    BY DEF Remind, Reply, LLMFails, CallTools, Finish, work
  <2>3. iteration \in [Executions -> 0 .. MaxIterations - 1]
    BY DEF Typed, TypeOK
  <2>4. CASE iteration' = iteration
    BY <2>3, <2>4
  <2>5. CASE iteration' = [iteration EXCEPT ![e] = 0] /\ Goes(e, "ended")
    <3>1. pc'[e] = "ended"
      BY <2>5 DEF Goes, Typed, TypeOK
    <3> QED
      BY <2>1, <2>3, <2>5, <3>1
  <2> QED
    BY <2>2, <2>4, <2>5
<1>4. TypeOK'
  <2>1. ASSUME NEW d \in Executions, pc'[d] \in InTool
        PROVE  todo'[d] # <<>> /\ iteration'[d] < MaxIterations - 3
    <3>1. CASE d = e
      BY <1>1, <1>3, <2>1, <3>1 DEF SaysEffect, InTool, Offered
    <3>2. CASE d # e
      BY <1>1, <1>3, <2>1, <3>2 DEF SaysEffect, Typed, TypeOK
    <3> QED
      BY <3>1, <3>2
  <2>2. /\ messages' \in [Executions -> MessageLists]
        /\ pc' \in [Executions -> {"new", "thinking", "reminded", "ended"} \cup InTool]
        /\ todo' \in [Executions -> Seq(Calls)]
        /\ UNCHANGED <<uses, forked, overlapped, asked, files>>
    BY <1>1 DEF SaysEffect
  <2> QED
    BY <1>2, <1>3, <2>1, <2>2 DEF Typed, TypeOK
<1>5. \A d \in Executions :
        pc[d] \in InTool => messages[uses[d]].broken \/ messages[uses[d]].open > 0
  BY Busy
<1>6. pc'[e] \in InTool =>
        /\ messages'[uses[e]].broken = (messages[uses[e]].broken \/ messages[uses[e]].open > 0)
        /\ ~messages'[uses[e]].broken => messages'[uses[e]].open = Len(todo'[e])
  BY <1>1 DEF SaysEffect
<1>7. ASSUME NEW d \in Executions \ {e}, pc'[d] \in InTool
      PROVE  uses[d] \in Executions /\ pc[d] \in InTool /\ todo'[d] = todo[d]
  BY <1>1, <1>7 DEF SaysEffect, Typed, Counted, InTool
<1>8. \A l \in Executions : messages[l].broken => messages'[l].broken
  BY <1>1 DEF SaysEffect
<1>9. ASSUME NEW d \in Executions, pc'[d] \in InTool, ~messages'[uses[d]].broken
      PROVE  messages'[uses[d]].open = Len(todo'[d])
  <2>1. CASE d = e
    BY <1>6, <1>9, <2>1
  <2>2. CASE d # e
    <3>1. messages'[uses[d]] = messages[uses[d]]
      BY <1>1, <1>5, <1>7, <1>9, <2>2 DEF SaysEffect
    <3> QED
      BY <1>7, <1>9, <2>2, <3>1 DEF Typed, Counted
  <2> QED
    BY <2>1, <2>2
<1>10. ASSUME NEW c \in Executions, NEW d \in Executions, c # d,
              pc'[c] \in InTool, pc'[d] \in InTool, uses[c] = uses[d]
       PROVE  messages'[uses[d]].broken
  <2>1. CASE c # e /\ d # e
    <3>1. messages[uses[d]].broken /\ uses[d] \in Executions
      BY <1>7, <1>10, <2>1 DEF Typed, Counted
    <3> QED
      BY <1>8, <3>1
  <2>2. CASE c = e
    <3>1. messages[uses[d]].broken \/ messages[uses[d]].open > 0
      BY <1>5, <1>7, <1>10, <2>2
    <3> QED
      BY <1>6, <1>10, <2>2, <3>1
  <2>3. CASE d = e
    <3>1. messages[uses[c]].broken \/ messages[uses[c]].open > 0
      BY <1>5, <1>7, <1>10, <2>3
    <3> QED
      BY <1>6, <1>10, <2>3, <3>1
  <2> QED
    BY <2>1, <2>2, <2>3
<1>11. uses' = uses
  BY <1>1 DEF SaysEffect
<1>12. ASSUME NEW d \in Executions
       PROVE  /\ pc'[d] # "new" => uses[d] \in Executions
              /\ pc'[d] \in {"new", "thinking", "reminded"} => todo'[d] = <<>>
  <2>1. CASE d = e
    BY <1>1, <2>1 DEF SaysEffect
  <2>2. CASE d # e
    <3>1. pc'[d] = pc[d] /\ todo'[d] = todo[d]
      BY <1>1, <2>2 DEF SaysEffect
    <3> QED
      BY <3>1 DEF Typed, Counted
  <2> QED
    BY <2>1, <2>2
<1> QED
  BY <1>4, <1>9, <1>10, <1>11, <1>12 DEF Typed, Counted

(* A tool's result takes one call from the list and from what is to do.    *)
LEMMA ResultEffect ==
  ASSUME Typed, NEW e \in Executions,
         LookUp(e) \/ Dispatched(e) \/ Refused(e) \/ Accepted(e)
  PROVE  /\ pc[e] \in InTool /\ UNCHANGED <<uses, forked, overlapped, asked, files>>
         /\ uses[e] \in Executions
         /\ messages' \in [Executions -> MessageLists]
         /\ \A l \in Executions \ {uses[e]} : messages'[l] = messages[l]
         /\ messages'[uses[e]].turns = messages[uses[e]].turns
         /\ messages'[uses[e]].broken = messages[uses[e]].broken
         /\ messages'[uses[e]].open = IF messages[uses[e]].broken THEN 0 ELSE messages[uses[e]].open - 1
         /\ pc' \in [Executions -> {"new", "thinking", "reminded", "ended"} \cup InTool]
         /\ todo' \in [Executions -> Seq(Calls)]
         /\ iteration' \in [Executions -> 0 .. MaxIterations - 1]
         /\ Len(todo'[e]) = Len(todo[e]) - 1
         /\ \A d \in Executions \ {e} :
              pc'[d] = pc[d] /\ todo'[d] = todo[d] /\ iteration'[d] = iteration[d]
         /\ \/ pc'[e] = "working" /\ todo'[e] # <<>> /\ iteration'[e] = iteration[e]
            \/ pc'[e] = "thinking" /\ todo'[e] = <<>>
            \/ pc'[e] = "ended"
<1>1. pc[e] \in InTool /\ Results(e) /\ UNCHANGED <<uses, forked, overlapped, asked, files>>
  BY DEF LookUp, Dispatched, Refused, Accepted, InTool
<1>2. /\ uses[e] \in Executions
      /\ messages' \in [Executions -> MessageLists]
      /\ \A l \in Executions \ {uses[e]} : messages'[l] = messages[l]
      /\ messages'[uses[e]].turns = messages[uses[e]].turns
      /\ messages'[uses[e]].broken = messages[uses[e]].broken
      /\ messages'[uses[e]].open = IF messages[uses[e]].broken THEN 0 ELSE messages[uses[e]].open - 1
  <2>1. /\ uses[e] \in Executions
        /\ messages[uses[e]].broken \/ messages[uses[e]].open > 0
        /\ messages' \in [Executions -> MessageLists]
        /\ messages'[uses[e]] = Resulted(messages[uses[e]])
        /\ \A l \in Executions \ {uses[e]} : messages'[l] = messages[l]
    BY <1>1, Hearing
  <2>2. messages[uses[e]] \in MessageLists
    BY <2>1 DEF Typed, TypeOK
  <2> QED
    BY <2>1, <2>2, Answering
<1>3. /\ pc' \in [Executions -> {"new", "thinking", "reminded", "ended"} \cup InTool]
      /\ todo' \in [Executions -> Seq(Calls)]
      /\ iteration' \in [Executions -> 0 .. MaxIterations - 1]
      /\ Len(todo'[e]) = Len(todo[e]) - 1
      /\ \A d \in Executions \ {e} : pc'[d] = pc[d] /\ todo'[d] = todo[d] /\ iteration'[d] = iteration[d]
      /\ \/ pc'[e] = "working" /\ todo'[e] # <<>> /\ iteration'[e] = iteration[e]
         \/ pc'[e] = "thinking" /\ todo'[e] = <<>>
         \/ pc'[e] = "ended"
  <2>1. CASE LookUp(e) \/ Dispatched(e) \/ Refused(e)
    <3>1. GoOn(e)
      BY <2>1 DEF LookUp, Dispatched, Refused
    <3> QED
      BY <1>1, <3>1, GoingOn
  <2>2. CASE Accepted(e)
    <3>1. /\ todo' = [todo EXCEPT ![e] = Tail(@)] /\ Goes(e, "ended")
          /\ iteration' = [iteration EXCEPT ![e] = 0]
      BY <2>2 DEF Accepted, Finish
    <3>2. todo[e] \in Seq(Calls) /\ todo[e] # <<>> /\ 0 \in 0 .. MaxIterations - 1
      BY <1>1, OrchestratorAssumption DEF Typed, TypeOK
    <3>3. Tail(todo[e]) \in Seq(Calls) /\ Len(Tail(todo[e])) = Len(todo[e]) - 1
      BY <3>2
    <3>4. /\ todo' \in [Executions -> Seq(Calls)]
          /\ Len(todo'[e]) = Len(todo[e]) - 1
          /\ \A d \in Executions \ {e} : todo'[d] = todo[d]
      BY <3>1, <3>3 DEF Typed, TypeOK
    <3> QED
      BY <3>1, <3>2, <3>4 DEF Goes, Typed, TypeOK
  <2> QED
    BY <2>1, <2>2
<1> QED
  BY <1>1, <1>2, <1>3

LEMMA ResultTyped ==
  ASSUME Typed, NEW e \in Executions,
         LookUp(e) \/ Dispatched(e) \/ Refused(e) \/ Accepted(e)
  PROVE  Typed'
<1>1. pc[e] \in InTool /\ UNCHANGED <<uses, forked, overlapped, asked, files>>
  BY ResultEffect
<1>2. /\ uses[e] \in Executions
      /\ messages' \in [Executions -> MessageLists]
      /\ \A l \in Executions \ {uses[e]} : messages'[l] = messages[l]
      /\ messages'[uses[e]].broken = messages[uses[e]].broken
      /\ messages'[uses[e]].open = IF messages[uses[e]].broken THEN 0 ELSE messages[uses[e]].open - 1
  BY ResultEffect
<1>3. /\ pc' \in [Executions -> {"new", "thinking", "reminded", "ended"} \cup InTool]
      /\ todo' \in [Executions -> Seq(Calls)]
      /\ iteration' \in [Executions -> 0 .. MaxIterations - 1]
      /\ Len(todo'[e]) = Len(todo[e]) - 1
      /\ \A d \in Executions \ {e} :
           pc'[d] = pc[d] /\ todo'[d] = todo[d] /\ iteration'[d] = iteration[d]
      /\ \/ pc'[e] = "working" /\ todo'[e] # <<>> /\ iteration'[e] = iteration[e]
         \/ pc'[e] = "thinking" /\ todo'[e] = <<>>
         \/ pc'[e] = "ended"
  BY ResultEffect
<1>4. /\ session' \in Executions \cup {NoList}
      /\ dispatched' \in [Executions -> SUBSET Types]
      /\ result' \in [Executions -> Returned \cup {"none", "cut"}]
  <2>1. CASE LookUp(e) \/ Refused(e)
    BY <2>1 DEF LookUp, Refused, GoOn, Typed, TypeOK
  <2>2. CASE Dispatched(e)
    <3>1. todo[e] \in Seq(Calls) /\ todo[e] # <<>>
      BY <1>1 DEF Typed, TypeOK
    <3>2. Head(todo[e]).agents \in SUBSET Types
      <4>1. Head(todo[e]) \in Calls
        BY <3>1
      <4> QED
        BY <4>1 DEF Calls
    <3> QED
      BY <2>2, <3>2 DEF Dispatched, GoOn, Typed, TypeOK
  <2>3. CASE Accepted(e)
    BY <1>2, <2>3 DEF Accepted, Finish, Typed, TypeOK, Returned
  <2> QED
    BY <2>1, <2>2, <2>3
<1>5. TypeOK'
  BY <1>1, <1>2, <1>3, <1>4 DEF Typed, TypeOK, InTool
<1>6. ASSUME NEW d \in Executions, pc'[d] \in InTool, ~messages'[uses[d]].broken
      PROVE  messages'[uses[d]].open = Len(todo'[d])
  <2>1. uses[d] \in Executions /\ pc[d] \in InTool
    BY <1>1, <1>3, <1>6 DEF Typed, Counted, InTool
  <2>2. CASE d = e
    BY <1>2, <1>3, <1>6, <2>1, <2>2 DEF Typed, Counted
  <2>3. CASE d # e
    <3>1. uses[d] # uses[e]
      BY <1>1, <1>2, <1>6, <2>1, <2>3 DEF Typed, Counted
    <3> QED
      BY <1>2, <1>3, <1>6, <2>1, <2>3, <3>1 DEF Typed, Counted
  <2> QED
    BY <2>2, <2>3
<1>7. ASSUME NEW c \in Executions, NEW d \in Executions, c # d,
             pc'[c] \in InTool, pc'[d] \in InTool, uses[c] = uses[d]
      PROVE  messages'[uses[d]].broken
  <2>1. uses[d] \in Executions /\ pc[c] \in InTool /\ pc[d] \in InTool
    BY <1>1, <1>3, <1>7 DEF Typed, Counted, InTool
  <2>2. messages[uses[d]].broken
    BY <1>7, <2>1 DEF Typed, Counted
  <2> QED
    BY <1>2, <2>1, <2>2
<1>8. /\ \A d \in Executions : pc'[d] # "new" => uses[d] \in Executions
      /\ \A d \in Executions : pc'[d] \in {"new", "thinking", "reminded"} => todo'[d] = <<>>
  BY <1>2, <1>3 DEF Typed, Counted, InTool
<1> QED
  BY <1>1, <1>5, <1>6, <1>7, <1>8 DEF Typed, Counted

(* Steps that leave the lists alone.                                       *)
LEMMA QuietTyped ==
  ASSUME Typed, \/ \E e \in Executions : Dispatch(e) \/ Review(e) \/ CutOff(e)
                \/ \E role \in Roles : Produce(role)
                \/ UNCHANGED vars
  PROVE  Typed'
<1>1. CASE \E e \in Executions : Dispatch(e) \/ Review(e)
  <2>1. PICK e \in Executions : Dispatch(e) \/ Review(e)
    BY <1>1
  <2>2. /\ pc[e] = "working"
        /\ UNCHANGED <<history, iteration, todo, dispatched, files, result>>
        /\ Goes(e, "dispatching") \/ Goes(e, "accepted") \/ Goes(e, "refused")
    BY <2>1 DEF Dispatch, Review, work
  <2>3. asked' \in [Executions -> SUBSET Types]
    <3>1. todo[e] \in Seq(Calls) /\ todo[e] # <<>>
      BY <2>2 DEF Typed, TypeOK, InTool
    <3>2. Head(todo[e]) \in Calls
      BY <3>1
    <3>3. Head(todo[e]).agents \in SUBSET Types
      BY <3>2 DEF Calls
    <3>4. asked' = asked \/ asked' = [asked EXCEPT ![e] = asked[e] \cup Head(todo[e]).agents]
      BY <2>1 DEF Dispatch, Review, work
    <3>5. asked \in [Executions -> SUBSET Types]
      BY DEF Typed, TypeOK
    <3> QED
      BY <3>3, <3>4, <3>5
  <2>4. /\ pc' \in [Executions -> {"new", "thinking", "reminded", "ended"} \cup InTool]
        /\ pc'[e] \in InTool /\ \A d \in Executions \ {e} : pc'[d] = pc[d]
    BY <2>2 DEF Goes, Typed, TypeOK, InTool
  <2>5. TypeOK'
    BY <2>2, <2>3, <2>4 DEF Typed, TypeOK, history, InTool
  <2>6. \A d \in Executions : pc'[d] \in InTool <=> pc[d] \in InTool
    BY <2>2, <2>4 DEF InTool
  <2>7. \A d \in Executions : /\ pc'[d] # "new" => pc[d] # "new"
                             /\ pc'[d] \in {"new", "thinking", "reminded"} =>
                                  pc[d] \in {"new", "thinking", "reminded"}
    BY <2>2, <2>4 DEF InTool
  <2>8. UNCHANGED <<messages, uses, todo>>
    BY <2>2 DEF history
  <2>9. Counted'
    <3>1. \A d \in Executions : pc'[d] # "new" => uses[d] \in Executions
      <4>1. uses[e] \in Executions
        BY <2>2 DEF Typed, Counted
      <4>2. \A d \in Executions \ {e} : pc'[d] # "new" => uses[d] \in Executions
        BY <2>4 DEF Typed, Counted
      <4> QED
        BY <4>1, <4>2
    <3>4. \A d \in Executions : pc'[d] \in {"new", "thinking", "reminded"} => todo[d] = <<>>
      BY <2>7 DEF Typed, Counted
    <3>2. \A d \in Executions : pc'[d] \in InTool /\ ~messages[uses[d]].broken =>
            messages[uses[d]].open = Len(todo[d])
      BY <2>6 DEF Typed, Counted
    <3>3. \A c, d \in Executions :
            c # d /\ pc'[c] \in InTool /\ pc'[d] \in InTool /\ uses[c] = uses[d] =>
              messages[uses[d]].broken
      BY <2>6 DEF Typed, Counted
    <3> QED
      BY <2>8, <3>1, <3>2, <3>3, <3>4, Zenon DEF Counted
  <2> QED
    BY <2>5, <2>9 DEF Typed
<1>2. CASE \E e \in Executions : CutOff(e)
  <2>1. PICK e \in Executions : CutOff(e)
    BY <1>2
  <2>2. /\ pc' \in [Executions -> {"new", "thinking", "reminded", "ended"} \cup InTool]
        /\ pc[e] # "new" /\ pc'[e] = "ended" /\ \A d \in Executions \ {e} : pc'[d] = pc[d]
        /\ UNCHANGED <<history, todo, asked, files>>
    BY <2>1 DEF CutOff, Live, Goes, Typed, TypeOK
  <2>3. /\ result' \in [Executions -> Returned \cup {"none", "cut"}]
        /\ dispatched' \in [Executions -> SUBSET Types]
    BY <2>1 DEF CutOff, Typed, TypeOK
  <2>4. /\ iteration' \in [Executions -> 0 .. MaxIterations - 1]
        /\ \A d \in Executions \ {e} : iteration'[d] = iteration[d]
    <3>1. 0 \in 0 .. MaxIterations - 1
      BY OrchestratorAssumption
    <3> QED
      BY <2>1, <3>1 DEF CutOff, Typed, TypeOK
  <2>5. TypeOK'
    BY <2>2, <2>3, <2>4 DEF Typed, TypeOK, history, InTool
  <2> QED
    BY <2>2, <2>5 DEF Typed, Counted, history, InTool
<1>3. CASE \E role \in Roles : Produce(role)
  <2>1. files' \in SUBSET Roles /\ UNCHANGED <<history, work, pc, result>>
    BY <1>3 DEF Produce, Typed, TypeOK
  <2> QED
    BY <2>1 DEF Typed, TypeOK, Counted, history, work
<1>4. CASE UNCHANGED vars
  BY <1>4 DEF Typed, TypeOK, Counted, vars, history, work
<1> QED
  BY <1>1, <1>2, <1>3, <1>4

LEMMA TypedStep == Typed /\ [Next]_vars => Typed'
<1> SUFFICES ASSUME Typed, [Next]_vars PROVE Typed'
  OBVIOUS
<1>1. CASE \E e \in Executions : Begin(e)
  BY <1>1, BeginTyped
<1>2. CASE \E e \in Executions : Remind(e) \/ Reply(e) \/ LLMFails(e) \/ CallTools(e)
  BY <1>2, SaysTyped
<1>3. CASE \E e \in Executions : LookUp(e) \/ Dispatched(e) \/ Refused(e) \/ Accepted(e)
  BY <1>3, ResultTyped
<1>4. CASE \/ \E e \in Executions : Dispatch(e) \/ Review(e) \/ CutOff(e)
           \/ \E role \in Roles : Produce(role)
           \/ UNCHANGED vars
  BY <1>4, QuietTyped
<1> QED
  BY <1>1, <1>2, <1>3, <1>4 DEF Next, Proceeds

(* Lists, executions and their tool calls keep their types; nobody works   *)
(* on tools in the last three iterations.                                  *)
THEOREM TypeCorrect == Spec => []TypeOK
<1>1. Typed => TypeOK
  BY DEF Typed
<1> QED
  BY <1>1, InitTyped, TypedStep, PTL DEF Spec

-----------------------------------------------------------------------------
(* Turns                                                                   *)

(* A request is in the list that its execution uses; and while no session  *)
(* was forked, everybody uses the session's list, or there is none yet and *)
(* at most one execution that will make it.                                *)
Turns ==
  /\ \A e \in Executions : pc[e] # "new" => e \in messages[uses[e]].turns
  /\ \A e \in Executions : result[e] # "none" => pc[e] = "ended"
  /\ ~forked /\ session = NoList =>
       /\ \A e \in Executions : result[e] \notin Returned
       /\ \A d, e \in Executions : Live(d) /\ Live(e) => d = e
  /\ ~forked /\ session # NoList =>
       \A e \in Executions : Live(e) \/ result[e] \in Returned => uses[e] = session

LEMMA InitTurns == Init => Turns
  BY DEF Init, Turns, Live, Returned

(* No step takes a request out of a list.                                  *)
LEMMA TurnsStay ==
  ASSUME Typed, [Next]_vars, NEW l \in Executions
  PROVE  messages[l].turns \subseteq messages'[l].turns
<1>1. CASE \E e \in Executions : Begin(e)
  BY <1>1, Beginning
<1>2. CASE \E e \in Executions : Remind(e) \/ Reply(e) \/ LLMFails(e) \/ CallTools(e)
  <2>1. PICK e \in Executions, n \in Nat : SaysEffect(e, n)
    BY <1>2, SaysHasEffect
  <2> QED
    BY <2>1 DEF SaysEffect
<1>3. CASE \E e \in Executions : LookUp(e) \/ Dispatched(e) \/ Refused(e) \/ Accepted(e)
  <2>1. PICK e \in Executions :
          /\ messages'[uses[e]].turns = messages[uses[e]].turns
          /\ \A k \in Executions \ {uses[e]} : messages'[k] = messages[k]
    BY <1>3, ResultEffect
  <2> QED
    BY <2>1
<1>4. CASE \/ \E e \in Executions : Dispatch(e) \/ Review(e) \/ CutOff(e)
           \/ \E role \in Roles : Produce(role)
           \/ UNCHANGED vars
  BY <1>4 DEF Dispatch, Review, CutOff, Produce, vars, history
<1> QED
  BY <1>1, <1>2, <1>3, <1>4 DEF Next, Proceeds

(* An execution that goes on: nothing changes that Turns speaks of.        *)
LEMMA LiveStep ==
  ASSUME Typed, Turns, [Next]_vars, NEW e \in Executions, Live(e), Live(e)',
         \A d \in Executions \ {e} : pc'[d] = pc[d],
         UNCHANGED <<session, uses, forked, result>>
  PROVE  Turns'
<1>1. \A d \in Executions : (Live(d)' <=> Live(d)) /\ (pc'[d] = "new" <=> pc[d] = "new")
  BY DEF Live
<1>2. \A d \in Executions : pc'[d] # "new" => d \in messages'[uses[d]].turns
  BY <1>1, TurnsStay DEF Turns, Typed, Counted
<1>3. \A d \in Executions : result[d] # "none" => pc'[d] = "ended"
  BY DEF Turns, Live
<1> QED
  BY <1>1, <1>2, <1>3 DEF Turns

(* An execution that returns: the session gets its list.                   *)
LEMMA FinishStep ==
  ASSUME Typed, Turns, [Next]_vars, NEW e \in Executions, Live(e),
         NEW how \in Returned, Finish(e, how), UNCHANGED <<uses, forked>>
  PROVE  Turns'
<1>1. /\ pc'[e] = "ended" /\ \A d \in Executions \ {e} : pc'[d] = pc[d]
      /\ result'[e] = how /\ \A d \in Executions \ {e} : result'[d] = result[d]
      /\ session' = uses[e]
  BY DEF Finish, Goes, Typed, TypeOK
<1>2. uses[e] \in Executions /\ uses[e] # NoList
  BY OrchestratorAssumption DEF Typed, Counted, Live
<1>3. \A d \in Executions : pc'[d] # "new" => d \in messages'[uses[d]].turns
  BY <1>1, TurnsStay DEF Turns, Typed, Counted, Live
<1>4. \A d \in Executions : result'[d] # "none" => pc'[d] = "ended"
  BY <1>1 DEF Turns
<1>5. ~forked => \A d \in Executions : Live(d)' \/ result'[d] \in Returned => uses[d] = uses[e]
  BY <1>1 DEF Turns, Live
<1> QED
  BY <1>1, <1>2, <1>3, <1>4, <1>5 DEF Turns

LEMMA TurnsStep == Typed /\ Turns /\ [Next]_vars => Turns'
<1> SUFFICES ASSUME Typed, Turns, [Next]_vars PROVE Turns'
  OBVIOUS
<1>1. ASSUME NEW e \in Executions, Begin(e) PROVE Turns'
  <2>1. /\ pc[e] = "new" /\ pc'[e] = "thinking" /\ \A d \in Executions \ {e} : pc'[d] = pc[d]
        /\ UNCHANGED <<session, result>>
        /\ forked' = (forked \/ (session = NoList /\ \E d \in Executions : Live(d)))
    BY <1>1 DEF Begin, Goes, Typed, TypeOK
  <2>2. /\ Taken(e) \in Executions /\ uses'[e] = Taken(e)
        /\ \A d \in Executions \ {e} : uses'[d] = uses[d]
        /\ e \in messages'[Taken(e)].turns
    BY <1>1, Beginning
  <2>3. \A d \in Executions : pc'[d] # "new" => d \in messages'[uses'[d]].turns
    BY <2>1, <2>2, TurnsStay DEF Turns, Typed, Counted
  <2>4. \A d \in Executions : result[d] # "none" => pc'[d] = "ended"
    BY <2>1 DEF Turns
  <2>5. result[e] = "none"
    BY <2>1 DEF Turns
  <2>6. ~forked' /\ session = NoList =>
          /\ \A d \in Executions : result[d] \notin Returned
          /\ \A c, d \in Executions : Live(c)' /\ Live(d)' => c = d
    BY <2>1 DEF Turns, Live, Typed, TypeOK
  <2>7. ~forked' /\ session # NoList =>
          \A d \in Executions : Live(d)' \/ result[d] \in Returned => uses'[d] = session
    BY <2>1, <2>2, <2>5 DEF Turns, Live, Taken, Returned, Typed, TypeOK
  <2> QED
    BY <2>1, <2>3, <2>4, <2>6, <2>7 DEF Turns
<1>2. ASSUME NEW e \in Executions,
             Remind(e) \/ CallTools(e) \/ LookUp(e) \/ Dispatch(e) \/ Dispatched(e)
               \/ Review(e) \/ Refused(e)
      PROVE  Turns'
  <2>1. Live(e) /\ UNCHANGED <<session, uses, forked, result>>
    BY <1>2 DEF Remind, CallTools, LookUp, Dispatch, Dispatched, Review, Refused, Asks, GoOn,
                Live, history
  <2>2. \E point \in {"reminded", "thinking"} \cup InTool : Goes(e, point)
    BY <1>2 DEF Remind, CallTools, LookUp, Dispatch, Dispatched, Review, Refused, GoOn, InTool
  <2>3. Live(e)' /\ \A d \in Executions \ {e} : pc'[d] = pc[d]
    BY <2>2 DEF Goes, Live, InTool, Typed, TypeOK
  <2> QED
    BY <2>1, <2>3, LiveStep
<1>3. ASSUME NEW e \in Executions, LLMFails(e) \/ Reply(e) \/ Accepted(e) PROVE Turns'
  <2>1. /\ Live(e) /\ UNCHANGED <<uses, forked>>
        /\ \E how \in Returned : Finish(e, how)
    BY <1>3 DEF LLMFails, Reply, Accepted, Asks, Live, Returned
  <2> QED
    BY <2>1, FinishStep
<1>4. ASSUME NEW e \in Executions, CutOff(e) PROVE Turns'
  <2>1. /\ Live(e) /\ pc'[e] = "ended" /\ \A d \in Executions \ {e} : pc'[d] = pc[d]
        /\ result'[e] = "cut" /\ \A d \in Executions \ {e} : result'[d] = result[d]
        /\ UNCHANGED <<session, messages, uses, forked>>
    BY <1>4 DEF CutOff, Goes, history, Typed, TypeOK
  <2> QED
    BY <2>1 DEF Turns, Live, Returned
<1>5. CASE (\E role \in Roles : Produce(role)) \/ UNCHANGED vars
  BY <1>5 DEF Produce, Turns, Live, vars, history
<1> QED
  BY <1>1, <1>2, <1>3, <1>4, <1>5 DEF Next, Proceeds

(* The next request of a session finds the requests of all executions that *)
(* returned, but for sessions opened twice at once.                        *)
THEOREM TurnsRemembered == Spec => []TurnsAreRemembered
<1>1. Typed /\ Turns => TurnsAreRemembered
  BY DEF Typed, TypeOK, Counted, Turns, TurnsAreRemembered, Returned
<1> QED
  BY <1>1, InitTyped, TypedStep, InitTurns, TurnsStep, PTL DEF Spec

-----------------------------------------------------------------------------
(* The review of finalize                                                  *)

(* Between two dispatches _dispatched has all that were sent, so that what *)
(* finalize reviews are all of them.                                       *)
Reviewed ==
  \A e \in Executions :
    /\ pc[e] \notin {"dispatching", "ended"} => asked[e] = dispatched[e]
    /\ pc[e] = "dispatching" => asked[e] = dispatched[e] \cup Head(todo[e]).agents

LEMMA InitReviewed == Init => Reviewed
  BY DEF Init, Reviewed

(* A step of one execution leaves the work of the others alone.            *)
LEMMA Apart ==
  ASSUME Typed, NEW e \in Executions, Begin(e) \/ Proceeds(e) \/ CutOff(e)
  PROVE  \A d \in Executions \ {e} :
           /\ pc'[d] = pc[d] /\ todo'[d] = todo[d]
           /\ dispatched'[d] = dispatched[d] /\ asked'[d] = asked[d]
<1>1. CASE Begin(e) \/ Remind(e) \/ CallTools(e) \/ CutOff(e)
  BY <1>1 DEF Begin, Remind, CallTools, CutOff, Goes, work, Typed, TypeOK
<1>2. CASE LLMFails(e) \/ Reply(e) \/ Accepted(e)
  BY <1>2 DEF LLMFails, Reply, Accepted, Finish, Goes, Typed, TypeOK
<1>3. CASE LookUp(e) \/ Dispatched(e) \/ Refused(e)
  BY <1>3 DEF LookUp, Dispatched, Refused, GoOn, Goes, Typed, TypeOK
<1>4. CASE Dispatch(e) \/ Review(e)
  BY <1>4 DEF Dispatch, Review, Goes, work, Typed, TypeOK
<1> QED
  BY <1>1, <1>2, <1>3, <1>4 DEF Proceeds

LEMMA ReviewedStep == Typed /\ Reviewed /\ [Next]_vars => Reviewed'
<1> SUFFICES ASSUME Typed, Reviewed, [Next]_vars PROVE Reviewed'
  OBVIOUS
<1>1. ASSUME NEW e \in Executions, Begin(e) \/ Proceeds(e) \/ CutOff(e)
      PROVE  Reviewed'
  <2> DEFINE Kept(d) ==
        /\ pc'[d] \notin {"dispatching", "ended"} => asked'[d] = dispatched'[d]
        /\ pc'[d] = "dispatching" => asked'[d] = dispatched'[d] \cup Head(todo'[d]).agents
  <2>1. \A d \in Executions \ {e} : Kept(d)
    BY <1>1, Apart DEF Reviewed
  <2>2. Kept(e)
    <3>1. CASE Begin(e) \/ Remind(e) \/ CallTools(e)
      <4>1. /\ UNCHANGED <<dispatched, asked>>
            /\ pc[e] \in {"new", "thinking", "reminded"}
            /\ pc'[e] \in {"thinking", "reminded", "working"}
        BY <3>1 DEF Begin, Remind, CallTools, Asks, Goes, work, Typed, TypeOK
      <4> QED
        BY <4>1 DEF Reviewed
    <3>2. CASE LLMFails(e) \/ Reply(e) \/ CutOff(e)
      <4>1. pc'[e] = "ended"
        BY <3>2 DEF LLMFails, Reply, CutOff, Finish, Goes, Typed, TypeOK
      <4> QED
        BY <4>1
    <3>3. CASE LookUp(e) \/ Refused(e)
      <4>1. /\ UNCHANGED <<dispatched, asked>>
            /\ pc[e] \in {"working", "refused"} /\ pc'[e] \in {"working", "thinking"}
        BY <3>3 DEF LookUp, Refused, GoOn, Goes, Typed, TypeOK
      <4> QED
        BY <4>1 DEF Reviewed
    <3>4. CASE Dispatched(e)
      <4>1. /\ dispatched'[e] = dispatched[e] \cup Head(todo[e]).agents
            /\ asked' = asked
            /\ pc[e] = "dispatching" /\ pc'[e] \in {"working", "thinking"}
        BY <3>4 DEF Dispatched, GoOn, Goes, Typed, TypeOK
      <4> QED
        BY <4>1 DEF Reviewed
    <3>5. CASE Dispatch(e)
      <4>1. /\ asked'[e] = asked[e] \cup Head(todo[e]).agents
            /\ UNCHANGED <<todo, dispatched>>
            /\ pc[e] = "working" /\ pc'[e] = "dispatching"
        BY <3>5 DEF Dispatch, Goes, Typed, TypeOK
      <4> QED
        BY <4>1 DEF Reviewed
    <3>6. CASE Review(e)
      <4>1. /\ UNCHANGED <<dispatched, asked>>
            /\ pc[e] = "working" /\ pc'[e] \in {"accepted", "refused"}
        BY <3>6 DEF Review, Goes, work, Typed, TypeOK
      <4> QED
        BY <4>1 DEF Reviewed
    <3>7. CASE Accepted(e)
      <4>1. /\ UNCHANGED <<asked, files>>
            /\ pc[e] = "accepted" /\ pc'[e] = "ended"
        BY <3>7 DEF Accepted, Finish, Goes, Typed, TypeOK
      <4> QED
        BY <4>1 DEF Reviewed
    <3> QED
      BY <1>1, <3>1, <3>2, <3>3, <3>4, <3>5, <3>6, <3>7 DEF Proceeds
  <2> QED
    BY <2>1, <2>2 DEF Reviewed
<1>2. CASE \E role \in Roles : Produce(role)
  BY <1>2 DEF Produce, Reviewed, work
<1>3. CASE UNCHANGED vars
  BY <1>3 DEF Reviewed, vars, work
<1> QED
  BY <1>1, <1>2, <1>3 DEF Next

(* A step that accepts is a review, of all that the execution dispatched.  *)
LEMMA AcceptingStep ==
  ASSUME Typed, Reviewed, [Next]_vars, NEW e \in Executions,
         pc[e] # "accepted", pc'[e] = "accepted"
  PROVE  \A t \in asked[e] : RoleOf[t] \in files
<1>1. PICK d \in Executions : Begin(d) \/ Proceeds(d) \/ CutOff(d)
  BY DEF Next, Produce, vars
<1>2. d = e
  BY <1>1, Apart
<1>3. Review(e) /\ Passes(e) /\ pc[e] = "working"
  <2>1. \E point \in {"thinking", "reminded", "ended", "working", "dispatching", "refused"} :
          Goes(e, point) \/ Review(e)
    BY <1>1, <1>2 DEF Begin, Proceeds, CutOff, Remind, LLMFails, Reply, CallTools, LookUp,
                      Dispatch, Dispatched, Refused, Accepted, Finish, GoOn
  <2>2. Review(e)
    BY <2>1 DEF Goes, Typed, TypeOK
  <2> QED
    BY <2>2 DEF Review, Goes, Typed, TypeOK
<1>4. asked[e] = dispatched[e]
  BY <1>3 DEF Reviewed
<1> QED
  BY <1>3, <1>4 DEF Passes

(* finalize is accepted with files of every agent type that was dispatched.*)
THEOREM FinalizedReviewed == Spec => FinalizedIsReviewed
<1>1. Typed /\ Reviewed /\ [Next]_vars =>
        [\A e \in Executions :
           pc[e] # "accepted" /\ pc'[e] = "accepted" => \A t \in asked[e] : RoleOf[t] \in files]_vars
  BY AcceptingStep
<1> QED
  BY <1>1, InitTyped, TypedStep, InitReviewed, ReviewedStep, PTL DEF Spec, FinalizedIsReviewed

-----------------------------------------------------------------------------
(* Calls without a result                                                  *)

(* A call in a list that has no result is one of an execution that uses    *)
(* the list, and works on it or ended before it was done.                  *)
Owned ==
  \A l \in Executions :
    messages[l].open > 0 =>
      \E e \in Executions :
        uses[e] = l /\ todo[e] # <<>> /\ pc[e] \in InTool \cup {"ended"}

Alone ==
  ~overlapped =>
    \A d, e \in Executions : Live(d) /\ Live(e) /\ d # e => uses[d] # uses[e]

Usable == Owned /\ Alone /\ HistoryStaysUsable

LEMMA InitUsable == Init => Usable
<1> SUFFICES ASSUME Init PROVE Usable
  OBVIOUS
<1>1. \A l \in Executions : messages[l].open = 0 /\ ~messages[l].broken
  BY DEF Init
<1>2. Owned /\ HistoryStaysUsable
  BY <1>1 DEF Owned, HistoryStaysUsable
<1>3. Alone
  BY DEF Init, Alone, Live
<1> QED
  BY <1>2, <1>3 DEF Usable

(* What ended stays as it is.                                              *)
LEMMA EndedStays ==
  ASSUME Typed, [Next]_vars, NEW w \in Executions, pc[w] = "ended"
  PROVE  pc'[w] = "ended" /\ todo'[w] = todo[w] /\ uses'[w] = uses[w]
<1>1. ASSUME NEW e \in Executions, Begin(e)
      PROVE  pc'[w] = "ended" /\ todo'[w] = todo[w] /\ uses'[w] = uses[w]
  <2>1. e # w
    BY <1>1 DEF Begin
  <2> QED
    BY <1>1, <2>1, Apart, Beginning
<1>2. ASSUME NEW e \in Executions, Proceeds(e) \/ CutOff(e)
      PROVE  pc'[w] = "ended" /\ todo'[w] = todo[w] /\ uses'[w] = uses[w]
  <2>1. e # w /\ uses' = uses
    BY <1>2 DEF Proceeds, Remind, LLMFails, Reply, CallTools, LookUp, Dispatch, Dispatched,
                Review, Refused, Accepted, CutOff, Asks, Live, history
  <2> QED
    BY <1>2, <2>1, Apart
<1>3. CASE (\E role \in Roles : Produce(role)) \/ UNCHANGED vars
  BY <1>3 DEF Produce, vars, history, work
<1> QED
  BY <1>1, <1>2, <1>3 DEF Next

LEMMA BeginUsable ==
  ASSUME Typed, Usable, [Next]_vars, NEW e \in Executions, Begin(e)
  PROVE  Usable'
<1>1. /\ pc[e] = "new" /\ pc'[e] = "thinking" /\ todo' = todo
      /\ \A d \in Executions \ {e} : pc'[d] = pc[d]
      /\ overlapped' = (overlapped \/ \E d \in Executions : Live(d) /\ uses[d] = Taken(e))
  BY DEF Begin, Goes, Taken, work, Typed, TypeOK
<1>2. /\ Taken(e) \in Executions /\ uses'[e] = Taken(e)
      /\ \A d \in Executions \ {e} : uses'[d] = uses[d]
      /\ messages'[Taken(e)].open = 0
      /\ messages'[Taken(e)].broken = (messages[Taken(e)].broken \/ messages[Taken(e)].open > 0)
      /\ \A l \in Executions \ {Taken(e)} : messages'[l] = messages[l]
  BY Beginning
<1>3. \A w \in Executions : pc[w] \in InTool \/ pc[w] = "ended" =>
        w # e /\ pc'[w] = pc[w] /\ uses'[w] = uses[w]
  BY <1>1, <1>2 DEF InTool
<1>4. Owned'
  BY <1>1, <1>2, <1>3 DEF Usable, Owned
<1>5. Alone'
  <2> SUFFICES ASSUME ~overlapped', NEW c \in Executions, NEW d \in Executions,
                      Live(c)', Live(d)', c # d
               PROVE  uses'[c] # uses'[d]
    BY DEF Alone
  <2>1. /\ ~overlapped /\ \A w \in Executions : Live(w) => uses[w] # Taken(e)
        /\ \A w \in Executions \ {e} : Live(w)' => Live(w)
    BY <1>1 DEF Live
  <2>2. CASE c # e /\ d # e
    BY <1>2, <2>1, <2>2 DEF Usable, Alone
  <2>3. CASE c = e \/ d = e
    BY <1>2, <2>1, <2>3
  <2> QED
    BY <2>2, <2>3
<1>6. ASSUME ~overlapped', NEW l \in Executions, messages'[l].broken
      PROVE  \E w \in Executions : uses'[w] = l /\ pc'[w] = "ended" /\ todo'[w] # <<>>
  <2>1. CASE messages[l].broken
    <3>1. PICK w \in Executions : uses[w] = l /\ pc[w] = "ended" /\ todo[w] # <<>>
      BY <1>1, <1>6, <2>1 DEF Usable, HistoryStaysUsable
    <3> QED
      BY <3>1, EndedStays
  <2>2. CASE ~messages[l].broken
    <3>1. l = Taken(e) /\ messages[l].open > 0
      BY <1>2, <1>6, <2>2
    <3>2. PICK w \in Executions :
            uses[w] = l /\ todo[w] # <<>> /\ pc[w] \in InTool \cup {"ended"}
      BY <3>1 DEF Usable, Owned
    <3>3. pc[w] = "ended"
      BY <1>1, <1>6, <3>1, <3>2 DEF Live, InTool
    <3> QED
      BY <3>2, <3>3, EndedStays
  <2> QED
    BY <2>1, <2>2
<1> QED
  BY <1>4, <1>5, <1>6 DEF Usable, HistoryStaysUsable

LEMMA SaysUsable ==
  ASSUME Typed, Usable, [Next]_vars, NEW e \in Executions,
         Remind(e) \/ Reply(e) \/ LLMFails(e) \/ CallTools(e)
  PROVE  Usable'
<1>1. PICK n \in Nat : SaysEffect(e, n)
  BY SaysHasEffect
<1>2. \A d \in Executions : Live(d)' => Live(d)
  BY <1>1 DEF SaysEffect, Live
<1>3. Alone'
  BY <1>1, <1>2 DEF SaysEffect, Usable, Alone
<1>4. ASSUME NEW l \in Executions, messages'[l].open > 0
      PROVE  \E w \in Executions :
               uses'[w] = l /\ todo'[w] # <<>> /\ pc'[w] \in InTool \cup {"ended"}
  <2>1. CASE messages'[l] = messages[l]
    <3>1. PICK w \in Executions :
            uses[w] = l /\ todo[w] # <<>> /\ pc[w] \in InTool \cup {"ended"}
      BY <1>4, <2>1 DEF Usable, Owned
    <3>2. w # e
      BY <1>1, <3>1 DEF SaysEffect
    <3> QED
      BY <1>1, <3>1, <3>2 DEF SaysEffect
  <2>2. CASE messages'[l] # messages[l]
    <3>1. l = uses[e] /\ n > 0 /\ uses' = uses
      BY <1>1, <1>4, <2>2 DEF SaysEffect
    <3>2. todo'[e] # <<>> /\ pc'[e] \in InTool
      BY <1>1, <3>1 DEF SaysEffect, InTool
    <3> QED
      BY <3>1, <3>2
  <2> QED
    BY <2>1, <2>2
<1>5. ASSUME ~overlapped', NEW l \in Executions, messages'[l].broken
      PROVE  \E w \in Executions : uses'[w] = l /\ pc'[w] = "ended" /\ todo'[w] # <<>>
  <2>0. ~overlapped
    BY <1>1, <1>5 DEF SaysEffect
  <2>1. CASE messages[l].broken
    <3>1. PICK w \in Executions : uses[w] = l /\ pc[w] = "ended" /\ todo[w] # <<>>
      BY <2>0, <2>1 DEF Usable, HistoryStaysUsable
    <3> QED
      BY <3>1, EndedStays
  <2>2. CASE ~messages[l].broken
    <3>1. l = uses[e] /\ messages[l].open > 0
      BY <1>1, <1>5, <2>2 DEF SaysEffect
    <3>2. PICK w \in Executions :
            uses[w] = l /\ todo[w] # <<>> /\ pc[w] \in InTool \cup {"ended"}
      BY <3>1 DEF Usable, Owned
    <3>3. pc[e] \in {"thinking", "reminded"}
      BY <1>1 DEF SaysEffect
    <3>4. pc[w] \notin InTool
      BY <2>0, <3>1, <3>2, <3>3 DEF Usable, Alone, Live, InTool
    <3> QED
      BY <3>2, <3>4, EndedStays
  <2> QED
    BY <2>1, <2>2
<1>6. Owned'
  BY <1>4, Zenon DEF Owned
<1>7. HistoryStaysUsable'
  BY <1>5, Zenon DEF HistoryStaysUsable
<1> QED
  BY <1>3, <1>6, <1>7 DEF Usable

LEMMA ResultUsable ==
  ASSUME Typed, Usable, [Next]_vars, NEW e \in Executions,
         LookUp(e) \/ Dispatched(e) \/ Refused(e) \/ Accepted(e)
  PROVE  Usable'
<1>1. /\ pc[e] \in InTool /\ UNCHANGED <<uses, overlapped>> /\ uses[e] \in Executions
      /\ \A l \in Executions \ {uses[e]} : messages'[l] = messages[l]
      /\ messages'[uses[e]].broken = messages[uses[e]].broken
      /\ messages'[uses[e]].open = IF messages[uses[e]].broken THEN 0 ELSE messages[uses[e]].open - 1
      /\ \A d \in Executions \ {e} : pc'[d] = pc[d] /\ todo'[d] = todo[d]
  BY ResultEffect
<1>2. /\ todo'[e] \in Seq(Calls) /\ Len(todo'[e]) = Len(todo[e]) - 1
      /\ \/ pc'[e] \in {"working", "ended"}
         \/ pc'[e] = "thinking" /\ todo'[e] = <<>>
  <2>1. todo' \in [Executions -> Seq(Calls)]
    BY ResultEffect
  <2> QED
    BY <2>1, ResultEffect
<1>3. Alone'
  BY <1>1 DEF Usable, Alone, Live, InTool
<1>4. ASSUME NEW l \in Executions, messages'[l].open > 0
      PROVE  \E w \in Executions :
               uses'[w] = l /\ todo'[w] # <<>> /\ pc'[w] \in InTool \cup {"ended"}
  <2>1. CASE l = uses[e]
    <3>1. ~messages[l].broken /\ messages[l].open - 1 > 0
      BY <1>1, <1>4, <2>1
    <3>2. messages[l].open = Len(todo[e])
      BY <1>1, <2>1, <3>1 DEF Typed, Counted
    <3>3. todo'[e] # <<>>
      BY <1>2, <3>1, <3>2
    <3> QED
      BY <1>1, <1>2, <2>1, <3>3 DEF InTool
  <2>2. CASE l # uses[e]
    <3>1. PICK w \in Executions :
            uses[w] = l /\ todo[w] # <<>> /\ pc[w] \in InTool \cup {"ended"}
      BY <1>1, <1>4, <2>2 DEF Usable, Owned
    <3> QED
      BY <1>1, <2>2, <3>1
  <2> QED
    BY <2>1, <2>2
<1>5. ASSUME ~overlapped', NEW l \in Executions, messages'[l].broken
      PROVE  \E w \in Executions : uses'[w] = l /\ pc'[w] = "ended" /\ todo'[w] # <<>>
  <2>1. ~overlapped /\ messages[l].broken
    BY <1>1, <1>5
  <2>2. PICK w \in Executions : uses[w] = l /\ pc[w] = "ended" /\ todo[w] # <<>>
    BY <2>1 DEF Usable, HistoryStaysUsable
  <2> QED
    BY <2>2, EndedStays
<1> QED
  BY <1>3, <1>4, <1>5 DEF Usable, Owned, HistoryStaysUsable

LEMMA UsableStep == Typed /\ Usable /\ [Next]_vars => Usable'
<1> SUFFICES ASSUME Typed, Usable, [Next]_vars PROVE Usable'
  OBVIOUS
<1>1. CASE \E e \in Executions : Begin(e)
  BY <1>1, BeginUsable
<1>2. CASE \E e \in Executions : Remind(e) \/ Reply(e) \/ LLMFails(e) \/ CallTools(e)
  BY <1>2, SaysUsable
<1>3. CASE \E e \in Executions : LookUp(e) \/ Dispatched(e) \/ Refused(e) \/ Accepted(e)
  BY <1>3, ResultUsable
<1>4. ASSUME NEW e \in Executions, Dispatch(e) \/ Review(e) \/ CutOff(e)
      PROVE  Usable'
  <2>1. /\ UNCHANGED <<messages, uses, overlapped, todo>>
        /\ \A d \in Executions \ {e} : pc'[d] = pc[d]
        /\ Live(e)
        /\ pc'[e] = "ended" \/ (pc[e] \in InTool /\ pc'[e] \in InTool)
    BY <1>4 DEF Dispatch, Review, CutOff, Goes, Live, history, work, InTool, Typed, TypeOK
  <2>2. Alone'
    BY <2>1 DEF Usable, Alone, Live, InTool
  <2>3. Owned'
    BY <2>1 DEF Usable, Owned
  <2>4. HistoryStaysUsable'
    BY <2>1 DEF Usable, HistoryStaysUsable, Live
  <2> QED
    BY <2>2, <2>3, <2>4 DEF Usable
<1>5. CASE (\E role \in Roles : Produce(role)) \/ UNCHANGED vars
  BY <1>5 DEF Produce, Usable, Owned, Alone, Live, HistoryStaysUsable, vars, history, work
<1> QED
  BY <1>1, <1>2, <1>3, <1>4, <1>5 DEF Next, Proceeds

(* Without two executions on one list, only one that was cut off in a tool *)
(* or finalized before its last call leaves a history that is refused.     *)
THEOREM HistoryUsable == Spec => []HistoryStaysUsable
<1>1. Usable => HistoryStaysUsable
  BY DEF Usable
<1> QED
  BY <1>1, InitTyped, TypedStep, InitUsable, UsableStep, PTL DEF Spec

-----------------------------------------------------------------------------
(* Progress                                                                *)

(* How far an execution is from its end: the iterations it has left, then  *)
(* what it may still say in this one, then what its tool calls still take. *)
IterationsLeft(e) ==
  IF pc[e] = "new" THEN MaxIterations + 1
  ELSE IF pc[e] = "ended" THEN 0 ELSE MaxIterations - iteration[e]

MessagesLeft(e) ==
  IF pc[e] = "thinking" THEN 2 ELSE IF pc[e] = "reminded" THEN 1 ELSE 0

ToolStepsLeft(e) ==
  IF pc[e] \notin InTool THEN 0
  ELSE IF pc[e] = "working" THEN 2 * Len(todo[e]) ELSE 2 * Len(todo[e]) - 1

Nearer(e) ==
  \/ IterationsLeft(e)' < IterationsLeft(e)
  \/ UNCHANGED IterationsLeft(e) /\ MessagesLeft(e)' < MessagesLeft(e)
  \/ /\ UNCHANGED <<IterationsLeft(e), MessagesLeft(e)>>
     /\ ToolStepsLeft(e)' < ToolStepsLeft(e)

Stays(e) == UNCHANGED <<pc[e], IterationsLeft(e), MessagesLeft(e), ToolStepsLeft(e)>>

(* None of the three can fall for ever.                                    *)
LEMMA DistanceIsNatural ==
  ASSUME Typed, NEW e \in Executions
  PROVE  IterationsLeft(e) \in Nat /\ MessagesLeft(e) \in Nat /\ ToolStepsLeft(e) \in Nat
<1>1. /\ iteration[e] \in 0 .. MaxIterations - 1 /\ MaxIterations \in Nat
      /\ todo[e] \in Seq(Calls) /\ (pc[e] \in InTool => todo[e] # <<>>)
  BY OrchestratorAssumption DEF Typed, TypeOK
<1>2. Len(todo[e]) \in Nat /\ (pc[e] \in InTool => Len(todo[e]) > 0)
  BY <1>1
<1> QED
  BY <1>1, <1>2 DEF IterationsLeft, MessagesLeft, ToolStepsLeft

(* Each step of an execution brings it nearer to its end: a refused review *)
(* and a failed dispatch, too, use up an iteration.                        *)
LEMMA ProceedingIsNearer ==
  ASSUME Typed, NEW e \in Executions, Proceeds(e)
  PROVE  Nearer(e)
<1>0. /\ iteration[e] \in 0 .. MaxIterations - 1 /\ MaxIterations \in Nat
      /\ todo[e] \in Seq(Calls) /\ pc \in [Executions -> {"new", "thinking", "reminded", "ended"} \cup InTool]
      /\ iteration \in [Executions -> 0 .. MaxIterations - 1]
      /\ Len(todo[e]) \in Nat
  BY OrchestratorAssumption DEF Typed, TypeOK
<1>1. CASE Remind(e)
  <2>1. pc[e] = "thinking" /\ pc'[e] = "reminded" /\ iteration' = iteration
    BY <1>0, <1>1 DEF Remind, Goes, work
  <2> QED
    BY <2>1 DEF Nearer, IterationsLeft, MessagesLeft
<1>2. CASE LLMFails(e) \/ Reply(e) \/ Accepted(e)
  <2>1. pc[e] \notin {"new", "ended"} /\ pc'[e] = "ended"
    BY <1>0, <1>2 DEF LLMFails, Reply, Accepted, Asks, Finish, Goes
  <2> QED
    BY <1>0, <2>1 DEF Nearer, IterationsLeft
<1>3. CASE CallTools(e)
  <2>1. pc[e] \in {"thinking", "reminded"} /\ pc'[e] = "working" /\ iteration' = iteration
    BY <1>0, <1>3 DEF CallTools, Asks, Goes
  <2> QED
    BY <2>1 DEF Nearer, IterationsLeft, MessagesLeft
<1>4. CASE LookUp(e) \/ Dispatched(e) \/ Refused(e)
  <2>1. GoOn(e) /\ pc[e] \in InTool
    BY <1>4 DEF LookUp, Dispatched, Refused, InTool
  <2>2. CASE Len(todo[e]) > 1
    <3>1. pc'[e] = "working" /\ iteration' = iteration
      BY <1>0, <2>1, <2>2 DEF GoOn, Goes
    <3>2. Len(todo'[e]) = Len(todo[e]) - 1
      BY <2>1, GoingOn
    <3>3. pc[e] \notin {"new", "ended", "thinking", "reminded"}
      BY <2>1 DEF InTool
    <3>4. ToolStepsLeft(e)' < ToolStepsLeft(e)
      BY <1>0, <2>1, <3>1, <3>2 DEF ToolStepsLeft, InTool
    <3> QED
      BY <3>1, <3>3, <3>4 DEF Nearer, IterationsLeft, MessagesLeft
  <2>3. CASE ~(Len(todo[e]) > 1)
    <3>1. pc'[e] = "thinking" /\ iteration'[e] = iteration[e] + 1
      BY <1>0, <2>1, <2>3 DEF GoOn, Goes
    <3> QED
      BY <1>0, <2>1, <3>1 DEF Nearer, IterationsLeft, InTool
  <2> QED
    BY <2>2, <2>3
<1>5. CASE Dispatch(e) \/ Review(e)
  <2>1. /\ pc[e] = "working" /\ pc'[e] \in {"dispatching", "accepted", "refused"}
        /\ iteration' = iteration /\ todo' = todo
    BY <1>0, <1>5 DEF Dispatch, Review, Goes, work
  <2>2. ToolStepsLeft(e)' < ToolStepsLeft(e)
    BY <1>0, <2>1 DEF ToolStepsLeft, InTool
  <2> QED
    BY <2>1, <2>2 DEF Nearer, IterationsLeft, MessagesLeft
<1> QED
  BY <1>1, <1>2, <1>3, <1>4, <1>5 DEF Proceeds

(* A step of one execution takes no other one back.                        *)
LEMMA EveryStepIsNearer ==
  ASSUME Typed, Next, NEW d \in Executions
  PROVE  Nearer(d) \/ Stays(d)
<1>0. /\ iteration \in [Executions -> 0 .. MaxIterations - 1] /\ MaxIterations \in Nat
      /\ pc \in [Executions -> {"new", "thinking", "reminded", "ended"} \cup InTool]
  BY OrchestratorAssumption DEF Typed, TypeOK
<1>1. ASSUME NEW e \in Executions, e # d, Begin(e) \/ Proceeds(e) \/ CutOff(e)
      PROVE  Stays(d)
  <2>1. pc'[d] = pc[d] /\ todo'[d] = todo[d]
    BY <1>1, Apart
  <2>2. iteration'[d] = iteration[d]
    <3>1. CASE Begin(e) \/ Remind(e) \/ CallTools(e) \/ CutOff(e) \/ Dispatch(e) \/ Review(e)
      BY <1>0, <1>1, <3>1 DEF Begin, Remind, CallTools, CutOff, Dispatch, Review, work
    <3>2. CASE LLMFails(e) \/ Reply(e) \/ Accepted(e)
      BY <1>0, <1>1, <3>2 DEF LLMFails, Reply, Accepted, Finish
    <3>3. CASE LookUp(e) \/ Dispatched(e) \/ Refused(e)
      BY <1>0, <1>1, <3>3 DEF LookUp, Dispatched, Refused, GoOn
    <3> QED
      BY <1>1, <3>1, <3>2, <3>3 DEF Proceeds
  <2> QED
    BY <2>1, <2>2 DEF Stays, IterationsLeft, MessagesLeft, ToolStepsLeft
<1>2. CASE Begin(d)
  <2>1. pc[d] = "new" /\ pc'[d] = "thinking" /\ iteration' = iteration
    BY <1>0, <1>2 DEF Begin, Goes, work
  <2> QED
    BY <1>0, <2>1 DEF Nearer, IterationsLeft
<1>3. CASE CutOff(d)
  <2>1. pc[d] \notin {"new", "ended"} /\ pc'[d] = "ended"
    BY <1>0, <1>3 DEF CutOff, Live, Goes
  <2> QED
    BY <1>0, <2>1 DEF Nearer, IterationsLeft
<1>4. CASE Proceeds(d)
  BY <1>4, ProceedingIsNearer
<1>5. CASE \E role \in Roles : Produce(role)
  BY <1>5 DEF Produce, work, Stays, IterationsLeft, MessagesLeft, ToolStepsLeft
<1> QED
  BY <1>1, <1>2, <1>3, <1>4, <1>5 DEF Next

(* However the LLM chooses its tools, reviews refuse and workers fail, and *)
(* whatever other executions of the session do, every step of an execution *)
(* lowers its distance to the end, in lexicographic order, and no step     *)
(* raises it (execute: for iteration in range(MAX_ITERATIONS)).  With fair *)
(* LLM calls and dispatches this is why executions end.                    *)
NoExecutionGoesBack ==
  [][\A e \in Executions :
       /\ IterationsLeft(e) \in Nat /\ MessagesLeft(e) \in Nat /\ ToolStepsLeft(e) \in Nat
       /\ Nearer(e) \/ Stays(e)
       /\ Proceeds(e) => Nearer(e)]_vars

(* The distance of every execution falls with its steps, and never rises.  *)
THEOREM ExecutionsLeadOn == Spec => NoExecutionGoesBack
<1> DEFINE Step ==
      \A e \in Executions :
        /\ IterationsLeft(e) \in Nat /\ MessagesLeft(e) \in Nat /\ ToolStepsLeft(e) \in Nat
        /\ Nearer(e) \/ Stays(e)
        /\ Proceeds(e) => Nearer(e)
<1>1. Typed /\ [Next]_vars => [Step]_vars
  BY DistanceIsNatural, EveryStepIsNearer, ProceedingIsNearer
<1> QED
  BY <1>1, InitTyped, TypedStep, PTL DEF Spec, NoExecutionGoesBack

-----------------------------------------------------------------------------
(* One execution at a time                                                 *)

UnderWay == {d \in Executions : Live(d)}

(* No more executions are under way than the tenant may have.              *)
LimitIsKept == IsFiniteSet(UnderWay) /\ Cardinality(UnderWay) <= Limit

(* Only Begin adds to those that are under way.                            *)
LEMMA UnderWayStep ==
  ASSUME Typed, [Next]_vars
  PROVE  \/ UnderWay' \subseteq UnderWay
         \/ \E e \in Executions : Begin(e) /\ UnderWay' \subseteq UnderWay \cup {e}
<1>1. ASSUME NEW e \in Executions, Begin(e)
      PROVE  UnderWay' \subseteq UnderWay \cup {e}
  BY <1>1, Apart DEF UnderWay, Live
<1>2. ASSUME NEW e \in Executions, Proceeds(e) \/ CutOff(e)
      PROVE  UnderWay' \subseteq UnderWay
  <2>1. Live(e)
    BY <1>2 DEF Proceeds, Remind, LLMFails, Reply, CallTools, LookUp, Dispatch, Dispatched,
                Review, Refused, Accepted, CutOff, Asks, Live
  <2> QED
    BY <1>2, <2>1, Apart DEF UnderWay, Live
<1>3. CASE (\E role \in Roles : Produce(role)) \/ UNCHANGED vars
  BY <1>3 DEF Produce, UnderWay, Live, vars
<1> QED
  BY <1>1, <1>2, <1>3 DEF Next

LEMMA LimitStep == Typed /\ LimitIsKept /\ [Next]_vars => LimitIsKept'
<1> SUFFICES ASSUME Typed, LimitIsKept, [Next]_vars PROVE LimitIsKept'
  OBVIOUS
<1>1. IsFiniteSet(UnderWay) /\ Cardinality(UnderWay) \in Nat /\ Cardinality(UnderWay) <= Limit
  BY FS_CardinalityType DEF LimitIsKept
<1>2. CASE UnderWay' \subseteq UnderWay
  BY <1>1, <1>2, FS_Subset, FS_CardinalityType, OrchestratorAssumption DEF LimitIsKept
<1>3. ASSUME NEW e \in Executions, Begin(e), UnderWay' \subseteq UnderWay \cup {e}
      PROVE  LimitIsKept'
  <2>1. Cardinality(UnderWay) < Limit
    BY <1>3 DEF Begin, UnderWay
  <2>2. IsFiniteSet(UnderWay \cup {e}) /\ Cardinality(UnderWay \cup {e}) <= Cardinality(UnderWay) + 1
    BY <1>1, FS_AddElement
  <2>3. /\ IsFiniteSet(UnderWay') /\ Cardinality(UnderWay') \in Nat
        /\ Cardinality(UnderWay') <= Cardinality(UnderWay \cup {e})
    BY <1>3, <2>2, FS_Subset, FS_CardinalityType
  <2>4. Cardinality(UnderWay \cup {e}) \in Nat
    BY <2>2, FS_CardinalityType
  <2> QED
    BY <1>1, <2>1, <2>2, <2>3, <2>4, OrchestratorAssumption DEF LimitIsKept
<1> QED
  BY <1>2, <1>3, UnderWayStep

(* The limit in every state: with a limit of one, whoever begins is alone. *)
LEMMA LimitHolds == Spec => []LimitIsKept
<1>1. Init => LimitIsKept
  <2> SUFFICES ASSUME Init PROVE LimitIsKept
    OBVIOUS
  <2>1. UnderWay = {}
    BY DEF Init, UnderWay, Live
  <2> QED
    BY <2>1, FS_EmptySet, OrchestratorAssumption DEF LimitIsKept
<1> QED
  BY <1>1, InitTyped, TypedStep, LimitStep, PTL DEF Spec

(* An execution that begins finds no other, when the limit is one.         *)
LEMMA AloneAtALimitOfOne ==
  ASSUME Limit = 1, Typed, LimitIsKept, [Next]_vars, ~forked, ~overlapped
  PROVE  ~forked' /\ ~overlapped'
<1>1. ASSUME NEW e \in Executions, Begin(e) PROVE ~forked' /\ ~overlapped'
  <2>1. IsFiniteSet(UnderWay) /\ Cardinality(UnderWay) \in Nat /\ Cardinality(UnderWay) < 1
    BY <1>1, FS_CardinalityType DEF LimitIsKept, Begin, UnderWay
  <2>2. Cardinality(UnderWay) = 0
    BY <2>1
  <2>3. UnderWay = {}
    BY <2>1, <2>2, FS_EmptySet
  <2>4. \A d \in Executions : ~Live(d)
    BY <2>3 DEF UnderWay
  <2> QED
    BY <1>1, <2>4 DEF Begin
<1>2. ASSUME NEW e \in Executions, Proceeds(e) \/ CutOff(e) PROVE ~forked' /\ ~overlapped'
  BY <1>2 DEF Proceeds, Remind, LLMFails, Reply, CallTools, LookUp, Dispatch, Dispatched,
              Review, Refused, Accepted, CutOff, history
<1>3. CASE (\E role \in Roles : Produce(role)) \/ UNCHANGED vars
  BY <1>3 DEF Produce, vars, history
<1> QED
  BY <1>1, <1>2, <1>3 DEF Next

(* What TurnsAreRemembered excepts is an effect of parallel requests only: *)
(* a session of a tenant with one orchestration at a time remembers all    *)
(* its turns, whatever is cut off in between.                              *)
EveryTurnIsRemembered ==
  \A e \in Executions :
    result[e] \in Returned => session # NoList /\ e \in messages[session].turns

(* One orchestration at a time: no session is opened twice, none forgets.  *)
THEOREM OneAtATimeRemembers ==
  ASSUME Limit = 1
  PROVE  Spec => []EveryTurnIsRemembered
<1>1. Init => ~forked /\ ~overlapped
  BY DEF Init
<1>2. Typed /\ LimitIsKept /\ (~forked /\ ~overlapped) /\ [Next]_vars => (~forked /\ ~overlapped)'
  BY AloneAtALimitOfOne
<1>3. (~forked /\ ~overlapped) /\ TurnsAreRemembered => EveryTurnIsRemembered
  BY DEF TurnsAreRemembered, EveryTurnIsRemembered
<1>4. Spec => []Typed
  BY InitTyped, TypedStep, PTL DEF Spec
<1> QED
  BY <1>1, <1>2, <1>3, <1>4, LimitHolds, TurnsRemembered, PTL DEF Spec

(* The calls of an answer that come before its last are not finalize.      *)
FinalizesLast(calls) == \A i \in 1 .. Len(calls) - 1 : calls[i].tool # "finalize"

Orderly ==
  /\ \A e \in Executions : FinalizesLast(todo[e])
  /\ \A e \in Executions : pc[e] = "accepted" => Head(todo[e]).tool = "finalize"
  /\ \A e \in Executions : pc[e] = "ended" => todo[e] = <<>>

LEMMA TailFinalizesLast ==
  ASSUME NEW calls \in Seq(Calls), calls # <<>>, FinalizesLast(calls)
  PROVE  FinalizesLast(Tail(calls))
<1>1. Len(calls) \in Nat /\ Len(calls) > 0 /\ Len(Tail(calls)) = Len(calls) - 1
  OBVIOUS
<1>2. \A i \in 1 .. Len(Tail(calls)) : Tail(calls)[i] = calls[i + 1]
  OBVIOUS
<1> SUFFICES ASSUME NEW i \in 1 .. Len(Tail(calls)) - 1
             PROVE  Tail(calls)[i].tool # "finalize"
  BY DEF FinalizesLast
<1>3. i + 1 \in 1 .. Len(calls) - 1 /\ i \in 1 .. Len(Tail(calls))
  BY <1>1
<1>4. Tail(calls)[i] = calls[i + 1]
  BY <1>2, <1>3
<1> QED
  BY <1>3, <1>4 DEF FinalizesLast

LEMMA OneCall ==
  ASSUME NEW S, NEW s \in Seq(S), s # <<>>, ~(1 \in 1 .. Len(s) - 1)
  PROVE  Tail(s) = <<>>
<1>1. Len(s) \in Nat /\ Len(s) > 0
  OBVIOUS
<1>2. \A n \in Nat : n > 0 /\ ~(1 \in 1 .. n - 1) => n = 1
  OBVIOUS
<1>3. Len(s) = 1
  BY <1>1, <1>2
<1>4. Tail(s) \in Seq(S) /\ Len(Tail(s)) = 0
  BY <1>3
<1> QED
  BY <1>4

LEMMA NothingAfterFinalize ==
  ASSUME NEW calls \in Seq(Calls), calls # <<>>, FinalizesLast(calls), Head(calls).tool = "finalize"
  PROVE  Tail(calls) = <<>>
<1>1. Head(calls) = calls[1]
  OBVIOUS
<1>2. ~(1 \in 1 .. Len(calls) - 1)
  BY <1>1 DEF FinalizesLast
<1> QED
  BY <1>2, OneCall

LEMMA OrderlyStep ==
  ASSUME Cuttable = {}, \A calls \in CallLists : FinalizesLast(calls),
         Typed, Orderly, [Next]_vars
  PROVE  Orderly'
<1> DEFINE Fine(d) ==
      /\ FinalizesLast(todo[d])
      /\ pc[d] = "accepted" => Head(todo[d]).tool = "finalize"
      /\ pc[d] = "ended" => todo[d] = <<>>
<1>0. \A d \in Executions : Fine(d)
  BY DEF Orderly
<1>1. ASSUME NEW e \in Executions, Begin(e) \/ Proceeds(e)
      PROVE  Orderly'
  <2>0. /\ todo \in [Executions -> Seq(Calls)] /\ (pc[e] \in InTool => todo[e] # <<>>)
        /\ pc \in [Executions -> {"new", "thinking", "reminded", "ended"} \cup InTool]
        /\ (pc[e] \in {"new", "thinking", "reminded"} => todo[e] = <<>>)
    BY DEF Typed, TypeOK, Counted
  <2>1. \A d \in Executions \ {e} : pc'[d] = pc[d] /\ todo'[d] = todo[d]
    BY <1>1, Apart
  <2>2. FinalizesLast(<<>>)
    BY DEF FinalizesLast
  <2>3. pc[e] \in InTool => FinalizesLast(Tail(todo[e]))
    BY <1>0, <2>0, TailFinalizesLast
  <2>4. /\ FinalizesLast(todo'[e])
        /\ pc'[e] = "accepted" => Head(todo'[e]).tool = "finalize"
        /\ pc'[e] = "ended" => todo'[e] = <<>>
    <3>1. CASE Begin(e) \/ Remind(e)
      <4>1. pc'[e] \in {"thinking", "reminded"} /\ todo' = todo
        BY <2>0, <3>1 DEF Begin, Remind, Goes, work
      <4> QED
        BY <1>0, <4>1
    <3>2. CASE LLMFails(e) \/ Reply(e)
      <4>1. pc'[e] = "ended" /\ pc[e] \in {"thinking", "reminded"}
        BY <2>0, <3>2 DEF LLMFails, Reply, Asks, Finish, Goes
      <4>2. todo' = todo
        BY <3>2 DEF LLMFails, Reply
      <4> QED
        BY <1>0, <2>0, <4>1, <4>2
    <3>3. CASE CallTools(e)
      <4>1. PICK calls \in CallLists : todo' = [todo EXCEPT ![e] = calls]
        BY <3>3 DEF CallTools
      <4>2. pc'[e] = "working" /\ todo'[e] = calls
        BY <2>0, <3>3, <4>1 DEF CallTools, Goes
      <4> QED
        BY <4>1, <4>2
    <3>4. CASE LookUp(e) \/ Dispatched(e) \/ Refused(e)
      <4>1. pc[e] \in InTool /\ pc'[e] \in {"working", "thinking"} /\ todo'[e] = Tail(todo[e])
        BY <2>0, <3>4 DEF LookUp, Dispatched, Refused, GoOn, Goes, InTool
      <4> QED
        BY <2>3, <4>1
    <3>5. CASE Dispatch(e) \/ Review(e)
      <4>1. /\ todo' = todo /\ pc'[e] \in {"dispatching", "accepted", "refused"}
            /\ pc'[e] = "accepted" => Head(todo[e]).tool = "finalize"
        BY <2>0, <3>5 DEF Dispatch, Review, Goes, work
      <4> QED
        BY <1>0, <4>1
    <3>6. CASE Accepted(e)
      <4>1. pc[e] = "accepted" /\ pc[e] \in InTool /\ pc'[e] = "ended" /\ todo'[e] = Tail(todo[e])
        BY <2>0, <3>6 DEF Accepted, Finish, Goes, InTool
      <4>2. Tail(todo[e]) = <<>>
        BY <1>0, <2>0, <4>1, NothingAfterFinalize
      <4> QED
        BY <2>2, <4>1, <4>2
    <3> QED
      BY <1>1, <3>1, <3>2, <3>3, <3>4, <3>5, <3>6 DEF Proceeds
  <2> QED
    BY <1>0, <2>1, <2>4 DEF Orderly
<1>2. CASE (\E role \in Roles : Produce(role)) \/ UNCHANGED vars
  BY <1>2 DEF Produce, Orderly, vars, work
<1>3. \A e \in Executions : ~CutOff(e)
  BY DEF CutOff
<1> QED
  BY <1>1, <1>2, <1>3 DEF Next

(* What HistoryStaysUsable excepts, all of it: one orchestration at a      *)
(* time, none cut off, and an LLM that calls finalize last, and a history  *)
(* never has a tool call without its result.                               *)
HistoriesAreValid == \A l \in Executions : ~messages[l].broken

(* Nothing in the loop of execute itself spoils a history.                 *)
THEOREM OrderlyHistoriesAreValid ==
  ASSUME Limit = 1, Cuttable = {}, \A calls \in CallLists : FinalizesLast(calls)
  PROVE  Spec => []HistoriesAreValid
<1>1. Init => (~forked /\ ~overlapped) /\ Orderly
  BY DEF Init, Orderly, FinalizesLast
<1>2. Typed /\ LimitIsKept /\ (~forked /\ ~overlapped) /\ [Next]_vars => (~forked /\ ~overlapped)'
  BY AloneAtALimitOfOne
<1>3. Typed /\ Orderly /\ [Next]_vars => Orderly'
  BY OrderlyStep
<1>4. (~forked /\ ~overlapped) /\ Orderly /\ HistoryStaysUsable => HistoriesAreValid
  BY DEF Orderly, HistoryStaysUsable, HistoriesAreValid
<1>5. Spec => []Typed
  BY InitTyped, TypedStep, PTL DEF Spec
<1> QED
  BY <1>1, <1>2, <1>3, <1>4, <1>5, LimitHolds, HistoryUsable, PTL DEF Spec
=============================================================================
