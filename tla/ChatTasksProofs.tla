--------------------------- MODULE ChatTasksProofs ---------------------------
(***************************************************************************)
(* ChatTasks keeps its types, its statuses are right, a cancellation       *)
(* sticks, repeated requests are replayed, a session hears how its direct  *)
(* chats ended, requests lead on, and what strands tasks or mixes them:    *)
(* for any number of requests, keys and tenants.                           *)
(***************************************************************************)
EXTENDS ChatTasks, TLAPS

(* A request without a task has left no trace.                             *)
Untouched ==
  \A r \in Requests : pc[r] \in {"new", "opening", "replayed"} =>
    /\ canceller[r] = "none"
    /\ status[r] = "absent"
    /\ stored[r] = "absent"
    /\ \A w \in Savers : saving[r][w] = "none"
    /\ heard[r] = "nothing"

(* A task that a request or an orchestration works on is in memory.        *)
InMemory ==
  \A r \in Requests :
    pc[r] \notin {"new", "opening", "replayed", "refused", "gone"} => status[r] # "absent"

(* Only a cancel that waits for its save has one under way.                *)
CancelSaves ==
  \A r \in Requests : saving[r]["cancel"] # "none" =>
    canceller[r] = "saving" /\ saving[r]["cancel"] = "cancelled"

(* What the end of an orchestration that nobody cancels has written, and   *)
(* is about to write.                                                      *)
EndingAs(r, s, writing) ==
  /\ status[r] = s
  /\ pc[r] \in writing => saving[r]["own"] \in {"none", s}
  /\ pc[r] \in writing /\ saving[r]["own"] = "none" => stored[r] = s

Endings ==
  \A r \in Requests : canceller[r] = "none" =>
    /\ pc[r] \in {"completing", "storing", "storing_again"} =>
         EndingAs(r, "completed", {"storing", "storing_again"})
    /\ pc[r] \in {"failing", "storing_failure"} =>
         EndingAs(r, "failed", {"storing_failure"})
    /\ pc[r] \in {"reporting", "telling", "telling_failure", "ended"} =>
         /\ status[r] \in {"completed", "failed"}
         /\ saving[r]["own"] = "none"
         /\ stored[r] = status[r]
    /\ pc[r] = "telling" => status[r] = "completed"
    /\ pc[r] = "telling_failure" => status[r] = "failed"

(* Direct chats and orchestrations do not share all of their awaits.       *)
DirectPlaces ==
  \A r \in Requests :
    /\ pc[r] \in {"announcing", "dispatching", "telling", "telling_failure"} => r \in direct
    /\ pc[r] = "reporting" => r \notin direct

(* A session hears of the end when there is nothing else to do.            *)
HeardAtTheEnd == \A r \in Requests : heard[r] # "nothing" => pc[r] \in {"ended", "gone"}

(* A task has no trace of a failure before there is one.                   *)
NotYetFailed ==
  \A r \in Requests :
    \/ pc[r] \in {"new", "opening", "creating", "starting", "accepting", "queued",
                  "delegating", "orchestrating", "announcing", "dispatching",
                  "completing", "storing", "storing_again", "telling"}
    \/ heard[r] = "success"
    => status[r] # "failed" /\ stored[r] # "failed" /\ saving[r]["own"] # "failed"

StoppedAreCancelled == \A r \in Requests : Stopped(r) => status[r] = "cancelled"

(* A session has heard of the end of a direct chat that ended.             *)
EndIsHeard ==
  \A r \in direct : pc[r] = "ended" /\ canceller[r] = "none" =>
    heard[r] = IF status[r] = "completed" THEN "success" ELSE "failure"

(* The index knows the keys of all accepted requests, and tasks for them.  *)
KeysAreKnown ==
  /\ \A r \in Requests :
       Accepted(r) \/ (pc[r] \in {"starting", "accepting"} /\ r \notin direct) =>
         (KeyOf[r] # NoKey => index[KeyOf[r]] # NoTask)
  /\ \A k \in Keys : index[k] # NoTask => status[index[k]] # "absent"

Inv ==
  /\ TypeOK
  /\ Untouched
  /\ InMemory
  /\ CancelSaves
  /\ Endings
  /\ StoppedAreCancelled
  /\ KeysAreKnown
  /\ RunningIsAlive
  /\ DirectPlaces
  /\ HeardAtTheEnd
  /\ NotYetFailed
  /\ EndIsHeard

USE DEF directVars, Savers, Statuses, Points, Registered, Over

(* The invariant holds when the process starts.                            *)
LEMMA InitInv == Init => Inv
<1> SUFFICES ASSUME Init PROVE Inv
  OBVIOUS
<1>1. TypeOK
  BY DEF Init, TypeOK
<1>2. Untouched /\ InMemory /\ CancelSaves
  BY DEF Init, Untouched, InMemory, CancelSaves
<1>3. Endings /\ StoppedAreCancelled /\ RunningIsAlive
  BY DEF Init, Endings, StoppedAreCancelled, Stopped, RunningIsAlive
<1>4. KeysAreKnown
  BY DEF Init, KeysAreKnown, Accepted
<1>5. DirectPlaces /\ HeardAtTheEnd /\ NotYetFailed /\ EndIsHeard
  BY DEF Init, DirectPlaces, HeardAtTheEnd, NotYetFailed, EndIsHeard
<1> QED
  BY <1>1, <1>2, <1>3, <1>4, <1>5 DEF Inv

(* Every step keeps the types.                                             *)
LEMMA TypeStep == ASSUME TypeOK, Next PROVE TypeOK'
<1> USE ChatAssumption DEF TypeOK, Moves, SetStatus, Save, Saved
<1>1. ASSUME NEW r \in Requests, Proceed(r) PROVE TypeOK'
  <2>1. CASE CreateTask(r) BY <2>1 DEF CreateTask
  <2>2. CASE SessionFails(r) BY <2>2 DEF SessionFails
  <2>3. CASE Start(r) BY <2>3 DEF Start
  <2>4. CASE SaveRunning(r) BY <2>4 DEF SaveRunning
  <2>5. CASE Accept(r) BY <2>5 DEF Accept
  <2>6. CASE Begin(r) BY <2>6 DEF Begin
  <2>7. CASE FallBack(r) BY <2>7 DEF FallBack
  <2>8. CASE Completes(r) BY <2>8 DEF Completes
  <2>9. CASE Fails(r) BY <2>9 DEF Fails
  <2>10. CASE SaveCompleted(r) BY <2>10 DEF SaveCompleted
  <2>11. CASE SaveFailed(r) BY <2>11 DEF SaveFailed
  <2>12. CASE Report(r) BY <2>12 DEF Report
  <2>13. CASE End(r) BY <2>13 DEF End
  <2>14. CASE Unwound(r) BY <2>14 DEF Unwound
  <2>15. CASE Announce(r) BY <2>15 DEF Announce
  <2>16. CASE Tell(r)
    <3>1. pc' \in [Requests -> Points]
      BY <2>16 DEF Tell
    <3>2. heard' \in [Requests -> {"nothing", "success", "failure"}]
      BY <2>16 DEF Tell
    <3> QED
      BY <2>16, <3>1, <3>2 DEF Tell
  <2> QED BY <1>1, <2>1, <2>2, <2>3, <2>4, <2>5, <2>6, <2>7, <2>8, <2>9, <2>10,
             <2>11, <2>12, <2>13, <2>14, <2>15, <2>16 DEF Proceed
<1>2. ASSUME NEW r \in Requests, Replay(r) \/ Receive(r) \/ ReceiveDirect(r)
      PROVE  TypeOK'
  <2>1. CASE Replay(r) BY <2>1 DEF Replay
  <2>2. CASE Receive(r) BY <2>2 DEF Receive
  <2>3. CASE ReceiveDirect(r) BY <2>3 DEF ReceiveDirect
  <2> QED BY <1>2, <2>1, <2>2, <2>3
<1>10. ASSUME NEW r \in Requests, DirectRaises(r) \/ TellingRaises(r) PROVE TypeOK'
  <2>1. CASE DirectRaises(r) BY <2>1 DEF DirectRaises
  <2>2. CASE TellingRaises(r) BY <2>2 DEF TellingRaises
  <2> QED BY <1>10, <2>1, <2>2
<1>3. ASSUME NEW r \in Requests, SaveRaises(r) PROVE TypeOK'
  <2>1. saving' = [saving EXCEPT ![r]["own"] = "none"]
    BY <1>3 DEF SaveRaises
  <2>2. pc' \in [Requests -> Points]
    BY <1>3 DEF SaveRaises
  <2>3. status' \in [Requests -> Statuses \cup {"absent"}]
    BY <1>3 DEF SaveRaises
  <2>4. saving' \in [Requests -> [Savers -> Statuses \cup {"none"}]]
    BY <2>1
  <2>5. UNCHANGED <<canceller, stored, index, builtin, runsOn, direct, heard, crashed>>
    BY <1>3 DEF SaveRaises
  <2>6. handled' \in SUBSET Requests
    BY <1>3 DEF SaveRaises
  <2> QED
    BY <2>2, <2>3, <2>4, <2>5, <2>6
<1>9. ASSUME NEW r \in Requests, SessionSaveRaises(r) PROVE TypeOK'
  BY <1>9 DEF SessionSaveRaises
<1>4. ASSUME NEW r \in Requests, Restore(r) PROVE TypeOK'
  BY <1>4 DEF Restore
<1>5. ASSUME NEW r \in Requests, Cancel(r) PROVE TypeOK'
  <2>1. canceller' \in [Requests -> {"none", "emitting", "saving", "over"}]
    BY <1>5 DEF Cancel
  <2>2. pc' \in [Requests -> Points]
    <3>1. \/ pc' = [pc EXCEPT ![r] = "cancelled"]
          \/ pc' = [pc EXCEPT ![r] = "unwinding"]
          \/ pc' = pc
      <4>1. CASE pc[r] = "queued"
        BY <1>5, <4>1 DEF Cancel
      <4>2. CASE pc[r] # "queued"
        BY <1>5, <4>2 DEF Cancel
      <4> QED
        BY <4>1, <4>2
    <3> QED
      BY <3>1
  <2>3. saving' \in [Requests -> [Savers -> Statuses \cup {"none"}]]
    <3>1. \/ saving' = saving
          \/ saving' = [saving EXCEPT ![r]["own"] = "none"]
      BY <1>5 DEF Cancel
    <3> QED
      BY <3>1
  <2> QED
    BY <1>5, <2>1, <2>2, <2>3 DEF Cancel
<1>6. ASSUME NEW r \in Requests, SaveCancelled(r) \/ CancelEnds(r) \/ CancelRaises(r)
      PROVE TypeOK'
  <2>1. CASE SaveCancelled(r) BY <2>1 DEF SaveCancelled
  <2>2. CASE CancelEnds(r) BY <2>2 DEF CancelEnds
  <2>3. CASE CancelRaises(r) BY <2>3 DEF CancelRaises
  <2> QED BY <1>6, <2>1, <2>2, <2>3
<1>7. ASSUME NEW r \in Requests, NEW w \in Savers, SaveLands(r, w) PROVE TypeOK'
  BY <1>7 DEF SaveLands
<1>8. CASE Crash
  BY <1>8 DEF Crash
<1> QED
  BY <1>1, <1>2, <1>3, <1>4, <1>5, <1>6, <1>7, <1>8, <1>9, <1>10 DEF Next

-----------------------------------------------------------------------------
(* The other parts of the invariant                                        *)

Rest ==
  /\ Untouched /\ InMemory /\ CancelSaves /\ Endings
  /\ StoppedAreCancelled /\ KeysAreKnown /\ RunningIsAlive /\ DirectPlaces

(* Every step keeps the other parts of the invariant.                      *)
LEMMA RestStep == ASSUME Inv, Next PROVE Rest'
<1> USE ChatAssumption
    DEF Inv, TypeOK, Moves, SetStatus, Save, Saved, Rest, Untouched, InMemory,
        CancelSaves, Endings, EndingAs, StoppedAreCancelled, Stopped, KeysAreKnown,
        RunningIsAlive, Accepted, Working, DirectPlaces
<1>1. ASSUME NEW r \in Requests, CreateTask(r) PROVE Rest'
  BY <1>1 DEF CreateTask
<1>2. ASSUME NEW r \in Requests, SessionFails(r) PROVE Rest'
  BY <1>2 DEF SessionFails
<1>3. ASSUME NEW r \in Requests, Start(r) PROVE Rest'
  <2>1. Untouched' /\ InMemory' /\ CancelSaves' /\ RunningIsAlive'
    BY <1>3 DEF Start
  <2>2. Endings' /\ StoppedAreCancelled' /\ DirectPlaces'
    BY <1>3 DEF Start
  <2>3. KeysAreKnown'
    <3>1. \A k \in Keys : index'[k] = IF k = KeyOf[r] /\ r \notin direct THEN r ELSE index[k]
      BY <1>3 DEF Start
    <3>2. \A q \in Requests : KeyOf[q] # NoKey => KeyOf[q] \in Keys
      BY DEF Keys
    <3>3. /\ pc' = [pc EXCEPT ![r] = "starting"]
          /\ status' = [status EXCEPT ![r] = "running"]
      BY <1>3 DEF Start
    <3>4. ASSUME NEW q \in Requests, KeyOf[q] # NoKey,
                 Accepted(q)' \/ (pc'[q] \in {"starting", "accepting"} /\ q \notin direct')
          PROVE  index'[KeyOf[q]] # NoTask
      BY <1>3, <3>1, <3>2, <3>3, <3>4 DEF Start
    <3>5. ASSUME NEW k \in Keys, index'[k] # NoTask PROVE status'[index'[k]] # "absent"
      BY <3>1, <3>3, <3>5
    <3> QED
      BY <3>4, <3>5
  <2> QED
    BY <2>1, <2>2, <2>3
<1>4. ASSUME NEW r \in Requests, SaveRunning(r) PROVE Rest'
  BY <1>4 DEF SaveRunning
<1>5. ASSUME NEW r \in Requests, Accept(r) PROVE Rest'
  BY <1>5 DEF Accept
<1>6. ASSUME NEW r \in Requests, Begin(r) PROVE Rest'
  BY <1>6 DEF Begin
<1>7. ASSUME NEW r \in Requests, FallBack(r) PROVE Rest'
  BY <1>7 DEF FallBack
<1>8. ASSUME NEW r \in Requests, Completes(r) PROVE Rest'
  <2>1. CASE Moves(r, "dispatching", "completing")
    BY <1>8, <2>1 DEF Completes
  <2>2. CASE Moves(r, "delegating", "completing")
    BY <1>8, <2>2 DEF Completes
  <2>3. CASE Moves(r, "orchestrating", "completing")
    BY <1>8, <2>3 DEF Completes
  <2> QED
    BY <1>8, <2>1, <2>2, <2>3 DEF Completes
<1>9. ASSUME NEW r \in Requests, Fails(r) PROVE Rest'
  <2>1. CASE Moves(r, "dispatching", "failing")
    BY <1>9, <2>1 DEF Fails
  <2>2. CASE Moves(r, "delegating", "failing")
    BY <1>9, <2>2 DEF Fails
  <2>3. CASE Moves(r, "orchestrating", "failing")
    BY <1>9, <2>3 DEF Fails
  <2> QED
    BY <1>9, <2>1, <2>2, <2>3 DEF Fails
<1>10. ASSUME NEW r \in Requests, SaveCompleted(r) PROVE Rest'
  <2>1. CASE Moves(r, "completing", "storing")
    BY <1>10, <2>1 DEF SaveCompleted
  <2>2. CASE Moves(r, "storing", "storing_again")
    BY <1>10, <2>2 DEF SaveCompleted
  <2> QED
    BY <1>10, <2>1, <2>2 DEF SaveCompleted
<1>11. ASSUME NEW r \in Requests, SaveFailed(r) PROVE Rest'
  BY <1>11 DEF SaveFailed
<1>12. ASSUME NEW r \in Requests, Report(r) PROVE Rest'
  <2>1. CASE Moves(r, "storing_again", "reporting")
    BY <1>12, <2>1 DEF Report
  <2>2. CASE Moves(r, "storing_failure", "reporting")
    BY <1>12, <2>2 DEF Report
  <2>3. CASE Moves(r, "storing_again", "telling")
    BY <1>12, <2>3 DEF Report
  <2>4. CASE Moves(r, "storing_failure", "telling_failure")
    BY <1>12, <2>4 DEF Report
  <2> QED
    BY <1>12, <2>1, <2>2, <2>3, <2>4 DEF Report
<1>13. ASSUME NEW r \in Requests, End(r) PROVE Rest'
  BY <1>13 DEF End
<1>14. ASSUME NEW r \in Requests, Unwound(r) PROVE Rest'
  BY <1>14 DEF Unwound
<1>15. ASSUME NEW r \in Requests, Replay(r) PROVE Rest'
  BY <1>15 DEF Replay
<1>16. ASSUME NEW r \in Requests, Receive(r) PROVE Rest'
  BY <1>16 DEF Receive
<1>17. ASSUME NEW r \in Requests, SaveRaises(r) PROVE Rest'
  <2>1. CASE Moves(r, "creating", "refused") /\ UNCHANGED status
    BY <1>17, <2>1 DEF SaveRaises
  <2>2. CASE Moves(r, "accepting", "refused") /\ UNCHANGED status
    BY <1>17, <2>2 DEF SaveRaises
  <2>3. CASE Moves(r, "storing_failure", "raised") /\ UNCHANGED status
    BY <1>17, <2>3 DEF SaveRaises
  <2>4. CASE /\ pc[r] \in {"storing", "storing_again"}
             /\ pc' = [pc EXCEPT ![r] = "failing"] /\ SetStatus(r, "failed")
    BY <1>17, <2>4 DEF SaveRaises
  <2>5. CASE Moves(r, "storing_failure", "failing") /\ SetStatus(r, "failed")
    BY <1>17, <2>5 DEF SaveRaises
  <2>6. CASE pc[r] \in {"unwinding", "cancelled"} /\ UNCHANGED <<pc, status>>
    BY <1>17, <2>6 DEF SaveRaises
  <2>7. CASE Moves(r, "storing", "raised") /\ UNCHANGED status
    BY <1>17, <2>7 DEF SaveRaises
  <2>8. CASE Moves(r, "storing_again", "raised") /\ UNCHANGED status
    BY <1>17, <2>8 DEF SaveRaises
  <2> QED
    BY <1>17, <2>1, <2>2, <2>3, <2>4, <2>5, <2>6, <2>7, <2>8 DEF SaveRaises
<1>18. ASSUME NEW r \in Requests, Restore(r) PROVE Rest'
  BY <1>18 DEF Restore
<1>19. ASSUME NEW r \in Requests, Cancel(r) PROVE Rest'
  BY <1>19 DEF Cancel
<1>20. ASSUME NEW r \in Requests, SaveCancelled(r) PROVE Rest'
  BY <1>20 DEF SaveCancelled
<1>21. ASSUME NEW r \in Requests, CancelEnds(r) PROVE Rest'
  BY <1>21 DEF CancelEnds
<1>22. ASSUME NEW r \in Requests, CancelRaises(r) PROVE Rest'
  BY <1>22 DEF CancelRaises
<1>23. ASSUME NEW r \in Requests, SessionSaveRaises(r) PROVE Rest'
  BY <1>23 DEF SessionSaveRaises
<1>24. ASSUME NEW r \in Requests, NEW w \in Savers, SaveLands(r, w) PROVE Rest'
  BY <1>24 DEF SaveLands
<1>25. CASE Crash
  BY <1>25 DEF Crash
<1>26. ASSUME NEW r \in Requests, ReceiveDirect(r) PROVE Rest'
  BY <1>26 DEF ReceiveDirect
<1>27. ASSUME NEW r \in Requests, Announce(r) PROVE Rest'
  BY <1>27 DEF Announce
<1>28. ASSUME NEW r \in Requests, Tell(r) PROVE Rest'
  <2>1. CASE Moves(r, "telling", "ended")
    BY <1>28, <2>1 DEF Tell
  <2>2. CASE Moves(r, "telling_failure", "ended")
    BY <1>28, <2>2 DEF Tell
  <2> QED
    BY <1>28, <2>1, <2>2 DEF Tell
<1>29. ASSUME NEW r \in Requests, DirectRaises(r) PROVE Rest'
  BY <1>29 DEF DirectRaises
<1>30. ASSUME NEW r \in Requests, TellingRaises(r) PROVE Rest'
  BY <1>30 DEF TellingRaises
<1> HIDE DEF Inv, TypeOK, Moves, SetStatus, Save, Saved, Rest, Untouched, InMemory,
             CancelSaves, Endings, EndingAs, StoppedAreCancelled, Stopped, KeysAreKnown,
             RunningIsAlive, Accepted, Working, DirectPlaces
<1>31. ASSUME NEW r \in Requests, Proceed(r) PROVE Rest'
  BY <1>1, <1>2, <1>3, <1>4, <1>5, <1>6, <1>7, <1>8, <1>9, <1>10, <1>11, <1>12, <1>13, <1>14,
     <1>31, <1>27, <1>28, Zenon DEF Proceed
<1>32. ASSUME NEW r \in Requests,
              \/ Replay(r) \/ Receive(r) \/ SessionSaveRaises(r) \/ SaveRaises(r)
              \/ Restore(r) \/ Cancel(r) \/ SaveCancelled(r) \/ CancelEnds(r)
              \/ CancelRaises(r) \/ \E w \in Savers : SaveLands(r, w)
              \/ ReceiveDirect(r) \/ DirectRaises(r) \/ TellingRaises(r)
       PROVE  Rest'
  BY <1>15, <1>16, <1>17, <1>18, <1>19, <1>20, <1>21, <1>22, <1>23, <1>24, <1>32, <1>26,
     <1>29, <1>30, Zenon
<1> QED
  BY <1>25, <1>31, <1>32, Zenon DEF Next

-----------------------------------------------------------------------------
(* Direct chats and their sessions                                         *)

DirectRest == HeardAtTheEnd /\ NotYetFailed /\ EndIsHeard

(* Every step keeps what is known of the ends of direct chats.             *)
LEMMA DirectStep == ASSUME Inv, Next PROVE DirectRest'
<1> USE ChatAssumption
    DEF Inv, TypeOK, Moves, SetStatus, Save, Saved, DirectRest, DirectPlaces, HeardAtTheEnd,
        NotYetFailed, EndIsHeard
<1>1. ASSUME NEW r \in Requests, Proceed(r) PROVE DirectRest'
  <2>1. CASE CreateTask(r) BY <2>1 DEF CreateTask
  <2>2. CASE SessionFails(r) BY <2>2 DEF SessionFails
  <2>3. CASE Start(r) BY <2>3 DEF Start
  <2>4. CASE SaveRunning(r) BY <2>4 DEF SaveRunning
  <2>5. CASE Accept(r) BY <2>5 DEF Accept
  <2>6. CASE Begin(r) BY <2>6 DEF Begin
  <2>7. CASE FallBack(r) BY <2>7 DEF FallBack
  <2>8. CASE Completes(r) BY <2>8 DEF Completes
  <2>9. CASE Fails(r)
    <3>1. CASE Moves(r, "orchestrating", "failing") BY <2>9, <3>1 DEF Fails
    <3>2. CASE Moves(r, "dispatching", "failing") BY <2>9, <3>2 DEF Fails
    <3>3. CASE Moves(r, "delegating", "failing") BY <2>9, <3>3 DEF Fails
    <3> QED BY <2>9, <3>1, <3>2, <3>3 DEF Fails
  <2>10. CASE SaveCompleted(r)
    <3>1. CASE Moves(r, "completing", "storing") BY <2>10, <3>1 DEF SaveCompleted
    <3>2. CASE Moves(r, "storing", "storing_again") BY <2>10, <3>2 DEF SaveCompleted
    <3> QED BY <2>10, <3>1, <3>2 DEF SaveCompleted
  <2>11. CASE SaveFailed(r) BY <2>11 DEF SaveFailed
  <2>12. CASE Report(r)
    <3>1. CASE Moves(r, "storing_again", "reporting") BY <2>12, <3>1 DEF Report
    <3>2. CASE Moves(r, "storing_failure", "reporting") BY <2>12, <3>2 DEF Report
    <3>3. CASE Moves(r, "storing_again", "telling") BY <2>12, <3>3 DEF Report
    <3>4. CASE Moves(r, "storing_failure", "telling_failure") BY <2>12, <3>4 DEF Report
    <3> QED BY <2>12, <3>1, <3>2, <3>3, <3>4 DEF Report
  <2>13. CASE End(r) BY <2>13 DEF End, Endings
  <2>14. CASE Unwound(r) BY <2>14 DEF Unwound
  <2>15. CASE Announce(r) BY <2>15 DEF Announce
  <2>16. CASE Tell(r)
    <3>1. CASE Moves(r, "telling", "ended") BY <2>16, <3>1 DEF Tell, Endings
    <3>2. CASE Moves(r, "telling_failure", "ended") BY <2>16, <3>2 DEF Tell, Endings
    <3> QED BY <2>16, <3>1, <3>2 DEF Tell
  <2> HIDE DEF Inv, TypeOK, Moves, SetStatus, Save, Saved, DirectRest
  <2> QED
    BY <1>1, <2>1, <2>2, <2>3, <2>4, <2>5, <2>6, <2>7, <2>8,
       <2>9, <2>10, <2>11, <2>12, <2>13, <2>14, <2>15, <2>16, Zenon DEF Proceed
<1>2. ASSUME NEW r \in Requests, Replay(r) PROVE DirectRest'
  BY <1>2 DEF Replay
<1>3. ASSUME NEW r \in Requests, Receive(r) PROVE DirectRest'
  BY <1>3 DEF Receive
<1>4. ASSUME NEW r \in Requests, ReceiveDirect(r) PROVE DirectRest'
  BY <1>4 DEF ReceiveDirect
<1>5. ASSUME NEW r \in Requests, DirectRaises(r) PROVE DirectRest'
  BY <1>5 DEF DirectRaises
<1>6. ASSUME NEW r \in Requests, TellingRaises(r) PROVE DirectRest'
  BY <1>6 DEF TellingRaises
<1>7. ASSUME NEW r \in Requests, SessionSaveRaises(r) PROVE DirectRest'
  BY <1>7 DEF SessionSaveRaises
<1>8. ASSUME NEW r \in Requests, SaveRaises(r) PROVE DirectRest'
  <2>1. CASE pc[r] \in {"unwinding", "cancelled"} /\ UNCHANGED <<pc, status>>
    BY <1>8, <2>1 DEF SaveRaises
  <2>2. CASE pc' = [pc EXCEPT ![r] = "failing"] /\ SetStatus(r, "failed")
    BY <1>8, <2>2 DEF SaveRaises
  <2>3. CASE pc' = [pc EXCEPT ![r] = "refused"] /\ UNCHANGED status
    BY <1>8, <2>3 DEF SaveRaises
  <2>4. CASE pc' = [pc EXCEPT ![r] = "raised"] /\ UNCHANGED status
    BY <1>8, <2>4 DEF SaveRaises
  <2> QED
    BY <1>8, <2>1, <2>2, <2>3, <2>4 DEF SaveRaises
<1>9. ASSUME NEW r \in Requests, Restore(r) PROVE DirectRest'
  BY <1>9 DEF Restore, InMemory
<1>10. ASSUME NEW r \in Requests, Cancel(r) PROVE DirectRest'
  <2>1. /\ status' = [status EXCEPT ![r] = "cancelled"]
        /\ canceller[r] = "none" /\ canceller' = [canceller EXCEPT ![r] = "emitting"]
        /\ UNCHANGED <<stored, directVars>>
    BY <1>10 DEF Cancel
  <2>2. UNCHANGED saving \/ saving' = [saving EXCEPT ![r]["own"] = "none"]
    BY <1>10 DEF Cancel
  <2>3. CASE UNCHANGED pc
    BY <2>1, <2>2, <2>3
  <2>4. CASE /\ pc[r] \in Registered /\ r \notin direct
             /\ \/ pc' = [pc EXCEPT ![r] = "cancelled"]
                \/ pc' = [pc EXCEPT ![r] = "unwinding"]
    BY <2>1, <2>2, <2>4
  <2> QED
    BY <1>10, <2>3, <2>4 DEF Cancel
<1>11. ASSUME NEW r \in Requests, SaveCancelled(r) PROVE DirectRest'
  BY <1>11 DEF SaveCancelled
<1>12. ASSUME NEW r \in Requests, CancelEnds(r) PROVE DirectRest'
  BY <1>12 DEF CancelEnds
<1>13. ASSUME NEW r \in Requests, CancelRaises(r) PROVE DirectRest'
  BY <1>13 DEF CancelRaises
<1>14. ASSUME NEW r \in Requests, NEW w \in Savers, SaveLands(r, w) PROVE DirectRest'
  BY <1>14 DEF SaveLands, CancelSaves
<1>15. CASE Crash
  BY <1>15 DEF Crash
<1> HIDE DEF Inv, TypeOK, Moves, SetStatus, Save, Saved, DirectRest
<1> QED
  BY <1>1, <1>2, <1>3, <1>4, <1>5, <1>6, <1>7, <1>8, <1>9,
     <1>10, <1>11, <1>12, <1>13, <1>14, <1>15, Zenon DEF Next

-----------------------------------------------------------------------------
(* Every step, and stuttering, keeps the invariant.                        *)
LEMMA InvStep == Inv /\ [Next]_vars => Inv'
<1> SUFFICES ASSUME Inv, [Next]_vars PROVE Inv'
  OBVIOUS
<1>1. CASE Next
  BY <1>1, TypeStep, RestStep, DirectStep DEF Inv, Rest, DirectRest
<1>2. CASE UNCHANGED vars
  BY <1>2 DEF vars, Inv, TypeOK, Untouched, InMemory, CancelSaves, Endings, EndingAs,
     StoppedAreCancelled, Stopped, KeysAreKnown, Accepted, RunningIsAlive, DirectPlaces,
     HeardAtTheEnd, NotYetFailed, EndIsHeard
<1> QED
  BY <1>1, <1>2

(* The invariant holds in every state.                                     *)
LEMMA ChatInvariant == Spec => []Inv
<1> QED
  BY InitInv, InvStep, PTL DEF Spec

(* The requests, the tasks, their rows and the saves under way keep their  *)
(* types (src/api/routes.py, src/task_manager/manager.py).                 *)
THEOREM TypeCorrect == Spec => []TypeOK
<1>1. Inv => TypeOK
  BY DEF Inv
<1> QED
  BY <1>1, ChatInvariant, PTL

(* No request and no orchestration goes away and leaves its task RUNNING,  *)
(* but by a failed save, or by a restart.                                  *)
THEOREM RunningTasksAreAlive == Spec => []RunningIsAlive
<1>1. Inv => RunningIsAlive
  BY DEF Inv
<1> QED
  BY <1>1, ChatInvariant, PTL

(* The row of a task that ended by itself says what the memory says        *)
(* (update_status, complete_task, fail_task).                              *)
THEOREM EndedTasksAreStored == Spec => []EndedIsStored
<1>1. Inv => EndedIsStored
  BY DEF Inv, TypeOK, Endings, EndedIsStored
<1> QED
  BY <1>1, ChatInvariant, PTL

(* What a session hears of a direct chat agrees with its task, whatever    *)
(* saves and events fail (run_direct, fail_task).                          *)
THEOREM SessionsAgree == Spec => []SessionAgrees
<1>1. Inv => SessionAgrees
  BY ChatAssumption DEF Inv, TypeOK, NotYetFailed, EndIsHeard, SessionAgrees
<1> QED
  BY <1>1, ChatInvariant, PTL

(* What a step makes of a task whose orchestration was cancelled.          *)
LEMMA StoppedStays ==
  ASSUME Inv, Next, NEW r \in Requests, Stopped(r)
  PROVE  status'[r] \in {"cancelled", "absent"}
<1>1. pc[r] \in {"unwinding", "cancelled"} /\ status[r] = "cancelled"
  BY DEF Inv, StoppedAreCancelled, Stopped
<1> USE <1>1 DEF Inv, TypeOK, Moves, SetStatus
<1>2. ASSUME NEW q \in Requests, Proceed(q) PROVE status'[r] = "cancelled"
  <2>1. CASE CreateTask(q) \/ Start(q) \/ Completes(q) \/ Fails(q)
    BY <2>1 DEF CreateTask, Start, Completes, Fails
  <2>2. CASE \/ SessionFails(q) \/ SaveRunning(q) \/ Accept(q) \/ Begin(q) \/ FallBack(q)
             \/ SaveCompleted(q) \/ SaveFailed(q) \/ Report(q) \/ End(q) \/ Unwound(q)
             \/ Announce(q) \/ Tell(q)
    BY <2>2 DEF SessionFails, SaveRunning, Accept, Begin, FallBack, SaveCompleted,
       SaveFailed, Report, End, Unwound, Announce, Tell
  <2> QED
    BY <1>2, <2>1, <2>2 DEF Proceed
<1>3. ASSUME NEW q \in Requests,
             \/ Cancel(q) \/ SaveRaises(q) \/ SessionSaveRaises(q) \/ Restore(q)
             \/ DirectRaises(q) \/ TellingRaises(q)
      PROVE  status'[r] = "cancelled"
  BY <1>3 DEF Cancel, SaveRaises, SessionSaveRaises, Restore, DirectRaises, TellingRaises
<1>4. ASSUME NEW q \in Requests, NEW w \in Savers,
             \/ Replay(q) \/ Receive(q) \/ ReceiveDirect(q) \/ SaveLands(q, w)
             \/ SaveCancelled(q) \/ CancelEnds(q) \/ CancelRaises(q)
      PROVE  status'[r] = "cancelled"
  BY <1>4 DEF Replay, Receive, ReceiveDirect, SaveLands, SaveCancelled, CancelEnds, CancelRaises
<1>5. CASE Crash
  BY <1>5 DEF Crash
<1> QED
  BY <1>2, <1>3, <1>4, <1>5 DEF Next

(* Nothing but a restart changes the status of a task whose orchestration  *)
(* was cancelled (cancel_running, then update_status).                     *)
THEOREM CancellationSticks == Spec => CancelSticks
<1> DEFINE Step == \A r \in Requests :
             Stopped(r) \/ Stopped(r)' => status'[r] \in {"cancelled", "absent"}
<1>1. Inv /\ Inv' /\ [Next]_vars => [Step]_vars
  <2> SUFFICES ASSUME Inv, Inv', Next, NEW r \in Requests, Stopped(r) \/ Stopped(r)'
               PROVE  status'[r] \in {"cancelled", "absent"}
    OBVIOUS
  <2>1. CASE Stopped(r)'
    BY <2>1 DEF Inv, StoppedAreCancelled
  <2>2. CASE Stopped(r)
    BY <2>2, StoppedStays
  <2> QED
    BY <2>1, <2>2
<1> QED
  BY <1>1, ChatInvariant, PTL DEF Spec, CancelSticks

(* A repeated request is answered with the task of the accepted one, until *)
(* a restart empties the index (chat, _idempotency_index).                 *)
THEOREM RepeatedRequestsAreReplayed == Spec => RepeatsAreReplayed
<1> DEFINE Step == \A q, r \in Requests :
             KeyOf[q] = KeyOf[r] /\ KeyOf[r] # NoKey /\ Accepted(q) =>
               ~(pc[r] = "new" /\ pc'[r] = "opening" /\ r \notin direct')
<1>1. Inv /\ [Next]_vars => [Step]_vars
  <2> SUFFICES ASSUME Inv, Next, NEW q \in Requests, NEW r \in Requests,
                      KeyOf[q] = KeyOf[r], KeyOf[r] # NoKey, Accepted(q),
                      pc[r] = "new", pc'[r] = "opening", r \notin direct'
               PROVE  FALSE
    OBVIOUS
  <2>1. HasTask(r)
    <3>1. index[KeyOf[r]] # NoTask
      BY DEF Inv, KeysAreKnown
    <3>2. KeyOf[r] \in Keys
      BY DEF Keys
    <3> QED
      BY <3>1, <3>2 DEF HasTask, Inv, KeysAreKnown
  <2>2. Receive(r)
    <3> USE DEF Inv, TypeOK, Moves
    <3>1. ASSUME NEW x \in Requests, Proceed(x) PROVE FALSE
      BY <3>1 DEF Proceed, CreateTask, SessionFails, Start, SaveRunning, Accept, Begin,
         FallBack, Completes, Fails, SaveCompleted, SaveFailed, Report, End, Unwound,
         Announce, Tell
    <3>2. ASSUME NEW x \in Requests,
                 \/ Cancel(x) \/ SaveRaises(x) \/ SessionSaveRaises(x)
                 \/ DirectRaises(x) \/ TellingRaises(x) \/ ReceiveDirect(x)
          PROVE  FALSE
      BY <3>2 DEF Cancel, SaveRaises, SessionSaveRaises, DirectRaises, TellingRaises,
         ReceiveDirect
    <3>3. ASSUME NEW x \in Requests, NEW w \in Savers,
                 \/ Replay(x) \/ Restore(x) \/ SaveLands(x, w)
                 \/ SaveCancelled(x) \/ CancelEnds(x) \/ CancelRaises(x)
          PROVE  FALSE
      BY <3>3 DEF Replay, Restore, SaveLands, SaveCancelled, CancelEnds, CancelRaises
    <3>4. ~Crash
      BY DEF Crash
    <3>5. PICK x \in Requests : Receive(x)
      BY <3>1, <3>2, <3>3, <3>4 DEF Next
    <3> QED
      BY <3>5 DEF Receive
  <2> QED
    BY <2>1, <2>2 DEF Receive
<1> QED
  BY <1>1, ChatInvariant, PTL DEF Spec, RepeatsAreReplayed

-----------------------------------------------------------------------------
(* Progress.  How far a request is from its end, in the order in which the *)
(* code of the request and of its orchestration awaits.                    *)
Stage(p) ==
  CASE p = "new" -> 40
    [] p = "opening" -> 19
    [] p = "creating" -> 18
    [] p = "starting" -> 17
    [] p = "accepting" -> 16
    [] p \in {"queued", "announcing"} -> 15
    [] p \in {"delegating", "dispatching"} -> 14
    [] p = "orchestrating" -> 13
    [] p = "completing" -> 12
    [] p = "storing" -> 11
    [] p = "storing_again" -> 10
    [] p = "telling" -> 9
    [] p = "failing" -> 8
    [] p = "storing_failure" -> 7
    [] p = "telling_failure" -> 6
    [] p = "reporting" -> 5
    [] p = "unwinding" -> 2
    [] p = "gone" -> 0
    [] OTHER -> 1

(* A direct chat may pass the stages of a failure twice: its except branch *)
(* fails the task again, whatever has become of it.                        *)
Rank(r) ==
  Stage(pc[r]) +
    IF r \in direct \ handled /\ pc[r] \notin Over \cup {"new", "unwinding"} THEN 10 ELSE 0

(* The rank is a natural number: it cannot fall for ever.                  *)
LEMMA RankIsNatural == ASSUME TypeOK, NEW r \in Requests PROVE Rank(r) \in Nat
<1>1. pc[r] \in Points
  BY DEF TypeOK
<1>2. Stage(pc[r]) \in Nat
  BY <1>1 DEF Stage
<1> QED
  BY <1>2 DEF Rank

(* What the steps of others leave as it is.                                *)
Stays(r) == UNCHANGED <<pc[r], Rank(r)>>

Only(r) ==
  \A q \in Requests \ {r} :
    pc'[q] = pc[q] /\ (q \in direct' <=> q \in direct) /\ (q \in handled' <=> q \in handled)

LEMMA OthersStay ==
  ASSUME NEW r \in Requests, Only(r), NEW q \in Requests \ {r}
  PROVE  Stays(q)
BY DEF Only, Stays, Rank

(* Each step of a request or its orchestration, in whichever way its await *)
(* ends, brings it nearer to its end, and nobody else further from theirs. *)
LEMMA ProceedingLeadsOn ==
  ASSUME TypeOK, NEW r \in Requests, Proceed(r)
  PROVE  Rank(r)' < Rank(r) /\ Only(r)
<1> USE DEF TypeOK, Moves, Rank, Stage, Only
<1>1. CASE CreateTask(r) BY <1>1 DEF CreateTask
<1>2. CASE SessionFails(r) BY <1>2 DEF SessionFails
<1>3. CASE Start(r) BY <1>3 DEF Start
<1>4. CASE SaveRunning(r) BY <1>4 DEF SaveRunning
<1>5. CASE Accept(r) BY <1>5 DEF Accept
<1>6. CASE Begin(r) BY <1>6 DEF Begin
<1>7. CASE FallBack(r) BY <1>7 DEF FallBack
<1>8. CASE Completes(r) BY <1>8 DEF Completes
<1>9. CASE Fails(r) BY <1>9 DEF Fails
<1>10. CASE SaveCompleted(r) BY <1>10 DEF SaveCompleted
<1>11. CASE SaveFailed(r) BY <1>11 DEF SaveFailed
<1>12. CASE Report(r) BY <1>12 DEF Report
<1>13. CASE End(r) BY <1>13 DEF End
<1>14. CASE Unwound(r) BY <1>14 DEF Unwound
<1>15. CASE Announce(r) BY <1>15 DEF Announce
<1>16. CASE Tell(r) BY <1>16 DEF Tell
<1> HIDE DEF TypeOK, Moves, Rank, Stage, Only
<1> QED
  BY <1>1, <1>2, <1>3, <1>4, <1>5, <1>6, <1>7, <1>8, <1>9, <1>10, <1>11, <1>12,
     <1>13, <1>14, <1>15, <1>16, Zenon DEF Proceed

(* The other steps that move a request: its beginning, an exception, and   *)
(* the cancellation of its orchestration.                                  *)
LEMMA InterruptionsLeadOn ==
  ASSUME TypeOK, DirectPlaces, NEW r \in Requests,
         \/ Replay(r) \/ Receive(r) \/ ReceiveDirect(r) \/ DirectRaises(r) \/ TellingRaises(r)
         \/ SessionSaveRaises(r) \/ SaveRaises(r) \/ Cancel(r)
  PROVE  (Rank(r)' < Rank(r) \/ Stays(r)) /\ Only(r)
<1> USE ChatAssumption DEF TypeOK, Moves, Rank, Stage, Only, Stays
<1>1. CASE Replay(r) BY <1>1 DEF Replay
<1>2. CASE Receive(r) BY <1>2 DEF Receive
<1>3. CASE ReceiveDirect(r) BY <1>3 DEF ReceiveDirect
<1>4. CASE DirectRaises(r)
  <2>1. r \in direct
    BY <1>4 DEF DirectRaises, DirectPlaces
  <2> QED BY <1>4, <2>1 DEF DirectRaises
<1>5. CASE TellingRaises(r) BY <1>5 DEF TellingRaises
<1>6. CASE SessionSaveRaises(r) BY <1>6 DEF SessionSaveRaises
<1>7. CASE SaveRaises(r) BY <1>7 DEF SaveRaises
<1>8. CASE Cancel(r) BY <1>8 DEF Cancel
<1> HIDE DEF TypeOK, Moves, Rank, Stage, Only, Stays
<1> QED
  BY <1>1, <1>2, <1>3, <1>4, <1>5, <1>6, <1>7, <1>8, Zenon
(* No step of anybody takes a request back.                                *)
LEMMA EveryStepLeadsOn ==
  ASSUME Inv, Next, NEW q \in Requests
  PROVE  Rank(q)' < Rank(q) \/ Stays(q)
<1>0. TypeOK /\ DirectPlaces
  BY DEF Inv
<1>1. ASSUME NEW r \in Requests, (Rank(r)' < Rank(r) \/ Stays(r)) /\ Only(r)
      PROVE  Rank(q)' < Rank(q) \/ Stays(q)
  BY <1>1, OthersStay
<1>2. ASSUME NEW r \in Requests, Proceed(r)
      PROVE  Rank(q)' < Rank(q) \/ Stays(q)
  BY <1>0, <1>1, <1>2, ProceedingLeadsOn
<1>3. ASSUME NEW r \in Requests,
             \/ Replay(r) \/ Receive(r) \/ ReceiveDirect(r) \/ DirectRaises(r) \/ TellingRaises(r)
             \/ SessionSaveRaises(r) \/ SaveRaises(r) \/ Cancel(r)
      PROVE  Rank(q)' < Rank(q) \/ Stays(q)
  BY <1>0, <1>1, <1>3, InterruptionsLeadOn
<1>4. ASSUME NEW r \in Requests, NEW w \in Savers,
             \/ Restore(r) \/ SaveCancelled(r) \/ CancelEnds(r) \/ CancelRaises(r)
             \/ SaveLands(r, w)
      PROVE  Stays(q)
  <2>1. UNCHANGED <<pc, direct, handled>>
    BY <1>4 DEF Restore, SaveCancelled, CancelEnds, CancelRaises, SaveLands
  <2> QED
    BY <2>1 DEF Stays, Rank
<1>5. CASE Crash
  BY <1>0, <1>5 DEF TypeOK, Crash, Rank, Stage, Stays
<1> QED
  BY <1>2, <1>3, <1>4, <1>5 DEF Next

(* Whatever raises, is cancelled or crashes in between, a request does not *)
(* come to an await twice, but for the except branch of a direct chat,     *)
(* which is entered once: each step that moves it lowers its rank, and no  *)
(* step raises it (chat, _run_orchestration, run_direct).  With fair       *)
(* awaits this is why accepted tasks end.                                  *)
NoRequestGoesBack ==
  [][\A r \in Requests :
       /\ Rank(r) \in Nat
       /\ Rank(r)' < Rank(r) \/ UNCHANGED <<pc[r], Rank(r)>>
       /\ Proceed(r) => Rank(r)' < Rank(r)]_vars

(* The rank of every request falls with each of its steps, and never rises. *)
THEOREM RequestsLeadOn == Spec => NoRequestGoesBack
<1> DEFINE Step == \A r \in Requests :
             /\ Rank(r) \in Nat
             /\ Rank(r)' < Rank(r) \/ UNCHANGED <<pc[r], Rank(r)>>
             /\ Proceed(r) => Rank(r)' < Rank(r)
<1>1. Inv /\ [Next]_vars => [Step]_vars
  <2> SUFFICES ASSUME Inv, Next, NEW r \in Requests
               PROVE  /\ Rank(r) \in Nat
                      /\ Rank(r)' < Rank(r) \/ UNCHANGED <<pc[r], Rank(r)>>
                      /\ Proceed(r) => Rank(r)' < Rank(r)
    OBVIOUS
  <2>1. TypeOK
    BY DEF Inv
  <2>2. Rank(r) \in Nat
    BY <2>1, RankIsNatural
  <2>3. Rank(r)' < Rank(r) \/ UNCHANGED <<pc[r], Rank(r)>>
    BY EveryStepLeadsOn DEF Stays
  <2>4. Proceed(r) => Rank(r)' < Rank(r)
    BY <2>1, ProceedingLeadsOn
  <2> QED
    BY <2>2, <2>3, <2>4
<1> QED
  BY <1>1, ChatInvariant, PTL DEF Spec, NoRequestGoesBack

-----------------------------------------------------------------------------
(* Where the exceptions end                                                *)

(* Without an external provider an orchestration runs on the copy that was *)
(* made for it.                                                            *)
OwnCopy ==
  /\ \A r \in Requests : pc[r] # "delegating"
  /\ \A r \in Requests : pc[r] = "orchestrating" => runsOn[r] = r

LEMMA OwnCopyStep ==
  ASSUME ~Delegating, Inv, OwnCopy, [Next]_vars
  PROVE  OwnCopy'
<1> USE DEF Inv, TypeOK, Moves, OwnCopy
<1>1. ASSUME NEW r \in Requests, Proceed(r) PROVE OwnCopy'
  <2>1. CASE CreateTask(r) \/ SessionFails(r) \/ Start(r) \/ SaveRunning(r) \/ Accept(r)
    BY <2>1 DEF CreateTask, SessionFails, Start, SaveRunning, Accept
  <2>2. CASE Begin(r) \/ FallBack(r) \/ Completes(r) \/ Fails(r)
    BY <2>2 DEF Begin, FallBack, Completes, Fails
  <2>3. CASE SaveCompleted(r) \/ SaveFailed(r) \/ Report(r) \/ End(r) \/ Unwound(r)
    BY <2>3 DEF SaveCompleted, SaveFailed, Report, End, Unwound
  <2>4. CASE Announce(r) \/ Tell(r)
    BY <2>4 DEF Announce, Tell
  <2> QED
    BY <1>1, <2>1, <2>2, <2>3, <2>4 DEF Proceed
<1>2. ASSUME NEW r \in Requests,
             \/ Replay(r) \/ Receive(r) \/ ReceiveDirect(r) \/ DirectRaises(r) \/ TellingRaises(r)
             \/ SessionSaveRaises(r) \/ SaveRaises(r) \/ Cancel(r)
      PROVE  OwnCopy'
  BY <1>2 DEF Replay, Receive, ReceiveDirect, DirectRaises, TellingRaises, SessionSaveRaises,
     SaveRaises, Cancel
<1>3. ASSUME NEW r \in Requests, NEW w \in Savers,
             \/ Restore(r) \/ SaveCancelled(r) \/ CancelEnds(r) \/ CancelRaises(r)
             \/ SaveLands(r, w)
      PROVE  OwnCopy'
  BY <1>3 DEF Restore, SaveCancelled, CancelEnds, CancelRaises, SaveLands
<1>4. CASE Crash
  BY <1>4 DEF Crash
<1>5. CASE UNCHANGED vars
  BY <1>5 DEF vars
<1> HIDE DEF Inv, TypeOK, Moves, OwnCopy
<1> QED
  BY <1>1, <1>2, <1>3, <1>4, <1>5 DEF Next

(* The copy isolates orchestrations from each other when the provider is   *)
(* built in, the default: the resolver's shared fallback is all that the   *)
(* isolation claimed at src/api/routes.py:166 fails by.                    *)
THEOREM BuiltInsAreIsolated ==
  ASSUME ~Delegating
  PROVE  Spec => []OrchestratorsAreIsolated
<1>1. Init => OwnCopy
  BY DEF Init, OwnCopy
<1>2. Inv /\ OwnCopy /\ [Next]_vars => OwnCopy'
  BY OwnCopyStep
<1>3. OwnCopy => OrchestratorsAreIsolated
  BY DEF OwnCopy, OrchestratorsAreIsolated
<1> QED
  BY <1>1, <1>2, <1>3, ChatInvariant, PTL DEF Spec

(* When no save raises and the process does not crash, a task shown        *)
(* RUNNING is worked on, without exceptions: overlapping cancellations and *)
(* failures of agents strand none.                                         *)
RunningIsWorkedOn ==
  \A r \in Requests : status[r] = "running" => pc[r] \in Working

NothingBreaks == \A r \in Requests : pc[r] \notin {"refused", "raised", "gone"}

LEMMA NothingBreaksStep ==
  ASSUME Faults = {}, Inv, NothingBreaks, [Next]_vars
  PROVE  NothingBreaks'
<1> USE DEF Inv, TypeOK, Moves, NothingBreaks
<1>1. ASSUME NEW r \in Requests, Proceed(r) PROVE NothingBreaks'
  <2>1. CASE CreateTask(r) \/ SessionFails(r) \/ Start(r) \/ SaveRunning(r) \/ Accept(r)
    BY <2>1 DEF CreateTask, SessionFails, Start, SaveRunning, Accept
  <2>2. CASE Begin(r) \/ FallBack(r) \/ Completes(r) \/ Fails(r)
    BY <2>2 DEF Begin, FallBack, Completes, Fails
  <2>3. CASE SaveCompleted(r) \/ SaveFailed(r) \/ Report(r) \/ End(r) \/ Unwound(r)
    BY <2>3 DEF SaveCompleted, SaveFailed, Report, End, Unwound
  <2>4. CASE Announce(r) \/ Tell(r)
    BY <2>4 DEF Announce, Tell
  <2> QED
    BY <1>1, <2>1, <2>2, <2>3, <2>4 DEF Proceed
<1>2. ASSUME NEW r \in Requests,
             \/ Replay(r) \/ Receive(r) \/ ReceiveDirect(r) \/ DirectRaises(r) \/ TellingRaises(r)
             \/ SessionSaveRaises(r) \/ SaveRaises(r) \/ Cancel(r)
      PROVE  NothingBreaks'
  BY <1>2 DEF Replay, Receive, ReceiveDirect, DirectRaises, TellingRaises, SessionSaveRaises,
     SaveRaises, Cancel
<1>3. ASSUME NEW r \in Requests, NEW w \in Savers,
             \/ Restore(r) \/ SaveCancelled(r) \/ CancelEnds(r) \/ CancelRaises(r)
             \/ SaveLands(r, w)
      PROVE  NothingBreaks'
  BY <1>3 DEF Restore, SaveCancelled, CancelEnds, CancelRaises, SaveLands
<1>4. ~Crash
  BY DEF Crash
<1>5. CASE UNCHANGED vars
  BY <1>5 DEF vars
<1> HIDE DEF Inv, TypeOK, Moves, NothingBreaks
<1> QED
  BY <1>1, <1>2, <1>3, <1>4, <1>5 DEF Next

(* Only a save that raises and a restart strand a RUNNING task.            *)
THEOREM OnlyFaultsStrand ==
  ASSUME Faults = {}
  PROVE  Spec => []RunningIsWorkedOn
<1>1. Init => NothingBreaks
  BY DEF Init, NothingBreaks
<1>2. Inv /\ NothingBreaks /\ [Next]_vars => NothingBreaks'
  BY NothingBreaksStep
<1>3. Inv /\ NothingBreaks => RunningIsWorkedOn
  BY DEF Inv, RunningIsAlive, NothingBreaks, RunningIsWorkedOn
<1> QED
  BY <1>1, <1>2, <1>3, ChatInvariant, PTL DEF Spec
=============================================================================
