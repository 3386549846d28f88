------------------------------ MODULE Breaker ------------------------------
(***************************************************************************)
(* The circuit breaker object (src/resilience/circuit_breaker.py) as a     *)
(* value, and its methods as operators from a value to the next one.  The  *)
(* methods run under the breaker's asyncio lock and await nothing inside,  *)
(* so each of them is atomic.                                              *)
(*                                                                         *)
(* A breaker is [state, results, successes, age]: results is the sliding   *)
(* window of recorded calls (TRUE is a success), successes counts those of *)
(* the current half-open period, and age is the time since opened_at.  age *)
(* is read in the open state only, where it is compared to the timeout: it *)
(* is 0 in the other states and stops at Timeout.                          *)
(***************************************************************************)
EXTENDS Integers, Sequences, FiniteSets

CONSTANTS
  FailureThreshold,   (* failures in the window that open the breaker      *)
  SuccessThreshold,   (* successes that close it again                     *)
  Timeout             (* time it stays open, in clock ticks                *)

ASSUME BreakerAssumption ==
  /\ FailureThreshold \in Nat \ {0}
  /\ SuccessThreshold \in Nat \ {0}
  /\ Timeout \in Nat

WindowSize == FailureThreshold + SuccessThreshold

CircuitStates == {"closed", "open", "half_open"}

Breakers == [state: CircuitStates, results: Seq(BOOLEAN), successes: Nat, age: Nat]

NewBreaker == [state |-> "closed", results |-> <<>>, successes |-> 0, age |-> 0]

(* Mutant: the window is trimmed before the result is added.               *)
MutPushed(results, ok) ==
  IF Len(results) > WindowSize
  THEN Append(SubSeq(results, Len(results) - WindowSize + 1, Len(results)), ok)
  ELSE Append(results, ok)

(* _push: the window keeps the last WindowSize results.                    *)
Pushed(results, ok) ==
  LET r == Append(results, ok)
  IN  IF Len(r) > WindowSize THEN SubSeq(r, Len(r) - WindowSize + 1, Len(r)) ELSE r

FailedAt(results) == {i \in DOMAIN results : ~results[i]}
Failures(results) == Cardinality(FailedAt(results))

(* _transition_to.                                                         *)
ToOpen(results) ==
  [state |-> "open", results |-> results, successes |-> 0, age |-> 0]
ToHalfOpen(results) ==
  [state |-> "half_open", results |-> results, successes |-> 0, age |-> 0]
ToClosed == NewBreaker

(* Mutant: the timeout must be exceeded.                                   *)
MutObserved(b) ==
  IF b.state = "open" /\ b.age > Timeout THEN ToHalfOpen(b.results) ELSE b

(* state(): an open breaker whose timeout has elapsed is half-open.        *)
Observed(b) ==
  IF b.state = "open" /\ b.age >= Timeout THEN ToHalfOpen(b.results) ELSE b

(* Mutant: a success closes a breaker that is open, too.                   *)
MutAfterSuccess(b) ==
  LET r == Pushed(b.results, TRUE)
  IN  IF b.state = "closed" THEN [b EXCEPT !.results = r]
      ELSE IF b.successes + 1 >= SuccessThreshold THEN ToClosed
      ELSE [b EXCEPT !.results = r, !.successes = @ + 1]

(* record_success.                                                         *)
AfterSuccess(b) ==
  LET r == Pushed(b.results, TRUE)
  IN  IF b.state # "half_open" THEN [b EXCEPT !.results = r]
      ELSE IF b.successes + 1 >= SuccessThreshold THEN ToClosed
      ELSE [b EXCEPT !.results = r, !.successes = @ + 1]

(* Mutant: the failure is compared to the threshold before it is recorded. *)
MutAfterFailure(b) ==
  LET r == Pushed(b.results, FALSE)
  IN  IF \/ b.state = "half_open"
         \/ b.state = "closed" /\ Failures(b.results) >= FailureThreshold
      THEN ToOpen(r)
      ELSE [b EXCEPT !.results = r]

(* Mutant: a failure while half-open is only recorded.                     *)
MutHalfOpenFailure(b) ==
  LET r == Pushed(b.results, FALSE)
  IN  IF b.state = "closed" /\ Failures(r) >= FailureThreshold
      THEN ToOpen(r)
      ELSE [b EXCEPT !.results = r]

(* record_failure.                                                         *)
AfterFailure(b) ==
  LET r == Pushed(b.results, FALSE)
  IN  IF \/ b.state = "half_open"
         \/ b.state = "closed" /\ Failures(r) >= FailureThreshold
      THEN ToOpen(r)
      ELSE [b EXCEPT !.results = r]

Recorded(b, ok) == IF ok THEN AfterSuccess(b) ELSE AfterFailure(b)

(* One tick of the clock.                                                  *)
Older(b) ==
  IF b.state = "open" /\ b.age < Timeout THEN [b EXCEPT !.age = @ + 1] ELSE b

-----------------------------------------------------------------------------
(* Properties of one breaker, stated of b.                                 *)

(* While it is closed, the window never holds the number of failures that  *)
(* should have opened it.                                                  *)
BelowThreshold(b) == b.state = "closed" => Failures(b.results) < FailureThreshold

(* While it is half-open, the successes it has counted are the last ones   *)
(* recorded, with no failure among them, and not yet enough to close.      *)
SuccessesInARow(b) ==
  b.state = "half_open" =>
    /\ b.successes < SuccessThreshold
    /\ b.successes <= Len(b.results)
    /\ \A i \in (Len(b.results) - b.successes + 1)..Len(b.results) :
         i \notin FailedAt(b.results)
=============================================================================
