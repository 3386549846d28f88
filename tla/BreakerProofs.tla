--------------------------- MODULE BreakerProofs ---------------------------
(***************************************************************************)
(* Proofs about the circuit breaker, for any thresholds and any timeout:   *)
(* lemmas about its methods, which the proofs about its users cite, and    *)
(* theorems about the breaker of POST /{agent_id}/invoke (InvokeBreaker),  *)
(* for any number of concurrent requests: when it opens, rejects, closes,  *)
(* and that a healthy agent only ever gets nearer to its closing.          *)
(***************************************************************************)
EXTENDS InvokeBreaker, FiniteSetTheorems, TLAPS

(* The type of a breaker with a window that is not longer than it may be.  *)
GoodBreaker(b) ==
  /\ b \in Breakers
  /\ Len(b.results) <= WindowSize
  /\ b.age <= Timeout

-----------------------------------------------------------------------------
(* The sliding window                                                      *)

(* A result pushed into a window gives a window: _push keeps the bound, the *)
(* new result is the last one, and the others keep their order.            *)
LEMMA PushedIsWindow ==
  ASSUME NEW results \in Seq(BOOLEAN), Len(results) <= WindowSize, NEW ok \in BOOLEAN
  PROVE  /\ Pushed(results, ok) \in Seq(BOOLEAN)
         /\ Len(Pushed(results, ok)) <= WindowSize
         /\ Len(Pushed(results, ok)) = IF Len(results) < WindowSize
                                       THEN Len(results) + 1 ELSE WindowSize
         /\ \A i \in 1..Len(Pushed(results, ok)) :
              Pushed(results, ok)[i] =
                IF i = Len(Pushed(results, ok)) THEN ok
                ELSE IF Len(results) < WindowSize THEN results[i] ELSE results[i + 1]
<1>1. WindowSize \in Nat \ {0}
  BY BreakerAssumption DEF WindowSize
<1>2. CASE Len(results) < WindowSize
  <2>1. Pushed(results, ok) = Append(results, ok)
    BY <1>1, <1>2 DEF Pushed
  <2>2. QED
    BY <2>1, <1>1, <1>2
<1>3. CASE Len(results) = WindowSize
  <2>1. Pushed(results, ok) = SubSeq(Append(results, ok), 2, WindowSize + 1)
    BY <1>1, <1>3 DEF Pushed
  <2>2. QED
    BY <2>1, <1>1, <1>3
<1>4. QED
  BY <1>1, <1>2, <1>3

(* The failures of a window are a finite set of indices.                   *)
LEMMA FailuresAreCounted ==
  ASSUME NEW results \in Seq(BOOLEAN)
  PROVE  IsFiniteSet(FailedAt(results)) /\ Failures(results) \in Nat
<1>1. FailedAt(results) \subseteq 1..Len(results)
  BY DEF FailedAt
<1>2. IsFiniteSet(1..Len(results))
  BY FS_Interval
<1>3. IsFiniteSet(FailedAt(results))
  BY <1>1, <1>2, FS_Subset
<1>4. QED
  BY <1>3, FS_CardinalityType DEF Failures

(* A failure's index is one of the window.                                 *)
LEMMA FailedIndex ==
  ASSUME NEW results \in Seq(BOOLEAN), NEW i
  PROVE  i \in FailedAt(results) <=> (i \in 1..Len(results) /\ results[i] = FALSE)
<1>1. DOMAIN results = 1..Len(results)
  OBVIOUS
<1>2. \A k \in 1..Len(results) : results[k] \in BOOLEAN
  OBVIOUS
<1>3. QED
  BY <1>1, <1>2 DEF FailedAt

(* When every failure of one window is found in another, n places later,   *)
(* the one has no more failures than the other.                            *)
LEMMA ShiftedFailures ==
  ASSUME NEW r \in Seq(BOOLEAN), NEW q \in Seq(BOOLEAN), NEW n \in Nat,
         \A i \in FailedAt(q) : i + n \in FailedAt(r)
  PROVE  Failures(q) <= Failures(r)
<1> DEFINE f == [i \in FailedAt(q) |-> i + n]
<1>1. f \in [FailedAt(q) -> FailedAt(r)]
  OBVIOUS
<1>2. ASSUME NEW i \in FailedAt(q), NEW j \in FailedAt(q), f[i] = f[j]
      PROVE  i = j
  <2>1. i \in 1..Len(q) /\ j \in 1..Len(q)
    BY FailedIndex
  <2>2. \A k \in FailedAt(q) : f[k] = k + n
    OBVIOUS
  <2>3. QED
    BY <1>2, <2>1, <2>2, SMT
<1>3. f \in Injection(FailedAt(q), FailedAt(r))
  BY <1>1, <1>2 DEF Injection, IsInjective
<1>4. IsFiniteSet(FailedAt(r))
  BY FailuresAreCounted
<1>5. QED
  BY <1>3, <1>4, FS_Injection DEF Failures

(* A recorded success never adds a failure to the window.                  *)
LEMMA SuccessAddsNoFailure ==
  ASSUME NEW r \in Seq(BOOLEAN), Len(r) <= WindowSize
  PROVE  Failures(Pushed(r, TRUE)) <= Failures(r)
<1>1. WindowSize \in Nat \ {0}
  BY BreakerAssumption DEF WindowSize
<1>2. PICK q : q = Pushed(r, TRUE)
  OBVIOUS
<1>3. /\ q \in Seq(BOOLEAN)
      /\ Len(q) = IF Len(r) < WindowSize THEN Len(r) + 1 ELSE WindowSize
      /\ \A i \in 1..Len(q) :
           q[i] = IF i = Len(q) THEN TRUE
                  ELSE IF Len(r) < WindowSize THEN r[i] ELSE r[i + 1]
  BY <1>2, PushedIsWindow
<1>4. PICK n \in Nat : n = IF Len(r) < WindowSize THEN 0 ELSE 1
  OBVIOUS
<1>5. ASSUME NEW i \in FailedAt(q)
      PROVE  i + n \in FailedAt(r)
  <2>1. i \in 1..Len(q) /\ q[i] = FALSE
    BY <1>3, FailedIndex
  <2>2. i # Len(q)
    BY <2>1, <1>3
  <2>3. CASE Len(r) < WindowSize
    <3>1. n = 0 /\ Len(q) = Len(r) + 1 /\ q[i] = r[i]
      BY <1>3, <1>4, <2>1, <2>2, <2>3
    <3>2. i + n = i /\ i \in 1..Len(r)
      BY <2>1, <2>2, <3>1
    <3>3. QED
      BY <2>1, <3>1, <3>2, FailedIndex
  <2>4. CASE ~(Len(r) < WindowSize)
    <3>1. n = 1 /\ Len(q) = WindowSize /\ Len(r) = WindowSize
      BY <1>1, <1>3, <1>4, <2>4
    <3>2. q[i] = r[i + 1]
      BY <1>3, <2>1, <2>2, <2>4
    <3>3. i + 1 \in 1..Len(r)
      BY <1>1, <2>1, <2>2, <3>1
    <3>4. QED
      BY <2>1, <3>1, <3>2, <3>3, FailedIndex
  <2>5. QED
    BY <2>3, <2>4
<1>6. QED
  BY <1>2, <1>3, <1>5, ShiftedFailures

(* Pushing a failure adds one failure; the oldest result may leave.        *)
LEMMA FailureAddsOne ==
  ASSUME NEW r \in Seq(BOOLEAN), Len(r) <= WindowSize
  PROVE  /\ Failures(Pushed(r, FALSE)) <= Failures(r) + 1
         /\ Len(r) < WindowSize =>
              /\ Failures(Pushed(r, FALSE)) = Failures(r) + 1
              /\ Len(Pushed(r, FALSE)) = Len(r) + 1
<1>1. WindowSize \in Nat \ {0}
  BY BreakerAssumption DEF WindowSize
<1>2. PICK p : p = Pushed(r, TRUE)
  OBVIOUS
<1>3. PICK q : q = Pushed(r, FALSE)
  OBVIOUS
<1>4. /\ p \in Seq(BOOLEAN) /\ Len(p) <= WindowSize
      /\ Len(p) = IF Len(r) < WindowSize THEN Len(r) + 1 ELSE WindowSize
      /\ \A i \in 1..Len(p) :
           p[i] = IF i = Len(p) THEN TRUE
                  ELSE IF Len(r) < WindowSize THEN r[i] ELSE r[i + 1]
  BY <1>2, PushedIsWindow
<1>5. /\ q \in Seq(BOOLEAN) /\ Len(q) = Len(p)
      /\ \A i \in 1..Len(q) :
           q[i] = IF i = Len(q) THEN FALSE
                  ELSE IF Len(r) < WindowSize THEN r[i] ELSE r[i + 1]
  BY <1>3, <1>4, PushedIsWindow
<1>6. Len(q) \in 1..Len(q) /\ Len(q) \in Nat
  BY <1>1, <1>4, <1>5
<1>7. \A i \in 1..Len(q) : i # Len(q) => q[i] = p[i]
  BY <1>4, <1>5
<1>8. p[Len(q)] = TRUE /\ q[Len(q)] = FALSE
  BY <1>4, <1>5, <1>6
<1>9. FailedAt(q) = FailedAt(p) \cup {Len(q)} /\ Len(q) \notin FailedAt(p)
  <2>1. \A i : i \in FailedAt(q) <=> i \in 1..Len(q) /\ q[i] = FALSE
    BY <1>5, FailedIndex
  <2>2. \A i : i \in FailedAt(p) <=> i \in 1..Len(q) /\ p[i] = FALSE
    BY <1>4, <1>5, FailedIndex
  <2>3. QED
    BY <1>6, <1>7, <1>8, <2>1, <2>2
<1>10. Failures(q) = Failures(p) + 1
  BY <1>4, <1>9, FailuresAreCounted, FS_AddElement DEF Failures
<1>11. Failures(p) <= Failures(r) /\ Failures(p) \in Nat /\ Failures(r) \in Nat
  BY <1>2, <1>4, SuccessAddsNoFailure, FailuresAreCounted
<1>12. ASSUME Len(r) < WindowSize
       PROVE  Failures(p) = Failures(r) /\ Len(p) = Len(r) + 1
  <2>1. Len(p) = Len(r) + 1
    BY <1>4, <1>12
  <2>2. Len(r) \in Nat
    OBVIOUS
  <2>3. ASSUME NEW i \in 1..Len(r)
        PROVE  i \in 1..Len(p) /\ p[i] = r[i]
    <3>1. i \in 1..Len(p) /\ i # Len(p)
      BY <2>1, <2>2, <2>3
    <3>2. QED
      BY <1>4, <1>12, <3>1
  <2>4. p[Len(r) + 1] = TRUE
    BY <1>5, <1>8, <2>1
  <2>5. ASSUME NEW i
        PROVE  i \in FailedAt(p) <=> i \in FailedAt(r)
    <3>1. i \in FailedAt(p) <=> (i \in 1..Len(p) /\ p[i] = FALSE)
      BY <1>4, FailedIndex
    <3>2. i \in FailedAt(r) <=> (i \in 1..Len(r) /\ r[i] = FALSE)
      BY FailedIndex
    <3>3. i \in 1..Len(p) <=> (i \in 1..Len(r) \/ i = Len(r) + 1)
      BY <2>1, <2>2
    <3>4. QED
      BY <2>3, <2>4, <3>1, <3>2, <3>3
  <2>6. FailedAt(p) = FailedAt(r)
    BY <2>5
  <2>7. QED
    BY <2>1, <2>6 DEF Failures
<1>13. Failures(q) <= Failures(r) + 1
  BY <1>10, <1>11
<1>14. Len(r) < WindowSize => Failures(q) = Failures(r) + 1 /\ Len(q) = Len(r) + 1
  BY <1>5, <1>10, <1>12
<1>15. QED
  BY <1>3, <1>13, <1>14

-----------------------------------------------------------------------------
(* The methods of the breaker                                              *)

(* What every method of the breaker keeps true.                            *)
SoundBreaker(b) ==
  /\ GoodBreaker(b)
  /\ BelowThreshold(b)
  /\ SuccessesInARow(b)

(* A breaker without recorded results, as __init__ and the transition to   *)
(* CLOSED leave it.                                                        *)
LEMMA NewBreakerSound == SoundBreaker(NewBreaker)
<1>1. NewBreaker \in Breakers /\ Len(NewBreaker.results) = 0
  BY DEF NewBreaker, Breakers, CircuitStates
<1>2. WindowSize \in Nat /\ Timeout \in Nat
  BY BreakerAssumption DEF WindowSize
<1>3. FailedAt(<<>>) = {}
  BY DEF FailedAt
<1>4. Failures(<<>>) = 0
  BY <1>3, FS_EmptySet DEF Failures
<1>5. NewBreaker.age = 0 /\ NewBreaker.results = <<>> /\ NewBreaker.state = "closed"
  BY DEF NewBreaker
<1>6. GoodBreaker(NewBreaker)
  BY <1>1, <1>2, <1>5 DEF GoodBreaker
<1>7. BelowThreshold(NewBreaker)
  BY <1>4, <1>5, BreakerAssumption DEF BelowThreshold
<1>8. SuccessesInARow(NewBreaker)
  BY <1>5 DEF SuccessesInARow
<1>9. QED
  BY <1>6, <1>7, <1>8 DEF SoundBreaker

(* The transitions to OPEN and HALF_OPEN keep the window.                  *)
LEMMA TransitionsSound ==
  ASSUME NEW r \in Seq(BOOLEAN), Len(r) <= WindowSize
  PROVE  SoundBreaker(ToOpen(r)) /\ SoundBreaker(ToHalfOpen(r))
<1>1. Timeout \in Nat /\ SuccessThreshold \in Nat \ {0}
  BY BreakerAssumption
<1>2. SoundBreaker(ToOpen(r))
  BY <1>1 DEF ToOpen, SoundBreaker, GoodBreaker, Breakers, CircuitStates,
              BelowThreshold, SuccessesInARow
<1>3. SoundBreaker(ToHalfOpen(r))
  BY <1>1 DEF ToHalfOpen, SoundBreaker, GoodBreaker, Breakers, CircuitStates,
              BelowThreshold, SuccessesInARow
<1>4. QED
  BY <1>2, <1>3

(* state().                                                                *)
LEMMA ObservedSound ==
  ASSUME NEW b, SoundBreaker(b)
  PROVE  SoundBreaker(Observed(b))
<1>1. b.results \in Seq(BOOLEAN) /\ Len(b.results) <= WindowSize
  BY DEF SoundBreaker, GoodBreaker, Breakers
<1>2. QED
  BY <1>1, TransitionsSound DEF Observed

(* The clock.                                                              *)
LEMMA OlderSound ==
  ASSUME NEW b, SoundBreaker(b)
  PROVE  SoundBreaker(Older(b))
<1>1. CASE b.state = "open" /\ b.age < Timeout
  <2>1. Older(b) = [b EXCEPT !.age = @ + 1]
    BY <1>1 DEF Older
  <2>2. b \in Breakers /\ Timeout \in Nat
    BY BreakerAssumption DEF SoundBreaker, GoodBreaker
  <2>3. /\ Older(b) \in Breakers
        /\ Older(b).state = "open"
        /\ Older(b).results = b.results
        /\ Older(b).age = b.age + 1
    BY <1>1, <2>1, <2>2 DEF Breakers
  <2>4. QED
    BY <1>1, <2>2, <2>3
       DEF SoundBreaker, GoodBreaker, BelowThreshold, SuccessesInARow, Breakers
<1>2. CASE ~(b.state = "open" /\ b.age < Timeout)
  BY <1>2 DEF Older
<1>3. QED
  BY <1>1, <1>2

(* record_success.                                                         *)
LEMMA SuccessSound ==
  ASSUME NEW b, SoundBreaker(b)
  PROVE  SoundBreaker(AfterSuccess(b))
<1>1. /\ b \in Breakers
      /\ b.results \in Seq(BOOLEAN)
      /\ Len(b.results) <= WindowSize
      /\ b.successes \in Nat
      /\ b.age \in Nat
      /\ b.age <= Timeout
  BY DEF SoundBreaker, GoodBreaker, Breakers
<1>2. WindowSize \in Nat \ {0} /\ WindowSize > SuccessThreshold
      /\ SuccessThreshold \in Nat /\ FailureThreshold \in Nat
  BY BreakerAssumption DEF WindowSize
<1>3. PICK r : r = Pushed(b.results, TRUE)
  OBVIOUS
<1>4. /\ r \in Seq(BOOLEAN)
      /\ Len(r) = IF Len(b.results) < WindowSize THEN Len(b.results) + 1 ELSE WindowSize
      /\ Len(r) <= WindowSize
      /\ \A i \in 1..Len(r) :
           r[i] = IF i = Len(r) THEN TRUE
                  ELSE IF Len(b.results) < WindowSize THEN b.results[i]
                       ELSE b.results[i + 1]
  BY <1>1, <1>3, PushedIsWindow
<1>5. CASE b.state # "half_open"
  <2>1. AfterSuccess(b) = [b EXCEPT !.results = r]
    BY <1>3, <1>5 DEF AfterSuccess
  <2>2. /\ AfterSuccess(b) \in Breakers
        /\ AfterSuccess(b).results = r
        /\ AfterSuccess(b).state = b.state
        /\ AfterSuccess(b).age = b.age
    BY <1>1, <1>4, <2>1 DEF Breakers
  <2>3. Failures(r) <= Failures(b.results)
    BY <1>1, <1>3, SuccessAddsNoFailure
  <2>4. Failures(r) \in Nat /\ Failures(b.results) \in Nat
    BY <1>1, <1>4, FailuresAreCounted
  <2>5. b.state = "closed" => Failures(r) < FailureThreshold
    BY <1>2, <2>3, <2>4 DEF SoundBreaker, BelowThreshold
  <2>6. QED
    BY <1>1, <1>4, <1>5, <2>2, <2>5
       DEF SoundBreaker, GoodBreaker, BelowThreshold, SuccessesInARow
<1>6. CASE b.state = "half_open" /\ b.successes + 1 >= SuccessThreshold
  BY <1>6, NewBreakerSound DEF AfterSuccess, ToClosed
<1>7. CASE b.state = "half_open" /\ ~(b.successes + 1 >= SuccessThreshold)
  <2>1. AfterSuccess(b) = [b EXCEPT !.results = r, !.successes = @ + 1]
    BY <1>3, <1>7 DEF AfterSuccess
  <2>2. /\ AfterSuccess(b) \in Breakers
        /\ AfterSuccess(b).results = r
        /\ AfterSuccess(b).state = "half_open"
        /\ AfterSuccess(b).age = b.age
        /\ AfterSuccess(b).successes = b.successes + 1
    <3>1. r \in Seq(BOOLEAN) /\ b.successes + 1 \in Nat
      BY <1>1, <1>4
    <3>2. b \in Breakers /\ b.state = "half_open"
      BY <1>1, <1>7
    <3>3. QED
      BY <2>1, <3>1, <3>2 DEF Breakers
  <2>3. /\ b.successes <= Len(b.results)
        /\ \A i \in (Len(b.results) - b.successes + 1)..Len(b.results) :
             i \notin FailedAt(b.results)
    BY <1>7 DEF SoundBreaker, SuccessesInARow
  <2>4. b.successes + 1 < SuccessThreshold
    BY <1>1, <1>2, <1>7
  <2>5. b.successes + 1 <= Len(r)
    BY <1>1, <1>2, <1>4, <2>3, <2>4
  <2>6. ASSUME NEW i \in (Len(r) - (b.successes + 1) + 1)..Len(r)
        PROVE  i \notin FailedAt(r)
    <3>1. i \in 1..Len(r)
      BY <1>1, <1>4, <2>5
    <3>2. CASE i = Len(r)
      BY <1>4, <3>1, <3>2, FailedIndex
    <3>3. CASE i # Len(r) /\ Len(b.results) < WindowSize
      <4>1. r[i] = b.results[i]
        BY <1>4, <3>1, <3>3
      <4>2. i \in (Len(b.results) - b.successes + 1)..Len(b.results)
        BY <1>1, <1>4, <3>1, <3>3
      <4>3. i \notin FailedAt(b.results) /\ i \in 1..Len(b.results)
        BY <1>1, <1>4, <2>3, <3>1, <3>3, <4>2
      <4>4. b.results[i] # FALSE
        BY <1>1, <4>3, FailedIndex
      <4>5. r \in Seq(BOOLEAN) /\ r[i] # FALSE
        BY <1>4, <4>1, <4>4
      <4>6. QED
        BY <4>5, FailedIndex
    <3>4. CASE i # Len(r) /\ ~(Len(b.results) < WindowSize)
      <4>1. r[i] = b.results[i + 1]
        BY <1>4, <3>1, <3>4
      <4>2. i + 1 \in (Len(b.results) - b.successes + 1)..Len(b.results)
        BY <1>1, <1>2, <1>4, <3>1, <3>4
      <4>3. i + 1 \in 1..Len(b.results)
        BY <1>1, <1>2, <1>4, <3>1, <3>4
      <4>4. b.results[i + 1] # FALSE
        BY <1>1, <2>3, <4>2, <4>3, FailedIndex
      <4>5. r \in Seq(BOOLEAN) /\ r[i] # FALSE
        BY <1>4, <4>1, <4>4
      <4>6. QED
        BY <4>5, FailedIndex
    <3>5. QED
      BY <3>2, <3>3, <3>4
  <2>7. SuccessesInARow(AfterSuccess(b))
    BY <2>2, <2>4, <2>5, <2>6 DEF SuccessesInARow
  <2>8. QED
    BY <1>1, <1>4, <2>2, <2>7 DEF SoundBreaker, GoodBreaker, BelowThreshold
<1>8. QED
  BY <1>5, <1>6, <1>7

(* record_failure.                                                         *)
LEMMA FailureSound ==
  ASSUME NEW b, SoundBreaker(b)
  PROVE  SoundBreaker(AfterFailure(b))
<1>1. /\ b \in Breakers
      /\ b.results \in Seq(BOOLEAN)
      /\ Len(b.results) <= WindowSize
      /\ b.age <= Timeout
  BY DEF SoundBreaker, GoodBreaker, Breakers
<1>2. PICK r : r = Pushed(b.results, FALSE)
  OBVIOUS
<1>3. r \in Seq(BOOLEAN) /\ Len(r) <= WindowSize
  BY <1>1, <1>2, PushedIsWindow
<1>4. CASE \/ b.state = "half_open"
           \/ b.state = "closed" /\ Failures(r) >= FailureThreshold
  BY <1>2, <1>3, <1>4, TransitionsSound DEF AfterFailure
<1>5. CASE ~ \/ b.state = "half_open"
             \/ b.state = "closed" /\ Failures(r) >= FailureThreshold
  <2>1. AfterFailure(b) = [b EXCEPT !.results = r]
    BY <1>2, <1>5 DEF AfterFailure
  <2>2. /\ AfterFailure(b) \in Breakers
        /\ AfterFailure(b).results = r
        /\ AfterFailure(b).state = b.state
        /\ AfterFailure(b).age = b.age
    BY <1>1, <1>3, <2>1 DEF Breakers
  <2>3. Failures(r) \in Nat /\ FailureThreshold \in Nat
    BY <1>3, FailuresAreCounted, BreakerAssumption
  <2>4. b.state = "closed" => Failures(r) < FailureThreshold
    BY <1>5, <2>3
  <2>5. QED
    BY <1>1, <1>3, <1>5, <2>2, <2>4
       DEF SoundBreaker, GoodBreaker, BelowThreshold, SuccessesInARow
<1>6. QED
  BY <1>4, <1>5

(* Whatever the call records, the breaker stays sound.                     *)
LEMMA RecordedSound ==
  ASSUME NEW b, NEW ok, SoundBreaker(b)
  PROVE  SoundBreaker(Recorded(b, ok))
BY SuccessSound, FailureSound DEF Recorded

(* Recording a result opens the breaker with age 0, or leaves it open with *)
(* the age it has.                                                         *)
LEMMA RecordedAge ==
  ASSUME NEW b, NEW ok, SoundBreaker(b), Recorded(b, ok).state = "open"
  PROVE  Recorded(b, ok).age = IF b.state = "open" THEN b.age ELSE 0
<1>1. b \in Breakers
  BY DEF SoundBreaker, GoodBreaker
<1>2. CASE ok
  <2>1. b.state # "half_open"
    BY <1>1, <1>2 DEF Recorded, AfterSuccess, ToClosed, NewBreaker, Breakers
  <2>2. AfterSuccess(b) = [b EXCEPT !.results = Pushed(b.results, TRUE)]
    BY <2>1 DEF AfterSuccess
  <2>3. QED
    BY <1>1, <1>2, <2>2 DEF Recorded, Breakers
<1>3. CASE ~ok
  <2>1. CASE b.state = "half_open"
    BY <1>3, <2>1 DEF Recorded, AfterFailure, ToOpen
  <2>2. CASE b.state = "closed"
    BY <1>1, <1>3, <2>2 DEF Recorded, AfterFailure, ToOpen, Breakers
  <2>3. CASE b.state = "open"
    BY <1>1, <1>3, <2>3 DEF Recorded, AfterFailure, Breakers
  <2>4. QED
    BY <1>1, <2>1, <2>2, <2>3 DEF Breakers, CircuitStates
<1>4. QED
  BY <1>2, <1>3

(* A result that is recorded while the breaker is open does not end that.  *)
LEMMA RecordedKeepsOpen ==
  ASSUME NEW b, NEW ok, SoundBreaker(b), b.state = "open"
  PROVE  Recorded(b, ok).state = "open"
<1>1. b \in Breakers
  BY DEF SoundBreaker, GoodBreaker
<1>2. QED
  BY <1>1 DEF Recorded, AfterSuccess, AfterFailure, Breakers

-----------------------------------------------------------------------------
(* The breaker of POST /{agent_id}/invoke, for any number of requests      *)

(* While the breaker is open, its age is the time since it opened; in any  *)
(* other state, it has been the whole timeout since it last opened.        *)
CooledDown ==
  IF breaker.state = "open" THEN breaker.age = sinceOpen ELSE sinceOpen = Timeout

InvokeInv ==
  /\ InvokeTypeOK
  /\ SoundBreaker(breaker)
  /\ CooledDown

(* UpTo stops at its bound.                                                *)
LEMMA UpToBounded ==
  ASSUME NEW bound \in Nat, NEW n \in Nat
  PROVE  UpTo(bound, n) \in 0..bound
BY DEF UpTo

LEMMA InvokeInvInit == InvokeInit => InvokeInv
<1> SUFFICES ASSUME InvokeInit PROVE InvokeInv
  OBVIOUS
<1>1. SoundBreaker(breaker)
  BY NewBreakerSound DEF InvokeInit
<1>2. breaker.state = "closed"
  BY DEF InvokeInit, NewBreaker
<1>3. Timeout \in Nat /\ SuccessThreshold \in Nat /\ FailureThreshold \in Nat
  BY BreakerAssumption
<1>4. InvokeTypeOK
  BY <1>1, <1>3 DEF InvokeInit, InvokeTypeOK, SoundBreaker, GoodBreaker, Calls
<1>5. QED
  BY <1>1, <1>2, <1>4 DEF InvokeInv, CooledDown, InvokeInit

(* A request is admitted.                                                  *)
LEMMA BeginKeeps ==
  ASSUME InvokeInv, NEW r \in Invocations, Begin(r)
  PROVE  InvokeInv' /\ sinceOpen = Timeout
<1>1. SoundBreaker(breaker') /\ breaker' = Observed(breaker)
  BY ObservedSound DEF InvokeInv, Begin
<1>2. Timeout \in Nat /\ SuccessThreshold \in Nat
  BY BreakerAssumption
<1>3. breaker'.state # "open" /\ sinceOpen = Timeout
  BY <1>2 DEF InvokeInv, CooledDown, Begin, Admitting, Observed, InvokeTypeOK
<1>4. InvokeTypeOK'
  <2>1. call' \in [Invocations -> Calls]
    BY DEF InvokeInv, InvokeTypeOK, Begin, Calls
  <2>2. QED
    BY <1>1, <2>1 DEF InvokeInv, InvokeTypeOK, Begin, SoundBreaker, GoodBreaker
<1>5. CooledDown'
  BY <1>3 DEF CooledDown, Begin
<1>6. QED
  BY <1>1, <1>3, <1>4, <1>5 DEF InvokeInv, SoundBreaker, GoodBreaker, BelowThreshold,
                                SuccessesInARow

(* A result comes back, however long ago its request was admitted.         *)
LEMMA FinishKeeps ==
  ASSUME InvokeInv, NEW r \in Invocations, NEW returned \in {"ok", "error", "raised"},
         NEW slow \in BOOLEAN, Finish(r, returned, slow)
  PROVE  InvokeInv'
<1> DEFINE ok == Records(returned, slow)
<1>1. breaker' = Recorded(breaker, ok)
  BY DEF Finish
<1>2. SoundBreaker(breaker')
  BY <1>1, RecordedSound DEF InvokeInv
<1>3. Timeout \in Nat /\ SuccessThreshold \in Nat /\ FailureThreshold \in Nat
  BY BreakerAssumption
<1>4. InvokeTypeOK'
  <2>1. call' \in [Invocations -> Calls]
    BY DEF InvokeInv, InvokeTypeOK, Finish, Calls
  <2>2. sinceOpen' \in 0..Timeout
    BY <1>3 DEF InvokeInv, InvokeTypeOK, Finish
  <2>3. healthy' \in BOOLEAN
    BY DEF InvokeInv, InvokeTypeOK, Finish
  <2>4. QED
    BY <1>2, <2>1, <2>2, <2>3 DEF InvokeTypeOK, SoundBreaker, GoodBreaker
<1>5. CooledDown'
  <2>1. CASE breaker'.state = "open"
    <3>1. breaker'.age = IF breaker.state = "open" THEN breaker.age ELSE 0
      BY <1>1, <2>1, RecordedAge DEF InvokeInv
    <3>2. sinceOpen' = IF breaker.state = "open" THEN sinceOpen ELSE 0
      BY <2>1 DEF Finish
    <3>3. QED
      BY <2>1, <3>1, <3>2 DEF InvokeInv, CooledDown
  <2>2. CASE breaker'.state # "open"
    <3>1. breaker.state # "open"
      BY <1>1, <2>2, RecordedKeepsOpen DEF InvokeInv
    <3>2. sinceOpen' = sinceOpen
      BY <2>2 DEF Finish
    <3>3. QED
      BY <2>2, <3>1, <3>2 DEF InvokeInv, CooledDown
  <2>3. QED
    BY <2>1, <2>2
<1>6. QED
  BY <1>2, <1>4, <1>5 DEF InvokeInv, SoundBreaker, GoodBreaker, BelowThreshold,
                          SuccessesInARow

LEMMA TimePassesKeeps ==
  ASSUME InvokeInv, TimePasses
  PROVE  InvokeInv'
<1>1. SoundBreaker(breaker') /\ breaker' = Older(breaker)
  BY OlderSound DEF InvokeInv, TimePasses
<1>2. Timeout \in Nat /\ sinceOpen \in 0..Timeout /\ breaker \in Breakers
      /\ breaker.age <= Timeout /\ breaker.age \in Nat
  BY BreakerAssumption DEF InvokeInv, InvokeTypeOK, Breakers
<1>3. sinceOpen' \in 0..Timeout /\ sinceOpen' = UpTo(Timeout, sinceOpen + 1)
  BY <1>2, UpToBounded DEF TimePasses
<1>4. InvokeTypeOK'
  BY <1>1, <1>3 DEF InvokeInv, InvokeTypeOK, TimePasses, SoundBreaker, GoodBreaker
<1>5. CooledDown'
  <2>1. CASE breaker.state = "open" /\ breaker.age < Timeout
    <3>1. breaker'.state = "open" /\ breaker'.age = breaker.age + 1
      BY <1>1, <1>2, <2>1 DEF Older, Breakers
    <3>2. sinceOpen' = sinceOpen + 1
      BY <1>2, <1>3, <2>1 DEF InvokeInv, CooledDown, UpTo
    <3>3. QED
      BY <2>1, <3>1, <3>2 DEF InvokeInv, CooledDown
  <2>2. CASE ~(breaker.state = "open" /\ breaker.age < Timeout)
    <3>1. breaker' = breaker
      BY <1>1, <2>2 DEF Older
    <3>2. sinceOpen = Timeout
      BY <1>2, <2>2 DEF InvokeInv, CooledDown
    <3>3. sinceOpen' = Timeout
      BY <1>2, <1>3, <3>2 DEF UpTo
    <3>4. QED
      BY <3>1, <3>2, <3>3 DEF InvokeInv, CooledDown
  <2>3. QED
    BY <2>1, <2>2
<1>6. QED
  BY <1>1, <1>4, <1>5 DEF InvokeInv, SoundBreaker, GoodBreaker, BelowThreshold,
                          SuccessesInARow

LEMMA InvokeInvNext == InvokeInv /\ [InvokeNext]_invokeVars => InvokeInv'
<1> SUFFICES ASSUME InvokeInv, [InvokeNext]_invokeVars PROVE InvokeInv'
  OBVIOUS
<1>1. ASSUME NEW r \in Invocations, Begin(r) PROVE InvokeInv'
  BY <1>1, BeginKeeps
<1>2. ASSUME NEW r \in Invocations, Finishes(r) PROVE InvokeInv'
  BY <1>2, FinishKeeps DEF Finishes
<1>3. ASSUME NEW r \in Invocations, Cancelled(r) PROVE InvokeInv'
  <2>1. call' \in [Invocations -> Calls]
    BY <1>3 DEF InvokeInv, InvokeTypeOK, Cancelled, Calls
  <2>2. UNCHANGED <<breaker, healthy, sinceOpen>>
    BY <1>3 DEF Cancelled
  <2>3. QED
    BY <2>1, <2>2 DEF InvokeInv, InvokeTypeOK, CooledDown
<1>4. ASSUME HealthChanges PROVE InvokeInv'
  <2>1. healthy' \in BOOLEAN
    BY <1>4 DEF InvokeInv, InvokeTypeOK, HealthChanges
  <2>2. UNCHANGED <<breaker, call, sinceOpen>>
    BY <1>4 DEF HealthChanges
  <2>3. QED
    BY <2>1, <2>2 DEF InvokeInv, InvokeTypeOK, CooledDown
<1>5. ASSUME UNCHANGED invokeVars PROVE InvokeInv'
  BY <1>5 DEF invokeVars, InvokeInv, InvokeTypeOK, CooledDown
<1>6. ASSUME NEW r \in Invocations, Reject(r) PROVE InvokeInv'
  BY <1>6, <1>5 DEF Reject
<1>7. QED
  BY <1>1, <1>2, <1>3, <1>4, <1>5, <1>6, TimePassesKeeps DEF InvokeNext

THEOREM InvokeInvariant == InvokeSpec => []InvokeInv
BY InvokeInvInit, InvokeInvNext, PTL DEF InvokeSpec

(* The breaker, the requests and the history variables keep their types,   *)
(* and the sliding window its bound, for any thresholds.                   *)
THEOREM InvokeTypeCorrect == InvokeSpec => []InvokeTypeOK
<1>1. InvokeInv => InvokeTypeOK
  BY DEF InvokeInv
<1>2. QED
  BY <1>1, InvokeInvariant, PTL

(* _count_recent_failures stays below the threshold while the breaker is   *)
(* closed: record_failure always opens it in time, late results included.  *)
THEOREM ClosedMeansBelowThreshold == InvokeSpec => []ClosedBelowThreshold
<1>1. InvokeInv => ClosedBelowThreshold
  BY DEF InvokeInv, SoundBreaker, ClosedBelowThreshold
<1>2. QED
  BY <1>1, InvokeInvariant, PTL

(* record_success closes a half-open breaker only after SuccessThreshold   *)
(* results in a row that were successes.                                   *)
THEOREM ClosingIsEarned == InvokeSpec => []HalfOpenEarned
<1>1. InvokeInv => HalfOpenEarned
  BY DEF InvokeInv, SoundBreaker, HalfOpenEarned
<1>2. QED
  BY <1>1, InvokeInvariant, PTL

(* From the opening of the breaker until its timeout has passed, call      *)
(* rejects every request, for any number of requests under way.            *)
THEOREM OpenMeansRejecting == InvokeSpec => RejectsWhileCooling
<1> DEFINE Waited == \A r \in Invocations :
             call[r] = "idle" /\ call'[r] # "idle" => sinceOpen >= Timeout
<1>1. InvokeInv /\ [InvokeNext]_invokeVars => [Waited]_invokeVars
  <2> SUFFICES ASSUME InvokeInv, InvokeNext PROVE Waited
    BY DEF invokeVars
  <2> SUFFICES ASSUME NEW r \in Invocations, call[r] = "idle", call'[r] # "idle"
               PROVE  sinceOpen >= Timeout
    OBVIOUS
  <2>1. Timeout \in Nat
    BY BreakerAssumption
  <2>2. ASSUME NEW q \in Invocations, Begin(q) PROVE sinceOpen >= Timeout
    BY <2>1, <2>2, BeginKeeps
  <2>3. ASSUME NEW q \in Invocations, Finishes(q) \/ Cancelled(q) PROVE FALSE
    <3>1. call' = [call EXCEPT ![q] = "idle"] /\ call \in [Invocations -> Calls]
      BY <2>3 DEF Finishes, Finish, Cancelled, InvokeInv, InvokeTypeOK
    <3>2. QED
      BY <3>1
  <2>4. ASSUME NEW q \in Invocations, Reject(q) PROVE FALSE
    BY <2>4 DEF Reject, invokeVars
  <2>5. ASSUME TimePasses \/ HealthChanges PROVE FALSE
    BY <2>5 DEF TimePasses, HealthChanges
  <2>6. QED
    BY <2>2, <2>3, <2>4, <2>5 DEF InvokeNext
<1>2. QED
  BY <1>1, InvokeInvariant, PTL DEF InvokeSpec, RejectsWhileCooling

-----------------------------------------------------------------------------
(* Recovery                                                                *)

(* The agent is healthy, and so were the calls under way when they began.  *)
Undisturbed == healthy /\ \A r \in Invocations : call[r] # "exposed"

(* What the breaker still has before it: ticks, the first request after    *)
(* them, and successes.                                                    *)
Distance ==
  IF breaker.state = "closed" THEN 0
  ELSE IF breaker.state = "half_open" THEN SuccessThreshold - breaker.successes
  ELSE SuccessThreshold + 1 + (Timeout - breaker.age)

(* The steps that bring a breaker nearer to its closing: ticks, until the  *)
(* timeout has passed, a request then, and results when it is half-open.   *)
Helps ==
  \/ breaker.state = "open" /\ breaker.age < Timeout /\ TimePasses
  \/ breaker.state = "open" /\ \E r \in Invocations : Begin(r)
  \/ breaker.state = "half_open" /\ \E r \in Invocations : Finishes(r)

(* As long as the agent stays healthy, nothing brings its breaker farther  *)
(* from closing, and every tick, request or result that matters brings it  *)
(* nearer: what RecoversWhenHealthy rests on.                              *)
NeverFartherFromClosing ==
  [][Undisturbed /\ healthy' =>
       /\ Undisturbed'
       /\ Distance' <= Distance
       /\ Helps => Distance' < Distance]_invokeVars

(* record_success counts, and closes a half-open breaker in the end.       *)
LEMMA SuccessIsNearer ==
  ASSUME InvokeInv, breaker' = AfterSuccess(breaker)
  PROVE  /\ Distance' <= Distance
         /\ breaker.state = "half_open" => Distance' < Distance
<1>1. breaker \in Breakers /\ SuccessThreshold \in Nat \ {0} /\ Timeout \in Nat
  BY BreakerAssumption DEF InvokeInv, SoundBreaker, GoodBreaker
<1>2. CASE breaker.state # "half_open"
  <2>1. breaker' = [breaker EXCEPT !.results = Pushed(breaker.results, TRUE)]
    BY <1>2 DEF AfterSuccess
  <2>2. /\ breaker'.state = breaker.state /\ breaker'.age = breaker.age
        /\ breaker'.successes = breaker.successes
    BY <1>1, <2>1 DEF Breakers
  <2>3. QED
    BY <1>1, <1>2, <2>2 DEF Distance, Breakers
<1>3. CASE breaker.state = "half_open"
  <2>1. breaker.successes \in Nat /\ breaker.successes < SuccessThreshold
    BY <1>1, <1>3 DEF InvokeInv, SoundBreaker, SuccessesInARow, Breakers
  <2>2. CASE breaker.successes + 1 >= SuccessThreshold
    <3>1. breaker'.state = "closed"
      BY <1>3, <2>2 DEF AfterSuccess, ToClosed, NewBreaker
    <3>2. QED
      BY <1>1, <1>3, <2>1, <3>1 DEF Distance
  <2>3. CASE ~(breaker.successes + 1 >= SuccessThreshold)
    <3>1. breaker' = [breaker EXCEPT !.results = Pushed(breaker.results, TRUE),
                                     !.successes = breaker.successes + 1]
      BY <1>3, <2>3 DEF AfterSuccess
    <3>2. breaker'.state = "half_open" /\ breaker'.successes = breaker.successes + 1
      BY <1>1, <1>3, <3>1 DEF Breakers
    <3>3. QED
      BY <1>1, <1>3, <2>1, <3>2 DEF Distance
  <2>4. QED
    BY <2>2, <2>3
<1>4. QED
  BY <1>2, <1>3

(* The breaker that a request finds, and the clock.                        *)
LEMMA LookingIsNearer ==
  ASSUME InvokeInv,
         \/ breaker' = Observed(breaker)
         \/ breaker' = Older(breaker)
  PROVE  /\ Distance' <= Distance
         /\ breaker.state = "open" /\ breaker'.state # "open" => Distance' < Distance
         /\ breaker.state = "open" /\ breaker.age < Timeout /\ breaker' = Older(breaker)
              => Distance' < Distance
<1>1. /\ breaker \in Breakers /\ SuccessThreshold \in Nat \ {0} /\ Timeout \in Nat
      /\ breaker.age <= Timeout
  BY BreakerAssumption DEF InvokeInv, SoundBreaker, GoodBreaker
<1>2. /\ breaker.age \in Nat /\ breaker.successes \in Nat
      /\ breaker.state = "open" \/ breaker.state = "half_open" \/ breaker.state = "closed"
  BY <1>1 DEF Breakers, CircuitStates
<1>3. CASE breaker' = breaker
  <2>1. Distance' <= Distance
    BY <1>1, <1>2, <1>3 DEF Distance
  <2>2. breaker.state = "open" /\ breaker.age < Timeout => breaker # Older(breaker)
    <3>1. [breaker EXCEPT !.age = breaker.age + 1].age = breaker.age + 1
      BY <1>1 DEF Breakers
    <3>2. breaker.age + 1 # breaker.age
      BY <1>2
    <3>3. QED
      BY <3>1, <3>2 DEF Older
  <2>3. QED
    BY <1>3, <2>1, <2>2
<1>4. CASE breaker.state = "open" /\ breaker' = ToHalfOpen(breaker.results)
  <2>1. breaker'.state = "half_open" /\ breaker'.successes = 0
    BY <1>4 DEF ToHalfOpen
  <2>2. QED
    BY <1>1, <1>2, <1>4, <2>1 DEF Distance
<1>5. CASE /\ breaker.state = "open" /\ breaker.age < Timeout
           /\ breaker' = [breaker EXCEPT !.age = breaker.age + 1]
  <2>1. breaker'.state = "open" /\ breaker'.age = breaker.age + 1
    BY <1>1, <1>5 DEF Breakers
  <2>2. QED
    BY <1>1, <1>2, <1>5, <2>1 DEF Distance
<1>6. QED
  BY <1>3, <1>4, <1>5 DEF Observed, Older

(* An agent that is healthy again is in use again after its timeout and    *)
(* SuccessThreshold results, and its circuit does not open meanwhile, nor  *)
(* do late results set it back: the safety half of RecoversWhenHealthy     *)
(* (CircuitBreaker.state, record_success).                                 *)
THEOREM HealthBringsRecovery == InvokeSpec => NeverFartherFromClosing
<1> DEFINE Step == Undisturbed /\ healthy' =>
                     /\ Undisturbed'
                     /\ Distance' <= Distance
                     /\ Helps => Distance' < Distance
<1>1. InvokeInv /\ [InvokeNext]_invokeVars => [Step]_invokeVars
  <2> SUFFICES ASSUME InvokeInv, InvokeNext, Undisturbed, healthy'
               PROVE  /\ Undisturbed'
                      /\ Distance' <= Distance
                      /\ Helps => Distance' < Distance
    OBVIOUS
  <2>1. call \in [Invocations -> Calls]
    BY DEF InvokeInv, InvokeTypeOK
  <2>2. ASSUME NEW r \in Invocations, Begin(r)
        PROVE  /\ Undisturbed' /\ breaker' = Observed(breaker)
               /\ breaker'.state # "open"
    BY <2>1, <2>2 DEF Undisturbed, Begin, Admitting
  <2>3. ASSUME NEW r \in Invocations, Finishes(r)
        PROVE  Undisturbed' /\ breaker' = AfterSuccess(breaker)
    <3>1. PICK returned \in {"ok", "error", "raised"}, slow \in BOOLEAN : Finish(r, returned, slow)
      BY <2>3 DEF Finishes
    <3>2. call[r] = "well" /\ returned = "ok" /\ ~slow
      BY <2>1, <3>1 DEF Finish, Undisturbed, Calls
    <3>3. breaker' = AfterSuccess(breaker)
      BY <3>1, <3>2 DEF Finish, Records, Recorded
    <3>4. Undisturbed'
      BY <2>1, <3>1 DEF Finish, Undisturbed
    <3>5. QED
      BY <3>3, <3>4
  <2>4. ASSUME NEW r \in Invocations, Reject(r) \/ Cancelled(r)
        PROVE  Undisturbed' /\ breaker' = breaker
    BY <2>1, <2>4 DEF Reject, Cancelled, Undisturbed, invokeVars
  <2>5. ASSUME TimePasses \/ HealthChanges PROVE Undisturbed' /\ TimePasses
    BY <2>5 DEF TimePasses, HealthChanges, Undisturbed
  <2>6. Undisturbed' /\ Distance' <= Distance
    <3>1. \/ breaker' = Observed(breaker) \/ breaker' = Older(breaker)
          \/ breaker' = AfterSuccess(breaker) \/ breaker' = breaker
      BY <2>2, <2>3, <2>4, <2>5 DEF InvokeNext, TimePasses
    <3>2. breaker' = breaker => Distance' <= Distance
      <4>1. /\ breaker \in Breakers /\ SuccessThreshold \in Nat /\ Timeout \in Nat
        BY BreakerAssumption DEF InvokeInv, SoundBreaker, GoodBreaker
      <4>2. QED
        BY <4>1 DEF Distance, Breakers
    <3>3. Undisturbed'
      BY <2>2, <2>3, <2>4, <2>5 DEF InvokeNext
    <3>4. QED
      BY <3>1, <3>2, <3>3, SuccessIsNearer, LookingIsNearer
  <2>7. ASSUME Helps PROVE Distance' < Distance
    <3>1. CASE breaker.state = "open" /\ breaker.age < Timeout /\ TimePasses
      BY <3>1, LookingIsNearer DEF TimePasses
    <3>2. CASE breaker.state = "open" /\ \E r \in Invocations : Begin(r)
      BY <2>2, <3>2, LookingIsNearer
    <3>3. CASE breaker.state = "half_open" /\ \E r \in Invocations : Finishes(r)
      BY <2>3, <3>3, SuccessIsNearer
    <3>4. QED
      BY <2>7, <3>1, <3>2, <3>3 DEF Helps
  <2>8. QED
    BY <2>6, <2>7
<1>2. QED
  BY <1>1, InvokeInvariant, PTL DEF InvokeSpec, NeverFartherFromClosing
=============================================================================
