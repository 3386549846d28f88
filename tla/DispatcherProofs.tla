------------------------- MODULE DispatcherProofs -------------------------
(***************************************************************************)
(* Proofs about the Dispatcher, for any targets, candidates, limits and    *)
(* any number of requests: its permits and the order in which they are     *)
(* given, its breakers, its cache, what it raises, and why it ends.        *)
(***************************************************************************)
EXTENDS Dispatcher, BreakerProofs

-----------------------------------------------------------------------------
(* Sequences                                                               *)

Elements(s) == {s[i] : i \in DOMAIN s}

Distinct(s) == \A i, j \in DOMAIN s : s[i] = s[j] => i = j

(* WithoutOne gives a sequence of elements of the one it is given.         *)
LEMMA WithoutOneIsSeq ==
  ASSUME NEW S, NEW s \in Seq(S), NEW places, places \subseteq DOMAIN s
  PROVE  /\ WithoutOne(s, places) \in Seq(S)
         /\ Len(WithoutOne(s, places)) <= Len(s)
         /\ \A j \in DOMAIN WithoutOne(s, places) :
              \E k \in DOMAIN s : WithoutOne(s, places)[j] = s[k]
<1>1. CASE places = {}
  BY <1>1 DEF WithoutOne
<1>2. CASE places # {}
  <2> DEFINE i == CHOOSE p \in places : TRUE
  <2> DEFINE t == [j \in 1 .. (Len(s) - 1) |-> IF j < i THEN s[j] ELSE s[j + 1]]
  <2>1. i \in 1 .. Len(s)
    BY <1>2
  <2>2. WithoutOne(s, places) = t
    BY <1>2 DEF WithoutOne
  <2> HIDE DEF i
  <2>3. \A j \in 1 .. (Len(s) - 1) : \E k \in DOMAIN s : t[j] = s[k]
    BY <2>1
  <2>4. t \in Seq(S) /\ Len(t) = Len(s) - 1 /\ DOMAIN t = 1 .. (Len(s) - 1)
    BY <2>1
  <2>5. Len(s) \in Nat
    OBVIOUS
  <2> HIDE DEF t
  <2>6. Len(t) <= Len(s)
    BY <2>4, <2>5
  <2>7. QED
    BY <2>2, <2>3, <2>4, <2>6
<1>3. QED
  BY <1>1, <1>2

(* From a sequence without duplicates it takes the element looked for, and *)
(* nothing else.                                                           *)
LEMMA WithoutOneRemoves ==
  ASSUME NEW S, NEW s \in Seq(S), Distinct(s), NEW x
  PROVE  LET t == WithoutOne(s, {i \in DOMAIN s : s[i] = x})
         IN  Distinct(t) /\ Elements(t) = Elements(s) \ {x}
<1> DEFINE places == {i \in DOMAIN s : s[i] = x}
<1>1. CASE places = {}
  BY <1>1 DEF WithoutOne, Elements
<1>2. CASE places # {}
  <2>1. PICK p \in DOMAIN s : s[p] = x
    BY <1>2
  <2>2. places = {p}
    BY <2>1 DEF Distinct
  <2>3. (CHOOSE q \in places : TRUE) = p
    BY <2>2
  <2> DEFINE t == [j \in 1 .. (Len(s) - 1) |-> IF j < p THEN s[j] ELSE s[j + 1]]
  <2>4. WithoutOne(s, places) = t
    BY <1>2, <2>3 DEF WithoutOne
  <2>5. p \in 1 .. Len(s) /\ DOMAIN t = 1 .. (Len(s) - 1)
    BY <2>1
  <2>6. Distinct(t)
    BY <2>5 DEF Distinct
  <2>7. ASSUME NEW j \in DOMAIN t PROVE t[j] \in Elements(s) \ {x}
    BY <2>1, <2>5 DEF Distinct, Elements
  <2>8. ASSUME NEW k \in DOMAIN s, s[k] # x PROVE s[k] \in Elements(t)
    <3>1. CASE k < p
      <4>1. k \in DOMAIN t /\ t[k] = s[k]
        BY <2>5, <3>1
      <4>2. QED
        BY <4>1 DEF Elements
    <3>2. CASE k > p
      <4>1. k - 1 \in DOMAIN t /\ t[k - 1] = s[k]
        BY <2>5, <3>2
      <4>2. QED
        BY <4>1 DEF Elements
    <3>3. QED
      BY <2>1, <2>5, <2>8, <3>1, <3>2
  <2>9. Elements(t) = Elements(s) \ {x}
    BY <2>7, <2>8 DEF Elements
  <2>10. QED
    BY <2>4, <2>6, <2>9
<1>3. QED
  BY <1>1, <1>2

-----------------------------------------------------------------------------
(* The semaphore                                                           *)

(* A semaphore for which the requests in queued wait and those in holders  *)
(* have a permit, perhaps before it has woken the next one ...             *)
Loose(s, queued, holders) ==
  /\ s \in [permits: Nat, waiting: Seq(Requests), woken: SUBSET Requests]
  /\ holders \subseteq Requests
  /\ Distinct(s.waiting)
  /\ Elements(s.waiting) \cap s.woken = {}
  /\ Elements(s.waiting) \cup s.woken = queued
  /\ s.permits + Cardinality(s.woken) + Cardinality(holders) = MaxConcurrent

(* ... and afterwards.                                                     *)
Settled(s, queued, holders) ==
  /\ Loose(s, queued, holders)
  /\ s.permits > 0 /\ s.waiting # <<>> => s.woken # {}

(* Sets of requests are finite, and their sizes go up and down by one.     *)
LEMMA Sizes ==
  ASSUME NEW S, S \subseteq Requests, NEW r \in Requests
  PROVE  /\ Cardinality(S) \in Nat
         /\ r \notin S => Cardinality(S \cup {r}) = Cardinality(S) + 1
         /\ r \in S => Cardinality(S \ {r}) = Cardinality(S) - 1
<1>1. IsFiniteSet(S)
  BY FS_Subset, DispatcherAssumption
<1>2. QED
  BY <1>1, FS_CardinalityType, FS_AddElement, FS_RemoveElement

LEMMA WakeSettles ==
  ASSUME NEW s, NEW queued, NEW holders, Loose(s, queued, holders)
  PROVE  Settled(Wake(s), queued, holders)
<1>1. CASE s.waiting # <<>> /\ s.permits > 0
  <2> DEFINE h == Head(s.waiting)
             t == Tail(s.waiting)
  <2>1. s.waiting \in Seq(Requests) /\ s.permits \in Nat /\ s.woken \subseteq Requests
    BY DEF Loose
  <2>2. /\ h = s.waiting[1] /\ 1 \in DOMAIN s.waiting /\ h \in Requests
        /\ t \in Seq(Requests) /\ DOMAIN t = 1 .. (Len(s.waiting) - 1)
        /\ \A j \in DOMAIN t : j + 1 \in DOMAIN s.waiting /\ t[j] = s.waiting[j + 1]
    BY <1>1, <2>1
  <2>3. Wake(s) = [permits |-> s.permits - 1, waiting |-> t, woken |-> s.woken \cup {h}]
    BY <1>1 DEF Wake
  <2> HIDE DEF h, t
  <2>4. Distinct(t)
    <3> SUFFICES ASSUME NEW i \in DOMAIN t, NEW j \in DOMAIN t, t[i] = t[j] PROVE i = j
      BY DEF Distinct
    <3>1. i + 1 = j + 1
      BY <2>2 DEF Loose, Distinct
    <3>2. QED
      BY <2>2, <3>1
  <2>5. h \notin Elements(t)
    <3> SUFFICES ASSUME NEW j \in DOMAIN t, t[j] = h PROVE FALSE
      BY DEF Elements
    <3>1. j + 1 = 1
      BY <2>2 DEF Loose, Distinct
    <3>2. QED
      BY <2>2, <3>1
  <2>6. Elements(s.waiting) = Elements(t) \cup {h}
    <3>1. ASSUME NEW k \in DOMAIN s.waiting PROVE s.waiting[k] \in Elements(t) \cup {h}
      <4>1. CASE k = 1
        BY <2>2, <4>1
      <4>2. CASE k # 1
        <5>1. k - 1 \in DOMAIN t /\ t[k - 1] = s.waiting[k]
          BY <2>1, <2>2, <4>2
        <5>2. QED
          BY <5>1 DEF Elements
      <4>3. QED
        BY <4>1, <4>2
    <3>2. Elements(t) \cup {h} \subseteq Elements(s.waiting)
      BY <2>2 DEF Elements
    <3>3. QED
      BY <3>1, <3>2 DEF Elements
  <2>7. h \notin s.woken
    BY <2>6 DEF Loose
  <2>8. Cardinality(s.woken \cup {h}) = Cardinality(s.woken) + 1 /\ Cardinality(s.woken) \in Nat
    BY <2>1, <2>2, <2>7, Sizes
  <2>9. Cardinality(holders) \in Nat
    BY <2>2, Sizes DEF Loose
  <2>10. Loose(Wake(s), queued, holders)
    <3>1. (s.permits - 1) \in Nat
      BY <1>1, <2>1
    <3>2. (s.permits - 1) + Cardinality(s.woken \cup {h}) + Cardinality(holders) = MaxConcurrent
      BY <2>1, <2>8, <2>9 DEF Loose
    <3>3. Elements(t) \cap (s.woken \cup {h}) = {}
      BY <2>5, <2>6 DEF Loose
    <3>4. Elements(t) \cup (s.woken \cup {h}) = queued
      BY <2>6 DEF Loose
    <3>5. QED
      BY <2>1, <2>2, <2>3, <2>4, <3>1, <3>2, <3>3, <3>4 DEF Loose
  <2>11. Wake(s).woken # {}
    BY <2>3
  <2>12. QED
    BY <2>10, <2>11 DEF Settled
<1>2. CASE ~(s.waiting # <<>> /\ s.permits > 0)
  BY <1>2 DEF Wake, Settled
<1>3. QED
  BY <1>1, <1>2

(* A permit is given back.                                                 *)
LEMMA ReleasedSettles ==
  ASSUME NEW s, NEW queued, NEW holders, Loose(s, queued, holders),
         NEW r \in holders
  PROVE  Settled(Released(s), queued, holders \ {r})
<1> DEFINE more == [s EXCEPT !.permits = @ + 1]
<1>1. /\ more \in [permits: Nat, waiting: Seq(Requests), woken: SUBSET Requests]
      /\ more.permits = s.permits + 1 /\ more.waiting = s.waiting /\ more.woken = s.woken
      /\ s.permits \in Nat /\ holders \subseteq Requests /\ r \in Requests
      /\ s.woken \subseteq Requests
  BY DEF Loose
<1>2. Cardinality(holders \ {r}) = Cardinality(holders) - 1 /\ Cardinality(holders) \in Nat
      /\ Cardinality(s.woken) \in Nat
  BY <1>1, Sizes
<1> HIDE DEF more
<1>3. more.permits + Cardinality(more.woken) + Cardinality(holders \ {r}) = MaxConcurrent
  BY <1>1, <1>2 DEF Loose
<1>4. Loose(more, queued, holders \ {r})
  BY <1>1, <1>3 DEF Loose
<1>5. QED
  BY <1>4, WakeSettles DEF Released, more

(* A request takes a permit, or queues.                                    *)
LEMMA AcquiringSettles ==
  ASSUME NEW s, NEW queued, NEW holders, Settled(s, queued, holders),
         NEW r \in Requests, r \notin queued, r \notin holders
  PROVE  /\ Free(s) => Settled(Acquiring(s, r), queued, holders \cup {r})
         /\ ~Free(s) => Settled(Acquiring(s, r), queued \cup {r}, holders)
<1>1. /\ s \in [permits: Nat, waiting: Seq(Requests), woken: SUBSET Requests]
      /\ s.permits \in Nat /\ holders \subseteq Requests /\ s.woken \subseteq Requests
      /\ s.waiting \in Seq(Requests)
  BY DEF Settled, Loose
<1>2. /\ Cardinality(holders \cup {r}) = Cardinality(holders) + 1
      /\ Cardinality(holders) \in Nat /\ Cardinality(s.woken) \in Nat
  BY <1>1, Sizes
<1>3. CASE Free(s)
  <2> DEFINE a == [s EXCEPT !.permits = @ - 1]
  <2>1. Acquiring(s, r) = a
    BY <1>3 DEF Acquiring
  <2>2. /\ a \in [permits: Nat, waiting: Seq(Requests), woken: SUBSET Requests]
        /\ a.permits = s.permits - 1 /\ a.waiting = s.waiting /\ a.woken = s.woken
    BY <1>1, <1>3 DEF Free
  <2> HIDE DEF a
  <2>3. a.permits + Cardinality(a.woken) + Cardinality(holders \cup {r}) = MaxConcurrent
    BY <1>1, <1>2, <2>2 DEF Settled, Loose
  <2>4. Loose(a, queued, holders \cup {r})
    BY <1>1, <2>2, <2>3 DEF Settled, Loose
  <2>5. a.waiting = <<>>
    BY <1>3, <2>2 DEF Free
  <2>6. QED
    BY <1>3, <2>1, <2>4, <2>5 DEF Settled
<1>4. CASE ~Free(s)
  <2> DEFINE w == Append(s.waiting, r)
             a == [s EXCEPT !.waiting = w]
  <2>1. Acquiring(s, r) = a
    BY <1>4 DEF Acquiring
  <2>2. /\ w \in Seq(Requests) /\ DOMAIN w = 1 .. (Len(s.waiting) + 1)
        /\ w[Len(s.waiting) + 1] = r
        /\ \A i \in DOMAIN s.waiting : i \in DOMAIN w /\ w[i] = s.waiting[i]
    BY <1>1
  <2>3. /\ a \in [permits: Nat, waiting: Seq(Requests), woken: SUBSET Requests]
        /\ a.permits = s.permits /\ a.waiting = w /\ a.woken = s.woken
    BY <1>1, <2>2
  <2> HIDE DEF w, a
  <2>4. r \notin Elements(s.waiting) /\ r \notin s.woken
    BY DEF Settled, Loose
  <2>5. Elements(w) = Elements(s.waiting) \cup {r}
    BY <1>1, <2>2 DEF Elements
  <2>6. Distinct(w)
    BY <1>1, <2>2, <2>4 DEF Distinct, Elements, Settled, Loose
  <2>7. Elements(w) \cap s.woken = {} /\ Elements(w) \cup s.woken = queued \cup {r}
    BY <2>4, <2>5 DEF Settled, Loose
  <2>8. Loose(a, queued \cup {r}, holders)
    BY <1>1, <2>3, <2>6, <2>7 DEF Settled, Loose
  <2>9. a.permits > 0 => a.woken # {}
    BY <1>1, <1>4, <2>3 DEF Free, Settled
  <2>10. QED
    BY <1>4, <2>1, <2>8, <2>9 DEF Settled
<1>5. QED
  BY <1>3, <1>4

(* A request without the permit it was woken with.                         *)
LEMMA Asleep ==
  ASSUME NEW s, NEW queued, NEW holders, Loose(s, queued, holders),
         NEW r \in s.woken, r \notin holders
  PROVE  LET t == [s EXCEPT !.woken = @ \ {r}]
         IN  Loose(t, queued \ {r}, holders \cup {r})
<1> DEFINE t == [s EXCEPT !.woken = @ \ {r}]
<1>1. /\ t \in [permits: Nat, waiting: Seq(Requests), woken: SUBSET Requests]
      /\ t.permits = s.permits /\ t.waiting = s.waiting /\ t.woken = s.woken \ {r}
      /\ s.permits \in Nat /\ holders \subseteq Requests /\ s.woken \subseteq Requests
      /\ r \in Requests
  BY DEF Loose
<1>2. /\ Cardinality(s.woken \ {r}) = Cardinality(s.woken) - 1
      /\ Cardinality(holders \cup {r}) = Cardinality(holders) + 1
      /\ Cardinality(holders) \in Nat /\ Cardinality(s.woken) \in Nat
  BY <1>1, Sizes
<1> HIDE DEF t
<1>3. t.permits + Cardinality(t.woken) + Cardinality(holders \cup {r}) = MaxConcurrent
  BY <1>1, <1>2 DEF Loose
<1>4. Elements(s.waiting) \cup (s.woken \ {r}) = queued \ {r}
  BY <1>1 DEF Loose
<1>5. Loose(t, queued \ {r}, holders \cup {r})
  BY <1>1, <1>3, <1>4 DEF Loose
<1>6. QED
  BY <1>5 DEF t

(* A woken request runs, and takes the permit.                             *)
LEMMA AcquiredSettles ==
  ASSUME NEW s, NEW queued, NEW holders, Loose(s, queued, holders),
         NEW r \in s.woken, r \notin holders
  PROVE  Settled(Wake([s EXCEPT !.woken = @ \ {r}]), queued \ {r}, holders \cup {r})
BY Asleep, WakeSettles

(* A request that is cancelled leaves the queue, woken or not.             *)
LEMMA LeavingSettles ==
  ASSUME NEW s, NEW queued, NEW holders, Settled(s, queued, holders),
         NEW r, r \notin holders
  PROVE  Settled(Leaving(s, r), queued \ {r}, holders)
<1>1. CASE r \in s.woken
  <2> DEFINE t == [s EXCEPT !.woken = @ \ {r}]
  <2>1. Loose(t, queued \ {r}, holders \cup {r})
    BY <1>1, Asleep DEF Settled
  <2>2. (holders \cup {r}) \ {r} = holders
    OBVIOUS
  <2> HIDE DEF t
  <2>3. Settled(Released(t), queued \ {r}, holders)
    BY <2>1, <2>2, ReleasedSettles
  <2>4. QED
    BY <1>1, <2>3 DEF Leaving, t
<1>2. CASE r \notin s.woken
  <2> DEFINE w == WithoutOne(s.waiting, {i \in DOMAIN s.waiting : s.waiting[i] = r})
             t == [s EXCEPT !.waiting = w]
  <2>1. s.waiting \in Seq(Requests) /\ Distinct(s.waiting)
    BY DEF Settled, Loose
  <2>2. w \in Seq(Requests) /\ Len(w) <= Len(s.waiting)
    <3>1. {i \in DOMAIN s.waiting : s.waiting[i] = r} \subseteq DOMAIN s.waiting
      OBVIOUS
    <3>2. QED
      BY <2>1, <3>1, WithoutOneIsSeq
  <2>3. Distinct(w) /\ Elements(w) = Elements(s.waiting) \ {r}
    BY <2>1, WithoutOneRemoves
  <2>4. Leaving(s, r) = t
    BY <1>2 DEF Leaving
  <2> HIDE DEF w
  <2>5. /\ t \in [permits: Nat, waiting: Seq(Requests), woken: SUBSET Requests]
        /\ t.permits = s.permits /\ t.waiting = w /\ t.woken = s.woken
    BY <2>2 DEF Settled, Loose
  <2> HIDE DEF t
  <2>6. Elements(w) \cap s.woken = {} /\ Elements(w) \cup s.woken = queued \ {r}
    BY <1>2, <2>3 DEF Settled, Loose
  <2>7. Loose(t, queued \ {r}, holders)
    BY <2>3, <2>5, <2>6 DEF Settled, Loose
  <2>8. w # <<>> => s.waiting # <<>>
    BY <2>1, <2>2
  <2>9. QED
    BY <2>4, <2>5, <2>7, <2>8 DEF Settled
<1>3. QED
  BY <1>1, <1>2

-----------------------------------------------------------------------------
(* The breakers of the targets                                             *)

(* A table with one sound breaker per target.                              *)
AllSound(brk) ==
  /\ brk \in [Targets -> Breakers]
  /\ \A t \in Targets : SoundBreaker(brk[t])

LEMMA SoundIsBreaker == ASSUME NEW b, SoundBreaker(b) PROVE b \in Breakers
BY DEF SoundBreaker, GoodBreaker

(* The three ways in which a dispatch changes a breaker.                   *)
LEMMA TableSteps ==
  ASSUME NEW brk, NEW x, AllSound(brk)
  PROVE  /\ AllSound([brk EXCEPT ![x] = Observed(@)])
         /\ AllSound([brk EXCEPT ![x] = AfterSuccess(@)])
         /\ AllSound([brk EXCEPT ![x] = AfterFailure(@)])
<1>1. AllSound([brk EXCEPT ![x] = Observed(@)])
  <2>1. x \in Targets => SoundBreaker(Observed(brk[x]))
    BY ObservedSound DEF AllSound
  <2>2. QED
    BY <2>1, SoundIsBreaker DEF AllSound
<1>2. AllSound([brk EXCEPT ![x] = AfterSuccess(@)])
  <2>1. x \in Targets => SoundBreaker(AfterSuccess(brk[x]))
    BY SuccessSound DEF AllSound
  <2>2. QED
    BY <2>1, SoundIsBreaker DEF AllSound
<1>3. AllSound([brk EXCEPT ![x] = AfterFailure(@)])
  <2>1. x \in Targets => SoundBreaker(AfterFailure(brk[x]))
    BY FailureSound DEF AllSound
  <2>2. QED
    BY <2>1, SoundIsBreaker DEF AllSound
<1>4. QED
  BY <1>1, <1>2, <1>3

(* Going on to the next candidate only lets breakers time out.             *)
LEMMA GoOnSound ==
  ASSUME NEW r, NEW cs, NEW k, NEW brk, NEW s, AllSound(brk), GoOn(r, cs, k, brk, s)
  PROVE  AllSound(breakers')
<1>1. ASSUME NEW j, breakers' = [brk EXCEPT ![cs[j]] = Observed(@)]
      PROVE  AllSound(breakers')
  BY <1>1, TableSteps
<1>2. breakers' = brk \/ \E j : breakers' = [brk EXCEPT ![cs[j]] = Observed(@)]
  BY DEF GoOn
<1>3. QED
  BY <1>1, <1>2

LEMMA SoundInit == Init => AllSound(breakers)
BY NewBreakerSound, SoundIsBreaker DEF Init, AllSound

LEMMA SoundNext == AllSound(breakers) /\ [Next]_vars => AllSound(breakers')
<1> SUFFICES ASSUME AllSound(breakers), [Next]_vars PROVE AllSound(breakers')
  OBVIOUS
<1>1. ASSUME NEW r \in Requests, Start(r) PROVE AllSound(breakers')
  BY <1>1, GoOnSound DEF Start
<1>2. ASSUME NEW r \in Requests, Check(r) PROVE AllSound(breakers')
  <2>1. PICK t, seen, cs :
          /\ seen = [breakers EXCEPT ![t] = Observed(@)]
          /\ breakers' = seen \/ GoOn(r, cs, 0, seen, sem)
    BY <1>2 DEF Check
  <2>2. AllSound(seen)
    BY <2>1, TableSteps
  <2>3. QED
    BY <2>1, <2>2, GoOnSound
<1>3. ASSUME NEW r \in Requests, Succeeds(r) PROVE AllSound(breakers')
  BY <1>3, TableSteps DEF Succeeds
<1>4. ASSUME NEW r \in Requests, Fails(r) \/ TimedOut(r) PROVE AllSound(breakers')
  <2>1. PICK brk : /\ brk = [breakers EXCEPT ![Target(r)] = AfterFailure(@)]
                   /\ GoOn(r, candidates[r], at[r], brk, Released(sem))
    BY <1>4 DEF Fails, TimedOut, NextAfterFailure
  <2>2. AllSound(brk)
    BY <2>1, TableSteps
  <2>3. QED
    BY <2>1, <2>2, GoOnSound
<1>5. ASSUME NEW r \in Requests,
             \/ Acquired(r) \/ TimesOut(r) \/ Raises(r) \/ Unwound(r)
             \/ CancelWaiting(r) \/ CancelInvoking(r)
      PROVE  AllSound(breakers')
  BY <1>5 DEF Acquired, TimesOut, Raises, Unwound, CancelWaiting, CancelInvoking
<1>6. ASSUME Tick PROVE AllSound(breakers')
  BY <1>6, OlderSound, SoundIsBreaker DEF Tick, AllSound
<1>7. ASSUME Expire PROVE AllSound(breakers')
  BY <1>7 DEF Expire
<1>8. ASSUME UNCHANGED vars PROVE AllSound(breakers')
  BY <1>8 DEF vars
<1>9. ASSUME NEW r \in Requests,
             \/ Start(r) \/ Check(r) \/ Acquired(r) \/ InvokeEnds(r)
             \/ CancelWaiting(r) \/ CancelInvoking(r)
      PROVE  AllSound(breakers')
  BY <1>1, <1>2, <1>3, <1>4, <1>5, <1>9 DEF InvokeEnds
<1>10. QED
  BY <1>6, <1>7, <1>8, <1>9 DEF Next

-----------------------------------------------------------------------------
(* The requests                                                            *)

Queued == {r \in Requests : pc[r] = "queued"}

(* The semaphore knows those that wait for a permit, and has given one to  *)
(* each of those that invoke.                                              *)
SemSettled == Settled(sem, Queued, Holders)

(* What is cached is the result of a request that succeeded.               *)
CacheGenuine ==
  \A i \in DOMAIN cache :
    pc[cache[i].by] = "succeeded" /\ KeyOf[cache[i].by] = cache[i].key

(* DegradedIsGenuine, of a request that there is.                          *)
DegradedServed ==
  \A r \in Requests : pc[r] = "degraded" =>
    /\ servedBy[r] \in Requests
    /\ pc[servedBy[r]] = "succeeded"
    /\ KeyOf[servedBy[r]] = KeyOf[r]

(* A request that goes to another point of dispatch.                       *)
LEMMA EndsMoves ==
  ASSUME TypeOK, NEW r \in Requests, NEW how \in Points, Ends(r, how)
  PROVE  /\ pc' \in [Requests -> Points]
         /\ pc'[r] = how
         /\ \A q \in Requests : q # r => pc'[q] = pc[q]
         /\ Queued' = IF how = "queued" THEN Queued \cup {r} ELSE Queued \ {r}
         /\ Holders' = IF how \in {"invoking", "timing_out", "unwinding"}
                       THEN Holders \cup {r} ELSE Holders \ {r}
<1>1. /\ pc' \in [Requests -> Points]
      /\ pc'[r] = how
      /\ \A q \in Requests : q # r => pc'[q] = pc[q]
  BY DEF TypeOK, Ends
<1>2. Queued' = IF how = "queued" THEN Queued \cup {r} ELSE Queued \ {r}
  BY <1>1 DEF Queued
<1>3. Holders' = IF how \in {"invoking", "timing_out", "unwinding"}
                 THEN Holders \cup {r} ELSE Holders \ {r}
  BY <1>1 DEF Holders
<1>4. QED
  BY <1>1, <1>2, <1>3

-----------------------------------------------------------------------------
(* Permits                                                                 *)

LEMMA GoOnSettles ==
  ASSUME TypeOK, NEW r \in Requests, NEW cs, NEW k, NEW brk, NEW s,
         Settled(s, Queued \ {r}, Holders \ {r}), GoOn(r, cs, k, brk, s)
  PROVE  SemSettled'
<1>1. CASE sem' = Acquiring(s, r) /\ Ends(r, IF Free(s) THEN "invoking" ELSE "queued")
  <2>1. /\ Free(s) => Settled(sem', Queued \ {r}, (Holders \ {r}) \cup {r})
        /\ ~Free(s) => Settled(sem', (Queued \ {r}) \cup {r}, Holders \ {r})
    BY <1>1, AcquiringSettles
  <2>2. CASE Free(s)
    <3>1. Ends(r, "invoking") /\ "invoking" \in Points
      BY <1>1, <2>2 DEF Points
    <3>2. Queued' = Queued \ {r} /\ Holders' = (Holders \ {r}) \cup {r}
      BY <3>1, EndsMoves
    <3>3. QED
      BY <2>1, <2>2, <3>2 DEF SemSettled
  <2>3. CASE ~Free(s)
    <3>1. Ends(r, "queued") /\ "queued" \in Points
      BY <1>1, <2>3 DEF Points
    <3>2. Queued' = (Queued \ {r}) \cup {r} /\ Holders' = Holders \ {r}
      BY <3>1, EndsMoves
    <3>3. QED
      BY <2>1, <2>3, <3>2 DEF SemSettled
  <2>4. QED
    BY <2>2, <2>3
<1>2. CASE sem' = s /\ FallBack(r)
  <2>1. PICK how \in {"failed", "degraded"} : Ends(r, how)
    BY <1>2 DEF FallBack
  <2>2. how \in Points
    BY DEF Points, Ended
  <2>3. Queued' = Queued \ {r} /\ Holders' = Holders \ {r}
    BY <2>1, <2>2, EndsMoves
  <2>4. QED
    BY <1>2, <2>3 DEF SemSettled
<1>3. QED
  BY <1>1, <1>2 DEF GoOn

LEMMA SemNext == TypeOK /\ SemSettled /\ [Next]_vars => SemSettled'
<1> SUFFICES ASSUME TypeOK, SemSettled, [Next]_vars PROVE SemSettled'
  OBVIOUS
<1>1. ASSUME NEW r \in Requests, r \notin Queued, r \notin Holders
      PROVE  Queued \ {r} = Queued /\ Holders \ {r} = Holders
  BY <1>1
<1>2. ASSUME NEW r \in Requests, r \in Holders
      PROVE  Settled(Released(sem), Queued \ {r}, Holders \ {r})
  <2>1. Queued \ {r} = Queued
    BY <1>2 DEF Queued, Holders
  <2>2. QED
    BY <1>2, <2>1, ReleasedSettles DEF SemSettled, Settled
<1>3. ASSUME NEW r \in Requests, Start(r) \/ Check(r) PROVE SemSettled'
  <2>1. Queued \ {r} = Queued /\ Holders \ {r} = Holders
    BY <1>1, <1>3 DEF Start, Check, Queued, Holders
  <2>2. CASE \E cs, brk : GoOn(r, cs, 0, brk, sem)
    BY <2>1, <2>2, GoOnSettles DEF SemSettled
  <2>3. CASE Ends(r, "filtering") /\ UNCHANGED sem
    BY <2>1, <2>3, EndsMoves DEF SemSettled, Points
  <2>4. CASE UNCHANGED <<pc, sem>>
    BY <2>4 DEF SemSettled, Queued, Holders
  <2>5. QED
    BY <1>3, <2>2, <2>3, <2>4 DEF Start, Check
<1>4. ASSUME NEW r \in Requests, Acquired(r) PROVE SemSettled'
  <2>1. r \in sem.woken /\ r \notin Holders /\ Ends(r, "invoking") /\ "invoking" \in Points
        /\ sem' = Wake([sem EXCEPT !.woken = @ \ {r}])
    BY <1>4 DEF Acquired, Holders, Points
  <2>2. Queued' = Queued \ {r} /\ Holders' = Holders \cup {r}
    BY <2>1, EndsMoves
  <2>3. QED
    BY <2>1, <2>2, AcquiredSettles DEF SemSettled, Settled
<1>5. ASSUME NEW r \in Requests, Succeeds(r) \/ Raises(r) \/ Unwound(r) PROVE SemSettled'
  <2>1. r \in Holders /\ sem' = Released(sem)
    BY <1>5 DEF Succeeds, Raises, Unwound, Holders
  <2>2. PICK how \in {"succeeded", "raised", "cancelled"} : Ends(r, how)
    BY <1>5 DEF Succeeds, Raises, Unwound
  <2>3. Queued' = Queued \ {r} /\ Holders' = Holders \ {r}
    BY <2>2, EndsMoves DEF Points, Ended
  <2>4. QED
    BY <1>2, <2>1, <2>3 DEF SemSettled
<1>6. ASSUME NEW r \in Requests, Fails(r) \/ TimedOut(r) PROVE SemSettled'
  <2>1. r \in Holders /\ NextAfterFailure(r)
    BY <1>6 DEF Fails, TimedOut, Holders
  <2>2. Settled(Released(sem), Queued \ {r}, Holders \ {r})
    BY <1>2, <2>1
  <2>3. QED
    BY <2>1, <2>2, GoOnSettles DEF NextAfterFailure
<1>7. ASSUME NEW r \in Requests, TimesOut(r) \/ CancelInvoking(r) PROVE SemSettled'
  <2>1. r \in Holders /\ r \notin Queued /\ sem' = sem
    BY <1>7 DEF TimesOut, CancelInvoking, Holders, Queued
  <2>2. PICK how \in {"timing_out", "unwinding"} : Ends(r, how)
    BY <1>7 DEF TimesOut, CancelInvoking
  <2>3. Queued' = Queued \ {r} /\ Holders' = Holders \cup {r}
    BY <2>2, EndsMoves DEF Points
  <2>4. Queued' = Queued /\ Holders' = Holders
    BY <2>1, <2>3
  <2>5. QED
    BY <2>1, <2>4 DEF SemSettled
<1>8. ASSUME NEW r \in Requests, CancelWaiting(r) PROVE SemSettled'
  <2>1. r \notin Holders /\ Ends(r, "cancelled") /\ "cancelled" \in Points
        /\ sem' = Leaving(sem, r)
    BY <1>8 DEF CancelWaiting, Holders, Points, Ended
  <2>2. Queued' = Queued \ {r} /\ Holders' = Holders
    BY <2>1, EndsMoves
  <2>3. QED
    BY <2>1, <2>2, LeavingSettles DEF SemSettled
<1>9. ASSUME Tick \/ Expire \/ UNCHANGED vars PROVE SemSettled'
  BY <1>9 DEF Tick, Expire, vars, SemSettled, Queued, Holders
<1>10. QED
  BY <1>3, <1>4, <1>5, <1>6, <1>7, <1>8, <1>9 DEF Next, InvokeEnds

-----------------------------------------------------------------------------
(* The cache                                                               *)

CacheTyped(c) == c \in Seq(CacheEntry) /\ Len(c) <= CacheSize

(* Every entry of the one is an entry of the other.                        *)
EntriesFrom(c, d) == \A i \in DOMAIN c : \E k \in DOMAIN d : c[i] = d[k]

LEMMA WithoutEntries ==
  ASSUME NEW c \in Seq(CacheEntry), NEW key
  PROVE  /\ Without(c, key) \in Seq(CacheEntry) /\ Len(Without(c, key)) <= Len(c)
         /\ EntriesFrom(Without(c, key), c)
<1> DEFINE places == {i \in DOMAIN c : c[i].key = key}
           w == WithoutOne(c, places)
<1>1. places \subseteq DOMAIN c /\ Without(c, key) = w
  BY DEF Without
<1> HIDE DEF places
<1>2. /\ w \in Seq(CacheEntry)
      /\ Len(w) <= Len(c)
      /\ \A j \in DOMAIN w : \E k \in DOMAIN c : w[j] = c[k]
  BY <1>1, WithoutOneIsSeq
<1> HIDE DEF w
<1>3. QED
  BY <1>1, <1>2 DEF EntriesFrom

(* put keeps the bound, and adds the request's own entry only.             *)
LEMMA PutEntries ==
  ASSUME NEW c, CacheTyped(c), NEW r \in Requests
  PROVE  /\ CacheTyped(Put(c, r))
         /\ \A i \in DOMAIN Put(c, r) :
              \/ \E k \in DOMAIN c : Put(c, r)[i] = c[k]
              \/ Put(c, r)[i].by = r /\ Put(c, r)[i].key = KeyOf[r]
<1> DEFINE room == IF Len(c) >= CacheSize THEN Tail(c) ELSE c
           w == Without(room, KeyOf[r])
           e == [key |-> KeyOf[r], by |-> r, fresh |-> TRUE]
<1>1. CacheSize \in Nat \ {0} /\ c \in Seq(CacheEntry) /\ Len(c) \in Nat /\ Len(c) <= CacheSize
  BY DispatcherAssumption DEF CacheTyped
<1>2. room \in Seq(CacheEntry) /\ Len(room) <= CacheSize - 1 /\ EntriesFrom(room, c)
  <2>1. CASE Len(c) >= CacheSize
    <3>1. room = Tail(c) /\ Len(c) >= 1
      BY <1>1, <2>1
    <3>2. /\ Tail(c) \in Seq(CacheEntry) /\ Len(Tail(c)) = Len(c) - 1
          /\ \A i \in DOMAIN Tail(c) : i + 1 \in DOMAIN c /\ Tail(c)[i] = c[i + 1]
      BY <1>1, <3>1
    <3>3. EntriesFrom(Tail(c), c)
      BY <3>2 DEF EntriesFrom
    <3>4. Len(c) - 1 <= CacheSize - 1
      BY <1>1
    <3>5. QED
      BY <3>1, <3>2, <3>3, <3>4
  <2>2. CASE ~(Len(c) >= CacheSize)
    BY <1>1, <2>2 DEF EntriesFrom
  <2>3. QED
    BY <2>1, <2>2
<1> HIDE DEF room
<1>3. w \in Seq(CacheEntry) /\ Len(w) <= Len(room) /\ EntriesFrom(w, room)
  BY <1>2, WithoutEntries
<1>4. e \in CacheEntry /\ e.by = r /\ e.key = KeyOf[r]
  BY DEF CacheEntry
<1>5. Put(c, r) = Append(w, e)
  BY DEF Put, room
<1>6. EntriesFrom(w, c)
  BY <1>2, <1>3 DEF EntriesFrom
<1> HIDE DEF w, e
<1>7. /\ Append(w, e) \in Seq(CacheEntry) /\ Len(Append(w, e)) = Len(w) + 1
      /\ DOMAIN Append(w, e) = 1 .. (Len(w) + 1) /\ Append(w, e)[Len(w) + 1] = e
      /\ \A i \in 1 .. Len(w) : i \in DOMAIN w /\ Append(w, e)[i] = w[i]
  BY <1>3, <1>4
<1>8. Len(w) \in Nat /\ Len(room) \in Nat
  BY <1>2, <1>3
<1>9. CacheTyped(Put(c, r))
  BY <1>1, <1>2, <1>3, <1>5, <1>7, <1>8 DEF CacheTyped
<1>10. ASSUME NEW i \in DOMAIN Put(c, r)
       PROVE  \/ \E k \in DOMAIN c : Put(c, r)[i] = c[k]
              \/ Put(c, r)[i].by = r /\ Put(c, r)[i].key = KeyOf[r]
  <2>1. i \in 1 .. (Len(w) + 1)
    BY <1>5, <1>7
  <2>2. CASE i = Len(w) + 1
    BY <1>4, <1>5, <1>7, <2>2
  <2>3. CASE i # Len(w) + 1
    <3>1. i \in DOMAIN w /\ Put(c, r)[i] = w[i]
      BY <1>5, <1>7, <1>8, <2>1, <2>3
    <3>2. QED
      BY <1>6, <3>1 DEF EntriesFrom
  <2>4. QED
    BY <2>2, <2>3
<1>11. QED
  BY <1>9, <1>10

LEMMA AfterGetEntries ==
  ASSUME CacheTyped(cache), NEW r
  PROVE  CacheTyped(AfterGet(r)) /\ EntriesFrom(AfterGet(r), cache)
<1>1. CASE Hit(r) = {}
  <2>1. AfterGet(r) = Without(cache, KeyOf[r]) /\ cache \in Seq(CacheEntry)
    BY <1>1 DEF AfterGet, CacheTyped
  <2>2. /\ AfterGet(r) \in Seq(CacheEntry) /\ Len(AfterGet(r)) <= Len(cache)
        /\ EntriesFrom(AfterGet(r), cache)
    BY <2>1, WithoutEntries
  <2>3. Len(AfterGet(r)) \in Nat /\ Len(cache) \in Nat /\ CacheSize \in Nat
    BY <2>1, <2>2, DispatcherAssumption
  <2>4. QED
    BY <2>2, <2>3 DEF CacheTyped
<1>2. CASE Hit(r) # {}
  BY <1>2 DEF AfterGet, EntriesFrom
<1>3. QED
  BY <1>1, <1>2

(* What a step does to the cache: nothing, a lookup or an expiry takes     *)
(* entries away or ages them, and a success adds its own.                  *)
Ages(c, d) ==
  \A i \in DOMAIN c : \E k \in DOMAIN d : c[i].by = d[k].by /\ c[i].key = d[k].key

LEMMA ExpireAges ==
  ASSUME CacheTyped(cache), Expire
  PROVE  CacheTyped(cache') /\ Ages(cache', cache)
<1>1. PICK i \in DOMAIN cache : cache' = [cache EXCEPT ![i].fresh = FALSE]
  BY DEF Expire
<1>2. cache \in Seq(CacheEntry) /\ cache[i] \in CacheEntry
  BY <1>1 DEF CacheTyped
<1>3. cache' = [cache EXCEPT ![i] = [cache[i] EXCEPT !.fresh = FALSE]]
  BY <1>1
<1>4. [cache[i] EXCEPT !.fresh = FALSE] \in CacheEntry
      /\ [cache[i] EXCEPT !.fresh = FALSE].by = cache[i].by
      /\ [cache[i] EXCEPT !.fresh = FALSE].key = cache[i].key
  BY <1>2 DEF CacheEntry
<1>5. cache' \in Seq(CacheEntry) /\ Len(cache') = Len(cache) /\ DOMAIN cache' = DOMAIN cache
  BY <1>2, <1>3, <1>4
<1>6. \A j \in DOMAIN cache : cache'[j].by = cache[j].by /\ cache'[j].key = cache[j].key
  BY <1>2, <1>3, <1>4
<1>7. QED
  BY <1>5, <1>6 DEF CacheTyped, Ages

-----------------------------------------------------------------------------
(* Types                                                                   *)

(* Going on to the next candidate.                                         *)
LEMMA GoOnTyped ==
  ASSUME TypeOK, NEW r \in Requests, NEW cs \in Seq(Targets), NEW k, NEW brk, NEW s,
         GoOn(r, cs, k, brk, s)
  PROVE  /\ pc' \in [Requests -> Points]
         /\ \A q \in Requests : q # r => pc'[q] = pc[q] /\ at'[q] = at[q]
         /\ at' \in [Requests -> Nat]
         /\ servedBy' \in [Requests -> Requests \cup {NoRequest}]
         /\ CacheTyped(cache')
         /\ \/ pc'[r] \in {"invoking", "queued"} /\ at'[r] \in 1 .. Len(cs)
            \/ pc'[r] \in {"failed", "degraded"}
<1>1. CASE \E j \in Attempts(cs) :
             /\ at' = [at EXCEPT ![r] = j]
             /\ Ends(r, IF Free(s) THEN "invoking" ELSE "queued")
             /\ UNCHANGED <<servedBy, cache>>
  <2>1. PICK j \in Attempts(cs) :
          /\ at' = [at EXCEPT ![r] = j]
          /\ Ends(r, IF Free(s) THEN "invoking" ELSE "queued")
          /\ UNCHANGED <<servedBy, cache>>
    BY <1>1
  <2>2. j \in 1 .. Len(cs) /\ j \in Nat
    BY DispatcherAssumption DEF Attempts
  <2>3. PICK how \in {"invoking", "queued"} : Ends(r, how)
    BY <2>1
  <2>4. how \in Points
    BY DEF Points
  <2>5. /\ pc' \in [Requests -> Points] /\ pc'[r] \in {"invoking", "queued"}
        /\ \A q \in Requests : q # r => pc'[q] = pc[q]
    BY <2>3, <2>4, EndsMoves
  <2>6. /\ at' \in [Requests -> Nat] /\ at'[r] = j
        /\ \A q \in Requests : q # r => at'[q] = at[q]
    BY <2>1, <2>2 DEF TypeOK
  <2>7. servedBy' \in [Requests -> Requests \cup {NoRequest}] /\ CacheTyped(cache')
    BY <2>1 DEF TypeOK, CacheTyped
  <2>8. QED
    BY <2>2, <2>5, <2>6, <2>7
<1>2. CASE FallBack(r) /\ UNCHANGED at
  <2>1. PICK how \in {"failed", "degraded"} : Ends(r, how)
    BY <1>2 DEF FallBack
  <2>2. how \in Points
    BY DEF Points, Ended
  <2>3. /\ pc' \in [Requests -> Points] /\ pc'[r] \in {"failed", "degraded"}
        /\ \A q \in Requests : q # r => pc'[q] = pc[q]
    BY <2>1, <2>2, EndsMoves
  <2>4. CacheTyped(cache')
    BY <1>2, AfterGetEntries DEF FallBack, TypeOK, CacheTyped
  <2>5. ASSUME NEW i \in Hit(r) PROVE cache[i].by \in Requests
    <3>1. i \in DOMAIN cache /\ cache \in Seq(CacheEntry)
      BY DEF TypeOK, Hit
    <3>2. cache[i] \in CacheEntry
      BY <3>1
    <3>3. QED
      BY <3>2 DEF CacheEntry
  <2>6. servedBy' \in [Requests -> Requests \cup {NoRequest}]
    BY <1>2, <2>5 DEF FallBack, TypeOK
  <2>7. at' \in [Requests -> Nat] /\ at' = at
    BY <1>2 DEF TypeOK
  <2>8. QED
    BY <2>3, <2>4, <2>6, <2>7
<1>3. QED
  BY <1>1, <1>2 DEF GoOn

(* What the requests' own variables and the cache keep.                    *)
Trying(q) == pc[q] \in {"queued", "invoking", "timing_out", "unwinding"}

RequestsTyped ==
  /\ pc \in [Requests -> Points]
  /\ todo \in [Requests -> Seq(Targets)]
  /\ candidates \in [Requests -> Seq(Targets)]
  /\ at \in [Requests -> Nat]
  /\ servedBy \in [Requests -> Requests \cup {NoRequest}]
  /\ CacheTyped(cache)
  /\ \A q \in Requests : Trying(q) => at[q] \in 1 .. Len(candidates[q])
  /\ \A q \in Requests : pc[q] = "filtering" => todo[q] # <<>>

LEMMA RequestsNext == TypeOK /\ RequestsTyped /\ [Next]_vars => RequestsTyped'
<1> SUFFICES ASSUME TypeOK, RequestsTyped, [Next]_vars PROVE RequestsTyped'
  OBVIOUS
<1>1. ASSUME NEW r \in Requests, NEW cs \in Seq(Targets), NEW k, NEW brk, NEW s,
             GoOn(r, cs, k, brk, s),
             candidates' \in [Requests -> Seq(Targets)], candidates'[r] = cs,
             \A q \in Requests : q # r => candidates'[q] = candidates[q] /\ todo'[q] = todo[q],
             todo' \in [Requests -> Seq(Targets)]
      PROVE  RequestsTyped'
  <2>1. /\ pc' \in [Requests -> Points] /\ at' \in [Requests -> Nat]
        /\ servedBy' \in [Requests -> Requests \cup {NoRequest}] /\ CacheTyped(cache')
        /\ \A q \in Requests : q # r => pc'[q] = pc[q] /\ at'[q] = at[q]
        /\ \/ pc'[r] \in {"invoking", "queued"} /\ at'[r] \in 1 .. Len(cs)
           \/ pc'[r] \in {"failed", "degraded"}
    BY <1>1, GoOnTyped
  <2>2. \A q \in Requests : Trying(q)' => at'[q] \in 1 .. Len(candidates'[q])
    BY <1>1, <2>1 DEF RequestsTyped, Trying
  <2>3. \A q \in Requests : pc'[q] = "filtering" => todo'[q] # <<>>
    BY <1>1, <2>1 DEF RequestsTyped
  <2>4. QED
    BY <1>1, <2>1, <2>2, <2>3 DEF RequestsTyped
<1>2. ASSUME NEW r \in Requests, Start(r) PROVE RequestsTyped'
  <2>1. todo[r] \in Seq(Targets)
    BY DEF RequestsTyped
  <2>2. CASE Ends(r, "filtering") /\ UNCHANGED <<todo, candidates, at, servedBy, cache>> /\ todo[r] # <<>>
    <3>1. /\ pc' \in [Requests -> Points] /\ pc'[r] = "filtering"
          /\ \A q \in Requests : q # r => pc'[q] = pc[q]
      BY <2>2, EndsMoves DEF Points
    <3>2. \A q \in Requests : Trying(q)' => at'[q] \in 1 .. Len(candidates'[q])
      BY <2>2, <3>1 DEF RequestsTyped, Trying
    <3>3. \A q \in Requests : pc'[q] = "filtering" => todo'[q] # <<>>
      BY <2>2, <3>1 DEF RequestsTyped
    <3>4. QED
      BY <2>2, <3>1, <3>2, <3>3 DEF RequestsTyped
  <2>3. CASE /\ GoOn(r, todo[r], 0, breakers, sem)
             /\ candidates' = [candidates EXCEPT ![r] = todo[r]]
             /\ todo' = [todo EXCEPT ![r] = <<>>]
    <3>1. /\ candidates' \in [Requests -> Seq(Targets)] /\ candidates'[r] = todo[r]
          /\ todo' \in [Requests -> Seq(Targets)]
          /\ \A q \in Requests : q # r => candidates'[q] = candidates[q] /\ todo'[q] = todo[q]
      BY <2>1, <2>3 DEF RequestsTyped
    <3>2. QED
      BY <1>1, <2>1, <2>3, <3>1
  <2>4. QED
    BY <1>2, <2>2, <2>3 DEF Start
<1>3. ASSUME NEW r \in Requests, Check(r) PROVE RequestsTyped'
  <2>1. todo[r] \in Seq(Targets) /\ todo[r] # <<>> /\ candidates[r] \in Seq(Targets)
    BY <1>3 DEF RequestsTyped, Check
  <2>2. Head(todo[r]) \in Targets /\ Tail(todo[r]) \in Seq(Targets)
    BY <2>1
  <2> DEFINE seen == [breakers EXCEPT ![Head(todo[r])] = Observed(@)]
             next(h) == IF h /\ seen[Head(todo[r])].state # "open"
                        THEN Append(candidates[r], Head(todo[r])) ELSE candidates[r]
  <2>3. PICK h \in BOOLEAN :
          /\ candidates' = [candidates EXCEPT ![r] = next(h)]
          /\ todo' = [todo EXCEPT ![r] = Tail(@)]
          /\ IF Tail(todo[r]) # <<>>
             THEN /\ breakers' = seen
                  /\ UNCHANGED <<pc, at, servedBy, sem, cache>>
             ELSE GoOn(r, next(h), 0, seen, sem)
    BY <1>3 DEF Check
  <2> DEFINE cs == next(h)
  <2>4. cs \in Seq(Targets)
    BY <2>1, <2>2
  <2> HIDE DEF seen, next, cs
  <2>5. /\ candidates' \in [Requests -> Seq(Targets)] /\ candidates'[r] = cs
        /\ todo' \in [Requests -> Seq(Targets)] /\ todo'[r] = Tail(todo[r])
        /\ \A q \in Requests : q # r => candidates'[q] = candidates[q] /\ todo'[q] = todo[q]
    BY <2>2, <2>3, <2>4 DEF RequestsTyped, cs
  <2>6. CASE Tail(todo[r]) # <<>> /\ UNCHANGED <<pc, at, servedBy, cache>>
    <3>1. ~Trying(r)
      BY <1>3 DEF Check, Trying
    <3>2. \A q \in Requests : Trying(q)' => at'[q] \in 1 .. Len(candidates'[q])
      BY <2>5, <2>6, <3>1 DEF RequestsTyped, Trying
    <3>3. \A q \in Requests : pc'[q] = "filtering" => todo'[q] # <<>>
      BY <2>5, <2>6 DEF RequestsTyped
    <3>4. QED
      BY <2>5, <2>6, <3>2, <3>3 DEF RequestsTyped
  <2>7. CASE GoOn(r, cs, 0, seen, sem)
    BY <1>1, <2>4, <2>5, <2>7
  <2>8. QED
    BY <2>3, <2>6, <2>7 DEF cs
<1>4. ASSUME NEW r \in Requests, Fails(r) \/ TimedOut(r) PROVE RequestsTyped'
  <2>1. NextAfterFailure(r) /\ candidates[r] \in Seq(Targets)
    BY <1>4 DEF Fails, TimedOut, RequestsTyped
  <2>2. UNCHANGED <<todo, candidates>>
    BY <2>1 DEF NextAfterFailure
  <2>3. QED
    BY <1>1, <2>1, <2>2 DEF NextAfterFailure, RequestsTyped
<1>5. ASSUME NEW r \in Requests, NEW how \in Points, Ends(r, how), how # "filtering",
             how \in {"invoking", "timing_out", "unwinding"} => Trying(r), how # "queued",
             UNCHANGED <<todo, candidates, at>>,
             servedBy' \in [Requests -> Requests \cup {NoRequest}], CacheTyped(cache')
      PROVE  RequestsTyped'
  <2>1. /\ pc' \in [Requests -> Points] /\ pc'[r] = how
        /\ \A q \in Requests : q # r => pc'[q] = pc[q]
    BY <1>5, EndsMoves
  <2>2. \A q \in Requests : Trying(q)' => at'[q] \in 1 .. Len(candidates'[q])
    BY <1>5, <2>1 DEF RequestsTyped, Trying
  <2>3. \A q \in Requests : pc'[q] = "filtering" => todo'[q] # <<>>
    BY <1>5, <2>1 DEF RequestsTyped
  <2>4. QED
    BY <1>5, <2>1, <2>2, <2>3 DEF RequestsTyped
<1>6. ASSUME NEW r \in Requests, Succeeds(r) PROVE RequestsTyped'
  <2>1. CacheTyped(cache')
    BY <1>6, PutEntries DEF Succeeds, RequestsTyped
  <2>2. servedBy' \in [Requests -> Requests \cup {NoRequest}]
    BY <1>6 DEF Succeeds, RequestsTyped
  <2>3. Ends(r, "succeeded") /\ "succeeded" \in Points /\ UNCHANGED <<todo, candidates, at>>
    BY <1>6 DEF Succeeds, Points, Ended
  <2>4. QED
    BY <1>5, <2>1, <2>2, <2>3
<1>7. ASSUME NEW r \in Requests,
             \/ Acquired(r) \/ TimesOut(r) \/ Raises(r) \/ Unwound(r)
             \/ CancelWaiting(r) \/ CancelInvoking(r)
      PROVE  RequestsTyped'
  <2>1. PICK how \in {"invoking", "timing_out", "unwinding", "raised", "cancelled"} :
          /\ Ends(r, how)
          /\ how \in {"invoking", "timing_out", "unwinding"} => Trying(r)
    BY <1>7 DEF Acquired, TimesOut, Raises, Unwound, CancelWaiting, CancelInvoking, Trying
  <2>2. how \in Points
    BY <2>1 DEF Points, Ended
  <2>3. UNCHANGED <<todo, candidates, at, servedBy, cache>>
    BY <1>7 DEF Acquired, TimesOut, Raises, Unwound, CancelWaiting, CancelInvoking
  <2>4. servedBy' \in [Requests -> Requests \cup {NoRequest}] /\ CacheTyped(cache')
    BY <2>3 DEF RequestsTyped
  <2>5. QED
    BY <1>5, <2>1, <2>2, <2>3, <2>4
<1>8. ASSUME Expire PROVE RequestsTyped'
  <2>1. CacheTyped(cache')
    BY <1>8, ExpireAges DEF RequestsTyped
  <2>2. QED
    BY <1>8, <2>1 DEF Expire, RequestsTyped, Trying
<1>9. ASSUME Tick \/ UNCHANGED vars PROVE RequestsTyped'
  BY <1>9 DEF Tick, vars, RequestsTyped, Trying
<1>10. QED
  BY <1>2, <1>3, <1>4, <1>6, <1>7, <1>8, <1>9 DEF Next, InvokeEnds

-----------------------------------------------------------------------------
(* Cached results                                                          *)

(* Going on to the next candidate changes nobody else, and degrades to a   *)
(* cached result of the request's key only.                                *)
LEMMA GoOnServes ==
  ASSUME TypeOK, NEW r \in Requests, NEW cs, NEW k, NEW brk, NEW s, GoOn(r, cs, k, brk, s)
  PROVE  /\ \A q \in Requests : q # r => pc'[q] = pc[q] /\ servedBy'[q] = servedBy[q]
         /\ pc'[r] = "degraded" => \E i \in Hit(r) : servedBy'[r] = cache[i].by
         /\ Ages(cache', cache)
<1>1. CASE UNCHANGED <<servedBy, cache>> /\ Ends(r, IF Free(s) THEN "invoking" ELSE "queued")
  <2>1. PICK how \in {"invoking", "queued"} : Ends(r, how)
    BY <1>1
  <2>2. pc'[r] = how /\ \A q \in Requests : q # r => pc'[q] = pc[q]
    BY <2>1, EndsMoves DEF Points
  <2>3. QED
    BY <1>1, <2>2 DEF Ages
<1>2. CASE FallBack(r)
  <2>1. Ages(cache', cache)
    <3>1. CacheTyped(cache) /\ cache' = AfterGet(r)
      BY <1>2 DEF FallBack, TypeOK, CacheTyped
    <3>2. EntriesFrom(cache', cache)
      BY <3>1, AfterGetEntries
    <3>3. QED
      BY <3>2 DEF Ages, EntriesFrom
  <2>2. CASE Ends(r, "failed") /\ UNCHANGED servedBy
    <3>1. pc'[r] = "failed" /\ \A q \in Requests : q # r => pc'[q] = pc[q]
      BY <2>2, EndsMoves DEF Points, Ended
    <3>2. QED
      BY <2>1, <2>2, <3>1
  <2>3. CASE /\ Ends(r, "degraded")
             /\ \E i \in Hit(r) : servedBy' = [servedBy EXCEPT ![r] = cache[i].by]
    <3>1. \A q \in Requests : q # r => pc'[q] = pc[q]
      BY <2>3, EndsMoves DEF Points, Ended
    <3>2. QED
      BY <2>1, <2>3, <3>1 DEF TypeOK
  <2>4. QED
    BY <1>2, <2>2, <2>3 DEF FallBack
<1>3. QED
  BY <1>1, <1>2 DEF GoOn

LEMMA GenuineNext ==
  TypeOK /\ CacheGenuine /\ DegradedServed /\ [Next]_vars
    => CacheGenuine' /\ DegradedServed'
<1> SUFFICES ASSUME TypeOK, CacheGenuine, DegradedServed, [Next]_vars
             PROVE  CacheGenuine' /\ DegradedServed'
  OBVIOUS
<1>1. ASSUME \A q \in Requests : pc[q] = "succeeded" => pc'[q] = "succeeded",
             Ages(cache', cache)
      PROVE  CacheGenuine'
  <2> SUFFICES ASSUME NEW i \in DOMAIN cache'
               PROVE  pc'[cache'[i].by] = "succeeded" /\ KeyOf[cache'[i].by] = cache'[i].key
    BY DEF CacheGenuine
  <2>1. PICK k \in DOMAIN cache : cache'[i].by = cache[k].by /\ cache'[i].key = cache[k].key
    BY <1>1 DEF Ages
  <2>2. cache[k] \in CacheEntry
    BY DEF TypeOK
  <2>3. cache[k].by \in Requests
    BY <2>2 DEF CacheEntry
  <2>4. QED
    BY <1>1, <2>1, <2>3 DEF CacheGenuine
<1>2. ASSUME NEW r \in Requests, pc[r] \notin {"succeeded", "degraded"},
             \A q \in Requests : q # r => pc'[q] = pc[q] /\ servedBy'[q] = servedBy[q],
             pc'[r] = "degraded" => \E i \in Hit(r) : servedBy'[r] = cache[i].by
      PROVE  DegradedServed'
  <2>1. ASSUME NEW q \in Requests, q # r, pc'[q] = "degraded"
        PROVE  /\ servedBy'[q] \in Requests /\ pc'[servedBy'[q]] = "succeeded"
              /\ KeyOf[servedBy'[q]] = KeyOf[q]
    <3>1. servedBy[q] \in Requests /\ pc[servedBy[q]] = "succeeded" /\ KeyOf[servedBy[q]] = KeyOf[q]
      BY <1>2, <2>1 DEF DegradedServed
    <3>2. servedBy[q] # r /\ servedBy'[q] = servedBy[q]
      BY <1>2, <2>1, <3>1
    <3>3. QED
      BY <1>2, <3>1, <3>2
  <2>2. ASSUME pc'[r] = "degraded"
        PROVE  /\ servedBy'[r] \in Requests /\ pc'[servedBy'[r]] = "succeeded"
              /\ KeyOf[servedBy'[r]] = KeyOf[r]
    <3>1. PICK i \in Hit(r) : servedBy'[r] = cache[i].by
      BY <1>2, <2>2
    <3>2. i \in DOMAIN cache /\ cache[i].key = KeyOf[r]
      BY DEF Hit
    <3>3. cache[i] \in CacheEntry
      BY <3>2 DEF TypeOK
    <3>4. cache[i].by \in Requests
      BY <3>3 DEF CacheEntry
    <3>5. pc[cache[i].by] = "succeeded" /\ KeyOf[cache[i].by] = KeyOf[r]
      BY <3>2 DEF CacheGenuine
    <3>6. QED
      BY <1>2, <3>1, <3>4, <3>5
  <2>3. QED
    BY <2>1, <2>2 DEF DegradedServed
(* The steps that look at the cache.                                       *)
<1>3. ASSUME NEW r \in Requests, NEW cs, NEW k, NEW brk, NEW s, GoOn(r, cs, k, brk, s),
             pc[r] \notin Ended
      PROVE  CacheGenuine' /\ DegradedServed'
  <2>1. /\ \A q \in Requests : q # r => pc'[q] = pc[q] /\ servedBy'[q] = servedBy[q]
        /\ pc'[r] = "degraded" => \E i \in Hit(r) : servedBy'[r] = cache[i].by
        /\ Ages(cache', cache)
    BY <1>3, GoOnServes
  <2>2. pc[r] \notin {"succeeded", "degraded"}
    BY <1>3 DEF Ended
  <2>3. QED
    BY <1>1, <1>2, <2>1, <2>2
(* Those that do not.                                                      *)
<1>4. ASSUME NEW r \in Requests, NEW how \in Points, Ends(r, how), pc[r] \notin Ended,
             how # "degraded",
             \A q \in Requests : q # r => servedBy'[q] = servedBy[q]
      PROVE  /\ DegradedServed'
             /\ \A q \in Requests : pc[q] = "succeeded" => pc'[q] = "succeeded"
  <2>1. pc'[r] = how /\ \A q \in Requests : q # r => pc'[q] = pc[q]
    BY <1>4, EndsMoves
  <2>2. pc[r] \notin {"succeeded", "degraded"}
    BY <1>4 DEF Ended
  <2>3. QED
    BY <1>2, <1>4, <2>1, <2>2
<1>5. CASE UNCHANGED <<pc, servedBy, cache>>
  BY <1>5 DEF CacheGenuine, DegradedServed
<1>6. ASSUME NEW r \in Requests, Start(r) \/ Check(r) \/ Fails(r) \/ TimedOut(r)
      PROVE  CacheGenuine' /\ DegradedServed'
  <2>1. pc[r] \notin Ended
    BY <1>6 DEF Start, Check, Fails, TimedOut, Ended
  <2>2. CASE \E cs, k, brk, s : GoOn(r, cs, k, brk, s)
    BY <1>3, <2>1, <2>2
  <2>3. CASE Ends(r, "filtering") /\ UNCHANGED <<servedBy, cache>>
    <3>1. "filtering" \in Points
      BY DEF Points
    <3>2. DegradedServed' /\ \A q \in Requests : pc[q] = "succeeded" => pc'[q] = "succeeded"
      BY <1>4, <2>1, <2>3, <3>1
    <3>3. Ages(cache', cache)
      BY <2>3 DEF Ages
    <3>4. QED
      BY <1>1, <3>2, <3>3
  <2>4. QED
    BY <1>5, <1>6, <2>2, <2>3 DEF Start, Check, Fails, TimedOut, NextAfterFailure
<1>7. ASSUME NEW r \in Requests,
             \/ Acquired(r) \/ TimesOut(r) \/ Raises(r) \/ Unwound(r)
             \/ CancelWaiting(r) \/ CancelInvoking(r)
      PROVE  CacheGenuine' /\ DegradedServed'
  <2>1. pc[r] \notin Ended /\ UNCHANGED <<servedBy, cache>>
    BY <1>7 DEF Acquired, TimesOut, Raises, Unwound, CancelWaiting, CancelInvoking, Ended
  <2>2. PICK how \in {"invoking", "timing_out", "unwinding", "raised", "cancelled"} : Ends(r, how)
    BY <1>7 DEF Acquired, TimesOut, Raises, Unwound, CancelWaiting, CancelInvoking
  <2>3. how \in Points
    BY <2>2 DEF Points, Ended
  <2>4. DegradedServed' /\ \A q \in Requests : pc[q] = "succeeded" => pc'[q] = "succeeded"
    BY <1>4, <2>1, <2>2, <2>3
  <2>5. Ages(cache', cache)
    BY <2>1 DEF Ages
  <2>6. QED
    BY <1>1, <2>4, <2>5
<1>8. ASSUME NEW r \in Requests, Succeeds(r) PROVE CacheGenuine' /\ DegradedServed'
  <2>1. /\ pc[r] \notin Ended /\ Ends(r, "succeeded") /\ "succeeded" \in Points
        /\ servedBy' = [servedBy EXCEPT ![r] = r] /\ cache' = Put(cache, r)
    BY <1>8 DEF Succeeds, Points, Ended
  <2>2. \A q \in Requests : q # r => servedBy'[q] = servedBy[q]
    BY <2>1 DEF TypeOK
  <2>3. DegradedServed' /\ \A q \in Requests : pc[q] = "succeeded" => pc'[q] = "succeeded"
    BY <1>4, <2>1, <2>2
  <2>4. pc'[r] = "succeeded"
    BY <2>1, EndsMoves
  <2>5. CacheTyped(cache)
    BY DEF TypeOK, CacheTyped
  <2>6. ASSUME NEW i \in DOMAIN cache'
        PROVE  pc'[cache'[i].by] = "succeeded" /\ KeyOf[cache'[i].by] = cache'[i].key
    <3>1. CASE \E k \in DOMAIN cache : cache'[i] = cache[k]
      <4>1. PICK k \in DOMAIN cache : cache'[i] = cache[k]
        BY <3>1
      <4>2. cache[k] \in CacheEntry
        BY DEF TypeOK
      <4>3. cache[k].by \in Requests
        BY <4>2 DEF CacheEntry
      <4>4. QED
        BY <2>3, <4>1, <4>3 DEF CacheGenuine
    <3>2. CASE cache'[i].by = r /\ cache'[i].key = KeyOf[r]
      BY <2>4, <3>2
    <3>3. QED
      BY <2>1, <2>5, <2>6, <3>1, <3>2, PutEntries
  <2>7. QED
    BY <2>3, <2>6 DEF CacheGenuine
<1>9. ASSUME Expire PROVE CacheGenuine' /\ DegradedServed'
  <2>1. Ages(cache', cache) /\ UNCHANGED <<pc, servedBy>>
    BY <1>9, ExpireAges DEF Expire, TypeOK, CacheTyped
  <2>2. QED
    BY <1>1, <2>1 DEF DegradedServed
<1>10. QED
  BY <1>5, <1>6, <1>7, <1>8, <1>9 DEF Next, InvokeEnds, Tick, vars

-----------------------------------------------------------------------------
(* The inductive invariant                                                 *)

Inv == RequestsTyped /\ AllSound(breakers) /\ SemSettled /\ CacheGenuine /\ DegradedServed

LEMMA InvTyped == Inv => TypeOK
BY DEF Inv, RequestsTyped, Trying, TypeOK, CacheTyped, AllSound, SemSettled, Settled,
       Loose, Holders

LEMMA InvInit == Init => Inv
<1> SUFFICES ASSUME Init PROVE Inv
  OBVIOUS
<1>1. Queued = {} /\ Holders = {}
  BY DEF Init, Queued, Holders
<1>2. RequestsTyped
  BY DispatcherAssumption DEF Init, RequestsTyped, Trying, Points, CacheTyped
<1>3. SemSettled
  <2>1. /\ sem \in [permits: Nat, waiting: Seq(Requests), woken: SUBSET Requests]
        /\ sem.permits = MaxConcurrent /\ sem.waiting = <<>> /\ sem.woken = {}
        /\ MaxConcurrent \in Nat
    BY DispatcherAssumption DEF Init
  <2>2. Cardinality({}) = 0
    BY FS_EmptySet
  <2>3. QED
    BY <1>1, <2>1, <2>2 DEF SemSettled, Settled, Loose, Distinct, Elements
<1>4. CacheGenuine /\ DegradedServed
  BY DEF Init, CacheGenuine, DegradedServed
<1>5. QED
  BY <1>2, <1>3, <1>4, SoundInit DEF Inv

THEOREM DispatcherInvariant == Spec => []Inv
<1>1. Inv /\ [Next]_vars => Inv'
  BY InvTyped, RequestsNext, SoundNext, SemNext, GenuineNext DEF Inv
<1>2. QED
  BY <1>1, InvInit, PTL DEF Spec

(* The state of any number of dispatches keeps its types: every invocation *)
(* under way is one of a candidate of the request, and the cache never     *)
(* grows over max_size.                                                    *)
THEOREM DispatcherTypeCorrect == Spec => []TypeOK
BY DispatcherInvariant, InvTyped, PTL

(* The semaphore never loses a permit nor hands out one too many, for any  *)
(* max_concurrent, any number of requests and any order of failures,       *)
(* timeouts and cancellations of waiting or invoking requests.             *)
THEOREM PermitsAreAccounted == Spec => []PermitsAccounted
<1>1. Inv => PermitsAccounted
  BY DEF Inv, SemSettled, Settled, Loose, PermitsAccounted
<1>2. QED
  BY <1>1, DispatcherInvariant, PTL

(* A degraded answer is the result of a request with the same key that     *)
(* succeeded, whatever is put, expires or is evicted in between.           *)
THEOREM DegradedAnswersAreGenuine == Spec => []DegradedIsGenuine
<1>1. Inv => DegradedIsGenuine
  BY DEF Inv, DegradedServed, DegradedIsGenuine
<1>2. QED
  BY <1>1, DispatcherInvariant, PTL

-----------------------------------------------------------------------------
(* What a dispatch may still do                                            *)

LEMMA ElementsSteps ==
  ASSUME NEW S, NEW s \in Seq(S)
  PROVE  /\ s # <<>> => /\ Head(s) \in Elements(s)
                        /\ Elements(Tail(s)) \subseteq Elements(s)
                        /\ Len(Tail(s)) = Len(s) - 1
         /\ \A x \in S : Elements(Append(s, x)) \subseteq Elements(s) \cup {x}
<1>1. ASSUME s # <<>>
      PROVE  /\ Head(s) \in Elements(s)
             /\ Elements(Tail(s)) \subseteq Elements(s)
             /\ Len(Tail(s)) = Len(s) - 1
  <2>1. 1 \in DOMAIN s /\ Head(s) = s[1]
    BY <1>1
  <2>2. DOMAIN Tail(s) = 1 .. (Len(s) - 1) /\ Len(Tail(s)) = Len(s) - 1
    BY <1>1
  <2>3. \A i \in DOMAIN Tail(s) : Tail(s)[i] = s[i + 1] /\ i + 1 \in DOMAIN s
    BY <1>1
  <2>4. QED
    BY <2>1, <2>2, <2>3 DEF Elements
<1>2. ASSUME NEW x \in S
      PROVE  Elements(Append(s, x)) \subseteq Elements(s) \cup {x}
  <2>1. \A i \in DOMAIN Append(s, x) :
          Append(s, x)[i] = x \/ (i \in DOMAIN s /\ Append(s, x)[i] = s[i])
    OBVIOUS
  <2>2. QED
    BY <2>1 DEF Elements
<1>3. QED
  BY <1>1, <1>2

(* What a health check leaves: the candidate is kept or dropped.           *)
Checked(r, cs) ==
  /\ candidates' = [candidates EXCEPT ![r] = cs]
  /\ todo' = [todo EXCEPT ![r] = Tail(todo[r])]
  /\ \/ UNCHANGED <<pc, at>>
     \/ GoOn(r, cs, 0, [breakers EXCEPT ![Head(todo[r])] = Observed(@)], sem)

LEMMA CheckEffect ==
  ASSUME NEW r \in Requests, Check(r)
  PROVE  \/ Checked(r, candidates[r])
         \/ Checked(r, Append(candidates[r], Head(todo[r])))
<1> DEFINE seen == [breakers EXCEPT ![Head(todo[r])] = Observed(@)]
           next(h) == IF h /\ seen[Head(todo[r])].state # "open"
                      THEN Append(candidates[r], Head(todo[r])) ELSE candidates[r]
<1>1. PICK h \in BOOLEAN :
        /\ candidates' = [candidates EXCEPT ![r] = next(h)]
        /\ todo' = [todo EXCEPT ![r] = Tail(@)]
        /\ IF Tail(todo[r]) # <<>>
           THEN /\ breakers' = seen
                /\ UNCHANGED <<pc, at, servedBy, sem, cache>>
           ELSE GoOn(r, next(h), 0, seen, sem)
  BY DEF Check
<1>2. Checked(r, next(h))
  <2>1. UNCHANGED <<pc, at>> \/ GoOn(r, next(h), 0, seen, sem)
    BY <1>1
  <2> HIDE DEF next
  <2>2. QED
    BY <1>1, <2>1 DEF Checked
<1>3. CASE next(h) = candidates[r]
  BY <1>2, <1>3
<1>4. CASE next(h) = Append(candidates[r], Head(todo[r]))
  BY <1>2, <1>4
<1>5. QED
  BY <1>3, <1>4

(* Going on means a later candidate, within max_retries, or the end.       *)
LEMMA GoOnLeads ==
  ASSUME TypeOK, NEW r \in Requests, NEW cs \in Seq(Targets), NEW k \in Nat,
         NEW brk, NEW s, GoOn(r, cs, k, brk, s)
  PROVE  /\ \A q \in Requests : q # r => pc'[q] = pc[q] /\ at'[q] = at[q]
         /\ \/ /\ pc'[r] \in {"queued", "invoking"}
               /\ at'[r] \in Nat /\ at'[r] > k /\ at'[r] <= MaxRetries + 1
            \/ pc'[r] \in {"failed", "degraded"}
<1>1. CASE \E j \in Attempts(cs) :
             /\ j > k
             /\ at' = [at EXCEPT ![r] = j]
             /\ Ends(r, IF Free(s) THEN "invoking" ELSE "queued")
  <2>1. PICK j \in Attempts(cs) :
          /\ j > k
          /\ at' = [at EXCEPT ![r] = j]
          /\ Ends(r, IF Free(s) THEN "invoking" ELSE "queued")
    BY <1>1
  <2>2. j \in Nat /\ j <= MaxRetries + 1
    BY DispatcherAssumption DEF Attempts
  <2>3. at'[r] = j
    BY <2>1 DEF TypeOK
  <2>4. pc'[r] \in {"queued", "invoking"}
    BY <2>1 DEF TypeOK, Ends
  <2>5. QED
    BY <2>1, <2>2, <2>3, <2>4, GoOnTyped
<1>2. CASE FallBack(r)
  BY <1>2, GoOnTyped DEF FallBack, TypeOK, Ends
<1>3. QED
  BY <1>1, <1>2 DEF GoOn

(* Attempts stay within max_retries, and everything tried was resolved.    *)
WithinRetries == \A q \in Requests : Trying(q) => at[q] <= MaxRetries + 1

FromResolve ==
  \A q \in Requests : /\ Elements(todo[q]) \subseteq Elements(CandidatesOf[q])
                      /\ Elements(candidates[q]) \subseteq Elements(CandidatesOf[q])

RaisedInPool ==
  \A q \in Requests : pc[q] = "raised" => \E t \in Elements(CandidatesOf[q]) : t \in Pooled

AttemptInv == WithinRetries /\ FromResolve /\ RaisedInPool

LEMMA AttemptNext == Inv /\ AttemptInv /\ [Next]_vars => AttemptInv'
<1> SUFFICES ASSUME Inv, AttemptInv, [Next]_vars PROVE AttemptInv'
  OBVIOUS
<1>0. TypeOK /\ RequestsTyped
  BY InvTyped DEF Inv
<1>1. ASSUME NEW r \in Requests, NEW cs \in Seq(Targets), NEW k \in Nat, NEW brk, NEW s,
             GoOn(r, cs, k, brk, s),
             Elements(cs) \subseteq Elements(CandidatesOf[r]),
             Elements(todo'[r]) \subseteq Elements(todo[r]),
             candidates'[r] = cs,
             \A q \in Requests : q # r => candidates'[q] = candidates[q] /\ todo'[q] = todo[q]
      PROVE  AttemptInv'
  <2>1. /\ \A q \in Requests : q # r => pc'[q] = pc[q] /\ at'[q] = at[q]
        /\ \/ pc'[r] \in {"queued", "invoking"} /\ at'[r] <= MaxRetries + 1
           \/ pc'[r] \in {"failed", "degraded"}
    BY <1>0, <1>1, GoOnLeads
  <2>2. WithinRetries'
    BY <2>1 DEF AttemptInv, WithinRetries, Trying
  <2>3. FromResolve'
    BY <1>1 DEF AttemptInv, FromResolve
  <2>4. RaisedInPool'
    BY <2>1 DEF AttemptInv, RaisedInPool
  <2>5. QED
    BY <2>2, <2>3, <2>4 DEF AttemptInv
<1>2. ASSUME UNCHANGED <<pc, todo, candidates, at>>
      PROVE  AttemptInv'
  BY <1>2 DEF AttemptInv, WithinRetries, FromResolve, RaisedInPool, Trying
<1>3. ASSUME NEW r \in Requests, NEW how \in Points, Ends(r, how),
             UNCHANGED <<todo, candidates, at>>,
             how \in {"queued", "invoking", "timing_out", "unwinding"} => Trying(r),
             how = "raised" => \E t \in Elements(CandidatesOf[r]) : t \in Pooled
      PROVE  AttemptInv'
  <2>1. pc'[r] = how /\ \A q \in Requests : q # r => pc'[q] = pc[q]
    BY <1>0, <1>3, EndsMoves
  <2>2. WithinRetries' /\ FromResolve' /\ RaisedInPool'
    BY <1>3, <2>1 DEF AttemptInv, WithinRetries, FromResolve, RaisedInPool, Trying
  <2>3. QED
    BY <2>2 DEF AttemptInv
<1>4. ASSUME NEW r \in Requests, Start(r)
      PROVE  AttemptInv'
  <2>1. todo[r] \in Seq(Targets)
    BY <1>0 DEF RequestsTyped
  <2>2. CASE Ends(r, "filtering") /\ UNCHANGED <<todo, candidates, at>>
    BY <1>3, <2>2 DEF Points
  <2>3. CASE /\ GoOn(r, todo[r], 0, breakers, sem)
             /\ candidates' = [candidates EXCEPT ![r] = todo[r]]
             /\ todo' = [todo EXCEPT ![r] = <<>>]
    <3>1. /\ candidates'[r] = todo[r] /\ todo'[r] = <<>>
          /\ \A q \in Requests : q # r => candidates'[q] = candidates[q] /\ todo'[q] = todo[q]
      BY <1>0, <2>3 DEF RequestsTyped
    <3>2. Elements(todo[r]) \subseteq Elements(CandidatesOf[r])
      BY DEF AttemptInv, FromResolve
    <3>3. Elements(<<>>) = {}
      BY DEF Elements
    <3>4. QED
      BY <1>1, <2>1, <2>3, <3>1, <3>2, <3>3
  <2>4. QED
    BY <1>4, <2>2, <2>3 DEF Start
<1>5. ASSUME NEW r \in Requests, Check(r)
      PROVE  AttemptInv'
  <2>1. todo[r] \in Seq(Targets) /\ todo[r] # <<>> /\ candidates[r] \in Seq(Targets)
    BY <1>0, <1>5 DEF RequestsTyped, Check
  <2>2. Head(todo[r]) \in Targets
    BY <2>1
  <2>3. Append(candidates[r], Head(todo[r])) \in Seq(Targets)
    BY <2>1, <2>2
  <2>4. /\ Elements(candidates[r]) \subseteq Elements(CandidatesOf[r])
        /\ Elements(Append(candidates[r], Head(todo[r]))) \subseteq Elements(CandidatesOf[r])
    <3>1. /\ Elements(todo[r]) \subseteq Elements(CandidatesOf[r])
          /\ Elements(candidates[r]) \subseteq Elements(CandidatesOf[r])
      BY DEF AttemptInv, FromResolve
    <3>2. Head(todo[r]) \in Elements(todo[r])
      BY <2>1, ElementsSteps
    <3>3. Elements(Append(candidates[r], Head(todo[r])))
            \subseteq Elements(candidates[r]) \cup {Head(todo[r])}
      BY <2>1, <2>2, ElementsSteps
    <3>4. QED
      BY <3>1, <3>2, <3>3
  <2>5. ASSUME NEW cs \in Seq(Targets), Elements(cs) \subseteq Elements(CandidatesOf[r]),
               Checked(r, cs)
        PROVE  AttemptInv'
    <3>1. /\ candidates'[r] = cs /\ todo'[r] = Tail(todo[r])
          /\ \A q \in Requests : q # r => candidates'[q] = candidates[q] /\ todo'[q] = todo[q]
      BY <1>0, <2>5 DEF Checked, RequestsTyped
    <3>2. Elements(todo'[r]) \subseteq Elements(todo[r])
      BY <2>1, <3>1, ElementsSteps
    <3>3. CASE UNCHANGED <<pc, at>>
      <4>1. FromResolve'
        BY <2>5, <3>1, <3>2 DEF AttemptInv, FromResolve
      <4>2. WithinRetries' /\ RaisedInPool'
        BY <3>3 DEF AttemptInv, WithinRetries, RaisedInPool, Trying
      <4>3. QED
        BY <4>1, <4>2 DEF AttemptInv
    <3>4. CASE GoOn(r, cs, 0, [breakers EXCEPT ![Head(todo[r])] = Observed(@)], sem)
      BY <1>1, <2>5, <3>1, <3>2, <3>4
    <3>5. QED
      BY <2>5, <3>3, <3>4 DEF Checked
  <2>6. QED
    BY <1>5, <2>1, <2>3, <2>4, <2>5, CheckEffect
<1>6. ASSUME NEW r \in Requests, Fails(r) \/ TimedOut(r)
      PROVE  AttemptInv'
  <2>1. NextAfterFailure(r) /\ candidates[r] \in Seq(Targets) /\ at[r] \in Nat
    BY <1>0, <1>6 DEF Fails, TimedOut, RequestsTyped
  <2>2. UNCHANGED <<todo, candidates>>
    BY <2>1 DEF NextAfterFailure
  <2>3. Elements(candidates[r]) \subseteq Elements(CandidatesOf[r])
    BY DEF AttemptInv, FromResolve
  <2>4. QED
    BY <1>1, <2>1, <2>2, <2>3 DEF NextAfterFailure
<1>7. ASSUME NEW r \in Requests, Raises(r)
      PROVE  AttemptInv'
  <2>1. at[r] \in 1 .. Len(candidates[r]) /\ candidates[r] \in Seq(Targets)
    BY <1>0, <1>7 DEF Raises, RequestsTyped, Trying
  <2>2. Target(r) \in Elements(candidates[r])
    BY <2>1 DEF Target, Elements
  <2>3. Target(r) \in Elements(CandidatesOf[r]) /\ Target(r) \in Pooled
    BY <1>7, <2>2 DEF AttemptInv, FromResolve, Raises
  <2>4. Ends(r, "raised") /\ "raised" \in Points /\ UNCHANGED <<todo, candidates, at>>
    BY <1>7 DEF Raises, Points, Ended
  <2>5. QED
    BY <1>3, <2>3, <2>4
<1>8. ASSUME NEW r \in Requests,
             \/ Acquired(r) \/ Succeeds(r) \/ TimesOut(r) \/ Unwound(r)
             \/ CancelWaiting(r) \/ CancelInvoking(r)
      PROVE  AttemptInv'
  <2>1. PICK how \in {"invoking", "succeeded", "timing_out", "unwinding", "cancelled"} :
          /\ Ends(r, how)
          /\ how \in {"invoking", "timing_out", "unwinding"} => Trying(r)
    BY <1>8 DEF Acquired, Succeeds, TimesOut, Unwound, CancelWaiting, CancelInvoking, Trying
  <2>2. how \in Points
    BY <2>1 DEF Points, Ended
  <2>3. UNCHANGED <<todo, candidates, at>>
    BY <1>8 DEF Acquired, Succeeds, TimesOut, Unwound, CancelWaiting, CancelInvoking
  <2>4. QED
    BY <1>3, <2>1, <2>2, <2>3
<1>9. ASSUME Tick \/ Expire \/ UNCHANGED vars
      PROVE  AttemptInv'
  BY <1>2, <1>9 DEF Tick, Expire, vars
<1>10. QED
  BY <1>4, <1>5, <1>6, <1>7, <1>8, <1>9 DEF Next, InvokeEnds

LEMMA AttemptInvariant == Spec => [](Inv /\ AttemptInv)
<1>1. Init => AttemptInv
  <2> SUFFICES ASSUME Init PROVE AttemptInv
    OBVIOUS
  <2>1. Elements(<<>>) = {}
    BY DEF Elements
  <2>2. QED
    BY <2>1 DEF Init, AttemptInv, WithinRetries, FromResolve, RaisedInPool, Trying
<1>2. QED
  BY <1>1, AttemptNext, DispatcherInvariant, PTL DEF Spec

(* Where an exception can come from.                                       *)
ErrorsComeFromThePool ==
  \A r \in Requests : pc[r] = "raised" =>
    \E i \in DOMAIN CandidatesOf[r] : CandidatesOf[r][i] \in Pooled

(* The exceptions that leave dispatch without failover are those of the    *)
(* pool's backend alone: a request that _resolve finds only external       *)
(* agents for never ends by one (_try_one, dispatcher.py:207).             *)
THEOREM OnlyThePoolRaises == Spec => []ErrorsComeFromThePool
<1>1. AttemptInv => ErrorsComeFromThePool
  BY DEF AttemptInv, RaisedInPool, Elements, ErrorsComeFromThePool
<1>2. QED
  BY <1>1, AttemptInvariant, PTL

-----------------------------------------------------------------------------
(* What the breakers know of the attempts                                  *)

(* What the number of attempts lost at a target says of its breaker; won   *)
(* means that an attempt at it has succeeded.                              *)
Follows(b, lost, won) ==
  /\ b.state = "closed" => Failures(b.results) <= lost
  /\ b.state # "closed" => FailureThreshold <= lost
  /\ b.state = "closed" /\ ~won => Failures(b.results) = lost /\ Len(b.results) = lost

LEMMA SoundFields ==
  ASSUME NEW b, SoundBreaker(b)
  PROVE  /\ b.results \in Seq(BOOLEAN) /\ Len(b.results) <= WindowSize
         /\ Failures(b.results) \in Nat
         /\ b.state = "closed" => Failures(b.results) < FailureThreshold
         /\ b.state \in CircuitStates
         /\ b = [state |-> b.state, results |-> b.results,
                 successes |-> b.successes, age |-> b.age]
<1>1. b \in Breakers /\ Len(b.results) <= WindowSize
  BY DEF SoundBreaker, GoodBreaker
<1>2. b.results \in Seq(BOOLEAN) /\ b.state \in CircuitStates
  BY <1>1 DEF Breakers
<1>3. Failures(b.results) \in Nat
  BY <1>2, FailuresAreCounted
<1>4. b.state = "closed" => Failures(b.results) < FailureThreshold
  BY DEF SoundBreaker, BelowThreshold
<1>5. b = [state |-> b.state, results |-> b.results,
           successes |-> b.successes, age |-> b.age]
  BY <1>1 DEF Breakers
<1>6. QED
  BY <1>1, <1>2, <1>3, <1>4, <1>5

(* Looking at a breaker, and the clock, neither open nor close it.         *)
LEMMA TimeFollows ==
  ASSUME NEW b, SoundBreaker(b), NEW lost \in Nat, NEW won, Follows(b, lost, won)
  PROVE  Follows(Observed(b), lost, won) /\ Follows(Older(b), lost, won)
<1>1. Follows(Observed(b), lost, won)
  BY DEF Follows, Observed, ToHalfOpen
<1>2. CASE b.state = "open" /\ b.age < Timeout
  <2>1. Older(b).state = "open"
    BY <1>2, SoundFields DEF Older
  <2>2. QED
    BY <1>1, <1>2, <2>1 DEF Follows
<1>3. CASE ~(b.state = "open" /\ b.age < Timeout)
  BY <1>1, <1>3 DEF Older
<1>4. QED
  BY <1>1, <1>2, <1>3

(* A breaker that is not closed is not closed by more lost attempts.       *)
LEMMA MoreFollows ==
  ASSUME NEW b, NEW lost \in Nat, NEW more \in Nat, lost <= more, NEW won,
         b.state # "closed", Follows(b, lost, won)
  PROVE  Follows(b, more, won)
BY BreakerAssumption DEF Follows

LEMMA FailureFollows ==
  ASSUME NEW b, SoundBreaker(b), NEW lost \in Nat, NEW won, Follows(b, lost, won)
  PROVE  Follows(AfterFailure(b), lost + 1, won)
<1>1. /\ b.results \in Seq(BOOLEAN) /\ Len(b.results) <= WindowSize
      /\ Failures(b.results) \in Nat
      /\ b.state = "closed" => Failures(b.results) < FailureThreshold
      /\ b.state \in CircuitStates
  BY SoundFields
<1>2. FailureThreshold \in Nat /\ WindowSize \in Nat /\ FailureThreshold < WindowSize
  BY BreakerAssumption DEF WindowSize
<1>3. PICK r : r = Pushed(b.results, FALSE)
  OBVIOUS
<1>4. /\ Failures(r) <= Failures(b.results) + 1
      /\ Len(b.results) < WindowSize =>
           Failures(r) = Failures(b.results) + 1 /\ Len(r) = Len(b.results) + 1
      /\ Failures(r) \in Nat
  BY <1>1, <1>3, FailureAddsOne, PushedIsWindow, FailuresAreCounted
<1>5. CASE b.state = "half_open" \/ (b.state = "closed" /\ Failures(r) >= FailureThreshold)
  <2>1. AfterFailure(b) = ToOpen(r)
    BY <1>3, <1>5 DEF AfterFailure
  <2>2. AfterFailure(b).state = "open"
    BY <2>1 DEF ToOpen
  <2>3. FailureThreshold <= lost + 1
    BY <1>1, <1>2, <1>4, <1>5 DEF Follows
  <2>4. QED
    BY <2>2, <2>3 DEF Follows
<1>6. CASE ~(b.state = "half_open" \/ (b.state = "closed" /\ Failures(r) >= FailureThreshold))
  <2>1. AfterFailure(b) = [b EXCEPT !.results = r]
    BY <1>3, <1>6 DEF AfterFailure
  <2>2. AfterFailure(b).state = b.state /\ AfterFailure(b).results = r
    BY <2>1, SoundFields
  <2>3. CASE b.state = "open"
    BY <1>2, <2>2, <2>3 DEF Follows
  <2>4. CASE b.state = "closed"
    <3>1. Failures(b.results) <= lost
      BY <2>4 DEF Follows
    <3>2. Failures(r) <= lost + 1
      BY <1>1, <1>4, <3>1
    <3>3. ASSUME ~won PROVE Failures(r) = lost + 1 /\ Len(r) = lost + 1
      <4>1. Failures(b.results) = lost /\ Len(b.results) = lost
        BY <2>4, <3>3 DEF Follows
      <4>2. Len(b.results) < WindowSize
        BY <1>1, <1>2, <2>4, <4>1
      <4>3. QED
        BY <1>4, <4>1, <4>2
    <3>4. QED
      BY <2>2, <2>4, <3>2, <3>3 DEF Follows
  <2>5. QED
    BY <1>1, <1>6, <2>3, <2>4 DEF CircuitStates
<1>7. QED
  BY <1>5, <1>6

LEMMA SuccessFollows ==
  ASSUME NEW b, SoundBreaker(b), NEW lost \in Nat, NEW won, Follows(b, lost, won)
  PROVE  Follows(AfterSuccess(b), lost, TRUE)
<1>1. /\ b.results \in Seq(BOOLEAN) /\ Len(b.results) <= WindowSize
      /\ Failures(b.results) \in Nat
  BY SoundFields
<1>2. PICK r : r = Pushed(b.results, TRUE)
  OBVIOUS
<1>3. Failures(r) <= Failures(b.results) /\ Failures(r) \in Nat
  BY <1>1, <1>2, SuccessAddsNoFailure, PushedIsWindow, FailuresAreCounted
<1>4. Failures(<<>>) = 0
  <2>1. FailedAt(<<>>) = {}
    BY DEF FailedAt
  <2>2. QED
    BY <2>1, FS_EmptySet DEF Failures
<1>5. CASE AfterSuccess(b) = ToClosed
  BY <1>4, <1>5 DEF ToClosed, NewBreaker, Follows
<1>6. CASE /\ AfterSuccess(b).state = b.state
           /\ AfterSuccess(b).results = r
  <2>1. b.state = "closed" => Failures(b.results) <= lost
    BY DEF Follows
  <2>2. b.state = "closed" => Failures(r) <= lost
    BY <1>1, <1>3, <2>1
  <2>3. QED
    BY <1>6, <2>2 DEF Follows
<1>7. \/ AfterSuccess(b) = ToClosed
      \/ /\ AfterSuccess(b).state = b.state
         /\ AfterSuccess(b).results = r
  <2>1. CASE b.state # "half_open"
    <3>1. AfterSuccess(b) = [b EXCEPT !.results = r]
      BY <1>2, <2>1 DEF AfterSuccess
    <3>2. QED
      BY <3>1, SoundFields
  <2>2. CASE b.state = "half_open" /\ b.successes + 1 >= SuccessThreshold
    BY <2>2 DEF AfterSuccess
  <2>3. CASE b.state = "half_open" /\ ~(b.successes + 1 >= SuccessThreshold)
    <3>1. AfterSuccess(b) = [b EXCEPT !.results = r, !.successes = b.successes + 1]
      BY <1>2, <2>3 DEF AfterSuccess
    <3>2. QED
      BY <3>1, SoundFields
  <2>4. QED
    BY <2>1, <2>2, <2>3
<1>8. QED
  BY <1>5, <1>6, <1>7

-----------------------------------------------------------------------------
(* How many attempts have been lost                                        *)

Places == Requests \X (1 .. MaxRetries + 1)

LEMMA AttemptsArePlaces ==
  ASSUME NEW cs \in Seq(Targets)
  PROVE  Attempts(cs) \subseteq 1 .. MaxRetries + 1 /\ Attempts(cs) \subseteq 1 .. Len(cs)
BY DispatcherAssumption DEF Attempts

LEMMA PlacesAreCounted ==
  ASSUME NEW S, S \subseteq Places
  PROVE  IsFiniteSet(S) /\ Cardinality(S) \in Nat
<1>1. IsFiniteSet(1 .. MaxRetries + 1) /\ IsFiniteSet(Requests)
  BY DispatcherAssumption, FS_Interval
<1>2. IsFiniteSet(Places)
  BY <1>1, FS_Product DEF Places
<1>3. QED
  BY <1>2, FS_Subset, FS_CardinalityType

(* The k-th attempt of r, if it is one at t.                               *)
Attempt(r, cs, k, t) == IF k \in Attempts(cs) /\ cs[k] = t THEN {<<r, k>>} ELSE {}

(* Steps that lose no attempt.                                             *)
LEMMA LostKept ==
  ASSUME NEW r \in Requests, NEW t,
         at \in [Requests -> Nat], candidates \in [Requests -> Seq(Targets)],
         candidates' \in [Requests -> Seq(Targets)],
         UNCHANGED at,
         \A q \in Requests : q # r => pc'[q] = pc[q] /\ candidates'[q] = candidates[q],
         pc[r] \notin {"failed", "degraded"}, pc'[r] \notin {"failed", "degraded"},
         candidates'[r] = candidates[r] \/ at[r] = 0
  PROVE  LostOn(t)' = LostOn(t)
<1>1. ASSUME NEW q \in Requests, NEW j \in 1 .. MaxRetries + 1
      PROVE  (GonePast(q, j) /\ candidates[q][j] = t)'
               <=> (GonePast(q, j) /\ candidates[q][j] = t)
  <2>1. CASE q # r \/ candidates'[r] = candidates[r]
    BY <2>1 DEF GonePast
  <2>2. CASE q = r /\ at[r] = 0
    <3>1. j > 0 /\ ~(j < at[r]) /\ j # at[r]
      BY <2>2
    <3>2. QED
      BY <2>2, <3>1 DEF GonePast
  <2>3. QED
    BY <2>1, <2>2
<1>2. QED
  BY <1>1 DEF LostOn

(* Going on to the next candidate loses the attempt it comes from, and     *)
(* none at a target whose breaker is not open.                             *)
LEMMA GoOnLoses ==
  ASSUME TypeOK, NEW r \in Requests, NEW cs \in Seq(Targets), NEW brk, NEW s,
         GoOn(r, cs, at[r], brk, s),
         pc[r] \notin {"failed", "degraded"},
         candidates' \in [Requests -> Seq(Targets)], candidates'[r] = cs,
         \A q \in Requests : q # r => candidates'[q] = candidates[q],
         at[r] = 0 \/ (cs = candidates[r] /\ at[r] \in Attempts(cs)),
         NEW t \in Targets
  PROVE  /\ LostOn(t) \cup Attempt(r, cs, at[r], t) \subseteq LostOn(t)'
         /\ Observed(brk[t]).state # "open" =>
              LostOn(t)' = LostOn(t) \cup Attempt(r, cs, at[r], t)
         /\ LostOn(t)' \subseteq Places
<1> DEFINE now == LostOn(t) \cup Attempt(r, cs, at[r], t)
<1>1. /\ \A q \in Requests : q # r => pc'[q] = pc[q] /\ at'[q] = at[q]
      /\ \/ /\ pc'[r] \in {"queued", "invoking"}
            /\ at'[r] \in Attempts(cs) /\ at'[r] > at[r]
            /\ \A i \in Attempts(cs) :
                 i > at[r] /\ i < at'[r] => Observed(brk[cs[i]]).state = "open"
         \/ pc'[r] \in {"failed", "degraded"} /\ at'[r] = at[r]
  <2>0. \A q \in Requests : q # r => pc'[q] = pc[q] /\ at'[q] = at[q]
    BY GoOnTyped
  <2>1. CASE FallBack(r) /\ UNCHANGED at
    BY <2>0, <2>1 DEF FallBack, Ends, TypeOK
  <2>2. CASE \E j \in Attempts(cs) :
               /\ j > at[r]
               /\ \A i \in Attempts(cs) :
                    i > at[r] /\ Observed(brk[cs[i]]).state # "open" => j <= i
               /\ at' = [at EXCEPT ![r] = j]
               /\ Ends(r, IF Free(s) THEN "invoking" ELSE "queued")
    <3>1. PICK j \in Attempts(cs) :
            /\ j > at[r]
            /\ \A i \in Attempts(cs) :
                 i > at[r] /\ Observed(brk[cs[i]]).state # "open" => j <= i
            /\ at' = [at EXCEPT ![r] = j]
            /\ Ends(r, IF Free(s) THEN "invoking" ELSE "queued")
      BY <2>2
    <3>2. at'[r] = j /\ pc'[r] \in {"queued", "invoking"}
      BY <3>1 DEF TypeOK, Ends
    <3>3. \A i \in Attempts(cs) : i \in Nat /\ j \in Nat
      BY <3>1, AttemptsArePlaces
    <3>4. \A i \in Attempts(cs) : i < j => ~(j <= i)
      BY <3>3
    <3>5. QED
      BY <2>0, <3>1, <3>2, <3>4
  <2>3. QED
    BY <2>1, <2>2 DEF GoOn
<1>2. at[r] \in Nat /\ Attempts(cs) \subseteq 1 .. MaxRetries + 1 /\ MaxRetries \in Nat
  BY AttemptsArePlaces, DispatcherAssumption DEF TypeOK
<1>3. LostOn(t)' \subseteq Places /\ now \subseteq Places
  BY <1>2 DEF LostOn, Attempt, Places
<1>4. ASSUME NEW q \in Requests, q # r, NEW j
      PROVE  <<q, j>> \in LostOn(t)' <=> <<q, j>> \in now
  <2>1. <<q, j>> \in now <=> <<q, j>> \in LostOn(t)
    BY <1>4 DEF Attempt
  <2>2. /\ pc'[q] = pc[q] /\ at'[q] = at[q] /\ candidates'[q] = candidates[q]
    BY <1>1, <1>4
  <2>3. QED
    BY <2>1, <2>2 DEF LostOn, GonePast
<1>5. ASSUME NEW j \in 1 .. MaxRetries + 1
      PROVE  <<r, j>> \in now <=> j \in Attempts(cs) /\ j <= at[r] /\ cs[j] = t
  <2>1. CASE at[r] = 0
    <3>1. ~(j < at[r]) /\ j # at[r] /\ ~(j <= at[r])
      BY <2>1
    <3>2. <<r, j>> \notin LostOn(t)
      BY <3>1 DEF LostOn, GonePast
    <3>3. QED
      BY <3>1, <3>2 DEF Attempt
  <2>2. CASE cs = candidates[r] /\ at[r] \in Attempts(cs)
    <3>1. <<r, j>> \in LostOn(t) <=> j \in Attempts(cs) /\ j < at[r] /\ cs[j] = t
      BY <2>2 DEF LostOn, GonePast
    <3>2. <<r, j>> \in Attempt(r, cs, at[r], t) <=> j = at[r] /\ cs[j] = t
      BY <2>2 DEF Attempt
    <3>3. j <= at[r] <=> j < at[r] \/ j = at[r]
      BY <1>2
    <3>4. QED
      BY <2>2, <3>1, <3>2, <3>3
  <2>3. QED
    BY <2>1, <2>2
<1>6. ASSUME NEW j \in 1 .. MaxRetries + 1
      PROVE  <<r, j>> \in LostOn(t)' <=>
               /\ j \in Attempts(cs) /\ cs[j] = t
               /\ j < at'[r] \/ (j = at'[r] /\ pc'[r] \in {"failed", "degraded"})
  BY DEF LostOn, GonePast
<1>7. ASSUME NEW j \in 1 .. MaxRetries + 1
      PROVE  /\ <<r, j>> \in now => <<r, j>> \in LostOn(t)'
             /\ <<r, j>> \in LostOn(t)' /\ <<r, j>> \notin now =>
                  Observed(brk[t]).state = "open"
  <2>1. CASE pc'[r] \in {"failed", "degraded"} /\ at'[r] = at[r]
    <3>1. j <= at[r] <=> j < at[r] \/ j = at[r]
      BY <1>2
    <3>2. QED
      BY <1>5, <1>6, <2>1, <3>1
  <2>2. CASE /\ pc'[r] \in {"queued", "invoking"}
             /\ at'[r] \in Attempts(cs) /\ at'[r] > at[r]
             /\ \A i \in Attempts(cs) :
                  i > at[r] /\ i < at'[r] => Observed(brk[cs[i]]).state = "open"
    <3>1. at'[r] \in Nat /\ (j <= at[r] => j < at'[r]) /\ (~(j <= at[r]) => j > at[r])
      BY <1>2, <2>2
    <3>2. <<r, j>> \in LostOn(t)' <=> j \in Attempts(cs) /\ cs[j] = t /\ j < at'[r]
      BY <1>6, <2>2
    <3>3. QED
      BY <1>5, <2>2, <3>1, <3>2
  <2>3. QED
    BY <1>1, <2>1, <2>2
<1>8. \A p \in Places : p \in now => p \in LostOn(t)'
  BY <1>4, <1>7 DEF Places
<1>9. \A p \in Places : p \in LostOn(t)' /\ p \notin now => Observed(brk[t]).state = "open"
  BY <1>4, <1>7 DEF Places
<1>10. QED
  BY <1>3, <1>8, <1>9

(* A request that has not come to its candidates has tried none.           *)
NoneTried == \A q \in Requests : pc[q] \in {"new", "filtering"} => at[q] = 0

BreakersFollow ==
  \A t \in Targets : Follows(breakers[t], Cardinality(LostOn(t)), WonOn(t) # {})

FollowInv == NoneTried /\ BreakersFollow

(* Steps that win no attempt.                                              *)
LEMMA WonKept ==
  ASSUME NEW r \in Requests, NEW t,
         \A q \in Requests : q # r => /\ pc'[q] = pc[q] /\ at'[q] = at[q]
                                     /\ candidates'[q] = candidates[q],
         pc[r] # "succeeded", pc'[r] # "succeeded"
  PROVE  WonOn(t)' = WonOn(t)
<1>1. \A q \in Requests :
        (pc[q] = "succeeded" /\ Target(q) = t)' <=> (pc[q] = "succeeded" /\ Target(q) = t)
  BY DEF Target
<1>2. QED
  BY <1>1 DEF WonOn

(* Going on, when brk has taken down the attempt that the request comes    *)
(* from.                                                                   *)
LEMMA GoOnFollows ==
  ASSUME Inv, NoneTried, NEW r \in Requests, NEW cs \in Seq(Targets), NEW brk, NEW s,
         AllSound(brk), GoOn(r, cs, at[r], brk, s),
         pc[r] \notin {"failed", "degraded", "succeeded"},
         candidates' \in [Requests -> Seq(Targets)], candidates'[r] = cs,
         \A q \in Requests : q # r => candidates'[q] = candidates[q],
         at[r] = 0 \/ (cs = candidates[r] /\ at[r] \in Attempts(cs)),
         \A t \in Targets :
           Follows(brk[t], Cardinality(LostOn(t) \cup Attempt(r, cs, at[r], t)), WonOn(t) # {})
  PROVE  FollowInv'
<1>1. TypeOK
  BY InvTyped
<1>2. /\ \A q \in Requests : q # r => pc'[q] = pc[q] /\ at'[q] = at[q]
      /\ pc'[r] \in {"invoking", "queued", "failed", "degraded"}
  BY <1>1, GoOnTyped
<1>3. NoneTried'
  BY <1>2 DEF NoneTried
<1>4. ASSUME NEW t \in Targets
      PROVE  Follows(breakers'[t], Cardinality(LostOn(t)'), WonOn(t)' # {})
  <2>1. WonOn(t)' = WonOn(t)
    BY <1>2, WonKept
  <2>2. PICK now : now = LostOn(t) \cup Attempt(r, cs, at[r], t)
    OBVIOUS
  <2>3. /\ now \subseteq LostOn(t)'
        /\ Observed(brk[t]).state # "open" => LostOn(t)' = now
        /\ LostOn(t)' \subseteq Places
    BY <1>1, <2>2, GoOnLoses
  <2>4. /\ Cardinality(now) \in Nat /\ Cardinality(LostOn(t)') \in Nat
        /\ Cardinality(now) <= Cardinality(LostOn(t)')
    BY <2>3, PlacesAreCounted, FS_Subset
  <2>5. SoundBreaker(brk[t]) /\ Follows(brk[t], Cardinality(now), WonOn(t) # {})
    BY <2>2 DEF AllSound
  <2>6. Follows(brk[t], Cardinality(LostOn(t)'), WonOn(t) # {})
    <3>1. CASE Observed(brk[t]).state # "open"
      BY <2>3, <2>5, <3>1
    <3>2. CASE Observed(brk[t]).state = "open"
      <4>1. brk[t].state # "closed"
        BY <3>2 DEF Observed, ToHalfOpen
      <4>2. QED
        BY <2>4, <2>5, <4>1, MoreFollows
    <3>3. QED
      BY <3>1, <3>2
  <2>7. Follows(Observed(brk[t]), Cardinality(LostOn(t)'), WonOn(t) # {})
    BY <2>4, <2>5, <2>6, TimeFollows
  <2>8. breakers'[t] \in {brk[t], Observed(brk[t])}
    <3>1. breakers' = brk \/ \E j : breakers' = [brk EXCEPT ![cs[j]] = Observed(@)]
      BY DEF GoOn
    <3>2. QED
      BY <3>1 DEF AllSound
  <2>9. QED
    BY <2>1, <2>6, <2>7, <2>8
<1>5. QED
  BY <1>3, <1>4 DEF FollowInv, BreakersFollow

LEMMA FollowNext == Inv /\ AttemptInv /\ FollowInv /\ [Next]_vars => FollowInv'
<1> SUFFICES ASSUME Inv, AttemptInv, FollowInv, [Next]_vars PROVE FollowInv'
  OBVIOUS
<1>0. TypeOK /\ AllSound(breakers) /\ RequestsTyped /\ RequestsTyped' /\ NoneTried
  <2>1. TypeOK /\ AllSound(breakers) /\ NoneTried
    BY InvTyped DEF Inv, FollowInv
  <2>2. RequestsTyped /\ RequestsTyped'
    BY <2>1, RequestsNext DEF Inv
  <2>3. QED
    BY <2>1, <2>2
<1>1. \A t \in Targets :
        /\ Cardinality(LostOn(t)) \in Nat
        /\ SoundBreaker(breakers[t])
        /\ Follows(breakers[t], Cardinality(LostOn(t)), WonOn(t) # {})
  <2>1. \A t \in Targets : LostOn(t) \subseteq Places
    BY DEF LostOn, Places
  <2>2. QED
    BY <1>0, <2>1, PlacesAreCounted DEF AllSound, FollowInv, BreakersFollow
(* Steps of a request that lose and win nothing, by what becomes of the    *)
(* breakers.                                                               *)
<1>2. ASSUME NEW r \in Requests, UNCHANGED at,
             \A q \in Requests : q # r => pc'[q] = pc[q] /\ candidates'[q] = candidates[q],
             pc[r] \notin {"failed", "degraded", "succeeded"},
             pc'[r] \notin {"failed", "degraded", "succeeded"},
             candidates'[r] = candidates[r] \/ at[r] = 0,
             pc'[r] \in {"new", "filtering"} => at[r] = 0,
             \A t \in Targets : breakers'[t] \in {breakers[t], Observed(breakers[t])}
      PROVE  FollowInv'
  <2>1. \A t : LostOn(t)' = LostOn(t)
    BY <1>0, <1>2, LostKept DEF RequestsTyped
  <2>2. \A t : WonOn(t)' = WonOn(t)
    BY <1>2, WonKept
  <2>3. BreakersFollow'
    BY <1>1, <1>2, <2>1, <2>2, TimeFollows DEF BreakersFollow
  <2>4. NoneTried'
    BY <1>0, <1>2 DEF NoneTried
  <2>5. QED
    BY <2>3, <2>4 DEF FollowInv
<1>3. ASSUME NEW r \in Requests, Start(r) PROVE FollowInv'
  <2>1. pc[r] = "new" /\ at[r] = 0 /\ todo[r] \in Seq(Targets)
    BY <1>0, <1>3 DEF Start, NoneTried, RequestsTyped
  <2>2. CASE Ends(r, "filtering") /\ UNCHANGED <<candidates, at, breakers>>
    <3>1. pc'[r] = "filtering" /\ \A q \in Requests : q # r => pc'[q] = pc[q]
      BY <1>0, <2>2, EndsMoves DEF Points
    <3>2. QED
      BY <1>2, <2>1, <2>2, <3>1
  <2>3. CASE /\ GoOn(r, todo[r], 0, breakers, sem)
             /\ candidates' = [candidates EXCEPT ![r] = todo[r]]
    <3>1. /\ candidates' \in [Requests -> Seq(Targets)] /\ candidates'[r] = todo[r]
          /\ \A q \in Requests : q # r => candidates'[q] = candidates[q]
      BY <1>0, <2>1, <2>3 DEF RequestsTyped
    <3>2. \A t : LostOn(t) \cup Attempt(r, todo[r], at[r], t) = LostOn(t)
      BY <2>1, AttemptsArePlaces DEF Attempt
    <3>3. GoOn(r, todo[r], at[r], breakers, sem)
      BY <2>1, <2>3
    <3>4. \A t \in Targets :
            Follows(breakers[t], Cardinality(LostOn(t) \cup Attempt(r, todo[r], at[r], t)),
                    WonOn(t) # {})
      BY <1>1, <3>2
    <3>5. pc[r] \notin {"failed", "degraded", "succeeded"}
      BY <2>1
    <3>6. QED
      BY <1>0, <2>1, <3>1, <3>3, <3>4, <3>5, GoOnFollows
  <2>4. QED
    BY <1>3, <2>2, <2>3 DEF Start
<1>4. ASSUME NEW r \in Requests, Check(r) PROVE FollowInv'
  <2>1. /\ pc[r] = "filtering" /\ at[r] = 0
        /\ todo[r] \in Seq(Targets) /\ todo[r] # <<>> /\ candidates[r] \in Seq(Targets)
    BY <1>0, <1>4 DEF Check, NoneTried, RequestsTyped
  <2>2. Head(todo[r]) \in Targets
    BY <2>1
  <2> DEFINE table == [breakers EXCEPT ![Head(todo[r])] = Observed(@)]
  <2>3. PICK seen : seen = table
    OBVIOUS
  <2>4. AllSound(seen) /\ \A t \in Targets : seen[t] \in {breakers[t], Observed(breakers[t])}
    BY <1>0, <2>3, TableSteps DEF AllSound
  <2>5. PICK cs \in {candidates[r], Append(candidates[r], Head(todo[r]))} :
          /\ candidates' = [candidates EXCEPT ![r] = cs]
          /\ \/ breakers' = seen /\ UNCHANGED <<pc, at>>
             \/ GoOn(r, cs, 0, seen, sem)
    BY <1>4, <2>3 DEF Check
  <2>6. cs \in Seq(Targets)
    <3>1. Append(candidates[r], Head(todo[r])) \in Seq(Targets)
      BY <2>1, <2>2
    <3>2. QED
      BY <2>1, <2>5, <3>1
  <2>7. /\ candidates' \in [Requests -> Seq(Targets)] /\ candidates'[r] = cs
        /\ \A q \in Requests : q # r => candidates'[q] = candidates[q]
    BY <1>0, <2>5, <2>6 DEF RequestsTyped
  <2>8. CASE breakers' = seen /\ UNCHANGED <<pc, at>>
    BY <1>2, <2>1, <2>4, <2>7, <2>8
  <2>9. CASE GoOn(r, cs, 0, seen, sem)
    <3>1. \A t : LostOn(t) \cup Attempt(r, cs, at[r], t) = LostOn(t)
      BY <2>1, <2>6, AttemptsArePlaces DEF Attempt
    <3>2. \A t \in Targets : Follows(seen[t], Cardinality(LostOn(t)), WonOn(t) # {})
      BY <1>1, <2>4, TimeFollows
    <3>3. GoOn(r, cs, at[r], seen, sem)
      BY <2>1, <2>9
    <3>4. \A t \in Targets :
            Follows(seen[t], Cardinality(LostOn(t) \cup Attempt(r, cs, at[r], t)),
                    WonOn(t) # {})
      BY <3>1, <3>2
    <3>5. pc[r] \notin {"failed", "degraded", "succeeded"}
      BY <2>1
    <3>6. QED
      BY <1>0, <2>1, <2>4, <2>6, <2>7, <3>3, <3>4, <3>5, GoOnFollows
  <2>10. QED
    BY <2>5, <2>8, <2>9
<1>5. ASSUME NEW r \in Requests, Fails(r) \/ TimedOut(r) PROVE FollowInv'
  <2>1. /\ pc[r] \in {"invoking", "timing_out"} /\ UNCHANGED candidates
        /\ candidates[r] \in Seq(Targets) /\ at[r] \in 1 .. Len(candidates[r])
        /\ at[r] <= MaxRetries + 1
    BY <1>0, <1>5
       DEF Fails, TimedOut, NextAfterFailure, RequestsTyped, Trying, AttemptInv, WithinRetries
  <2>2. at[r] \in Attempts(candidates[r]) /\ Target(r) \in Targets
    BY <2>1, DispatcherAssumption DEF Attempts, Target
  <2>3. PICK brk : brk = [breakers EXCEPT ![Target(r)] = AfterFailure(@)]
    OBVIOUS
  <2>4. AllSound(brk)
    BY <1>0, <2>3, TableSteps
  <2>5. GoOn(r, candidates[r], at[r], brk, Released(sem))
    BY <1>5, <2>3 DEF Fails, TimedOut, NextAfterFailure
  <2>6. ASSUME NEW t \in Targets
        PROVE  Follows(brk[t],
                       Cardinality(LostOn(t) \cup Attempt(r, candidates[r], at[r], t)),
                       WonOn(t) # {})
    <3>1. CASE t = Target(r)
      <4>1. Attempt(r, candidates[r], at[r], t) = {<<r, at[r]>>}
        BY <2>2, <3>1 DEF Attempt, Target
      <4>2. <<r, at[r]>> \notin LostOn(t) /\ IsFiniteSet(LostOn(t))
        <5>1. ~(at[r] < at[r])
          BY <2>1
        <5>2. LostOn(t) \subseteq Places
          BY DEF LostOn, Places
        <5>3. QED
          BY <2>1, <5>1, <5>2, PlacesAreCounted DEF LostOn, GonePast
      <4>3. Cardinality(LostOn(t) \cup {<<r, at[r]>>}) = Cardinality(LostOn(t)) + 1
        BY <4>2, FS_AddElement
      <4>4. brk[t] = AfterFailure(breakers[t])
        BY <1>0, <2>3, <3>1 DEF AllSound
      <4>5. QED
        BY <1>1, <4>1, <4>3, <4>4, FailureFollows
    <3>2. CASE t # Target(r)
      <4>1. Attempt(r, candidates[r], at[r], t) = {} /\ brk[t] = breakers[t]
        BY <1>0, <2>3, <3>2 DEF Attempt, Target, AllSound
      <4>2. QED
        BY <1>1, <4>1
    <3>3. QED
      BY <3>1, <3>2
  <2>7. /\ candidates' \in [Requests -> Seq(Targets)] /\ candidates'[r] = candidates[r]
        /\ \A q \in Requests : q # r => candidates'[q] = candidates[q]
    BY <1>0, <2>1 DEF RequestsTyped
  <2>8. QED
    BY <1>0, <2>1, <2>2, <2>4, <2>5, <2>6, <2>7, GoOnFollows
<1>6. ASSUME NEW r \in Requests, Succeeds(r) PROVE FollowInv'
  <2>1. /\ pc[r] = "invoking" /\ Ends(r, "succeeded") /\ UNCHANGED <<candidates, at>>
        /\ breakers' = [breakers EXCEPT ![Target(r)] = AfterSuccess(@)]
    BY <1>6 DEF Succeeds
  <2>2. pc'[r] = "succeeded" /\ \A q \in Requests : q # r => pc'[q] = pc[q]
    BY <1>0, <2>1, EndsMoves DEF Points, Ended
  <2>3. \A t : LostOn(t)' = LostOn(t)
    BY <1>0, <2>1, <2>2, LostKept DEF RequestsTyped
  <2>4. \A t \in Targets : WonOn(t)' = IF t = Target(r) THEN WonOn(t) \cup {r} ELSE WonOn(t)
    BY <2>1, <2>2 DEF WonOn, Target
  <2>5. ASSUME NEW t \in Targets
        PROVE  Follows(breakers'[t], Cardinality(LostOn(t)'), WonOn(t)' # {})
    <3>1. CASE t = Target(r)
      <4>1. breakers'[t] = AfterSuccess(breakers[t]) /\ (WonOn(t)' # {}) = TRUE
        BY <1>0, <2>1, <2>4, <3>1 DEF AllSound
      <4>2. QED
        BY <1>1, <2>3, <4>1, SuccessFollows
    <3>2. CASE t # Target(r)
      BY <1>0, <1>1, <2>1, <2>3, <2>4, <3>2 DEF AllSound
    <3>3. QED
      BY <3>1, <3>2
  <2>6. NoneTried'
    BY <1>0, <2>1, <2>2 DEF NoneTried
  <2>7. QED
    BY <2>5, <2>6 DEF FollowInv, BreakersFollow
<1>7. ASSUME NEW r \in Requests,
             \/ Acquired(r) \/ TimesOut(r) \/ Raises(r) \/ Unwound(r)
             \/ CancelWaiting(r) \/ CancelInvoking(r)
      PROVE  FollowInv'
  <2>1. PICK how \in {"invoking", "timing_out", "raised", "unwinding", "cancelled"} : Ends(r, how)
    BY <1>7 DEF Acquired, TimesOut, Raises, Unwound, CancelWaiting, CancelInvoking
  <2>2. pc'[r] = how /\ \A q \in Requests : q # r => pc'[q] = pc[q]
    BY <1>0, <2>1, EndsMoves DEF Points, Ended
  <2>3. /\ UNCHANGED <<candidates, at, breakers>>
        /\ pc[r] \notin {"failed", "degraded", "succeeded"}
    BY <1>7 DEF Acquired, TimesOut, Raises, Unwound, CancelWaiting, CancelInvoking
  <2>4. QED
    BY <1>2, <2>2, <2>3
<1>8. ASSUME UNCHANGED <<pc, at, candidates>>,
             \A t \in Targets : breakers'[t] \in {breakers[t], Older(breakers[t])}
      PROVE  FollowInv'
  <2>1. \A t : LostOn(t)' = LostOn(t) /\ WonOn(t)' = WonOn(t)
    BY <1>8 DEF LostOn, GonePast, WonOn, Target
  <2>2. QED
    BY <1>0, <1>1, <1>8, <2>1, TimeFollows DEF FollowInv, BreakersFollow, NoneTried
<1>9. ASSUME Tick \/ Expire \/ UNCHANGED vars PROVE FollowInv'
  BY <1>8, <1>9 DEF Tick, Expire, vars
<1>10. QED
  BY <1>3, <1>4, <1>5, <1>6, <1>7, <1>9 DEF Next, InvokeEnds

(* The breaker of a target is opened by the attempts that failed or timed  *)
(* out there, each recorded once, and by nothing else, for any thresholds  *)
(* and any number of requests: the late end of a timeout, a cancellation,  *)
(* and candidates passed over do not count as failures.                    *)
THEOREM BreakersFollowTheAttempts == Spec => []BreakersFollowAttempts
<1>1. Init => FollowInv
  <2> SUFFICES ASSUME Init PROVE FollowInv
    OBVIOUS
  <2>1. ASSUME NEW t \in Targets PROVE Follows(breakers[t], Cardinality(LostOn(t)), WonOn(t) # {})
    <3>1. \A q \in Requests, j \in 1 .. MaxRetries + 1 : ~GonePast(q, j)
      BY DispatcherAssumption DEF Init, GonePast
    <3>2. LostOn(t) = {}
      BY <3>1 DEF LostOn
    <3>3. Cardinality(LostOn(t)) = 0
      BY <3>2, FS_EmptySet
    <3>4. FailedAt(<<>>) = {}
      BY DEF FailedAt
    <3>5. Failures(<<>>) = 0
      BY <3>4, FS_EmptySet DEF Failures
    <3>6. breakers[t].state = "closed" /\ breakers[t].results = <<>>
      BY DEF Init, NewBreaker
    <3>7. QED
      BY <3>3, <3>5, <3>6 DEF Follows
  <2>2. NoneTried
    BY DEF Init, NoneTried
  <2>3. QED
    BY <2>1, <2>2 DEF FollowInv, BreakersFollow
<1>2. (Inv /\ AttemptInv) /\ FollowInv /\ [Next]_vars => FollowInv'
  BY FollowNext
<1>3. Inv /\ FollowInv => BreakersFollowAttempts
  <2> SUFFICES ASSUME Inv, FollowInv, NEW t \in Targets
               PROVE  /\ Cardinality(LostOn(t)) < FailureThreshold =>
                            breakers[t].state = "closed"
                      /\ breakers[t].state = "closed" /\ WonOn(t) = {} =>
                            Cardinality(LostOn(t)) < FailureThreshold
    BY DEF BreakersFollowAttempts
  <2>1. LostOn(t) \subseteq Places
    BY DEF LostOn, Places
  <2>2. Cardinality(LostOn(t)) \in Nat /\ FailureThreshold \in Nat
    BY <2>1, PlacesAreCounted, BreakerAssumption
  <2>3. Follows(breakers[t], Cardinality(LostOn(t)), WonOn(t) # {})
    BY DEF FollowInv, BreakersFollow
  <2>4. breakers[t].state = "closed" => Failures(breakers[t].results) < FailureThreshold
    BY SoundFields DEF Inv, AllSound
  <2>5. QED
    BY <2>2, <2>3, <2>4 DEF Follows
<1>4. QED
  BY <1>1, <1>2, <1>3, AttemptInvariant, PTL DEF Spec

-----------------------------------------------------------------------------
(* Why a dispatch ends                                                     *)

(* What is still ahead of a dispatch: its stages, in a stage the health    *)
(* checks or the attempts left, and within an attempt its awaits.          *)
Stage(r) ==
  IF pc[r] = "new" THEN 3 ELSE IF pc[r] = "filtering" THEN 2 ELSE IF Trying(r) THEN 1 ELSE 0

TurnsLeft(r) ==
  IF pc[r] = "filtering" THEN Len(todo[r])
  ELSE IF Trying(r) THEN MaxRetries + 1 - at[r] ELSE 0

AwaitsLeft(r) ==
  CASE pc[r] = "queued"     -> 3
    [] pc[r] = "invoking"   -> 2
    [] pc[r] = "timing_out" -> 1
    [] OTHER                -> 0

Nearer(r) ==
  \/ Stage(r)' < Stage(r)
  \/ /\ Stage(r)' = Stage(r)
     /\ TurnsLeft(r)' < TurnsLeft(r)
  \/ /\ Stage(r)' = Stage(r)
     /\ TurnsLeft(r)' = TurnsLeft(r)
     /\ AwaitsLeft(r)' < AwaitsLeft(r)

Stays(r) ==
  /\ pc'[r] = pc[r]
  /\ TurnsLeft(r)' = TurnsLeft(r)

StepOf(r) ==
  Start(r) \/ Check(r) \/ Acquired(r) \/ InvokeEnds(r) \/ CancelWaiting(r) \/ CancelInvoking(r)

(* The turns left are never below zero, and every step either takes a      *)
(* request on, or leaves it where it is; its own steps take it on.         *)
NoDispatchTurnsBack ==
  [][\A r \in Requests :
       /\ TurnsLeft(r) \in Nat
       /\ Stays(r) \/ Nearer(r)
       /\ StepOf(r) => Nearer(r)]_vars

LEMMA LeadStep ==
  ASSUME Inv, AttemptInv, AttemptInv', NEW r \in Requests, StepOf(r)
  PROVE  /\ Nearer(r)
         /\ \A q \in Requests : q # r => pc'[q] = pc[q] /\ at'[q] = at[q] /\ todo'[q] = todo[q]
<1>0. TypeOK /\ RequestsTyped
  BY InvTyped DEF Inv
<1> DEFINE Others == \A q \in Requests : q # r => pc'[q] = pc[q] /\ at'[q] = at[q] /\ todo'[q] = todo[q]
<1>1. ASSUME NEW cs \in Seq(Targets), NEW k \in Nat, NEW brk, NEW s, GoOn(r, cs, k, brk, s),
             pc[r] \in {"new", "filtering"} \/ (Trying(r) /\ k = at[r]),
             \A q \in Requests : q # r => todo'[q] = todo[q]
      PROVE  Nearer(r) /\ Others
  <2>1. /\ \A q \in Requests : q # r => pc'[q] = pc[q] /\ at'[q] = at[q]
        /\ \/ /\ pc'[r] \in {"queued", "invoking"}
              /\ at'[r] \in Nat /\ at'[r] > k /\ at'[r] <= MaxRetries + 1
           \/ pc'[r] \in {"failed", "degraded"}
    BY <1>0, <1>1, GoOnLeads
  <2>2. CASE pc'[r] \in {"failed", "degraded"}
    <3>1. Stage(r)' = 0 /\ Stage(r) \in 1 .. 3
      BY <1>1, <2>2 DEF Stage, Trying
    <3>2. QED
      BY <1>1, <2>1, <3>1 DEF Nearer
  <2>3. CASE pc'[r] \in {"queued", "invoking"} /\ at'[r] \in Nat /\ at'[r] > k
    <3>1. Stage(r)' = 1 /\ TurnsLeft(r)' = MaxRetries + 1 - at'[r]
      BY <2>3 DEF Stage, TurnsLeft, Trying
    <3>2. CASE pc[r] \in {"new", "filtering"}
      <4>1. Stage(r) \in {2, 3}
        BY <3>2 DEF Stage
      <4>2. QED
        BY <1>1, <2>1, <3>1, <4>1 DEF Nearer
    <3>3. CASE Trying(r) /\ k = at[r]
      <4>1. Stage(r) = 1 /\ TurnsLeft(r) = MaxRetries + 1 - at[r]
        BY <3>3 DEF Stage, TurnsLeft, Trying
      <4>2. TurnsLeft(r)' < TurnsLeft(r)
        BY <1>1, <2>3, <3>1, <3>3, <4>1, DispatcherAssumption
      <4>3. QED
        BY <1>1, <2>1, <3>1, <4>1, <4>2 DEF Nearer
    <3>4. QED
      BY <1>1, <3>2, <3>3
  <2>4. QED
    BY <2>1, <2>2, <2>3
<1>2. ASSUME NEW how \in Points, Ends(r, how), UNCHANGED <<todo, at>>,
             \/ how \in Ended /\ pc[r] \notin Ended
             \/ pc[r] = "new" /\ how = "filtering"
             \/ pc[r] = "queued" /\ how = "invoking"
             \/ pc[r] = "invoking" /\ how = "timing_out"
             \/ pc[r] \in {"invoking", "timing_out"} /\ how = "unwinding"
      PROVE  Nearer(r) /\ Others
  <2>1. pc'[r] = how /\ (\A q \in Requests : q # r => pc'[q] = pc[q])
        /\ todo' = todo /\ at' = at
    BY <1>0, <1>2, EndsMoves
  <2>2. CASE how \in Ended /\ pc[r] \notin Ended
    <3>1. Stage(r)' = 0 /\ Stage(r) \in 1 .. 3
      BY <1>0, <2>1, <2>2 DEF Stage, Trying, Ended, Points, TypeOK
    <3>2. QED
      BY <2>1, <3>1 DEF Nearer
  <2>3. CASE pc[r] = "new" /\ how = "filtering"
    BY <2>1, <2>3 DEF Nearer, Stage
  <2>4. CASE \/ pc[r] = "queued" /\ how = "invoking"
             \/ pc[r] = "invoking" /\ how = "timing_out"
             \/ pc[r] \in {"invoking", "timing_out"} /\ how = "unwinding"
    <3>1. Stage(r)' = Stage(r) /\ TurnsLeft(r)' = TurnsLeft(r)
      BY <2>1, <2>4 DEF Stage, TurnsLeft, Trying
    <3>2. AwaitsLeft(r)' < AwaitsLeft(r)
      BY <2>1, <2>4 DEF AwaitsLeft
    <3>3. QED
      BY <2>1, <3>1, <3>2 DEF Nearer
  <2>5. QED
    BY <1>2, <2>2, <2>3, <2>4
<1>3. ASSUME Start(r)
      PROVE  Nearer(r) /\ Others
  <2>1. todo[r] \in Seq(Targets) /\ pc[r] = "new"
    BY <1>0, <1>3 DEF RequestsTyped, Start
  <2>2. CASE Ends(r, "filtering") /\ UNCHANGED <<todo, at>>
    BY <1>2, <2>1, <2>2 DEF Points
  <2>3. CASE /\ GoOn(r, todo[r], 0, breakers, sem)
             /\ todo' = [todo EXCEPT ![r] = <<>>]
    <3>1. \A q \in Requests : q # r => todo'[q] = todo[q]
      BY <1>0, <2>3 DEF RequestsTyped
    <3>2. QED
      BY <1>1, <2>1, <2>3, <3>1
  <2>4. QED
    BY <1>3, <2>2, <2>3 DEF Start
<1>4. ASSUME Check(r)
      PROVE  Nearer(r) /\ Others
  <2>1. /\ todo[r] \in Seq(Targets) /\ todo[r] # <<>> /\ candidates[r] \in Seq(Targets)
        /\ pc[r] = "filtering"
    BY <1>0, <1>4 DEF RequestsTyped, Check
  <2>2. Head(todo[r]) \in Targets
    BY <2>1
  <2>3. Append(candidates[r], Head(todo[r])) \in Seq(Targets)
    BY <2>1, <2>2
  <2>4. ASSUME NEW cs \in Seq(Targets), Checked(r, cs)
        PROVE  Nearer(r) /\ Others
    <3>1. /\ todo'[r] = Tail(todo[r])
          /\ \A q \in Requests : q # r => todo'[q] = todo[q]
      BY <1>0, <2>4 DEF Checked, RequestsTyped
    <3>2. CASE UNCHANGED <<pc, at>>
      <4>1. Len(todo'[r]) < Len(todo[r])
        <5>1. Len(Tail(todo[r])) = Len(todo[r]) - 1
          BY <2>1, ElementsSteps
        <5>2. Len(todo[r]) \in Nat
          BY <2>1
        <5>3. QED
          BY <3>1, <5>1, <5>2
      <4>2. /\ Stage(r)' = Stage(r)
            /\ TurnsLeft(r)' = Len(todo'[r]) /\ TurnsLeft(r) = Len(todo[r])
        BY <2>1, <3>2 DEF Stage, TurnsLeft, Trying
      <4>3. QED
        BY <3>1, <3>2, <4>1, <4>2 DEF Nearer
    <3>3. CASE GoOn(r, cs, 0, [breakers EXCEPT ![Head(todo[r])] = Observed(@)], sem)
      BY <1>1, <2>1, <2>4, <3>1, <3>3
    <3>4. QED
      BY <2>4, <3>2, <3>3 DEF Checked
  <2>5. QED
    BY <1>4, <2>1, <2>3, <2>4, CheckEffect
<1>5. ASSUME Fails(r) \/ TimedOut(r)
      PROVE  Nearer(r) /\ Others
  <2>1. /\ NextAfterFailure(r) /\ candidates[r] \in Seq(Targets) /\ at[r] \in Nat
        /\ Trying(r) /\ todo' = todo
    BY <1>0, <1>5 DEF Fails, TimedOut, RequestsTyped, Trying, NextAfterFailure
  <2>2. QED
    BY <1>1, <2>1 DEF NextAfterFailure
<1>6. ASSUME \/ Acquired(r) \/ Succeeds(r) \/ TimesOut(r) \/ Raises(r) \/ Unwound(r)
             \/ CancelWaiting(r) \/ CancelInvoking(r)
      PROVE  Nearer(r) /\ Others
  <2>1. PICK how \in Points :
          /\ Ends(r, how)
          /\ \/ how \in Ended /\ pc[r] \notin Ended
             \/ pc[r] = "queued" /\ how = "invoking"
             \/ pc[r] = "invoking" /\ how = "timing_out"
             \/ pc[r] \in {"invoking", "timing_out"} /\ how = "unwinding"
    BY <1>6 DEF Acquired, Succeeds, TimesOut, Raises, Unwound, CancelWaiting,
                CancelInvoking, Points, Ended
  <2>2. UNCHANGED <<todo, at>>
    BY <1>6 DEF Acquired, Succeeds, TimesOut, Raises, Unwound, CancelWaiting, CancelInvoking
  <2>3. QED
    BY <1>2, <2>1, <2>2
<1>7. QED
  BY <1>3, <1>4, <1>5, <1>6 DEF StepOf, InvokeEnds

(* Failover is bounded: health checks and attempts are used up one by one, *)
(* at most max_retries + 1 of them are made, and neither other requests,   *)
(* nor time, nor cancellations take a request back.  The safety half of    *)
(* EveryDispatchEnds.                                                      *)
THEOREM DispatchesTurnForward == Spec => NoDispatchTurnsBack
<1>1. ASSUME Inv, AttemptInv, [Next]_vars, NEW r \in Requests
      PROVE  /\ TurnsLeft(r) \in Nat
             /\ Stays(r) \/ Nearer(r)
             /\ StepOf(r) => Nearer(r)
  <2>0. AttemptInv'
    BY <1>1, AttemptNext
  <2>1. TurnsLeft(r) \in Nat
    <3>1. CASE Trying(r)
      <4>1. at[r] \in Nat /\ at[r] <= MaxRetries + 1
        BY <1>1, <3>1 DEF Inv, RequestsTyped, AttemptInv, WithinRetries
      <4>2. QED
        BY <3>1, <4>1, DispatcherAssumption DEF TurnsLeft, Trying
    <3>2. CASE pc[r] = "filtering"
      <4>1. todo[r] \in Seq(Targets)
        BY <1>1 DEF Inv, RequestsTyped
      <4>2. QED
        BY <3>2, <4>1 DEF TurnsLeft
    <3>3. QED
      BY <3>1, <3>2 DEF TurnsLeft
  <2>2. ASSUME pc'[r] = pc[r], at'[r] = at[r], todo'[r] = todo[r]
        PROVE  Stays(r)
    BY <2>2 DEF Stays, TurnsLeft, Trying
  <2>3. StepOf(r) => Nearer(r)
    BY <1>1, <2>0, LeadStep
  <2>4. ASSUME NEW q \in Requests, q # r, StepOf(q)
        PROVE  Stays(r)
    BY <1>1, <2>0, <2>2, <2>4, LeadStep
  <2>5. ASSUME Tick \/ Expire \/ UNCHANGED vars
        PROVE  Stays(r)
    BY <2>2, <2>5 DEF Tick, Expire, vars
  <2>6. QED
    BY <1>1, <2>1, <2>3, <2>4, <2>5 DEF Next, StepOf
<1>2. Inv /\ AttemptInv /\ [Next]_vars =>
        [\A r \in Requests : /\ TurnsLeft(r) \in Nat
                             /\ Stays(r) \/ Nearer(r)
                             /\ StepOf(r) => Nearer(r)]_vars
  BY <1>1
<1>3. QED
  BY <1>2, AttemptInvariant, PTL DEF Spec, NoDispatchTurnsBack

-----------------------------------------------------------------------------
(* The order of the queue                                                  *)

(* In s, a stands before b.                                                *)
Ahead(s, a, b) == \E i, j \in DOMAIN s : i < j /\ s[i] = a /\ s[j] = b

(* From one state of the semaphore to another, nobody who waits is woken   *)
(* before somebody ahead, and those who still wait have kept their order.  *)
InOrder(s, t) ==
  \A a, b \in Requests : Ahead(s.waiting, a, b) =>
    /\ b \notin t.woken
    /\ a \in Elements(t.waiting) /\ b \in Elements(t.waiting) => Ahead(t.waiting, a, b)

(* The head of the queue is ahead of nobody, and the others move up.       *)
LEMMA TailOrder ==
  ASSUME NEW S, NEW s \in Seq(S), s # <<>>, Distinct(s), NEW a, NEW b, Ahead(s, a, b)
  PROVE  /\ b # Head(s)
         /\ a \in Elements(Tail(s)) => Ahead(Tail(s), a, b)
<1>1. PICK i, j \in DOMAIN s : i < j /\ s[i] = a /\ s[j] = b
  BY DEF Ahead
<1>2. /\ Head(s) = s[1] /\ 1 \in DOMAIN s /\ i \in Nat /\ j \in Nat /\ i >= 1
      /\ DOMAIN Tail(s) = 1 .. (Len(s) - 1)
      /\ \A k \in DOMAIN Tail(s) : Tail(s)[k] = s[k + 1] /\ k + 1 \in DOMAIN s /\ k \in Nat
      /\ DOMAIN s = 1 .. Len(s) /\ Len(s) \in Nat
  OBVIOUS
<1>3. b # Head(s)
  BY <1>1, <1>2 DEF Distinct
<1>4. ASSUME a \in Elements(Tail(s))
      PROVE  Ahead(Tail(s), a, b)
  <2>1. PICK k \in DOMAIN Tail(s) : Tail(s)[k] = a
    BY <1>4 DEF Elements
  <2>2. k + 1 = i /\ k >= 1
    BY <1>1, <1>2, <2>1 DEF Distinct
  <2>3. /\ j - 1 \in DOMAIN Tail(s) /\ k < j - 1
        /\ (j - 1) + 1 = j
    BY <1>1, <1>2, <2>2
  <2>4. Tail(s)[j - 1] = b
    BY <1>1, <1>2, <2>3
  <2>5. QED
    BY <2>1, <2>3, <2>4 DEF Ahead
<1>5. QED
  BY <1>3, <1>4

LEMMA AppendOrder ==
  ASSUME NEW S, NEW s \in Seq(S), NEW x \in S, NEW a, NEW b
  PROVE  /\ Ahead(s, a, b) => Ahead(Append(s, x), a, b)
         /\ a # x /\ a \in Elements(Append(s, x)) => a \in Elements(s)
<1>1. \A i \in DOMAIN s : i \in DOMAIN Append(s, x) /\ Append(s, x)[i] = s[i]
  OBVIOUS
<1>2. \A i \in DOMAIN Append(s, x) :
        Append(s, x)[i] = x \/ (i \in DOMAIN s /\ Append(s, x)[i] = s[i])
  OBVIOUS
<1>3. QED
  BY <1>1, <1>2 DEF Ahead, Elements

(* Who leaves the queue does not disturb the others.                       *)
LEMMA WithoutOneOrder ==
  ASSUME NEW S, NEW s \in Seq(S), Distinct(s), NEW x, NEW a, NEW b,
         a # x, b # x, Ahead(s, a, b)
  PROVE  Ahead(WithoutOne(s, {i \in DOMAIN s : s[i] = x}), a, b)
<1> DEFINE places == {i \in DOMAIN s : s[i] = x}
<1>1. CASE places = {}
  BY <1>1 DEF WithoutOne
<1>2. CASE places # {}
  <2>1. PICK p \in DOMAIN s : s[p] = x
    BY <1>2
  <2>2. places = {p}
    BY <2>1 DEF Distinct
  <2>3. (CHOOSE q \in places : TRUE) = p
    BY <2>2
  <2> DEFINE t == [k \in 1 .. (Len(s) - 1) |-> IF k < p THEN s[k] ELSE s[k + 1]]
  <2>4. WithoutOne(s, places) = t
    BY <1>2, <2>3 DEF WithoutOne
  <2>5. PICK i, j \in DOMAIN s : i < j /\ s[i] = a /\ s[j] = b
    BY DEF Ahead
  <2>6. i # p /\ j # p
    BY <2>1, <2>5
  <2> DEFINE ii == IF i < p THEN i ELSE i - 1
             jj == IF j < p THEN j ELSE j - 1
  <2>7. ii \in DOMAIN t /\ jj \in DOMAIN t /\ ii < jj
    BY <2>1, <2>5, <2>6
  <2>8. t[ii] = a /\ t[jj] = b
    <3>1. ii \in 1 .. (Len(s) - 1) /\ jj \in 1 .. (Len(s) - 1)
      BY <2>7
    <3>2. /\ ii < p => ii = i
          /\ ~(ii < p) => ii + 1 = i
      BY <2>1, <2>5, <2>6
    <3>3. /\ jj < p => jj = j
          /\ ~(jj < p) => jj + 1 = j
      BY <2>1, <2>5, <2>6
    <3> HIDE DEF ii, jj
    <3>4. QED
      BY <2>5, <3>1, <3>2, <3>3
  <2> HIDE DEF ii, jj, t
  <2>9. QED
    BY <2>4, <2>7, <2>8 DEF Ahead
<1>3. QED
  BY <1>1, <1>2

(* Who is in the queue is there once, and not woken.                       *)
Queue(s) ==
  /\ s \in [permits: Nat, waiting: Seq(Requests), woken: SUBSET Requests]
  /\ Distinct(s.waiting)
  /\ Elements(s.waiting) \cap s.woken = {}

LEMMA AheadWaits ==
  ASSUME NEW s, NEW a, NEW b, Ahead(s, a, b)
  PROVE  a \in Elements(s) /\ b \in Elements(s)
BY DEF Ahead, Elements

(* To wake the next one keeps the order; nothing else happens to the queue. *)
LEMMA WakeOrder ==
  ASSUME NEW s, Queue(s)
  PROVE  /\ InOrder(s, Wake(s))
         /\ Wake(s).waiting \in Seq(Requests)
         /\ Elements(Wake(s).waiting) \subseteq Elements(s.waiting)
<1>1. s.waiting \in Seq(Requests)
  BY DEF Queue
<1>2. CASE s.waiting # <<>> /\ s.permits > 0
  <2>1. /\ Wake(s).waiting = Tail(s.waiting)
        /\ Wake(s).woken = s.woken \cup {Head(s.waiting)}
    BY <1>2 DEF Wake
  <2>2. ASSUME NEW a \in Requests, NEW b \in Requests, Ahead(s.waiting, a, b)
        PROVE  /\ b \notin Wake(s).woken
               /\ a \in Elements(Wake(s).waiting) => Ahead(Wake(s).waiting, a, b)
    <3>1. /\ b # Head(s.waiting)
          /\ a \in Elements(Tail(s.waiting)) => Ahead(Tail(s.waiting), a, b)
      BY <1>1, <1>2, <2>2, TailOrder DEF Queue
    <3>2. b \notin s.woken
      BY <2>2, AheadWaits DEF Queue
    <3>3. QED
      BY <2>1, <3>1, <3>2
  <2>3. Tail(s.waiting) \in Seq(Requests) /\ Elements(Tail(s.waiting)) \subseteq Elements(s.waiting)
    BY <1>1, <1>2, ElementsSteps
  <2>4. QED
    BY <2>1, <2>2, <2>3 DEF InOrder
<1>3. CASE ~(s.waiting # <<>> /\ s.permits > 0)
  <2>1. Wake(s) = s
    BY <1>3 DEF Wake
  <2>2. QED
    BY <1>1, <2>1, AheadWaits DEF InOrder, Queue
<1>4. QED
  BY <1>2, <1>3

(* The same with a permit more, or with somebody less who was woken.       *)
LEMMA ReleasedOrder ==
  ASSUME NEW s, Queue(s)
  PROVE  /\ InOrder(s, Released(s))
         /\ Released(s).waiting \in Seq(Requests)
         /\ Elements(Released(s).waiting) \subseteq Elements(s.waiting)
<1> DEFINE t == [s EXCEPT !.permits = @ + 1]
<1>1. t.waiting = s.waiting /\ t.woken = s.woken /\ t.permits \in Nat
  BY DEF Queue
<1>2. Queue(t)
  BY <1>1 DEF Queue
<1> HIDE DEF t
<1>3. InOrder(t, Wake(t)) /\ Wake(t).waiting \in Seq(Requests)
      /\ Elements(Wake(t).waiting) \subseteq Elements(t.waiting)
  BY <1>2, WakeOrder
<1>4. QED
  BY <1>1, <1>3 DEF InOrder, Released, t

LEMMA RunningOrder ==
  ASSUME NEW s, Queue(s), NEW r
  PROVE  LET t == [s EXCEPT !.woken = @ \ {r}]
         IN  Queue(t) /\ t.waiting = s.waiting
BY DEF Queue

LEMMA AcquiringOrder ==
  ASSUME NEW s, NEW t, Queue(s), InOrder(s, t), t.waiting \in Seq(Requests),
         Elements(t.waiting) \subseteq Elements(s.waiting),
         NEW r \in Requests, r \notin Elements(s.waiting),
         t \in [permits: Nat, waiting: Seq(Requests), woken: SUBSET Requests]
  PROVE  InOrder(s, Acquiring(t, r))
<1>1. CASE Free(t)
  <2>1. Acquiring(t, r).waiting = t.waiting /\ Acquiring(t, r).woken = t.woken
    BY <1>1 DEF Acquiring
  <2>2. QED
    BY <2>1 DEF InOrder
<1>2. CASE ~Free(t)
  <2>1. Acquiring(t, r).waiting = Append(t.waiting, r) /\ Acquiring(t, r).woken = t.woken
    BY <1>2 DEF Acquiring
  <2>2. ASSUME NEW a \in Requests, NEW b \in Requests, Ahead(s.waiting, a, b),
               a \in Elements(Append(t.waiting, r)), b \in Elements(Append(t.waiting, r))
        PROVE  Ahead(Append(t.waiting, r), a, b)
    <3>1. a # r /\ b # r
      BY <2>2, AheadWaits
    <3>2. a \in Elements(t.waiting) /\ b \in Elements(t.waiting)
      BY <2>2, <3>1, AppendOrder
    <3>3. Ahead(t.waiting, a, b)
      BY <2>2, <3>2 DEF InOrder
    <3>4. QED
      BY <3>3, AppendOrder
  <2>3. QED
    BY <2>1, <2>2 DEF InOrder
<1>3. QED
  BY <1>1, <1>2

LEMMA LeavingOrder ==
  ASSUME NEW s, Queue(s), NEW r
  PROVE  InOrder(s, Leaving(s, r))
<1>1. CASE r \in s.woken
  <2> DEFINE t == [s EXCEPT !.woken = @ \ {r}]
  <2>1. Queue(t) /\ t.waiting = s.waiting
    BY RunningOrder
  <2>2. Leaving(s, r) = Released(t)
    BY <1>1 DEF Leaving
  <2> HIDE DEF t
  <2>3. InOrder(t, Released(t))
    BY <2>1, ReleasedOrder
  <2>4. QED
    BY <2>1, <2>2, <2>3 DEF InOrder
<1>2. CASE r \notin s.woken
  <2> DEFINE w == WithoutOne(s.waiting, {i \in DOMAIN s.waiting : s.waiting[i] = r})
  <2>1. s.waiting \in Seq(Requests) /\ Distinct(s.waiting)
    BY DEF Queue
  <2>2. Leaving(s, r).waiting = w /\ Leaving(s, r).woken = s.woken
    BY <1>2 DEF Leaving, Queue
  <2>3. Elements(w) = Elements(s.waiting) \ {r}
    BY <2>1, WithoutOneRemoves
  <2>4. ASSUME NEW a \in Requests, NEW b \in Requests, Ahead(s.waiting, a, b),
               a \in Elements(w), b \in Elements(w)
        PROVE  Ahead(w, a, b)
    BY <2>1, <2>3, <2>4, WithoutOneOrder
  <2>5. ASSUME NEW a \in Requests, NEW b \in Requests, Ahead(s.waiting, a, b)
        PROVE  b \notin s.woken
    BY <2>5, AheadWaits DEF Queue
  <2>6. QED
    BY <2>2, <2>4, <2>5 DEF InOrder
<1>3. QED
  BY <1>1, <1>2

(* Requests get their permits in the order in which they queued for them.  *)
FirstComeFirstServed == [][InOrder(sem, sem')]_vars

(* The semaphore of dispatcher.py:186 starves nobody: no request that      *)
(* waits is overtaken, by a newer one or by one that failed over and       *)
(* queues again, whoever times out, is cancelled or gives a permit back.   *)
THEOREM NobodyIsOvertaken == Spec => FirstComeFirstServed
<1>1. ASSUME Inv, [Next]_vars
      PROVE  InOrder(sem, sem')
  <2>1. TypeOK /\ SemSettled /\ RequestsTyped
    BY <1>1, InvTyped DEF Inv
  <2>2. Queue(sem) /\ sem.waiting \in Seq(Requests) /\ Elements(sem.waiting) \subseteq Queued
    BY <2>1 DEF SemSettled, Settled, Loose, Queue
  <2>3. InOrder(sem, sem)
    BY <2>2, AheadWaits DEF InOrder, Queue
  <2>4. ASSUME NEW r \in Requests, Start(r) \/ Check(r)
        PROVE  InOrder(sem, sem')
    <3>1. r \notin Elements(sem.waiting)
      BY <2>2, <2>4 DEF Start, Check, Queued
    <3>2. sem' = sem \/ sem' = Acquiring(sem, r)
      BY <2>4 DEF Start, Check, GoOn
    <3>3. InOrder(sem, Acquiring(sem, r))
      BY <2>1, <2>2, <2>3, <3>1, AcquiringOrder DEF TypeOK
    <3>4. QED
      BY <2>3, <3>2, <3>3
  <2>5. ASSUME NEW r \in Requests, Fails(r) \/ TimedOut(r)
        PROVE  InOrder(sem, sem')
    <3>1. r \in Holders /\ r \notin Elements(sem.waiting)
      BY <2>2, <2>5 DEF Fails, TimedOut, Queued, Holders
    <3>2. sem' = Released(sem) \/ sem' = Acquiring(Released(sem), r)
      BY <2>5 DEF Fails, TimedOut, NextAfterFailure, GoOn
    <3>3. /\ InOrder(sem, Released(sem)) /\ Released(sem).waiting \in Seq(Requests)
          /\ Elements(Released(sem).waiting) \subseteq Elements(sem.waiting)
      BY <2>2, ReleasedOrder
    <3>4. Released(sem) \in [permits: Nat, waiting: Seq(Requests), woken: SUBSET Requests]
      BY <2>1, <3>1, ReleasedSettles DEF SemSettled, Settled, Loose
    <3>5. InOrder(sem, Acquiring(Released(sem), r))
      BY <2>2, <3>1, <3>3, <3>4, AcquiringOrder
    <3>6. QED
      BY <3>2, <3>3, <3>5
  <2>6. ASSUME NEW r \in Requests, Succeeds(r) \/ Raises(r) \/ Unwound(r)
        PROVE  InOrder(sem, sem')
    BY <2>2, <2>6, ReleasedOrder DEF Succeeds, Raises, Unwound
  <2>7. ASSUME NEW r \in Requests, Acquired(r)
        PROVE  InOrder(sem, sem')
    <3> DEFINE t == [sem EXCEPT !.woken = @ \ {r}]
    <3>1. Queue(t) /\ t.waiting = sem.waiting
      BY <2>2, RunningOrder
    <3>2. sem' = Wake(t)
      BY <2>7 DEF Acquired
    <3> HIDE DEF t
    <3>3. InOrder(t, Wake(t))
      BY <3>1, WakeOrder
    <3>4. QED
      BY <3>1, <3>2, <3>3 DEF InOrder
  <2>8. ASSUME NEW r \in Requests, CancelWaiting(r)
        PROVE  InOrder(sem, sem')
    BY <2>2, <2>8, LeavingOrder DEF CancelWaiting
  <2>9. CASE UNCHANGED sem
    BY <2>3, <2>9
  <2>10. ASSUME NEW r \in Requests, TimesOut(r) \/ CancelInvoking(r)
         PROVE  sem' = sem
    BY <2>10 DEF TimesOut, CancelInvoking
  <2>11. ASSUME Tick \/ Expire \/ UNCHANGED vars
         PROVE  sem' = sem
    BY <2>11 DEF Tick, Expire, vars
  <2>12. QED
    BY <1>1, <2>4, <2>5, <2>6, <2>7, <2>8, <2>9, <2>10, <2>11 DEF Next, InvokeEnds
<1>2. Inv /\ [Next]_vars => [InOrder(sem, sem')]_vars
  BY <1>1
<1>3. QED
  BY <1>2, DispatcherInvariant, PTL DEF Spec, FirstComeFirstServed
=============================================================================
