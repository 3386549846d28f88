----------------------------- MODULE Dispatcher -----------------------------
(***************************************************************************)
(* Concurrent calls of Dispatcher.dispatch (src/dispatcher/dispatcher.py)  *)
(* over shared state: one circuit breaker per target, the semaphore that   *)
(* caps the invocations in flight, and the result cache.                   *)
(*                                                                         *)
(* A request stands at an await:                                           *)
(*   "new"         not dispatched yet                                      *)
(*   "filtering"   in the health check of the next candidate               *)
(*   "queued"      on the semaphore                                        *)
(*   "invoking"    in wait_for, the backend's invoke is under way          *)
(*   "timing_out"  in wait_for, after the timeout: invoke is being cancelled *)
(*   "unwinding"   the same because the request itself was cancelled       *)
(* or it has ended: "succeeded", "degraded" (with a cached result),        *)
(* "failed", "raised" (dispatch raised an exception) or "cancelled".       *)
(*                                                                         *)
(* The locks of the breakers, of the breaker table and of the cache are    *)
(* never held across an await, so the code between two awaits is one step: *)
(* an invocation that ends releases the semaphore, is recorded, and the    *)
(* request goes on to its next candidate, in the same step.                *)
(***************************************************************************)
EXTENDS Breaker

CONSTANTS
  Targets,        (* breaker keys: the pool's agent types, external agents *)
  Pooled,         (* the targets served by DockerBackend                   *)
  Requests,       (* calls of dispatch                                     *)
  CandidatesOf,   (* per request: what _resolve finds, in order            *)
  KeyOf,          (* per request: its key in the result cache              *)
  MaxRetries,     (* max_retries                                           *)
  MaxConcurrent,  (* max_concurrent                                        *)
  CacheSize,      (* max_size of the cache                                 *)
  HealthPrecheck, (* health_precheck                                       *)
  NoRequest       (* no request                                            *)

ASSUME DispatcherAssumption ==
  /\ Pooled \subseteq Targets
  /\ CandidatesOf \in [Requests -> Seq(Targets)]
  /\ MaxRetries \in Nat
  /\ MaxConcurrent \in Nat \ {0}
  /\ CacheSize \in Nat \ {0}
  /\ HealthPrecheck \in BOOLEAN
  /\ NoRequest \notin Requests
  /\ IsFiniteSet(Requests)

VARIABLES
  pc,             (* where the request is                                  *)
  todo,           (* candidates whose health is still to be checked        *)
  candidates,     (* the healthy ones, in order                            *)
  at,             (* index of the candidate being tried                    *)
  servedBy,       (* the request whose invocation made the result          *)
  breakers,       (* per target: its circuit breaker                       *)
  sem,            (* the semaphore                                         *)
  cache           (* the result cache, nearest expiry first                *)

vars == <<pc, todo, candidates, at, servedBy, breakers, sem, cache>>

Ended == {"succeeded", "degraded", "failed", "raised", "cancelled"}
Points == {"new", "filtering", "queued", "invoking", "timing_out", "unwinding"} \cup Ended

(* The requests that are inside "async with self._semaphore".              *)
Holders == {r \in Requests : pc[r] \in {"invoking", "timing_out", "unwinding"}}

CacheEntry == [key: {KeyOf[r] : r \in Requests}, by: Requests, fresh: BOOLEAN]

TypeOK ==
  /\ pc \in [Requests -> Points]
  /\ todo \in [Requests -> Seq(Targets)]
  /\ candidates \in [Requests -> Seq(Targets)]
  /\ at \in [Requests -> Nat]
  /\ \A r \in Holders : at[r] \in 1..Len(candidates[r])
  /\ servedBy \in [Requests -> Requests \cup {NoRequest}]
  /\ breakers \in [Targets -> Breakers]
  /\ sem \in [permits: Nat, waiting: Seq(Requests), woken: SUBSET Requests]
  /\ cache \in Seq(CacheEntry)
  /\ Len(cache) <= CacheSize

Init ==
  /\ pc = [r \in Requests |-> "new"]
  /\ todo = CandidatesOf
  /\ candidates = [r \in Requests |-> <<>>]
  /\ at = [r \in Requests |-> 0]
  /\ servedBy = [r \in Requests |-> NoRequest]
  /\ breakers = [t \in Targets |-> NewBreaker]
  /\ sem = [permits |-> MaxConcurrent, waiting |-> <<>>, woken |-> {}]
  /\ cache = <<>>

-----------------------------------------------------------------------------
(* A sequence without the element at the place, if there is one.           *)
WithoutOne(s, places) ==
  IF places = {} THEN s
  ELSE LET i == CHOOSE p \in places : TRUE
       IN  [j \in 1 .. (Len(s) - 1) |-> IF j < i THEN s[j] ELSE s[j + 1]]

-----------------------------------------------------------------------------
(* asyncio.Semaphore (Python 3.12): fair, a permit is handed to the waiter *)
(* that is woken.                                                          *)

Free(s) == s.permits > 0 /\ s.waiting = <<>> /\ s.woken = {}

(* _wake_up_next.                                                          *)
Wake(s) ==
  IF s.waiting # <<>> /\ s.permits > 0
  THEN [permits |-> s.permits - 1, waiting |-> Tail(s.waiting),
        woken |-> s.woken \cup {Head(s.waiting)}]
  ELSE s

Released(s) == Wake([s EXCEPT !.permits = @ + 1])

Acquiring(s, r) ==
  IF Free(s) THEN [s EXCEPT !.permits = @ - 1] ELSE [s EXCEPT !.waiting = Append(@, r)]

(* A waiter that is cancelled hands on the permit it was woken with.       *)
Leaving(s, r) ==
  IF r \in s.woken THEN Released([s EXCEPT !.woken = @ \ {r}])
  ELSE [s EXCEPT !.waiting = WithoutOne(@, {i \in DOMAIN @ : @[i] = r})]

-----------------------------------------------------------------------------
(* The result cache (src/dispatcher/result_cache.py)                       *)

(* A key has one entry at most.                                            *)
Without(c, key) == WithoutOne(c, {i \in DOMAIN c : c[i].key = key})

(* Mutant: the cache makes room when it is over its limit.                 *)
MutPut(c, r) ==
  LET room == IF Len(c) > CacheSize THEN Tail(c) ELSE c
  IN  Append(Without(room, KeyOf[r]), [key |-> KeyOf[r], by |-> r, fresh |-> TRUE])

(* put: at its limit the cache first drops the entry with the nearest      *)
(* expiry; then the entry of the key is replaced.                          *)
Put(c, r) ==
  LET room == IF Len(c) >= CacheSize THEN Tail(c) ELSE c
  IN  Append(Without(room, KeyOf[r]), [key |-> KeyOf[r], by |-> r, fresh |-> TRUE])

(* get finds a result that has not expired.                                *)
Hit(r) == {i \in DOMAIN cache : cache[i].key = KeyOf[r] /\ cache[i].fresh}

(* get drops the entry it finds expired.                                   *)
AfterGet(r) == IF Hit(r) = {} THEN Without(cache, KeyOf[r]) ELSE cache

-----------------------------------------------------------------------------
(* Going through the candidates                                            *)

Ends(r, how) == pc' = [pc EXCEPT ![r] = how]

(* Nobody succeeded: a cached result, or a failure.                        *)
FallBack(r) ==
  /\ cache' = AfterGet(r)
  /\ \/ /\ Hit(r) = {}
        /\ Ends(r, "failed")
        /\ UNCHANGED servedBy
     \/ \E i \in Hit(r) :
          /\ Ends(r, "degraded")
          /\ servedBy' = [servedBy EXCEPT ![r] = cache[i].by]

(* pairs[:max_attempts]                                                    *)
Attempts(cs) == 1..(IF Len(cs) < MaxRetries + 1 THEN Len(cs) ELSE MaxRetries + 1)

(* The request is past its k-th candidate, with breakers brk and semaphore *)
(* s: those whose breaker is open are passed over, and it takes or waits   *)
(* for a permit for the next one.                                          *)
GoOn(r, cs, k, brk, s) ==
  LET left == {j \in Attempts(cs) : j > k /\ Observed(brk[cs[j]]).state # "open"}
  IN  \/ \E j \in left :
           /\ \A i \in left : j <= i
           /\ breakers' = [brk EXCEPT ![cs[j]] = Observed(@)]
           /\ at' = [at EXCEPT ![r] = j]
           /\ sem' = Acquiring(s, r)
           /\ Ends(r, IF Free(s) THEN "invoking" ELSE "queued")
           /\ UNCHANGED <<servedBy, cache>>
      \/ /\ left = {}
         /\ breakers' = brk
         /\ sem' = s
         /\ FallBack(r)
         /\ UNCHANGED at

(* _resolve is done: health checks, or the first candidate at once.        *)
Start(r) ==
  /\ pc[r] = "new"
  /\ IF HealthPrecheck /\ todo[r] # <<>>
     THEN /\ Ends(r, "filtering")
          /\ UNCHANGED <<todo, candidates, at, servedBy, breakers, sem, cache>>
     ELSE /\ GoOn(r, todo[r], 0, breakers, sem)
          /\ candidates' = [candidates EXCEPT ![r] = todo[r]]
          /\ todo' = [todo EXCEPT ![r] = <<>>]

(* _filter_healthy comes to the next candidate: it is dropped when its     *)
(* breaker is open or when it is not healthy.  The last one is followed by *)
(* the first attempt.                                                      *)
Check(r) ==
  /\ pc[r] = "filtering"
  /\ \E healthy \in BOOLEAN :
       LET t == Head(todo[r])
           seen == [breakers EXCEPT ![t] = Observed(@)]
           cs == IF healthy /\ seen[t].state # "open"
                 THEN Append(candidates[r], t) ELSE candidates[r]
       IN  /\ t \in Pooled => healthy
           /\ candidates' = [candidates EXCEPT ![r] = cs]
           /\ todo' = [todo EXCEPT ![r] = Tail(@)]
           /\ IF Tail(todo[r]) # <<>>
              THEN /\ breakers' = seen
                   /\ UNCHANGED <<pc, at, servedBy, sem, cache>>
              ELSE GoOn(r, cs, 0, seen, sem)

-----------------------------------------------------------------------------
(* One attempt                                                             *)

Target(r) == candidates[r][at[r]]

(* A queued request whose permit was handed to it runs.                    *)
Acquired(r) ==
  /\ pc[r] = "queued"
  /\ r \in sem.woken
  /\ sem' = Wake([sem EXCEPT !.woken = @ \ {r}])
  /\ Ends(r, "invoking")
  /\ UNCHANGED <<todo, candidates, at, servedBy, breakers, cache>>

(* The backend's attempt succeeds.                                         *)
Succeeds(r) ==
  /\ pc[r] = "invoking"
  /\ sem' = Released(sem)
  /\ breakers' = [breakers EXCEPT ![Target(r)] = AfterSuccess(@)]
  /\ cache' = Put(cache, r)
  /\ servedBy' = [servedBy EXCEPT ![r] = r]
  /\ Ends(r, "succeeded")
  /\ UNCHANGED <<todo, candidates, at>>

NextAfterFailure(r) ==
  /\ GoOn(r, candidates[r], at[r],
          [breakers EXCEPT ![Target(r)] = AfterFailure(@)], Released(sem))
  /\ UNCHANGED <<todo, candidates>>

(* Mutant: a failed attempt is cached like a success.                      *)
MutFails(r) ==
  /\ pc[r] = "invoking"
  /\ at[r] = Len(candidates[r])
  /\ sem' = Released(sem)
  /\ breakers' = [breakers EXCEPT ![Target(r)] = AfterFailure(@)]
  /\ cache' = Put(cache, r)
  /\ Ends(r, "failed")
  /\ UNCHANGED <<todo, candidates, at, servedBy>>

(* The backend returns an attempt without success.                         *)
Fails(r) ==
  /\ pc[r] = "invoking"
  /\ NextAfterFailure(r)

(* Mutant: the timeout is recorded at once, and again at invoke's end.     *)
MutTimesOut(r) ==
  /\ pc[r] = "invoking"
  /\ breakers' = [breakers EXCEPT ![Target(r)] = AfterFailure(@)]
  /\ Ends(r, "timing_out")
  /\ UNCHANGED <<todo, candidates, at, servedBy, sem, cache>>

(* wait_for's timeout: invoke is cancelled, and awaited.                   *)
TimesOut(r) ==
  /\ pc[r] = "invoking"
  /\ Ends(r, "timing_out")
  /\ UNCHANGED <<todo, candidates, at, servedBy, breakers, sem, cache>>

(* The cancelled invoke has ended.                                         *)
TimedOut(r) ==
  /\ pc[r] = "timing_out"
  /\ NextAfterFailure(r)

(* invoke raises an exception; DockerBackend's does when checkout raises.  *)
(* The handler awaits the finished task once more, which raises the same   *)
(* exception again, out of dispatch: nothing is recorded and no candidate  *)
(* is tried after it.                                                      *)
Raises(r) ==
  /\ pc[r] = "invoking"
  /\ Target(r) \in Pooled
  /\ sem' = Released(sem)
  /\ Ends(r, "raised")
  /\ UNCHANGED <<todo, candidates, at, servedBy, breakers, cache>>

-----------------------------------------------------------------------------
(* The user cancels the task a request belongs to                          *)

(* Mutant: a cancelled waiter keeps the permit it was woken with.          *)
MutCancelWaiting(r) ==
  /\ pc[r] \in {"filtering", "queued"}
  /\ sem' = [sem EXCEPT !.woken = @ \ {r},
                        !.waiting = WithoutOne(@, {i \in DOMAIN @ : @[i] = r})]
  /\ Ends(r, "cancelled")
  /\ UNCHANGED <<todo, candidates, at, servedBy, breakers, cache>>

CancelWaiting(r) ==
  /\ pc[r] \in {"filtering", "queued"}
  /\ sem' = Leaving(sem, r)
  /\ Ends(r, "cancelled")
  /\ UNCHANGED <<todo, candidates, at, servedBy, breakers, cache>>

(* wait_for passes the cancellation on to invoke and waits for its end.    *)
CancelInvoking(r) ==
  /\ pc[r] \in {"invoking", "timing_out"}
  /\ Ends(r, "unwinding")
  /\ UNCHANGED <<todo, candidates, at, servedBy, breakers, sem, cache>>

(* Mutant: the permit is not given back.                                   *)
MutUnwound(r) ==
  /\ pc[r] = "unwinding"
  /\ Ends(r, "cancelled")
  /\ UNCHANGED <<todo, candidates, at, servedBy, breakers, sem, cache>>

(* The cancelled invoke has ended: nothing is recorded.                    *)
Unwound(r) ==
  /\ pc[r] = "unwinding"
  /\ sem' = Released(sem)
  /\ Ends(r, "cancelled")
  /\ UNCHANGED <<todo, candidates, at, servedBy, breakers, cache>>

-----------------------------------------------------------------------------
(* Time                                                                    *)

Tick ==
  /\ breakers' = [t \in Targets |-> Older(breakers[t])]
  /\ UNCHANGED <<pc, todo, candidates, at, servedBy, sem, cache>>

(* The fresh cache entry with the nearest expiry expires.                  *)
Expire ==
  /\ \E i \in DOMAIN cache :
       /\ cache[i].fresh
       /\ \A j \in 1..(i - 1) : ~cache[j].fresh
       /\ cache' = [cache EXCEPT ![i].fresh = FALSE]
  /\ UNCHANGED <<pc, todo, candidates, at, servedBy, breakers, sem>>

-----------------------------------------------------------------------------
InvokeEnds(r) ==
  Succeeds(r) \/ Fails(r) \/ TimesOut(r) \/ TimedOut(r) \/ Raises(r) \/ Unwound(r)

Next ==
  \/ \E r \in Requests :
       \/ Start(r) \/ Check(r) \/ Acquired(r) \/ InvokeEnds(r)
       \/ CancelWaiting(r) \/ CancelInvoking(r)
  \/ Tick
  \/ Expire

Spec == Init /\ [][Next]_vars

(* Health checks, and invocations by the timeout of wait_for, come to an   *)
(* end, and a woken waiter runs.  Nothing is assumed of cancellations.     *)
FairSpec ==
  /\ Spec
  /\ \A r \in Requests : WF_vars(Check(r)) /\ WF_vars(Acquired(r)) /\ WF_vars(InvokeEnds(r))

-----------------------------------------------------------------------------
(* Properties                                                              *)

(* Backpressure: every permit of the semaphore is free, or handed to one   *)
(* request that waits, or used by one invocation that has not ended, also  *)
(* while that is being cancelled.  No permit is idle while a request waits *)
(* for one, but for the moment until a woken request runs, which hands it  *)
(* on.                                                                     *)
PermitsAccounted ==
  /\ sem.permits + Cardinality(sem.woken) + Cardinality(Holders) = MaxConcurrent
  /\ sem.permits > 0 /\ sem.waiting # <<>> => sem.woken # {}

(* Graceful degradation never serves anything but the result of a dispatch *)
(* for the same agent type and prompt that really succeeded.               *)
DegradedIsGenuine ==
  \A r \in Requests : pc[r] = "degraded" =>
    /\ pc[servedBy[r]] = "succeeded"
    /\ KeyOf[servedBy[r]] = KeyOf[r]

(* The request has its k-th candidate behind it, and not by a success, an  *)
(* exception or a cancellation.                                            *)
GonePast(r, k) ==
  /\ k \in Attempts(candidates[r])
  /\ k < at[r] \/ (k = at[r] /\ pc[r] \in {"failed", "degraded"})

(* How often an attempt at the target has failed or timed out, as far as   *)
(* the progress of the requests tells: <<r, k>> is r's k-th candidate.  (A *)
(* candidate that was passed over counts, too: its breaker was open.)      *)
LostOn(t) ==
  {p \in Requests \X (1 .. MaxRetries + 1) :
     GonePast(p[1], p[2]) /\ candidates[p[1]][p[2]] = t}

WonOn(t) == {r \in Requests : pc[r] = "succeeded" /\ Target(r) = t}

(* Every attempt that fails or times out is recorded once, with its own    *)
(* target, and one that is cancelled not at all: no breaker opens before   *)
(* FailureThreshold attempts at its target have come to nothing, and one   *)
(* of a target where none has succeeded is open (or half-open) from then   *)
(* on.                                                                     *)
BreakersFollowAttempts ==
  \A t \in Targets :
    /\ Cardinality(LostOn(t)) < FailureThreshold => breakers[t].state = "closed"
    /\ breakers[t].state = "closed" /\ WonOn(t) = {} =>
         Cardinality(LostOn(t)) < FailureThreshold

(* Every dispatch comes to an end: neither the queue on the semaphore nor  *)
(* the failover from candidate to candidate can hold a request for ever.   *)
EveryDispatchEnds == \A r \in Requests : pc[r] # "new" ~> pc[r] \in Ended

-----------------------------------------------------------------------------
(* What the code says of itself and does not do                            *)

(* src/dispatcher/dispatcher.py:44: the dispatcher fails over on an error. *)
ErrorsFailOver == \A r \in Requests : pc[r] # "raised"
=============================================================================
