--------------------------- MODULE InvokeBreaker ---------------------------
(***************************************************************************)
(* POST /{agent_id}/invoke without a session (src/gateway/routes.py): the  *)
(* requests for one registered agent go through CircuitBreaker.call of the *)
(* agent's breaker, concurrently.                                          *)
(*                                                                         *)
(* call looks at the state, awaits the adapter, and records the result     *)
(* when that returns: other requests look, return and record in between,   *)
(* so a result may be recorded in a later state than the one the request   *)
(* was admitted in.                                                        *)
(***************************************************************************)
EXTENDS Breaker

CONSTANT Invocations     (* requests that may be under way at the same time   *)

VARIABLES
  breaker,    (* the agent's circuit breaker                               *)
  healthy,    (* the agent answers well and in time                        *)
  call,       (* per request: where it is, and whether it must go well     *)
  sinceOpen   (* history: ticks since the breaker last opened              *)

invokeVars == <<breaker, healthy, call, sinceOpen>>

(* "idle"; or in the adapter, "well" when the agent was healthy at the     *)
(* time of the call, else "exposed".                                       *)
Calls == {"idle", "well", "exposed"}

InvokeTypeOK ==
  /\ breaker \in Breakers
  /\ Len(breaker.results) <= WindowSize
  /\ breaker.age <= Timeout
  /\ healthy \in BOOLEAN
  /\ call \in [Invocations -> Calls]
  /\ sinceOpen \in 0..Timeout

InvokeInit ==
  /\ breaker = NewBreaker
  /\ healthy = TRUE
  /\ call = [r \in Invocations |-> "idle"]
  /\ sinceOpen = Timeout

UpTo(bound, n) == IF n < bound THEN n ELSE bound

Admitting == Observed(breaker).state # "open"

(* call passes the state check and calls the adapter.                      *)
Begin(r) ==
  /\ call[r] = "idle"
  /\ Admitting
  /\ breaker' = Observed(breaker)
  /\ call' = [call EXCEPT ![r] = IF healthy THEN "well" ELSE "exposed"]
  /\ UNCHANGED <<healthy, sinceOpen>>

(* CircuitOpenError: a 503 at once.                                        *)
Reject(r) ==
  /\ call[r] = "idle"
  /\ ~Admitting
  /\ UNCHANGED invokeVars

(* What call records: a failure when the adapter raised, or returned too   *)
(* late.  It does not look at the result, so a result that reports a       *)
(* failure of the agent counts as a success.                               *)
Records(returned, slow) == returned # "raised" /\ ~slow

(* The adapter returns a result, "ok" or "error" (success=False), or       *)
(* raises, and the outcome is recorded.                                    *)
Finish(r, returned, slow) ==
  /\ call[r] # "idle"
  /\ call[r] = "well" => returned = "ok" /\ ~slow
  /\ breaker' = Recorded(breaker, Records(returned, slow))
  /\ call' = [call EXCEPT ![r] = "idle"]
  /\ sinceOpen' = IF breaker.state # "open" /\ breaker'.state = "open"
                  THEN 0 ELSE sinceOpen
  /\ UNCHANGED healthy

(* The request is cancelled in the adapter: CancelledError is no Exception, *)
(* nothing is recorded.                                                    *)
Cancelled(r) ==
  /\ call[r] # "idle"
  /\ call' = [call EXCEPT ![r] = "idle"]
  /\ UNCHANGED <<breaker, healthy, sinceOpen>>

TimePasses ==
  /\ breaker' = Older(breaker)
  /\ sinceOpen' = UpTo(Timeout, sinceOpen + 1)
  /\ UNCHANGED <<healthy, call>>

HealthChanges ==
  /\ healthy' = ~healthy
  /\ UNCHANGED <<breaker, call, sinceOpen>>

Finishes(r) ==
  \E returned \in {"ok", "error", "raised"}, slow \in BOOLEAN : Finish(r, returned, slow)

InvokeNext ==
  \/ \E r \in Invocations : Begin(r) \/ Reject(r) \/ Finishes(r) \/ Cancelled(r)
  \/ TimePasses
  \/ HealthChanges

InvokeSpec == InvokeInit /\ [][InvokeNext]_invokeVars

(* Time passes, and adapters return: each of them has a timeout.  The       *)
(* property about recovery is one of an agent that stays in use: requests  *)
(* keep coming, and not every one of them is cancelled (strong fairness).  *)
FairInvokeSpec ==
  /\ InvokeSpec
  /\ WF_invokeVars(TimePasses)
  /\ \A r \in Invocations : WF_invokeVars(Begin(r)) /\ SF_invokeVars(Finishes(r))

-----------------------------------------------------------------------------
(* Properties                                                              *)

(* A closed breaker never sits on a window that should have opened it,     *)
(* whatever results were recorded while it was in another state.           *)
ClosedBelowThreshold == BelowThreshold(breaker)

(* A half-open breaker closes after SuccessThreshold successes in a row:   *)
(* results of requests admitted at any earlier time are counted, but none  *)
(* of them can hide a failure.                                             *)
HalfOpenEarned == SuccessesInARow(breaker)

(* From the moment the breaker opens, no request reaches the agent before  *)
(* the timeout: not even when requests admitted earlier return late, with  *)
(* successes or with failures.                                             *)
RejectsWhileCooling ==
  [][\A r \in Invocations : call[r] = "idle" /\ call'[r] # "idle" => sinceOpen >= Timeout]_invokeVars

(* If the agent is healthy from some time on, its breaker is closed from   *)
(* some time on: no history of failures and late results keeps an agent    *)
(* that is used out of use.                                                *)
RecoversWhenHealthy == <>[]healthy => <>[](breaker.state = "closed")

=============================================================================
