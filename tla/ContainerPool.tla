--------------------------- MODULE ContainerPool ---------------------------
(***************************************************************************)
(* The warm container pool (src/container_pool/pool.py).                   *)
(*                                                                         *)
(* The pool is a dict from container ids to entries.  Container i is named *)
(* swarm-worker-i; a recycled container is replaced by a new one with the  *)
(* same index and a new id.  So an entry is found here by its index (slot) *)
(* and a container id is the pair <<slot, gen>>: gen counts the containers *)
(* spawned for the slot.                                                   *)
(*                                                                         *)
(* checkout and return_container hold the pool's asyncio lock around code  *)
(* that never awaits anything that suspends (the docker client is          *)
(* synchronous), so each of them is one atomic step; what checkout does    *)
(* after the lock (the readiness poll) is DockerDispatch's business.       *)
(***************************************************************************)
EXTENDS Naturals

CONSTANTS
  Slots,        (* container indexes, range(pool_size)                     *)
  Tasks,        (* task ids                                                *)
  NoTask,       (* assigned_task_id is None                                *)
  MaxUses,      (* max_container_uses                                      *)
  Faults        (* the environment's faults a run explores, see below      *)

ASSUME PoolAssumption ==
  /\ Slots \subseteq Nat
  /\ MaxUses \in Nat
  /\ NoTask \notin Tasks
  /\ Faults \subseteq {"daemon", "disk"}

VARIABLES
  pool,         (* per slot: the entry, or "absent" when there is none     *)
  precedes,     (* the dict's order: <<a, b>> when a's entry is older      *)
  alive         (* the docker daemon: the slot's container is running      *)

poolVars == <<pool, precedes, alive>>

ContainerIds == Slots \X Nat
EntryStates == {"absent", "idle", "busy", "dead"}
Entry == [gen: Nat, state: EntryStates, task: Tasks \cup {NoTask}, uses: Nat]

PoolTypeOK ==
  /\ pool \in [Slots -> Entry]
  /\ precedes \subseteq Slots \X Slots
  /\ alive \in [Slots -> BOOLEAN]

(* startup: the containers are spawned in index order; one that cannot be  *)
(* spawned gets no entry, and none is ever added for it later.             *)
PoolInit ==
  \E started \in SUBSET Slots :
    /\ pool = [s \in Slots |->
                 [gen |-> 0, task |-> NoTask, uses |-> 0,
                  state |-> IF s \in started THEN "idle" ELSE "absent"]]
    /\ precedes = {p \in Slots \X Slots : p[1] < p[2]}
    /\ alive = [s \in Slots |-> s \in started]

Idle(s) == pool[s].state = "idle"
Current(c) == pool[c[1]].state # "absent" /\ pool[c[1]].gen = c[2]

(* The containers the daemon reports as running: the running ones, or, when *)
(* calls to the daemon may fail, any of them.                              *)
DaemonAnswers ==
  LET up == {s \in Slots : alive[s]}
  IN  IF "daemon" \in Faults THEN SUBSET up ELSE {up}

(* The idle entries the scan meets before s.                               *)
MetBefore(s) == {x \in Slots : Idle(x) /\ <<x, s>> \in precedes}

Taken(entry, t) ==
  [entry EXCEPT !.state = "busy", !.task = t, !.uses = @ + 1]

MarkDead(entry) == [entry EXCEPT !.state = "dead"]

(* Mutant: the scan does not look at the entry's state.                    *)
MutCheckoutTakes(s, t, seen) ==
  /\ pool[s].state # "absent"
  /\ s \in seen
  /\ MetBefore(s) \cap seen = {}
  /\ pool' = [x \in Slots |->
       IF x = s THEN Taken(pool[s], t)
       ELSE IF x \in MetBefore(s) THEN MarkDead(pool[x])
       ELSE pool[x]]
  /\ UNCHANGED <<precedes, alive>>

(* checkout: the first idle entry whose container runs is taken; the idle  *)
(* ones met on the way, which do not run, are marked DEAD.                 *)
CheckoutTakes(s, t, seen) ==
  /\ Idle(s)
  /\ s \in seen
  /\ MetBefore(s) \cap seen = {}
  /\ pool' = [x \in Slots |->
       IF x = s THEN Taken(pool[s], t)
       ELSE IF x \in MetBefore(s) THEN MarkDead(pool[x])
       ELSE pool[x]]
  /\ UNCHANGED <<precedes, alive>>

(* Mutant: the scan marks every entry DEAD that does not run.              *)
MutCheckoutExhausted(seen) ==
  /\ \A s \in Slots : Idle(s) => s \notin seen
  /\ pool' = [s \in Slots |-> IF s \notin seen THEN MarkDead(pool[s]) ELSE pool[s]]
  /\ UNCHANGED <<precedes, alive>>

(* checkout: no idle entry runs; all of them are now DEAD, None is returned. *)
CheckoutExhausted(seen) ==
  /\ \A s \in Slots : Idle(s) => s \notin seen
  /\ pool' = [s \in Slots |-> IF Idle(s) THEN MarkDead(pool[s]) ELSE pool[s]]
  /\ UNCHANGED <<precedes, alive>>

Freed(entry) == [entry EXCEPT !.state = "idle", !.task = NoTask]

(* return_container of an id the pool does not know: nothing happens.      *)
ReturnUnknown(c) ==
  /\ ~Current(c)
  /\ UNCHANGED poolVars

ReturnIdle(c) ==
  /\ Current(c)
  /\ pool[c[1]].uses < MaxUses
  /\ pool' = [pool EXCEPT ![c[1]] = Freed(@)]
  /\ UNCHANGED <<precedes, alive>>

(* return_container of a used-up container, recycled: the old one is       *)
(* removed, a new one with a new id goes to the end of the dict.           *)
ReturnReplaced(c) ==
  LET s == c[1]
  IN  /\ Current(c)
      /\ pool[s].uses >= MaxUses
      /\ pool' = [pool EXCEPT ![s] =
           [gen |-> @.gen + 1, state |-> "idle", task |-> NoTask, uses |-> 0]]
      /\ precedes' = {p \in precedes : p[1] # s} \cup
                     {<<x, s>> : x \in Slots \ {s}}
      /\ alive' = [alive EXCEPT ![s] = TRUE]

(* The same when no new container could be spawned: the old entry is left  *)
(* idle.  Its container is gone, or still runs when it could not be removed. *)
ReturnNotReplaced(c, removed) ==
  LET s == c[1]
  IN  /\ Current(c)
      /\ pool[s].uses >= MaxUses
      /\ pool' = [pool EXCEPT ![s] = Freed(@)]
      /\ alive' = [alive EXCEPT ![s] = @ /\ ~removed]
      /\ UNCHANGED precedes

(* shutdown: every entry is dropped; removing a container may fail.        *)
Shutdown(remaining) ==
  /\ \E s \in Slots : pool[s].state # "absent"
  /\ \A s \in remaining : alive[s]
  /\ remaining # {} => "daemon" \in Faults
  /\ pool' = [s \in Slots |-> [pool[s] EXCEPT !.state = "absent"]]
  /\ alive' = [s \in Slots |-> s \in remaining]
  /\ UNCHANGED precedes

(* A container exits on its own (crash, OOM kill, docker kill).            *)
Dies(s) ==
  /\ alive[s]
  /\ alive' = [alive EXCEPT ![s] = FALSE]
  /\ UNCHANGED <<pool, precedes>>

=============================================================================
