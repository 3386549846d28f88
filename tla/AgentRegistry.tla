---------------------------- MODULE AgentRegistry ----------------------------
(***************************************************************************)
(* The agent registry (src/registry/registry.py) behind the gateway's      *)
(* register, heartbeat and deregister endpoints (src/gateway/routes.py),   *)
(* the declared agents of a start (src/main.py) and the health sweep       *)
(* (src/registry/sweeper.py).                                              *)
(*                                                                         *)
(* All state is in Redis.  An action is one command, or one MULTI/EXEC     *)
(* pipeline, and what the code does until the next: other requests, the    *)
(* sweep and the expiry of keys come in between.  A key's ttl is in ticks, *)
(* and 0 for a key that does not expire.  No request is held up for longer *)
(* than heartbeat_ttl between its reading of the clock and its EXEC: then  *)
(* every record that has not expired is online (_is_online), and the first *)
(* half of the sweep, which deletes records that are not, deletes nothing. *)
(***************************************************************************)
EXTENDS Naturals, FiniteSets

CONSTANTS
  Agents,        (* agents, each with an endpoint of its own               *)
  Declared,      (* those of agents/*.yaml: registered as internal         *)
  Skills,
  Offers,        (* the sets of skills an agent registers with             *)
  Ids,           (* bound: agent ids                                       *)
  HeartbeatTTL,  (* heartbeat_ttl, in ticks                                *)
  Requests,      (* bound: requests under way at a time                    *)
  RedisFails,    (* commands fail                                          *)
  NoAgent, NoId, NoSkill

ASSUME RegistryAssumption ==
  /\ HeartbeatTTL \in Nat \ {0}
  /\ Declared \subseteq Agents
  /\ Offers \in [Agents -> SUBSET SUBSET Skills]
  /\ NoAgent \notin Agents
  /\ NoId \notin Ids
  /\ NoSkill \notin Skills
  /\ RedisFails \in BOOLEAN

VARIABLES
  rec,     (* agent:registry:<id>, the agent's record                      *)
  index,   (* skills:index:<skill>, a set of ids                           *)
  lookup,  (* agent:endpoint_index:<endpoint>                              *)
  op,      (* the requests under way                                       *)
  sweep    (* the health sweep                                             *)

vars == <<rec, index, lookup, op, sweep>>

NoRecord == [agent |-> NoAgent, skills |-> {}, ttl |-> 0]
NoSet == [members |-> {}, ttl |-> 0]
NoEntry == [id |-> NoId, ttl |-> 0]
Idle == [at |-> "idle", agent |-> NoAgent, id |-> NoId, skills |-> {}, old |-> {}]
Asleep == [at |-> "asleep", skills |-> {}, skill |-> NoSkill, members |-> {}, missing |-> {}]

TypeOK ==
  /\ rec \in [Ids -> [agent : Agents \cup {NoAgent}, skills : SUBSET Skills, ttl : 0 .. HeartbeatTTL]]
  /\ index \in [Skills -> [members : SUBSET Ids, ttl : 0 .. 2 * HeartbeatTTL]]
  /\ lookup \in [Agents -> [id : Ids \cup {NoId}, ttl : 0 .. HeartbeatTTL]]
  /\ op \in [Requests ->
       [at : {"idle", "reading", "registering", "beating", "found", "deregistering"},
        agent : Agents \cup {NoAgent}, id : Ids \cup {NoId}, skills : SUBSET Skills,
        old : SUBSET Skills]]
  /\ sweep \in [at : {"asleep", "scanning", "checking"},
                skills : SUBSET Skills, skill : Skills \cup {NoSkill}, members : SUBSET Ids, missing : SUBSET Ids]

Init ==
  /\ rec = [i \in Ids |-> NoRecord]
  /\ index = [s \in Skills |-> NoSet]
  /\ lookup = [e \in Agents |-> NoEntry]
  /\ op = [q \in Requests |-> Idle]
  /\ sweep = Asleep

-----------------------------------------------------------------------------
Live(i) == rec[i].agent # NoAgent

(* SREM: a set without members is no key.                                  *)
Without(set, ids) ==
  IF set.members \subseteq ids THEN NoSet ELSE [set EXCEPT !.members = @ \ ids]

(* EXPIRE does nothing to a key that is not there.                         *)
Expiring(set) ==
  IF set.members = {} THEN set ELSE [set EXCEPT !.ttl = 2 * HeartbeatTTL]

(* The ids that nothing in Redis and no request knows: uuid4 gives one.    *)
Fresh ==
  {i \in Ids : /\ ~Live(i)
               /\ \A s \in Skills : i \notin index[s].members
               /\ \A e \in Agents : lookup[e].id # i
               /\ \A q \in Requests : op[q].id # i
               /\ i \notin sweep.members \cup sweep.missing}

Goes(q, o) == op' = [op EXCEPT ![q] = o]

-----------------------------------------------------------------------------
(* register                                                                *)

(* GET of the endpoint index: the agent's id, or a new one.                *)
Register(q, e, skills) ==
  /\ op[q].at = "idle"
  /\ skills \in Offers[e]
  /\ LET request == [Idle EXCEPT !.agent = e, !.skills = skills]
     IN  \/ /\ lookup[e].id # NoId
            /\ Goes(q, [request EXCEPT !.at = "reading", !.id = lookup[e].id])
         \/ /\ lookup[e].id = NoId
            /\ Fresh # {}
            /\ Goes(q, [request EXCEPT !.at = "registering", !.id = CHOOSE i \in Fresh : TRUE])
  /\ UNCHANGED <<rec, index, lookup, sweep>>

(* HGET of the record that is to be overwritten, for its skills.           *)
ReadOld(q) ==
  /\ op[q].at = "reading"
  /\ Goes(q, [op[q] EXCEPT !.at = "registering", !.old = rec[op[q].id].skills])
  /\ UNCHANGED <<rec, index, lookup, sweep>>

(* Mutant: the record gets the ttl of the skill sets.                      *)
MutWritten(o) ==
  [agent |-> o.agent, skills |-> o.skills, ttl |-> 2 * HeartbeatTTL]

(* A key that is overwritten keeps the ttl it has, unless EXPIRE sets it.  *)
Written(o) ==
  [agent |-> o.agent, skills |-> o.skills,
   ttl |-> IF o.agent \in Declared THEN rec[o.id].ttl ELSE HeartbeatTTL]

(* Mutant: the new skills are added before the old ones are removed.       *)
MutReindexed(s, o) ==
  LET added == IF s \notin o.skills THEN index[s]
               ELSE [index[s] EXCEPT !.members = @ \cup {o.id}]
      kept  == IF s \in o.old THEN Without(added, {o.id}) ELSE added
  IN  IF s \in o.skills /\ o.agent \notin Declared THEN Expiring(kept) ELSE kept

(* The pipeline's SREM of the old skills, then SADD and EXPIRE of the new. *)
Reindexed(s, o) ==
  LET kept  == IF s \in o.old THEN Without(index[s], {o.id}) ELSE index[s]
      added == [kept EXCEPT !.members = @ \cup {o.id}]
  IN  IF s \notin o.skills THEN kept
      ELSE IF o.agent \in Declared THEN added ELSE Expiring(added)

WriteRecord(q) ==
  LET o == op[q]
  IN  /\ o.at = "registering"
      /\ rec' = [rec EXCEPT ![o.id] = Written(o)]
      /\ lookup' = [lookup EXCEPT ![o.agent] =
           [id |-> o.id, ttl |-> IF o.agent \in Declared THEN 0 ELSE HeartbeatTTL]]
      /\ index' = [s \in Skills |-> Reindexed(s, o)]
      /\ Goes(q, Idle)
      /\ UNCHANGED <<sweep>>

-----------------------------------------------------------------------------
(* heartbeat                                                               *)

(* HGET of the record.  An unknown agent is told so.  Agents send their    *)
(* own heartbeats; the declared ones are servers that send none.           *)
Heartbeat(q, i) ==
  /\ op[q].at = "idle"
  /\ Live(i)
  /\ rec[i].agent \notin Declared
  /\ Goes(q, [Idle EXCEPT !.at = "beating", !.id = i, !.agent = rec[i].agent,
                          !.skills = rec[i].skills])
  /\ UNCHANGED <<rec, index, lookup, sweep>>

Renewed(s, o) == IF s \in o.skills THEN Expiring(index[s]) ELSE index[s]

(* Mutant: HSET without EXPIRE.                                            *)
MutRenew(q) ==
  LET o == op[q]
  IN  /\ o.at = "beating"
      /\ rec' = [rec EXCEPT ![o.id] =
           [agent |-> o.agent, skills |-> o.skills, ttl |-> rec[o.id].ttl]]
      /\ index' = [s \in Skills |-> Renewed(s, o)]
      /\ Goes(q, Idle)
      /\ UNCHANGED <<lookup, sweep>>

(* The record as it was read, with the heartbeat's time, is written back.  *)
Renew(q) ==
  LET o == op[q]
  IN  /\ o.at = "beating"
      /\ rec' = [rec EXCEPT ![o.id] =
           [agent |-> o.agent, skills |-> o.skills, ttl |-> HeartbeatTTL]]
      /\ index' = [s \in Skills |-> Renewed(s, o)]
      /\ Goes(q, Idle)
      /\ UNCHANGED <<lookup, sweep>>

-----------------------------------------------------------------------------
(* deregister                                                              *)

(* The gateway's get_agent: 404 for an unknown agent.                      *)
Deregister(q, i) ==
  /\ op[q].at = "idle"
  /\ Live(i)
  /\ Goes(q, [Idle EXCEPT !.at = "found", !.id = i])
  /\ UNCHANGED <<rec, index, lookup, sweep>>

(* HGET of the skills, none if the record has gone meanwhile.              *)
ReadSkills(q) ==
  /\ op[q].at = "found"
  /\ Goes(q, [op[q] EXCEPT !.at = "deregistering", !.old = rec[op[q].id].skills])
  /\ UNCHANGED <<rec, index, lookup, sweep>>

(* The endpoint index keeps its entry.                                     *)
Remove(q) ==
  LET o == op[q]
  IN  /\ o.at = "deregistering"
      /\ rec' = [rec EXCEPT ![o.id] = NoRecord]
      /\ index' = [s \in Skills |->
           IF s \in o.old THEN Without(index[s], {o.id}) ELSE index[s]]
      /\ Goes(q, Idle)
      /\ UNCHANGED <<lookup, sweep>>

(* Redis fails, and with it the request.                                   *)
RequestFails(q) ==
  /\ RedisFails
  /\ op[q].at # "idle"
  /\ Goes(q, Idle)
  /\ UNCHANGED <<rec, index, lookup, sweep>>

-----------------------------------------------------------------------------
(* health_sweep, every minute                                              *)

(* SCAN for the skills that have a set.                                    *)
Wake ==
  /\ sweep.at = "asleep"
  /\ sweep' = [Asleep EXCEPT !.at = "scanning",
                             !.skills = {s \in Skills : index[s].members # {}}]
  /\ UNCHANGED <<rec, index, lookup, op>>

(* SMEMBERS of a skill.                                                    *)
ReadMembers(s) ==
  /\ sweep.at = "scanning"
  /\ s \in sweep.skills
  /\ sweep' = [Asleep EXCEPT !.at = "checking", !.skills = sweep.skills \ {s},
                             !.skill = s, !.members = index[s].members]
  /\ UNCHANGED <<rec, index, lookup, op>>

(* EXISTS of a member's record.                                            *)
CheckMember(i) ==
  /\ sweep.at = "checking"
  /\ i \in sweep.members
  /\ sweep' = [sweep EXCEPT !.members = @ \ {i},
                            !.missing = IF Live(i) THEN @ ELSE @ \cup {i}]
  /\ UNCHANGED <<rec, index, lookup, op>>

(* SREM of the members found missing.                                      *)
RemoveMissing ==
  /\ sweep.at = "checking"
  /\ sweep.members = {}
  /\ index' = [index EXCEPT ![sweep.skill] = Without(@, sweep.missing)]
  /\ sweep' = [Asleep EXCEPT !.at = "scanning", !.skills = sweep.skills]
  /\ UNCHANGED <<rec, lookup, op>>

(* The sweep is over, or Redis fails.                                      *)
Sleep ==
  /\ \/ sweep.at = "scanning" /\ sweep.skills = {}
     \/ RedisFails /\ sweep.at # "asleep"
  /\ sweep' = Asleep
  /\ UNCHANGED <<rec, index, lookup, op>>

-----------------------------------------------------------------------------
(* Time passes, and keys expire.                                           *)

After(key, gone) ==
  IF key.ttl = 1 THEN gone ELSE [key EXCEPT !.ttl = IF @ = 0 THEN 0 ELSE @ - 1]

Tick ==
  /\ rec' = [i \in Ids |-> After(rec[i], NoRecord)]
  /\ index' = [s \in Skills |-> After(index[s], NoSet)]
  /\ lookup' = [e \in Agents |-> After(lookup[e], NoEntry)]
  /\ UNCHANGED <<op, sweep>>

-----------------------------------------------------------------------------
Next ==
  \/ \E q \in Requests :
       \/ \E e \in Agents, skills \in SUBSET Skills : Register(q, e, skills)
       \/ \E i \in Ids : Heartbeat(q, i) \/ Deregister(q, i)
       \/ ReadOld(q) \/ WriteRecord(q) \/ Renew(q) \/ ReadSkills(q) \/ Remove(q)
       \/ RequestFails(q)
  \/ Wake \/ RemoveMissing \/ Sleep
  \/ \E i \in Ids : CheckMember(i)
  \/ \E s \in Skills : ReadMembers(s)
  \/ Tick

Spec == Init /\ [][Next]_vars

(* Time passes.  Nothing is assumed of agents, of Redis and of the sweep.  *)
FairSpec == Spec /\ WF_vars(Tick)

-----------------------------------------------------------------------------
(* Properties                                                              *)

Has(i, s) == Live(i) /\ s \in rec[i].skills

(* An external agent that is live stays where its skills lead to it, while *)
(* requests of all agents, renewals and expiries overlap: only a sweep     *)
(* that had found it missing takes it away.                                *)
LiveAgentsStayIndexed ==
  [][\A i \in Ids, s \in Skills :
       /\ i \in index[s].members /\ i \notin index'[s].members
       /\ Has(i, s) /\ Has(i, s)'
       /\ rec[i].agent \notin Declared
       => sweep.at = "checking" /\ sweep.skill = s /\ i \in sweep.missing]_vars

(* An external agent that sends nothing any more vanishes, whatever        *)
(* requests of it overlapped before: what a heartbeat writes back after a  *)
(* deregistration or an expiry does not outlive its ttl.                   *)
SilentAgentsVanish ==
  \A e \in Agents \ Declared :
    <>[](\A q \in Requests : op[q].agent # e) => <>[](\A i \in Ids : rec[i].agent # e)

-----------------------------------------------------------------------------
(* What the code says of itself and does not do                            *)

(* src/registry/registry.py:101: an internal agent "never expires, always  *)
(* online"; the set that its skill leads through does.                     *)
DeclaredAgentsAreFound ==
  \A i \in Ids, s \in Skills :
    Has(i, s) /\ rec[i].agent \in Declared => i \in index[s].members
=============================================================================
