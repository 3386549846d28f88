------------------------- MODULE AgentRegistryProofs -------------------------
(***************************************************************************)
(* AgentRegistry keeps its types, a live agent stays where its skills lead *)
(* to it, a declared one too where it shares no skill with others, and the *)
(* records of silent agents run out: for any agents, any skills and any    *)
(* overlapping requests.                                                   *)
(***************************************************************************)
EXTENDS AgentRegistry, TLAPS

Points == {"idle", "reading", "registering", "beating", "found", "deregistering"}

(* A request under way has the id it is about.                             *)
RequestsHaveIds == \A q \in Requests : op[q].at # "idle" => op[q].id \in Ids

(* The record of an external agent expires, and the sets of its skills     *)
(* outlive it by a heartbeat_ttl.                                          *)
SetsOutliveRecords ==
  \A i \in Ids : Live(i) /\ rec[i].agent \notin Declared =>
    /\ rec[i].ttl # 0
    /\ \A s \in rec[i].skills :
         i \in index[s].members /\ index[s].ttl # 0
           => index[s].ttl >= rec[i].ttl + HeartbeatTTL

Inv == TypeOK /\ RequestsHaveIds /\ SetsOutliveRecords

RecordType ==
  [agent : Agents \cup {NoAgent}, skills : SUBSET Skills, ttl : 0 .. HeartbeatTTL]
SetType == [members : SUBSET Ids, ttl : 0 .. 2 * HeartbeatTTL]
OpType ==
  [at : Points, agent : Agents \cup {NoAgent}, id : Ids \cup {NoId},
   skills : SUBSET Skills, old : SUBSET Skills]

-----------------------------------------------------------------------------
(* The operators on sets and keys                                          *)

(* SREM takes away the ids it is told, and no others.                      *)
LEMMA WithoutFacts ==
  ASSUME NEW set \in SetType, NEW ids \in SUBSET Ids
  PROVE  /\ Without(set, ids) \in SetType
         /\ Without(set, ids).members = set.members \ ids
         /\ Without(set, ids).members # {} => Without(set, ids).ttl = set.ttl
<1> QED
  BY RegistryAssumption DEF Without, SetType, NoSet

(* EXPIRE changes no members.                                              *)
LEMMA ExpiringFacts ==
  ASSUME NEW set \in SetType
  PROVE  /\ Expiring(set) \in SetType
         /\ Expiring(set).members = set.members
         /\ set.members # {} => Expiring(set).ttl = 2 * HeartbeatTTL
<1> QED
  BY RegistryAssumption DEF Expiring, SetType

(* A registration puts its id into the sets of its new skills, which then  *)
(* live as long as they can, takes it out of those of its old ones, and    *)
(* leaves the other ids alone.                                             *)
LEMMA ReindexedFacts ==
  ASSUME NEW s \in Skills, NEW o \in OpType, o.id \in Ids, index[s] \in SetType
  PROVE  /\ Reindexed(s, o) \in SetType
         /\ \A i \in Ids \ {o.id} : i \in Reindexed(s, o).members <=> i \in index[s].members
         /\ s \in o.skills => o.id \in Reindexed(s, o).members
         /\ s \in o.skills /\ o.agent \notin Declared =>
              Reindexed(s, o).ttl = 2 * HeartbeatTTL
         /\ index[s].members \ {o.id} # {} =>
              Reindexed(s, o).ttl \in {index[s].ttl, 2 * HeartbeatTTL}
<1> DEFINE kept == IF s \in o.old THEN Without(index[s], {o.id}) ELSE index[s]
           added == [kept EXCEPT !.members = @ \cup {o.id}]
<1>1. /\ kept \in SetType
      /\ kept.members \ {o.id} = index[s].members \ {o.id}
      /\ index[s].members \ {o.id} # {} => kept.ttl = index[s].ttl
  BY WithoutFacts
<1>2. /\ added \in SetType
      /\ added.members = kept.members \cup {o.id}
      /\ added.ttl = kept.ttl
  BY <1>1 DEF SetType
<1>3. /\ Expiring(added) \in SetType
      /\ Expiring(added).members = added.members
      /\ Expiring(added).ttl = 2 * HeartbeatTTL
  BY <1>2, ExpiringFacts
<1>4. Reindexed(s, o) = IF s \notin o.skills THEN kept
                        ELSE IF o.agent \in Declared THEN added ELSE Expiring(added)
  BY DEF Reindexed
<1> HIDE DEF kept, added
<1> QED
  BY <1>1, <1>2, <1>3, <1>4

(* A heartbeat renews the sets of its skills.                              *)
LEMMA RenewedFacts ==
  ASSUME NEW s \in Skills, NEW o \in OpType, index[s] \in SetType
  PROVE  /\ Renewed(s, o) \in SetType
         /\ Renewed(s, o).members = index[s].members
         /\ s \in o.skills /\ index[s].members # {} =>
              Renewed(s, o).ttl = 2 * HeartbeatTTL
         /\ index[s].members # {} =>
              Renewed(s, o).ttl \in {index[s].ttl, 2 * HeartbeatTTL}
<1> QED
  BY ExpiringFacts DEF Renewed

(* What a tick makes of a record and of a set.                             *)
LEMMA AfterFacts ==
  /\ \A r \in RecordType :
       /\ After(r, NoRecord) \in RecordType
       /\ r.ttl = 1 => After(r, NoRecord) = NoRecord
       /\ r.ttl # 1 => /\ After(r, NoRecord).agent = r.agent
                       /\ After(r, NoRecord).skills = r.skills
                       /\ After(r, NoRecord).ttl = IF r.ttl = 0 THEN 0 ELSE r.ttl - 1
  /\ \A x \in SetType :
       /\ After(x, NoSet) \in SetType
       /\ x.ttl = 1 => After(x, NoSet) = NoSet
       /\ x.ttl # 1 => /\ After(x, NoSet).members = x.members
                       /\ After(x, NoSet).ttl = IF x.ttl = 0 THEN 0 ELSE x.ttl - 1
<1> QED
  BY RegistryAssumption DEF After, RecordType, SetType, NoRecord, NoSet

-----------------------------------------------------------------------------
(* The inductive invariant                                                 *)

(* TypeOK in terms of the sets of records above.                           *)
LEMMA TypeOKUnfolded ==
  TypeOK <=>
    /\ rec \in [Ids -> RecordType]
    /\ index \in [Skills -> SetType]
    /\ lookup \in [Agents -> [id : Ids \cup {NoId}, ttl : 0 .. HeartbeatTTL]]
    /\ op \in [Requests -> OpType]
    /\ sweep \in [at : {"asleep", "scanning", "checking"}, skills : SUBSET Skills,
                  skill : Skills \cup {NoSkill}, members : SUBSET Ids, missing : SUBSET Ids]
<1> QED
  BY DEF TypeOK, RecordType, SetType, OpType, Points

(* The invariant holds of an empty Redis.                                  *)
LEMMA InitInv == Init => Inv
<1> SUFFICES ASSUME Init PROVE Inv
  OBVIOUS
<1>1. TypeOK
  BY RegistryAssumption DEF Init, TypeOK, NoRecord, NoSet, NoEntry, Idle, Asleep
<1>2. RequestsHaveIds
  BY DEF Init, RequestsHaveIds, Idle
<1>3. SetsOutliveRecords
  BY DEF Init, SetsOutliveRecords, Live, NoRecord
<1> QED
  BY <1>1, <1>2, <1>3 DEF Inv

(* A step that changes no record and takes nothing from the sets but ids.  *)
LEMMA SetsShrink ==
  ASSUME Inv, UNCHANGED rec, index' \in [Skills -> SetType],
         \A s \in Skills :
           /\ index'[s].members \subseteq index[s].members
           /\ index'[s].members # {} => index'[s].ttl = index[s].ttl
  PROVE  SetsOutliveRecords'
<1> SUFFICES ASSUME NEW i \in Ids, Live(i), rec[i].agent \notin Declared
             PROVE  /\ rec[i].ttl # 0
                    /\ \A s \in rec[i].skills : i \in index'[s].members /\ index'[s].ttl # 0
                         => index'[s].ttl >= rec[i].ttl + HeartbeatTTL
  BY DEF SetsOutliveRecords, Live
<1>1. rec[i].skills \subseteq Skills
  BY TypeOKUnfolded DEF Inv, RecordType
<1>2. /\ rec[i].ttl # 0
      /\ \A s \in rec[i].skills : i \in index[s].members /\ index[s].ttl # 0
           => index[s].ttl >= rec[i].ttl + HeartbeatTTL
  BY DEF Inv, SetsOutliveRecords
<1>3. ASSUME NEW s \in rec[i].skills, i \in index'[s].members
      PROVE  i \in index[s].members /\ index'[s].ttl = index[s].ttl
  BY <1>1, <1>3
<1> QED
  BY <1>2, <1>3

(* A registration's pipeline.                                              *)
LEMMA WriteRecordStep ==
  ASSUME Inv, NEW q \in Requests, WriteRecord(q)
  PROVE  Inv'
<1> DEFINE o == op[q]
<1> USE TypeOKUnfolded, RegistryAssumption
<1>1. o \in OpType /\ o.id \in Ids
  BY DEF Inv, RequestsHaveIds, WriteRecord
<1>2. \A s \in Skills :
        /\ index'[s] = Reindexed(s, o)
        /\ Reindexed(s, o) \in SetType
        /\ \A i \in Ids \ {o.id} : i \in Reindexed(s, o).members <=> i \in index[s].members
        /\ s \in o.skills /\ o.agent \notin Declared =>
             Reindexed(s, o).ttl = 2 * HeartbeatTTL
        /\ index[s].members \ {o.id} # {} =>
             Reindexed(s, o).ttl \in {index[s].ttl, 2 * HeartbeatTTL}
  <2>1. \A s \in Skills : index'[s] = Reindexed(s, o) /\ index[s] \in SetType
    BY DEF WriteRecord, Inv
  <2> QED
    BY <1>1, <2>1, ReindexedFacts
<1>3. Written(o) \in RecordType
  BY <1>1 DEF Inv, Written, RecordType, OpType
<1>4. rec' = [rec EXCEPT ![o.id] = Written(o)]
  BY DEF WriteRecord
<1>5. TypeOK'
  <2>1. rec' \in [Ids -> RecordType]
    BY <1>3, <1>4 DEF Inv
  <2>2. index' \in [Skills -> SetType]
    BY <1>2 DEF WriteRecord
  <2>3. lookup' \in [Agents -> [id : Ids \cup {NoId}, ttl : 0 .. HeartbeatTTL]]
    <3>1. lookup' = [lookup EXCEPT ![o.agent] =
            [id |-> o.id, ttl |-> IF o.agent \in Declared THEN 0 ELSE HeartbeatTTL]]
      BY DEF WriteRecord
    <3>2. [id |-> o.id, ttl |-> IF o.agent \in Declared THEN 0 ELSE HeartbeatTTL]
            \in [id : Ids \cup {NoId}, ttl : 0 .. HeartbeatTTL]
      BY <1>1
    <3> QED
      BY <3>1, <3>2 DEF Inv
  <2>4. op' \in [Requests -> OpType]
    BY DEF WriteRecord, Inv, Goes, Idle, OpType, Points
  <2> QED
    BY <2>1, <2>2, <2>3, <2>4
       DEF WriteRecord, Inv, TypeOK, RecordType, SetType, OpType, Points
<1>6. RequestsHaveIds'
  BY DEF WriteRecord, Inv, RequestsHaveIds, Goes, Idle
<1>7. SetsOutliveRecords'
  <2> SUFFICES ASSUME NEW i \in Ids, Live(i)', rec'[i].agent \notin Declared
               PROVE  /\ rec'[i].ttl # 0
                      /\ \A s \in rec'[i].skills : i \in index'[s].members /\ index'[s].ttl # 0
                           => index'[s].ttl >= rec'[i].ttl + HeartbeatTTL
    BY DEF SetsOutliveRecords, Live
  <2>1. CASE i = o.id
    <3>1. rec'[i].agent = o.agent /\ rec'[i].skills = o.skills /\ rec'[i].ttl = HeartbeatTTL
      BY <1>4, <2>1 DEF Inv, Written
    <3>2. o.skills \subseteq Skills
      BY <1>1 DEF OpType
    <3> QED
      BY <1>2, <3>1, <3>2
  <2>2. CASE i # o.id
    <3>1. rec'[i] = rec[i] /\ rec[i] \in RecordType /\ Live(i)
      BY <1>4, <2>2 DEF Inv, Live
    <3>2. rec[i].skills \subseteq Skills /\ rec[i].ttl \in 0 .. HeartbeatTTL
      BY <3>1 DEF RecordType
    <3>3. rec[i].ttl # 0
      BY <3>1 DEF Inv, SetsOutliveRecords
    <3>4. ASSUME NEW s \in rec[i].skills, i \in index'[s].members, index'[s].ttl # 0
          PROVE  index'[s].ttl >= rec[i].ttl + HeartbeatTTL
      <4>1. s \in Skills /\ i \in index[s].members
        BY <1>2, <2>2, <3>2, <3>4
      <4>2. index'[s].ttl \in {index[s].ttl, 2 * HeartbeatTTL}
        BY <1>2, <2>2, <4>1
      <4>3. index[s].ttl # 0 => index[s].ttl >= rec[i].ttl + HeartbeatTTL
        BY <3>1, <4>1 DEF Inv, SetsOutliveRecords
      <4> QED
        BY <3>2, <3>4, <4>2, <4>3
    <3> QED
      BY <3>1, <3>3, <3>4
  <2> QED
    BY <2>1, <2>2
<1> QED
  BY <1>5, <1>6, <1>7 DEF Inv

(* A heartbeat's pipeline.                                                 *)
LEMMA RenewStep ==
  ASSUME Inv, NEW q \in Requests, Renew(q)
  PROVE  Inv'
<1> DEFINE o == op[q]
<1> USE TypeOKUnfolded, RegistryAssumption
<1>1. o \in OpType /\ o.id \in Ids
  BY DEF Inv, RequestsHaveIds, Renew
<1>2. \A s \in Skills :
        /\ index'[s] = Renewed(s, o)
        /\ Renewed(s, o) \in SetType
        /\ Renewed(s, o).members = index[s].members
        /\ s \in o.skills /\ index[s].members # {} =>
             Renewed(s, o).ttl = 2 * HeartbeatTTL
        /\ index[s].members # {} =>
             Renewed(s, o).ttl \in {index[s].ttl, 2 * HeartbeatTTL}
  <2>1. \A s \in Skills : index'[s] = Renewed(s, o) /\ index[s] \in SetType
    BY DEF Renew, Inv
  <2> QED
    BY <1>1, <2>1, RenewedFacts
<1> DEFINE new == [agent |-> o.agent, skills |-> o.skills, ttl |-> HeartbeatTTL]
<1>3. new \in RecordType
  BY <1>1 DEF RecordType, OpType
<1>4. rec' = [rec EXCEPT ![o.id] = new]
  BY DEF Renew
<1>5. TypeOK'
  <2>1. rec' \in [Ids -> RecordType]
    BY <1>3, <1>4 DEF Inv
  <2>2. index' \in [Skills -> SetType]
    BY <1>2 DEF Renew
  <2>3. op' \in [Requests -> OpType]
    BY DEF Renew, Inv, Goes, Idle, OpType, Points
  <2> QED
    BY <2>1, <2>2, <2>3 DEF Renew, Inv, TypeOK, RecordType, SetType, OpType, Points
<1>6. RequestsHaveIds'
  BY DEF Renew, Inv, RequestsHaveIds, Goes, Idle
<1>7. SetsOutliveRecords'
  <2> SUFFICES ASSUME NEW i \in Ids, Live(i)', rec'[i].agent \notin Declared
               PROVE  /\ rec'[i].ttl # 0
                      /\ \A s \in rec'[i].skills : i \in index'[s].members /\ index'[s].ttl # 0
                           => index'[s].ttl >= rec'[i].ttl + HeartbeatTTL
    BY DEF SetsOutliveRecords, Live
  <2>1. CASE i = o.id
    <3>1. rec'[i].skills = o.skills /\ rec'[i].ttl = HeartbeatTTL
      BY <1>4, <2>1 DEF Inv
    <3>2. o.skills \subseteq Skills
      BY <1>1 DEF OpType
    <3> QED
      BY <1>2, <3>1, <3>2
  <2>2. CASE i # o.id
    <3>1. rec'[i] = rec[i] /\ rec[i] \in RecordType /\ Live(i)
      BY <1>4, <2>2 DEF Inv, Live
    <3>2. rec[i].skills \subseteq Skills /\ rec[i].ttl \in 0 .. HeartbeatTTL
      BY <3>1 DEF RecordType
    <3>3. rec[i].ttl # 0
      BY <3>1 DEF Inv, SetsOutliveRecords
    <3>4. ASSUME NEW s \in rec[i].skills, i \in index'[s].members, index'[s].ttl # 0
          PROVE  index'[s].ttl >= rec[i].ttl + HeartbeatTTL
      <4>1. s \in Skills /\ i \in index[s].members
        BY <1>2, <3>2, <3>4
      <4>2. index'[s].ttl \in {index[s].ttl, 2 * HeartbeatTTL}
        BY <1>2, <4>1
      <4>3. index[s].ttl # 0 => index[s].ttl >= rec[i].ttl + HeartbeatTTL
        BY <3>1, <4>1 DEF Inv, SetsOutliveRecords
      <4> QED
        BY <3>2, <3>4, <4>2, <4>3
    <3> QED
      BY <3>1, <3>3, <3>4
  <2> QED
    BY <2>1, <2>2
<1> QED
  BY <1>5, <1>6, <1>7 DEF Inv

(* A deregistration's pipeline.                                            *)
LEMMA RemoveStep ==
  ASSUME Inv, NEW q \in Requests, Remove(q)
  PROVE  Inv'
<1> DEFINE o == op[q]
<1> USE TypeOKUnfolded, RegistryAssumption
<1>1. o.id \in Ids
  BY DEF Inv, RequestsHaveIds, Remove
<1>2. \A s \in Skills :
        /\ index'[s] \in SetType
        /\ index'[s].members \subseteq index[s].members
        /\ index'[s].members # {} => index'[s].ttl = index[s].ttl
  <2>1. \A s \in Skills :
          /\ index[s] \in SetType
          /\ index'[s] = IF s \in o.old THEN Without(index[s], {o.id}) ELSE index[s]
    BY DEF Inv, Remove
  <2> QED
    BY <1>1, <2>1, WithoutFacts
<1>3. rec' = [rec EXCEPT ![o.id] = NoRecord]
  BY DEF Remove
<1>4. TypeOK'
  <2>1. rec' \in [Ids -> RecordType]
    <3>1. NoRecord \in RecordType
      BY DEF NoRecord, RecordType
    <3> QED
      BY <1>3, <3>1 DEF Inv
  <2>2. index' \in [Skills -> SetType]
    BY <1>2 DEF Remove
  <2>3. op' \in [Requests -> OpType]
    BY DEF Remove, Inv, Goes, Idle, OpType, Points
  <2> QED
    BY <2>1, <2>2, <2>3 DEF Remove, Inv, TypeOK, RecordType, SetType, OpType, Points
<1>5. RequestsHaveIds'
  BY DEF Remove, Inv, RequestsHaveIds, Goes, Idle
<1>6. SetsOutliveRecords'
  <2> SUFFICES ASSUME NEW i \in Ids, Live(i)', rec'[i].agent \notin Declared
               PROVE  /\ rec'[i].ttl # 0
                      /\ \A s \in rec'[i].skills : i \in index'[s].members /\ index'[s].ttl # 0
                           => index'[s].ttl >= rec'[i].ttl + HeartbeatTTL
    BY DEF SetsOutliveRecords, Live
  <2>1. rec'[i] = rec[i] /\ Live(i)
    BY <1>1, <1>3 DEF Inv, Live, NoRecord
  <2>2. rec[i].skills \subseteq Skills
    BY DEF Inv, RecordType
  <2>3. /\ rec[i].ttl # 0
        /\ \A s \in rec[i].skills : i \in index[s].members /\ index[s].ttl # 0
             => index[s].ttl >= rec[i].ttl + HeartbeatTTL
    BY <2>1 DEF Inv, SetsOutliveRecords
  <2>4. ASSUME NEW s \in rec[i].skills, i \in index'[s].members
        PROVE  i \in index[s].members /\ index'[s].ttl = index[s].ttl
    BY <1>2, <2>2, <2>4
  <2> QED
    BY <2>1, <2>3, <2>4
<1> QED
  BY <1>4, <1>5, <1>6 DEF Inv

(* A tick: a record's last tick comes before that of the sets it needs.    *)
LEMMA TickStep ==
  ASSUME Inv, Tick
  PROVE  Inv'
<1> USE TypeOKUnfolded, RegistryAssumption
<1>1. \A i \in Ids : rec[i] \in RecordType /\ rec'[i] = After(rec[i], NoRecord)
  BY DEF Inv, Tick
<1>2. \A s \in Skills : index[s] \in SetType /\ index'[s] = After(index[s], NoSet)
  BY DEF Inv, Tick
<1>3. TypeOK'
  <2>1. rec' \in [Ids -> RecordType]
    BY <1>1, AfterFacts DEF Tick
  <2>2. index' \in [Skills -> SetType]
    BY <1>2, AfterFacts DEF Tick
  <2>3. lookup' \in [Agents -> [id : Ids \cup {NoId}, ttl : 0 .. HeartbeatTTL]]
    BY DEF Tick, Inv, After, NoEntry
  <2> QED
    BY <2>1, <2>2, <2>3 DEF Tick, Inv, TypeOK, RecordType, SetType, OpType, Points
<1>4. RequestsHaveIds'
  BY DEF Tick, Inv, RequestsHaveIds
<1>5. SetsOutliveRecords'
  <2> SUFFICES ASSUME NEW i \in Ids, Live(i)', rec'[i].agent \notin Declared
               PROVE  /\ rec'[i].ttl # 0
                      /\ \A s \in rec'[i].skills : i \in index'[s].members /\ index'[s].ttl # 0
                           => index'[s].ttl >= rec'[i].ttl + HeartbeatTTL
    BY DEF SetsOutliveRecords, Live
  <2>1. rec[i].ttl # 1
    <3>1. rec[i].ttl = 1 => rec'[i] = NoRecord
      BY <1>1, AfterFacts
    <3> QED
      BY <3>1 DEF Live, NoRecord
  <2>2. /\ rec'[i].agent = rec[i].agent
        /\ rec'[i].skills = rec[i].skills
        /\ rec'[i].ttl = IF rec[i].ttl = 0 THEN 0 ELSE rec[i].ttl - 1
    BY <1>1, <2>1, AfterFacts
  <2>3. /\ rec[i].ttl # 0
        /\ \A s \in rec[i].skills : i \in index[s].members /\ index[s].ttl # 0
             => index[s].ttl >= rec[i].ttl + HeartbeatTTL
    BY <2>2 DEF Inv, SetsOutliveRecords, Live
  <2>4. rec[i].ttl \in 0 .. HeartbeatTTL /\ rec[i].skills \subseteq Skills
    BY <1>1 DEF RecordType
  <2>5. ASSUME NEW s \in rec[i].skills, i \in index'[s].members, index'[s].ttl # 0
        PROVE  index'[s].ttl >= rec'[i].ttl + HeartbeatTTL
    <3>1. s \in Skills
      BY <2>4
    <3>2. index[s].ttl # 1
      BY <1>2, <2>5, <3>1, AfterFacts DEF NoSet
    <3>3. /\ index'[s].members = index[s].members
          /\ index'[s].ttl = IF index[s].ttl = 0 THEN 0 ELSE index[s].ttl - 1
      BY <1>2, <3>1, <3>2, AfterFacts
    <3>4. index[s].ttl \in 0 .. 2 * HeartbeatTTL
      BY <1>2, <3>1 DEF SetType
    <3> QED
      BY <2>2, <2>3, <2>4, <2>5, <3>3, <3>4
  <2> QED
    BY <2>1, <2>2, <2>3, <2>4, <2>5
<1> QED
  BY <1>3, <1>4, <1>5 DEF Inv

(* The steps of requests that read.                                        *)
LEMMA ReadingStep ==
  ASSUME Inv, NEW q \in Requests,
         \/ \E e \in Agents, skills \in SUBSET Skills : Register(q, e, skills)
         \/ \E i \in Ids : Heartbeat(q, i) \/ Deregister(q, i)
         \/ ReadOld(q) \/ ReadSkills(q) \/ RequestFails(q)
  PROVE  Inv'
<1> USE TypeOKUnfolded
<1>1. UNCHANGED <<rec, index, lookup, sweep>>
  BY DEF Register, Heartbeat, Deregister, ReadOld, ReadSkills, RequestFails
<1>2. \E o \in OpType : (o.at # "idle" => o.id \in Ids) /\ Goes(q, o)
  <2>1. ASSUME NEW e \in Agents, NEW skills \in SUBSET Skills, Register(q, e, skills)
        PROVE  \E o \in OpType : (o.at # "idle" => o.id \in Ids) /\ Goes(q, o)
    <3> DEFINE request == [Idle EXCEPT !.agent = e, !.skills = skills]
               known == [request EXCEPT !.at = "reading", !.id = lookup[e].id]
               fresh == [request EXCEPT !.at = "registering", !.id = CHOOSE i \in Fresh : TRUE]
    <3>1. CASE lookup[e].id # NoId /\ Goes(q, known)
      <4>1. lookup[e].id \in Ids
        BY <3>1 DEF Inv
      <4>2. known \in OpType /\ known.id \in Ids
        BY <4>1 DEF Idle, OpType, Points
      <4> QED
        BY <3>1, <4>2
    <3>2. CASE Fresh # {} /\ Goes(q, fresh)
      <4>1. (CHOOSE i \in Fresh : TRUE) \in Ids
        BY <3>2 DEF Fresh
      <4>2. fresh \in OpType /\ fresh.id \in Ids
        BY <4>1 DEF Idle, OpType, Points
      <4> QED
        BY <3>2, <4>2
    <3> QED
      BY <2>1, <3>1, <3>2 DEF Register
  <2>2. ASSUME NEW i \in Ids, Heartbeat(q, i) \/ Deregister(q, i)
        PROVE  \E o \in OpType : (o.at # "idle" => o.id \in Ids) /\ Goes(q, o)
    <3> DEFINE beat == [Idle EXCEPT !.at = "beating", !.id = i, !.agent = rec[i].agent,
                                    !.skills = rec[i].skills]
               end == [Idle EXCEPT !.at = "found", !.id = i]
    <3>1. beat \in OpType /\ beat.id \in Ids
      BY DEF Inv, Idle, OpType, Points, RecordType
    <3>2. end \in OpType /\ end.id \in Ids
      BY DEF Idle, OpType, Points
    <3> QED
      BY <2>2, <3>1, <3>2 DEF Heartbeat, Deregister
  <2>3. CASE ReadOld(q) \/ ReadSkills(q)
    <3>1. op[q] \in OpType /\ op[q].id \in Ids
      BY <2>3 DEF Inv, RequestsHaveIds, ReadOld, ReadSkills
    <3>2. rec[op[q].id].skills \in SUBSET Skills
      BY <3>1 DEF Inv, RecordType
    <3> DEFINE o(at) == [op[q] EXCEPT !.at = at, !.old = rec[op[q].id].skills]
    <3>3. o("registering") \in OpType /\ o("registering").id \in Ids
      BY <3>1, <3>2 DEF OpType, Points
    <3>4. o("deregistering") \in OpType /\ o("deregistering").id \in Ids
      BY <3>1, <3>2 DEF OpType, Points
    <3> QED
      BY <2>3, <3>3, <3>4 DEF ReadOld, ReadSkills
  <2>4. CASE RequestFails(q)
    <3>1. Idle \in OpType /\ Idle.at = "idle"
      BY DEF Idle, OpType, Points
    <3> QED
      BY <2>4, <3>1 DEF RequestFails
  <2> QED
    BY <2>1, <2>2, <2>3, <2>4
<1>3. PICK o \in OpType : (o.at # "idle" => o.id \in Ids) /\ op' = [op EXCEPT ![q] = o]
  BY <1>2 DEF Goes
<1>4. op' \in [Requests -> OpType] /\ RequestsHaveIds'
  BY <1>3 DEF Inv, RequestsHaveIds
<1> QED
  BY <1>1, <1>4 DEF Inv, TypeOK, SetsOutliveRecords, Live, RecordType, SetType, OpType, Points

(* The sweep's steps.                                                      *)
LEMMA SweepStep ==
  ASSUME Inv,
         \/ Wake \/ RemoveMissing \/ Sleep
         \/ \E i \in Ids : CheckMember(i)
         \/ \E s \in Skills : ReadMembers(s)
  PROVE  Inv'
<1> USE TypeOKUnfolded
<1>1. UNCHANGED <<rec, lookup, op>>
  BY DEF Wake, RemoveMissing, Sleep, CheckMember, ReadMembers
<1>2. sweep' \in [at : {"asleep", "scanning", "checking"}, skills : SUBSET Skills,
                  skill : Skills \cup {NoSkill}, members : SUBSET Ids, missing : SUBSET Ids]
  <2> DEFINE asleep(at, skills) ==
        [at |-> at, skills |-> skills, skill |-> NoSkill, members |-> {}, missing |-> {}]
  <2>1. CASE Wake \/ RemoveMissing \/ Sleep
    <3>1. PICK at \in {"asleep", "scanning"}, skills \in SUBSET Skills :
            sweep' = asleep(at, skills)
      <4>1. sweep.skills \in SUBSET Skills
        BY DEF Inv
      <4>2. CASE Wake
        BY <4>2 DEF Wake, Asleep
      <4>3. CASE RemoveMissing
        BY <4>1, <4>3 DEF RemoveMissing, Asleep
      <4>4. CASE Sleep
        <5>1. sweep' = asleep("asleep", {})
          BY <4>4 DEF Sleep, Asleep
        <5> QED
          BY <5>1
      <4> QED
        BY <2>1, <4>2, <4>3, <4>4
    <3> QED
      BY <3>1
  <2>2. ASSUME NEW i \in Ids, CheckMember(i)
        PROVE  sweep' \in [at : {"asleep", "scanning", "checking"}, skills : SUBSET Skills,
                  skill : Skills \cup {NoSkill}, members : SUBSET Ids, missing : SUBSET Ids]
    BY <2>2 DEF Inv, CheckMember
  <2>3. ASSUME NEW s \in Skills, ReadMembers(s)
        PROVE  sweep' \in [at : {"asleep", "scanning", "checking"}, skills : SUBSET Skills,
                  skill : Skills \cup {NoSkill}, members : SUBSET Ids, missing : SUBSET Ids]
    BY <2>3 DEF Inv, ReadMembers, Asleep, SetType
  <2> QED
    BY <2>1, <2>2, <2>3
<1>3. \A s \in Skills :
        /\ index'[s] \in SetType
        /\ index'[s].members \subseteq index[s].members
        /\ index'[s].members # {} => index'[s].ttl = index[s].ttl
  <2>1. CASE UNCHANGED index
    BY <2>1 DEF Inv
  <2>2. CASE RemoveMissing
    <3>1. \A s \in Skills : index[s] \in SetType
      BY DEF Inv
    <3>2. \A s \in Skills : index'[s] \in {index[s], Without(index[s], sweep.missing)}
      BY <2>2 DEF RemoveMissing, Inv
    <3>3. sweep.missing \in SUBSET Ids
      BY DEF Inv
    <3> QED
      BY <3>1, <3>2, <3>3, WithoutFacts
  <2> QED
    BY <2>1, <2>2 DEF Wake, Sleep, CheckMember, ReadMembers
<1>4. index' \in [Skills -> SetType]
  <2>1. index' = [s \in Skills |-> index'[s]]
    BY DEF Inv, Wake, RemoveMissing, Sleep, CheckMember, ReadMembers
  <2> QED
    BY <1>3, <2>1
<1>5. SetsOutliveRecords'
  BY <1>1, <1>3, <1>4, SetsShrink
<1> QED
  BY <1>1, <1>2, <1>4, <1>5
     DEF Inv, RequestsHaveIds, TypeOK, RecordType, SetType, OpType, Points

(* Every step, and stuttering, keeps the invariant.                        *)
LEMMA InvStep == Inv /\ [Next]_vars => Inv'
<1> SUFFICES ASSUME Inv, [Next]_vars PROVE Inv'
  OBVIOUS
<1>1. CASE UNCHANGED vars
  BY <1>1 DEF vars, Inv, TypeOK, RequestsHaveIds, SetsOutliveRecords, Live
<1>2. CASE Next
  BY <1>2, WriteRecordStep, RenewStep, RemoveStep, TickStep, ReadingStep, SweepStep DEF Next
<1> QED
  BY <1>1, <1>2

(* The invariant holds in every state.                                     *)
LEMMA RegistryInvariant == Spec => []Inv
<1> QED
  BY InitInv, InvStep, PTL DEF Spec

-----------------------------------------------------------------------------
(* The records, the sets, the requests and the sweep keep their types      *)
(* (AgentRegistry's methods).                                              *)
THEOREM TypeCorrect == Spec => []TypeOK
<1>1. Inv => TypeOK
  BY DEF Inv
<1> QED
  BY <1>1, RegistryInvariant, PTL

(* The set of an external agent's skill does not expire as long as the     *)
(* agent is live.                                                          *)
LEMMA SetsOfExternalsStay ==
  ASSUME Inv, Tick, NEW i \in Ids, NEW s \in Skills, i \in index[s].members,
         Has(i, s), rec[i].agent \notin Declared, Has(i, s)'
  PROVE  index[s].ttl # 1
<1> USE TypeOKUnfolded
<1> SUFFICES ASSUME index[s].ttl = 1 PROVE FALSE
  OBVIOUS
<1>1. rec[i] \in RecordType /\ rec'[i] = After(rec[i], NoRecord)
  BY DEF Inv, Tick
<1>2. rec[i].ttl # 0 /\ index[s].ttl >= rec[i].ttl + HeartbeatTTL
  BY DEF Inv, SetsOutliveRecords, Has
<1> QED
  BY <1>1, <1>2, RegistryAssumption DEF RecordType

(* Who takes a live agent out of a set that does not expire.               *)
LEMMA Forgotten ==
  ASSUME Inv, Next, NEW i \in Ids, NEW s \in Skills,
         i \in index[s].members, i \notin index'[s].members,
         Has(i, s), Has(i, s)', Tick => index[s].ttl # 1
  PROVE  sweep.at = "checking" /\ sweep.skill = s /\ i \in sweep.missing
<1> USE TypeOKUnfolded
<1> index[s] \in SetType
  BY DEF Inv
<1>1. ASSUME NEW q \in Requests, WriteRecord(q) PROVE FALSE
  <2> DEFINE o == op[q]
  <2>1. o \in OpType /\ o.id \in Ids
    BY <1>1 DEF Inv, RequestsHaveIds, WriteRecord
  <2>2. index'[s] = Reindexed(s, o) /\ rec' = [rec EXCEPT ![o.id] = Written(o)]
    BY <1>1 DEF WriteRecord
  <2>3. o.id = i /\ s \notin o.skills
    BY <2>1, <2>2, ReindexedFacts
  <2>4. rec'[i].skills = o.skills
    BY <2>2, <2>3 DEF Inv, Written
  <2> QED
    BY <2>3, <2>4 DEF Has
<1>2. ASSUME NEW q \in Requests, Renew(q) PROVE FALSE
  <2>1. op[q] \in OpType /\ index'[s] = Renewed(s, op[q])
    BY <1>2 DEF Inv, Renew
  <2> QED
    BY <2>1, RenewedFacts
<1>3. ASSUME NEW q \in Requests, Remove(q) PROVE FALSE
  <2> DEFINE o == op[q]
  <2>1. /\ o.id \in Ids
        /\ index'[s] \in {index[s], Without(index[s], {o.id})}
        /\ rec' = [rec EXCEPT ![o.id] = NoRecord]
    BY <1>3 DEF Inv, RequestsHaveIds, Remove
  <2>2. o.id = i
    BY <2>1, WithoutFacts
  <2>3. rec'[i] = NoRecord
    BY <2>1, <2>2 DEF Inv
  <2> QED
    BY <2>3 DEF Has, Live, NoRecord
<1>4. ~Tick
  <2> SUFFICES ASSUME Tick PROVE FALSE
    OBVIOUS
  <2>1. index'[s] = After(index[s], NoSet)
    BY DEF Inv, Tick
  <2> QED
    BY <2>1, AfterFacts
<1>5. CASE RemoveMissing
  <2>1. sweep.skill = s /\ index'[s] = Without(index[s], sweep.missing)
    BY <1>5 DEF RemoveMissing, Inv
  <2>2. i \in sweep.missing
    BY <2>1, WithoutFacts DEF Inv
  <2> QED
    BY <1>5, <2>1, <2>2 DEF RemoveMissing
<1>6. ASSUME UNCHANGED index PROVE FALSE
  BY <1>6
<1> QED
  BY <1>1, <1>2, <1>3, <1>4, <1>5, <1>6
     DEF Next, Register, Heartbeat, Deregister, ReadOld, ReadSkills, RequestFails, Wake,
         Sleep, CheckMember, ReadMembers

(* Only a sweep that had found it missing takes a live external agent out  *)
(* of the set of one of its skills: the expiry of sets, and requests of    *)
(* all agents, do not (register, heartbeat, deregister).                   *)
THEOREM AgentsStayIndexed == Spec => LiveAgentsStayIndexed
<1> DEFINE Step ==
      \A i \in Ids, s \in Skills :
        /\ i \in index[s].members /\ i \notin index'[s].members
        /\ Has(i, s) /\ Has(i, s)'
        /\ rec[i].agent \notin Declared
        => sweep.at = "checking" /\ sweep.skill = s /\ i \in sweep.missing
<1>1. Inv /\ [Next]_vars => [Step]_vars
  BY Forgotten, SetsOfExternalsStay
<1> QED
  BY <1>1, RegistryInvariant, PTL DEF Spec, LiveAgentsStayIndexed

-----------------------------------------------------------------------------
(* Declared agents                                                         *)

(* The skills that external agents may register with.                      *)
OfExternals ==
  {s \in Skills : \E e \in Agents \ Declared : \E offer \in Offers[e] : s \in offer}

(* Records and requests are about skills their agents offer, a heartbeat   *)
(* is an external agent's, and only the sets of skills that those offer    *)
(* expire.                                                                 *)
SkillsAreOffered ==
  /\ \A i \in Ids : Live(i) => rec[i].skills \in Offers[rec[i].agent]
  /\ \A q \in Requests : op[q].at \in {"reading", "registering", "beating"} =>
       op[q].agent \in Agents /\ op[q].skills \in Offers[op[q].agent]
  /\ \A q \in Requests : op[q].at = "beating" => op[q].agent \notin Declared
  /\ \A s \in Skills : index[s].ttl # 0 => s \in OfExternals

(* Requests keep what they say of their agent until they write.            *)
LEMMA OfferedByRequests ==
  ASSUME Inv, SkillsAreOffered, NEW q \in Requests,
         \/ \E e \in Agents, skills \in SUBSET Skills : Register(q, e, skills)
         \/ \E i \in Ids : Heartbeat(q, i) \/ Deregister(q, i)
         \/ ReadOld(q) \/ ReadSkills(q) \/ RequestFails(q)
  PROVE  SkillsAreOffered'
<1> USE TypeOKUnfolded
<1>1. UNCHANGED <<rec, index>>
  BY DEF Register, Heartbeat, Deregister, ReadOld, ReadSkills, RequestFails
<1>2. PICK o : op' = [op EXCEPT ![q] = o]
  BY DEF Register, Heartbeat, Deregister, ReadOld, ReadSkills, RequestFails, Goes
<1>3. /\ op'[q].at \in {"reading", "registering", "beating"} =>
           op'[q].agent \in Agents /\ op'[q].skills \in Offers[op'[q].agent]
      /\ op'[q].at = "beating" => op'[q].agent \notin Declared
  <2>1. CASE \E e \in Agents, skills \in SUBSET Skills : Register(q, e, skills)
    <3>1. PICK e \in Agents, skills \in SUBSET Skills : Register(q, e, skills)
      BY <2>1
    <3>2. /\ op'[q].at \in {"reading", "registering"}
          /\ op'[q].agent = e /\ op'[q].skills = skills
      <4> DEFINE request(at, i) ==
            [at |-> at, agent |-> e, id |-> i, skills |-> skills, old |-> {}]
      <4>1. \/ op' = [op EXCEPT ![q] = request("reading", lookup[e].id)]
            \/ op' = [op EXCEPT ![q] = request("registering", CHOOSE i \in Fresh : TRUE)]
        BY <3>1 DEF Register, Goes, Idle
      <4>2. \/ op'[q] = request("reading", lookup[e].id)
            \/ op'[q] = request("registering", CHOOSE i \in Fresh : TRUE)
        BY <4>1 DEF Inv
      <4>3. ASSUME NEW at, NEW i
            PROVE  /\ request(at, i).at = at
                   /\ request(at, i).agent = e
                   /\ request(at, i).skills = skills
        OBVIOUS
      <4> HIDE DEF request
      <4> QED
        BY <4>2, <4>3
    <3>3. skills \in Offers[e]
      BY <3>1 DEF Register
    <3> QED
      BY <3>2, <3>3
  <2>2. CASE \E i \in Ids : Heartbeat(q, i)
    <3>1. PICK i \in Ids : Heartbeat(q, i)
      BY <2>2
    <3>2. op'[q] = [at |-> "beating", agent |-> rec[i].agent, id |-> i,
                    skills |-> rec[i].skills, old |-> {}]
      BY <3>1 DEF Inv, Heartbeat, Goes, Idle
    <3>3. rec[i].agent \in Agents
      BY <3>1 DEF Inv, Heartbeat, Live, RecordType
    <3>4. Live(i) /\ rec[i].agent \notin Declared
      BY <3>1 DEF Heartbeat
    <3>5. rec[i].skills \in Offers[rec[i].agent]
      BY <3>4 DEF SkillsAreOffered
    <3> QED
      BY <3>2, <3>3, <3>4, <3>5
  <2>3. CASE ReadOld(q)
    <3>1. /\ op[q].at = "reading"
          /\ op'[q] = [op[q] EXCEPT !.at = "registering", !.old = rec[op[q].id].skills]
      BY <2>3 DEF Inv, ReadOld, Goes
    <3>2. op[q] \in OpType
      BY DEF Inv
    <3>3. /\ op'[q].at = "registering" /\ op'[q].agent = op[q].agent
          /\ op'[q].skills = op[q].skills
      BY <3>1, <3>2 DEF OpType
    <3> QED
      BY <3>1, <3>3 DEF SkillsAreOffered
  <2>4. CASE (\E i \in Ids : Deregister(q, i)) \/ ReadSkills(q) \/ RequestFails(q)
    <3>1. op[q] \in OpType
      BY DEF Inv
    <3>2. CASE \E i \in Ids : Deregister(q, i)
      <4>1. PICK i \in Ids : Deregister(q, i)
        BY <3>2
      <4>2. op'[q] = [Idle EXCEPT !.at = "found", !.id = i]
        BY <4>1 DEF Inv, Deregister, Goes
      <4>3. op'[q].at = "found"
        BY <4>2 DEF Idle
      <4> QED
        BY <4>3
    <3>3. CASE ReadSkills(q)
      <4>1. op'[q] = [op[q] EXCEPT !.at = "deregistering", !.old = rec[op[q].id].skills]
        BY <3>3 DEF Inv, ReadSkills, Goes
      <4>2. op'[q].at = "deregistering"
        BY <3>1, <4>1 DEF OpType
      <4> QED
        BY <4>2
    <3>4. CASE RequestFails(q)
      BY <3>4 DEF Inv, RequestFails, Goes, Idle
    <3> QED
      BY <2>4, <3>2, <3>3, <3>4
  <2> QED
    BY <2>1, <2>2, <2>3, <2>4
<1>4. \A p \in Requests : p # q => op'[p] = op[p]
  BY <1>2 DEF Inv
<1> QED
  BY <1>1, <1>3, <1>4 DEF SkillsAreOffered, Live

(* A registration and a heartbeat write what the agent offers; EXPIRE is   *)
(* for the sets of an external one.                                        *)
LEMMA OfferedByWrites ==
  ASSUME Inv, SkillsAreOffered, NEW q \in Requests,
         WriteRecord(q) \/ Renew(q) \/ Remove(q)
  PROVE  SkillsAreOffered'
<1> USE TypeOKUnfolded
<1> DEFINE o == op[q]
<1>1. o \in OpType /\ o.id \in Ids /\ o.at \in {"registering", "beating", "deregistering"}
  BY DEF Inv, RequestsHaveIds, WriteRecord, Renew, Remove
<1>2. /\ op'[q] = Idle
      /\ \A p \in Requests : p # q => op'[p] = op[p]
  BY DEF Inv, WriteRecord, Renew, Remove, Goes
<1>3. \A i \in Ids : i # o.id => rec'[i] = rec[i]
  BY <1>1 DEF Inv, WriteRecord, Renew, Remove
<1>4. rec'[o.id].agent # NoAgent => rec'[o.id].skills \in Offers[rec'[o.id].agent]
  <2>1. CASE Remove(q)
    BY <1>1, <2>1 DEF Inv, Remove, NoRecord
  <2>2. CASE WriteRecord(q) \/ Renew(q)
    <3>1. rec'[o.id].skills = o.skills /\ rec'[o.id].agent = o.agent
      BY <1>1, <2>2 DEF Inv, WriteRecord, Renew, Written
    <3>2. o.at \in {"registering", "beating"}
      BY <2>2 DEF WriteRecord, Renew
    <3> QED
      BY <3>1, <3>2 DEF SkillsAreOffered
  <2> QED
    BY <2>1, <2>2
<1>5. ASSUME NEW s \in Skills PROVE index'[s].ttl # 0 => s \in OfExternals
  <2> index[s] \in SetType
    BY DEF Inv
  <2>1. index[s].ttl # 0 => s \in OfExternals
    BY DEF SkillsAreOffered
  <2>2. o.agent \in Agents \ Declared /\ o.skills \in Offers[o.agent] /\ s \in o.skills
          => s \in OfExternals
    BY DEF OfExternals
  <2>3. Without(index[s], {o.id}).ttl \in {0, index[s].ttl}
    BY DEF Without, NoSet
  <2>4. CASE WriteRecord(q)
    <3>1. index'[s] = Reindexed(s, o)
      BY <2>4 DEF WriteRecord
    <3>2. o.agent \in Agents /\ o.skills \in Offers[o.agent]
      BY <2>4 DEF SkillsAreOffered, WriteRecord
    <3>3. ~(s \in o.skills /\ o.agent \notin Declared) =>
            Reindexed(s, o).ttl \in {0, index[s].ttl}
      <4>1. (IF s \in o.old THEN Without(index[s], {o.id}) ELSE index[s]) \in SetType
        BY <1>1, WithoutFacts
      <4>2. (IF s \in o.old THEN Without(index[s], {o.id}) ELSE index[s]).ttl
              \in {0, index[s].ttl}
        BY <2>3
      <4> HIDE DEF o
      <4> QED
        BY <4>1, <4>2 DEF Reindexed, SetType
    <3> QED
      BY <2>1, <2>2, <3>1, <3>2, <3>3
  <2>5. CASE Renew(q)
    <3>1. index'[s] = Renewed(s, o)
      BY <2>5 DEF Renew
    <3>2. o.agent \in Agents \ Declared /\ o.skills \in Offers[o.agent]
      BY <2>5 DEF SkillsAreOffered, Renew
    <3>3. s \notin o.skills => Renewed(s, o) = index[s]
      BY DEF Renewed
    <3> QED
      BY <2>1, <2>2, <3>1, <3>2, <3>3
  <2>6. CASE Remove(q)
    BY <2>1, <2>3, <2>6 DEF Remove
  <2> QED
    BY <2>4, <2>5, <2>6
<1> HIDE DEF o
<1> QED
  BY <1>2, <1>3, <1>4, <1>5 DEF SkillsAreOffered, Live, Idle, OfExternals

(* The sweep and the expiry of keys only take away.                        *)
LEMMA OfferedOtherwise ==
  ASSUME Inv, SkillsAreOffered,
         \/ Wake \/ RemoveMissing \/ Sleep \/ Tick
         \/ (\E i \in Ids : CheckMember(i))
         \/ (\E s \in Skills : ReadMembers(s))
  PROVE  SkillsAreOffered'
<1> USE TypeOKUnfolded
<1>1. UNCHANGED op
  BY DEF Wake, RemoveMissing, Sleep, Tick, CheckMember, ReadMembers
<1>2. ASSUME NEW i \in Ids, rec'[i].agent # NoAgent
      PROVE  rec'[i].agent = rec[i].agent /\ rec'[i].skills = rec[i].skills
  <2>1. CASE Tick
    <3>1. rec[i] \in RecordType /\ rec'[i] = After(rec[i], NoRecord)
      BY <2>1 DEF Inv, Tick
    <3> QED
      BY <1>2, <3>1 DEF After, NoRecord, RecordType
  <2> QED
    BY <2>1 DEF Wake, RemoveMissing, Sleep, CheckMember, ReadMembers
<1>3. ASSUME NEW s \in Skills PROVE index'[s].ttl # 0 => index[s].ttl # 0
  <2> index[s] \in SetType
    BY DEF Inv
  <2>1. CASE Tick
    BY <2>1 DEF Inv, Tick, After, NoSet, SetType
  <2>2. CASE RemoveMissing
    <3>1. index'[s] = index[s] \/ index'[s] = Without(index[s], sweep.missing)
      BY <2>2 DEF Inv, RemoveMissing
    <3> QED
      BY <3>1 DEF Without, NoSet, SetType
  <2> QED
    BY <2>1, <2>2 DEF Wake, Sleep, CheckMember, ReadMembers
<1> QED
  BY <1>1, <1>2, <1>3 DEF SkillsAreOffered, Live, NoRecord, OfExternals

(* Skills are those that agents offer.                                     *)
LEMMA SkillsStayOffered == Spec => []SkillsAreOffered
<1>1. Init => SkillsAreOffered
  BY DEF Init, SkillsAreOffered, Live, NoRecord, NoSet, Idle
<1>2. Inv /\ SkillsAreOffered /\ [Next]_vars => SkillsAreOffered'
  <2> SUFFICES ASSUME Inv, SkillsAreOffered, [Next]_vars PROVE SkillsAreOffered'
    OBVIOUS
  <2>1. CASE UNCHANGED vars
    BY <2>1 DEF vars, SkillsAreOffered, Live, OfExternals
  <2>2. CASE Next
    BY <2>2, OfferedByRequests, OfferedByWrites, OfferedOtherwise DEF Next
  <2> QED
    BY <2>1, <2>2
<1> QED
  BY <1>1, <1>2, RegistryInvariant, PTL DEF Spec

(* A live agent, a declared one too, leaves the set of one of its skills   *)
(* only by a sweep that had found it missing.                              *)
OnlySweepsForget ==
  [][\A i \in Ids, s \in Skills :
       /\ i \in index[s].members /\ i \notin index'[s].members
       /\ Has(i, s) /\ Has(i, s)'
       => sweep.at = "checking" /\ sweep.skill = s /\ i \in sweep.missing]_vars

(* It is the EXPIRE of skill sets, for agents that expire themselves       *)
(* (register, heartbeat), that forgets declared agents: where no external  *)
(* agent offers a skill of a declared one, that never happens.             *)
THEOREM UnsharedSkillsStayFound ==
  ASSUME \A e \in Declared : \A offer \in Offers[e] : offer \cap OfExternals = {}
  PROVE  Spec => OnlySweepsForget
<1> DEFINE Step ==
      \A i \in Ids, s \in Skills :
        /\ i \in index[s].members /\ i \notin index'[s].members
        /\ Has(i, s) /\ Has(i, s)'
        => sweep.at = "checking" /\ sweep.skill = s /\ i \in sweep.missing
<1>1. ASSUME SkillsAreOffered, NEW i \in Ids, NEW s \in Skills,
             Has(i, s), rec[i].agent \in Declared
      PROVE  index[s].ttl # 1
  BY <1>1 DEF SkillsAreOffered, Has
<1>2. Inv /\ SkillsAreOffered /\ [Next]_vars => [Step]_vars
  <2> SUFFICES ASSUME Inv, SkillsAreOffered, Next, NEW i \in Ids, NEW s \in Skills,
                      i \in index[s].members, i \notin index'[s].members,
                      Has(i, s), Has(i, s)'
               PROVE  sweep.at = "checking" /\ sweep.skill = s /\ i \in sweep.missing
    OBVIOUS
  <2>1. Tick => index[s].ttl # 1
    BY <1>1, SetsOfExternalsStay
  <2> QED
    BY <2>1, Forgotten
<1> QED
  BY <1>2, RegistryInvariant, SkillsStayOffered, PTL DEF Spec, OnlySweepsForget

-----------------------------------------------------------------------------
(* The end of silent agents                                                *)

(* While no request of an external agent is under way, no record of it     *)
(* appears or is renewed, and a tick brings those there are nearer to      *)
(* their end: what SilentAgentsVanish rests on.                            *)
SilentRecordsRunOut ==
  [][\A e \in Agents \ Declared, i \in Ids :
       (\A q \in Requests : op[q].agent # e) /\ rec'[i].agent = e =>
         /\ rec[i].agent = e
         /\ rec'[i].ttl <= rec[i].ttl
         /\ Tick => rec'[i].ttl < rec[i].ttl]_vars

(* A record of an agent that sends nothing is renewed by nobody, and the   *)
(* ticks of heartbeat_ttl end it (register's and heartbeat's EXPIRE).      *)
THEOREM SilentAgentsRunOut == Spec => SilentRecordsRunOut
<1> DEFINE Step ==
      \A e \in Agents \ Declared, i \in Ids :
        (\A q \in Requests : op[q].agent # e) /\ rec'[i].agent = e =>
          /\ rec[i].agent = e
          /\ rec'[i].ttl <= rec[i].ttl
          /\ Tick => rec'[i].ttl < rec[i].ttl
<1>1. Inv /\ [Next]_vars => [Step]_vars
  <2> USE TypeOKUnfolded
  <2> SUFFICES ASSUME Inv, Next, NEW e \in Agents \ Declared, NEW i \in Ids,
                      \A q \in Requests : op[q].agent # e, rec'[i].agent = e
               PROVE  /\ rec[i].agent = e
                      /\ rec'[i].ttl <= rec[i].ttl
                      /\ Tick => rec'[i].ttl < rec[i].ttl
    OBVIOUS
  <2>1. rec[i] \in RecordType /\ e # NoAgent
    BY RegistryAssumption DEF Inv
  <2>2. CASE Tick
    <3>1. rec'[i] = After(rec[i], NoRecord)
      BY <2>2 DEF Inv, Tick
    <3>2. rec[i].ttl # 1 /\ rec[i].agent = e
      BY <2>1, <3>1 DEF After, NoRecord, RecordType
    <3>3. rec[i].ttl # 0
      BY <2>1, <3>2 DEF Inv, SetsOutliveRecords, Live
    <3> QED
      BY <2>1, <3>1, <3>2, <3>3 DEF After, RecordType
  <2>3. CASE rec'[i] = rec[i] /\ ~Tick
    BY <2>1, <2>3 DEF RecordType
  <2>4. ASSUME NEW q \in Requests, WriteRecord(q) \/ Renew(q) \/ Remove(q)
        PROVE  rec'[i] = rec[i]
    <3>1. op[q].id \in Ids /\ op[q].agent # e
      BY <2>4 DEF Inv, RequestsHaveIds, WriteRecord, Renew, Remove
    <3>2. CASE op[q].id = i
      BY <2>1, <2>4, <3>1, <3>2 DEF Inv, WriteRecord, Renew, Remove, Written, NoRecord
    <3>3. CASE op[q].id # i
      BY <2>4, <3>1, <3>3 DEF Inv, WriteRecord, Renew, Remove
    <3> QED
      BY <3>2, <3>3
  <2>5. rec'[i] = rec[i] \/ Tick
    BY <2>4 DEF Next, Register, Heartbeat, Deregister, ReadOld, ReadSkills, RequestFails,
       Wake, RemoveMissing, Sleep, CheckMember, ReadMembers
  <2> QED
    BY <2>2, <2>3, <2>5
<1> QED
  BY <1>1, RegistryInvariant, PTL DEF Spec, SilentRecordsRunOut
=============================================================================
