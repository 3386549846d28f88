SPECIFICATION Spec
CONSTANTS
  a = a
  d = d
  s = s
  i1 = i1
  i2 = i2
  q1 = q1
  q2 = q2
  Agents <- MCAgents
  Declared <- MCDeclared
  Offers <- MCOffers
  Skills <- MCSkills
  Ids <- MCIds
  HeartbeatTTL = 1
  Requests <- MCOneRequest
  RedisFails = FALSE
  NoAgent = NoAgent
  NoId = NoId
  NoSkill = NoSkill
INVARIANTS
  DeclaredAgentsAreFound
