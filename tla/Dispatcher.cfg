SPECIFICATION FairSpec
CONSTANTS
  r1 = r1
  r2 = r2
  r3 = r3
  pooled = pooled
  external = external
  prompt = prompt
  other = other
  Requests <- MCRequests
  Targets <- MCTargets
  Pooled <- MCPooled
  CandidatesOf <- MCCandidatesOf
  KeyOf <- MCKeyOf
  MaxRetries = 1
  MaxConcurrent = 2
  CacheSize = 1
  HealthPrecheck = TRUE
  FailureThreshold = 2
  SuccessThreshold = 1
  Timeout = 1
  NoRequest = NoRequest
INVARIANTS
  TypeOK
  PermitsAccounted
  DegradedIsGenuine
  BreakersFollowAttempts
PROPERTIES
  EveryDispatchEnds
