SPECIFICATION FairSpec
CONSTANTS
  c1 = c1
  c2 = c2
  w1 = w1
  w2 = w2
  w3 = w3
  Creators <- MCCreators
  Writers <- MCWriters
  Cancellable <- MCCancellable
  StoreFails = TRUE
  NoCall = NoCall
INVARIANTS
  TypeOK
  ReturnedWritesAreKept
PROPERTIES
  EveryCallEnds
CHECK_DEADLOCK FALSE
