SPECIFICATION Spec
CONSTANTS
  c1 = c1
  c2 = c2
  w1 = w1
  w2 = w2
  w3 = w3
  Creators <- MCNoCreators
  Writers <- MCWriters
  Cancellable <- MCCancellable
  StoreFails = FALSE
  NoCall = NoCall
INVARIANTS
  NoEventIsLost
CHECK_DEADLOCK FALSE
