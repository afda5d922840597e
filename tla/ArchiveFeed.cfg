SPECIFICATION Spec
CONSTANTS
  Null = Null
  Deltas <- Mixed
  MaxTime = 3
  Archives = 2
  Resends = 2
INVARIANTS
  TypeOK
  FeedComplete
  LoopBroken
CHECK_DEADLOCK FALSE
