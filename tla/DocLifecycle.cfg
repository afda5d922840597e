SPECIFICATION FairSpec
CONSTANTS
  Null = Null
  Values = {1, 2, 3}
  NullText = 9
  x = x
  y = y
  Names = {x, y}
  Tomb = Tomb
  Deltas <- Mixed
  InitDoc <- LiveDoc
  InitRows <- LiveRows
  NoRow = NoRow
  Chains = 2
INVARIANTS
  TypeOK
  DestroyedAfterUpdate
  DeletionsTakePriority
  AutoRestored
  RestoringChangesWin
PROPERTIES
  LastDestroyedNeverDecreases
  EveryDeltaEnds
CHECK_DEADLOCK FALSE
