SPECIFICATION Spec
CONSTANTS
  Nobody = Nobody
  SUPER = SUPER
  OWNER = OWNER
  EVERYONE = EVERYONE
  NULL = NULL
  ann = ann
  bob = bob
  editors = editors
  tasks = tasks
  notes = notes
  Processes = {w1, w2}
  Scenarios <- MCScenarios
  InOrder = TRUE
INVARIANTS TypeOK UsersComplete ColsProtected LastChangeWins
  LostOnlyIfForbidden RecursionEnds
CHECK_DEADLOCK FALSE
