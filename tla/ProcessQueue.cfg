SPECIFICATION FairSpec
CONSTANTS
  c1 = c1
  c2 = c2
  x = x
  u = u
  v = v
  Calls = {c1, c2}
  Object <- OwnObject
  Deltas <- OneDoc
  Undefined = Undefined
  None = None
  Found = Found
  ALL = "all_"
  Logs = {"all_"}
  Known = {}
  Granted = {u}
  Changeable = {v}
  Turns = 1
  Crashes = 1
INVARIANTS
  TypeOK
  NothingDropped
PROPERTIES
  OnlyForbiddenStay
