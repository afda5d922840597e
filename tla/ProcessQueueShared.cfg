SPECIFICATION Spec
CONSTANTS
  c1 = c1
  c2 = c2
  x = x
  u = u
  v = v
  Calls = {c1, c2}
  Object <- SharedObject
  Deltas <- One
  Undefined = Undefined
  None = None
  Found = Found
  ALL = "all_"
  Logs = {"all_"}
  Known = {x}
  Granted = {u}
  Changeable = {}
  Turns = 0
  Crashes = 0
INVARIANTS
  NothingDropped
