SPECIFICATION Spec
CONSTANTS
  Null = Null
  Values = {1}
  NullText = 9
  Falsy = {}
  x = x
  Names = {x}
  Tomb = Tomb
  NoRow = NoRow
  c1 = c1
  c2 = c2
  Clients = {c1, c2}
  Workers = {w1}
  Limit = 9
  MaxTime = 2
  Edits = 1
  Failures = 0
INVARIANTS
  NothingSkipped
