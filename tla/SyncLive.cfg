SPECIFICATION FairSpec
CONSTANTS
  Null = Null
  Values = {1}
  NullText = 9
  Falsy = {}
  x = x
  Names = {x}
  Tomb = Tomb
  NoRow = NoRow
  c1 = c1
  Clients = {c1}
  Workers = {w1}
  Limit = 9
  MaxTime = 2
  Edits = 2
  Failures = 1
PROPERTIES
  EditsReachServer
  WinnersConfirmed
