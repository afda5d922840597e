SPECIFICATION Spec
CONSTANTS
  Null = Null
  Values = {1, 2, 3}
  NullText = 9
  Falsy = {2}
  x = x
  y = y
  Names = {x, y}
  Tomb = Tomb
  NoRow = NoRow
  Feed <- MixedFeed
  MaxTime = 3
  Edits = 3
  Restarts = 1
INVARIANTS
  TypeOK
  ShownIsGreatestSent
  VisibleAsTimesTell
PROPERTIES
  NeverOlder
  OnlyConfirmedForgotten
