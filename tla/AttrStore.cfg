SPECIFICATION Spec
CONSTANTS
  Null = Null
  Values = {1, 2, 4}
  NullText = 3
  Writers = {w1, w2}
  x = x
  y = y
  Names = {x}
  Changes <- TieChanges
  Logs = {"all_"}
  NoRow = NoRow
  NoDelta = NoDelta
INVARIANTS
  TypeOK
  LatestIsWinner
  CopiesBounded
PROPERTIES
  LatestNeverRegresses
  LatestIsLwwStore
SYMMETRY WriterSymmetry
