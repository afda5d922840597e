SPECIFICATION Spec
CONSTANTS
  Nobody = Nobody
  SUPER = SUPER
  OWNER = OWNER
  EVERYONE = EVERYONE
  NULL = NULL
  Col = Col
  ALL = ALL
  ann = ann
  bob = bob
  carl = carl
  dora = dora
  editors = editors
  title = title
  body = body
  Owner = ann
  Names = {title, body}
  Workers = {w1, w2}
  Policy <- Narrowed
  Subjects <- MCSubjects
  Checked <- NoChecks
  Blocking = FALSE
  Crashes = 0
PROPERTIES NeverUnprotected
CHECK_DEADLOCK FALSE
