SPECIFICATION FairSpec
CONSTANTS
  Nobody = Nobody
  SUPER = SUPER
  OWNER = OWNER
  EVERYONE = EVERYONE
  NULL = NULL
  Col = Col
  ALL = ALL
  ann = ann
  bob = bob
  carl = carl
  dora = dora
  editors = editors
  title = title
  body = body
  Owner = ann
  Names = {title, body}
  Workers = {w1, w2}
  Policy <- MCPolicy
  Subjects <- MCSubjects
  Checked <- MCChecked
  Blocking = TRUE
  Crashes = 1
INVARIANTS TypeOK LatestDecides FeedAsPoliciesSay CheckedByOldOrNew
PROPERTIES NeverUnprotected AllInForce
CHECK_DEADLOCK FALSE
