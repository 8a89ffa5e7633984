SPECIFICATION FairSpec
CONSTANTS
  Ids = {a}
  NoEdit = NoEdit
  Malformed = Malformed
  x = x
  y = y
  Tabs = {x, y}
  Edits <- TiesAndMore
  EditsOf <- TwoAuthors
  MaxDrops = 1
INVARIANTS
  Accounted
PROPERTIES
  EditsReachTheTable
  ScenesMoveUp
  NoEcho
CHECK_DEADLOCK FALSE
