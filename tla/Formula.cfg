SPECIFICATION EditorSpec
CONSTANTS
  MaxFormulas = 3
  MaxGestures = 6
CHECK_DEADLOCK FALSE
INVARIANTS
  OneFormulaPerOpening
PROPERTY
  TextIsReplacedNotLost
