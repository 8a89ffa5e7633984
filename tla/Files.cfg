SPECIFICATION Spec
CONSTANTS
  NumPages = 2
  MaxSockets = 2
  MaxFaults = 1
  MaxAttempts = 2
CHECK_DEADLOCK FALSE
INVARIANTS
  OneSocket
  NoFileForgotten
  ToastTellsTheTruth
  NoReadyPageRemoved
