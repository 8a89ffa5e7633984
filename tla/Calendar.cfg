SPECIFICATION CalendarSpec
CONSTANTS
  Slots = {1, 2}
  WeekOf <- TwoWeeks
  MaxOps = 2
  MaxErrors = 1
  MaxTurns = 1
CHECK_DEADLOCK FALSE
INVARIANTS
  Settled
  NoOldAnswer
  TempInItsPlace
