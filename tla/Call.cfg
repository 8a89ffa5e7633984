SPECIFICATION CallSpec
CONSTANTS
  MaxClicks = 2
  MaxFaults = 1
  MaxPolls = 2
CHECK_DEADLOCK FALSE
INVARIANTS
  MetadataSaysWhatTheTutorSees
  FirstOpenIsSeen
  EndIsTrue
  WaitingIsWatched
