SPECIFICATION MediaSpec
CONSTANTS
  Files = {1, 2}
  Positions = {0, 1}
  MaxActs = 2
  MaxDrops = 1
  MaxSaid = 2
CHECK_DEADLOCK FALSE

  
PROPERTY
  NoEcho
