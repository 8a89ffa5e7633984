SPECIFICATION FairSpec
CONSTANTS
  Clients = {x, y}
  Server = Server
  Nobody = Nobody
  NoMsg = NoMsg
  Kinds <- Everything
  BroadcastCap = 1
  SendCap = 2
  MaxHubs = 2
  MaxMessages = 2
CHECK_DEADLOCK FALSE
INVARIANTS
  OneRoom
  NoGap
PROPERTIES
  JoinersGetIn
  PanicOnlyOnLateFollow
