SPECIFICATION FairSpec
CONSTANTS
  Ids = {a}
  NoEdit = NoEdit
  Malformed = Malformed
  Edits <- TieAndRefused
  Storable <- Tie
  Instances = {i, j}
  Pages = {p}
  Deletable = {p}
  FlushThreshold = 1
  MaxElementsPerMessage = 1
  MaxFaults = 0
INVARIANTS
  NoSilentLoss
  BigBatchIsSignalled
PROPERTIES
  RefinesStore
  EventuallyDurable
