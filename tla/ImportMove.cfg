SPECIFICATION MoveSpec
CONSTANTS
  Ids = {a}
  NoEdit = NoEdit
  Malformed = Malformed
  Unreadable = Unreadable
  Edits <- DrawnAndDeleted
  FileIds = {f}
  Clients = {x, y}
SYMMETRY ClientSymmetry
INVARIANTS
  LegacyKept
  SeedHoldsLegacy
PROPERTY
  NoResurrection
