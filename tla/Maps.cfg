SPECIFICATION MCSpec
SYMMETRY Symmetry
CONSTANTS
  Ids = {0, 1}
  Tids = {0, 1, 5}
  Unknown = 5
  Images = {i, j}
  Names = {Name}
  None = None
  KeepExited = FALSE
  Spawned = {g, h}
INVARIANTS
  GroupsIsolated LookupExact
PROPERTIES
  NotMoved
CHECK_DEADLOCK FALSE
