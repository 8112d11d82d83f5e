SPECIFICATION MCSpec
SYMMETRY Symmetry
CONSTANTS
  Ids = {a, b, c}
  CachedIds = {a}
  Offsets = {1, 2}
  Length = 3
  Block = 2
  Word = 2
  FdLimit = 3
  MaxFds = 3
  Absent = Absent
  None = None
  Parts = {"memory", "frames", "kallsyms", "kernel"}
  Unusable = Unusable
  Recordings <- MCRecordings
  MainKey = MainKey
  Nothing = Nothing
  UserSources = {s, t}
  ModuleMaps = {k, l}
  ModuleAddresses = {x, y}
  LoneSource = LoneSource
  LoneMap = LoneMap
INVARIANTS
  MemoryExact FramesExact KernelExact
PROPERTIES
  SourcesKept
CHECK_DEADLOCK FALSE
