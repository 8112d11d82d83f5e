SPECIFICATION MCSpec
\* A request of two chunks does not fit the stdin pipe at once, and a reply does not
\* fit one drain; one signal stops a launch, another meets the stopping.
CONSTANTS
  MaxExchanges = 2
  MaxLines = 2
  MaxChunks = 3
  ReqLen = 2
  StdinRoom = 1
  DrainTurn = 2
  Timeout = 1
  WorkloadStatuses = {0, 7}
  Threads = {"main", "worker"}
  Main = "main"
  MaxNested = 2
  MaxStates = 3
  Length = 4
  BufCap = 2
  PipeCap = 2
  MaxSignals = 2
  Fronts = {"direct", "cargo"}
  Modes = {"ok", "status", "failed", "cut", "stream"}
INVARIANTS
  FlagsRestored OutputExact ZeroEarned
  ArtifactsTruthful RecordingPrepared Finalized ExitHonest
  RepliesAnswer WorkloadAccounted ScopesExact
PROPERTIES
  CancelEnds ExchangeEnds
CHECK_DEADLOCK FALSE
