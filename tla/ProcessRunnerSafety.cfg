SPECIFICATION Spec
CONSTANTS
  Descendants = {d1}
  Outputs = {"stdout"}
  Stdio <- MCEvery
  MaxSignals = 2
  MaxChunks = 1
  DrainTurn = 1
  MaxInput = 2
  StdinRoom = 1
  GraceStop = 2
  GraceExit = 1
  GraceKill = 1
INVARIANTS
  TypeOK
  CleanReturn
  PinnedIdentity
  OrderlyStop
  PipesComplete
  TerminalReturned
