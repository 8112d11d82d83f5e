SPECIFICATION FairSpec
CONSTANTS
  Descendants = {d1}
  MaxSignals = 2
  DrainTurn = 1
  StdinRoom = 1
  GraceKill = 1
  Outputs = {"stdout"}
  Stdio <- MCCaptured
  MaxChunks = 0
  MaxInput = 0
  GraceStop = 1
  GraceExit = 1
PROPERTIES
  CommandStops
