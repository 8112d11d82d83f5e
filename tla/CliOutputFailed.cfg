SPECIFICATION Spec
CONSTANTS
  Length = 4
  BufCap = 2
  PipeCap = 2
  MaxSignals = 2
  Fronts = {"direct"}
  Modes = {"failed"}
INVARIANTS
  FailedNonzero
CHECK_DEADLOCK FALSE
