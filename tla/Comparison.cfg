SPECIFICATION MCSpec
CONSTANTS
  None = None
  Outputs <- MCOutputs
  Malformed <- NoCount
  ChannelCap = 1
  PipeCap = 1
  Script = 2
  Picture = 2
  MaxReported = 1
  MaxFailures = 1
INVARIANTS
  ComparisonExact TablesTruthful
PROPERTIES
  ComparisonReturns
CHECK_DEADLOCK FALSE
