SPECIFICATION Spec
CONSTANTS
  Paths = {"a", "b"}
  BuildIds = {"live"}
  NoId = "none"
  Regions = {"r"}
  HeaderIds <- NoHeaderIds
  LiveIds <- OneLiveId
  MaxRecords = 7
INVARIANTS OwnFrames
