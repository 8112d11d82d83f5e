SPECIFICATION Spec
CONSTANTS
  Paths = {"a", "b"}
  BuildIds = {"live", "recorded"}
  NoId = "none"
  Regions = {"r", "s"}
  HeaderIds <- NoHeaderIds
  LiveIds <- OneLiveId
  MaxRecords = 4
INVARIANTS FreshMetadata
