SPECIFICATION MCSpec
CONSTANTS
  Missing = Missing
  Error = Error
  Tids = {t1}
  NoTid = no_tid
  Cookies = {c1, c2}
  NoCookie = no_cookie
  DeferredRecords = 4
  Paths = {"a", "b"}
  BuildIds = {"live", "recorded"}
  NoId = "none"
  Regions = {r, s}
  HeaderIds <- MCHeaderIds
  LiveIds <- MCLiveIds
  FoldRecords = 4
  MaxRecords = 5
  MaxTime = 2
  MaxSize = 2
  WindowSize = 2
  Overlap = 2
INVARIANTS
  QueueExact
  DeferredExact
  FoldExact
  RecordingParsed
  StacksExact
PROPERTIES
  DeliverySpec
