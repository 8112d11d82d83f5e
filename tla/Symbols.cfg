SPECIFICATION MCSpec
CONSTANT None = None
INVARIANTS
  TreeExact TablesExact InlinesExact
PROPERTIES
  KeepsOrder WinnerUnbeaten
CHECK_DEADLOCK FALSE
