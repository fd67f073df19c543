SPECIFICATION ClientsSpec
CONSTANTS
  Files <- MCFiles
  Wrap = 4
  Batch = 2
  GarbageKeys <- MCGarbageKeys
  Faults = {"kill", "io"}
  MaxRuns = 2
  Runners = {p1, p2, p3}
INVARIANTS
  RocksTypeOK
  UnpackInBounds
  CustomerUnpacked
  ReportsBatch
  ReplyIsMine
  CopyBeforeSecond
  CopyExact
  CopyKept
  FlushedIsRead
PROPERTIES
  SpeedEnds
CHECK_DEADLOCK FALSE
