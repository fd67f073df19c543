SPECIFICATION Spec
CONSTANTS
  p1 = p1
  p2 = p2
  Procs = {p1, p2}
  Files <- MCFiles
  LongNames = {"long"}
  Leftover = {{"a"}}
  MaxLate = 1
INVARIANTS
  PassedKeepRecord
  FailedLeaveNothing
  PassedReadOwn
PROPERTIES
  RunsEnd
