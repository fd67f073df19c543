SPECIFICATION FairSpec
CONSTANTS
  BlockSize = 2
  Keys = {1, 2}
  MaxPuts = 4
  MaxNodes = 4
  SortedModes = {TRUE, FALSE}
  Ops = {"put", "get", "flush"}
  Faults = {}
  Garbage <- MCGarbage
INVARIANTS
  NothingLost
PROPERTIES
  CallsReturn
