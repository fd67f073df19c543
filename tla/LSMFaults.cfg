SPECIFICATION Spec
CONSTANTS
  BlockSize = 2
  Keys = {1, 258}
  MaxPuts = 5
  MaxNodes = 5
  SortedModes = {TRUE, FALSE}
  Ops = {"put", "get", "update", "delete", "destruct"}
  Faults = {"kill", "torn", "short"}
  Garbage <- MCGarbage
INVARIANTS
  HeaderBounded
  SizeAccounting
