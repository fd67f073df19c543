SPECIFICATION FairSpec
CONSTANTS
  BlockSize = 2
  Keys = {1, 2}
  MaxPuts = 6
  MaxNodes = 5
  SortedModes = {TRUE, FALSE}
  Ops = {"put", "get", "destruct"}
  Faults = {}
  Garbage <- MCGarbage
PROPERTIES
  SortedWhenAsked
