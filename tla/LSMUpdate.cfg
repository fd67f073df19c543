SPECIFICATION FairSpec
CONSTANTS
  BlockSize = 2
  Keys = {1, 2}
  MaxPuts = 3
  MaxNodes = 5
  SortedModes = {TRUE}
  Ops = {"put", "get", "update"}
  Faults = {}
  Garbage <- MCGarbage
PROPERTIES
  UpdateSearchesDisk
