SPECIFICATION Spec
CONSTANTS
  BlockSize = 2
  Keys = {1, 2}
  MaxPuts = 8
  MaxNodes = 5
  SortedModes = {TRUE}
  Ops = {"put", "get", "destruct"}
  Faults = {"kill"}
  Garbage <- MCGarbage
INVARIANTS
  LSMTypeOK
  DiskOrdered
  HeaderMatches
  DurableUnlessWiped
PROPERTIES
  MonotonicReads
  ImplementsVersionStore
