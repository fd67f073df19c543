SPECIFICATION TestSpec
CONSTANTS
  DataSizes = {0, 1, 3, 5}
  BlockSize = 2
  Keys = {0, 1, 2, 3, 4}
  MaxPuts = 11
  MaxNodes = 5
  SortedModes = {TRUE, FALSE}
  Ops = {"put"}
  Faults = {"kill", "torn"}
  Garbage <- MCGarbage
INVARIANTS
  WholeBlocks
  EveryKeyStored
  PrintsWhatThereIs
PROPERTIES
  TestEnds
