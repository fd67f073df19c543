SPECIFICATION SharedSpec
CONSTANTS
  p1 = p1
  p2 = p2
  Procs = {p1, p2}
  SortedProcs = {p1}
  BlockSize = 1
  Keys = {1, 2}
  Garbage <- MCGarbage
  MaxPuts = 6
INVARIANTS
  SharedHeaderBounded
  LostOnlyByRace
PROPERTIES
  RewriteRepairs
