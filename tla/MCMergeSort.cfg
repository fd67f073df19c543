SPECIFICATION MCSpec
CONSTANTS
  MaxLen = 6
  MCKeys = {1, 2, 3}
INVARIANTS
  MergeInterleaves
  MergeSorts
  MergeRightFirst
  SortCorrect
  StackShallow
PROPERTIES
  SortReturns
