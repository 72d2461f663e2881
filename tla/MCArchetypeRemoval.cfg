SPECIFICATION RemovalSpec
CONSTANTS
  a = a
  b = b
  c = c
  PLACEHOLDER = PLACEHOLDER
  Entity = {}
  Tag <- MCTag
  HeapMin = 1
  DebugAssertions = TRUE
  MaxDirty = 0
  MaxQueries = 0
  MaxUsed = 2
SYMMETRY MCSymmetry
INVARIANTS
  RemovalAsCoded
  NeverStale
