SPECIFICATION Spec
CONSTANTS
  e1 = e1
  e2 = e2
  e3 = e3
  a = a
  b = b
  PLACEHOLDER = PLACEHOLDER
  Tag <- MCTag
  HeapMin = 1
  MaxQueries = 1
  Entity <- MCTwoEntities
  DebugAssertions = TRUE
  MaxDirty = 3
SYMMETRY MCSymmetry
INVARIANT NoPanic
