SPECIFICATION StorageSpec
CONSTANTS
  e1 = e1
  e2 = e2
  e3 = e3
  m = m
  t = t
  PLACEHOLDER = PLACEHOLDER
  Entity <- MCTwoEntities
  Tag <- MCTag
  ManagingTag <- MCManaging
  Reentrant = TRUE
  HeapMin = 1
  DebugAssertions = TRUE
  MaxDirty = 2
  MaxQueries = 0
SYMMETRY MCSymmetry
INVARIANTS
  MoveContract
