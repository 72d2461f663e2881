SPECIFICATION StorageSpec
CONSTANTS
  e1 = e1
  e2 = e2
  e3 = e3
  m = m
  t = t
  PLACEHOLDER = PLACEHOLDER
  Entity <- MCTwoEntities
  Tag <- MCTag
  ManagingTag <- MCManaging
  Reentrant = FALSE
  HeapMin = 1
  DebugAssertions = TRUE
  MaxDirty = 3
  MaxQueries = 0
SYMMETRY MCSymmetry
INVARIANTS
  StorageTypeOK
  ColumnsAligned
  HomesExact
  NoStaleColumn
  MoveContract
