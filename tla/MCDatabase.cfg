SPECIFICATION Spec
CONSTANTS
  e1 = e1
  e2 = e2
  e3 = e3
  a = a
  b = b
  PLACEHOLDER = PLACEHOLDER
  Entity <- MCEntity
  Tag <- MCTag
  HeapMin = 1
  DebugAssertions = TRUE
  MaxDirty = 3
  MaxQueries = 1
SYMMETRY MCSymmetry
INVARIANTS
  TypeOK
  VirtualCountExact
  RefsLive
  SlotsMirror
  DeadCleared
  SpareSlotsReset
  NoFalseNegatives
  NoLeakedArchetypes
  ContainersExact
