SPECIFICATION FairSpec
CONSTANTS
  e1 = e1
  e2 = e2
  e3 = e3
  a = a
  b = b
  PLACEHOLDER = PLACEHOLDER
  Tag <- MCTag
  HeapMin = 1
  MaxQueries = 1
  Entity <- MCTwoEntities
  DebugAssertions = FALSE
  MaxDirty = 3
PROPERTIES
  KeepsPromise
  FlushTerminates
  QueryStability
