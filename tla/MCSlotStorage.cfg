SPECIFICATION Spec
CONSTANTS
  e1 = e1  e2 = e2  e3 = e3  k = k  l = l
  Owner <- MCOwner  Client <- MCOwner
  Column <- MCColumn  ColumnLen = 1
  HeapId <- MCHeapId  HeapLen <- MCHeapLen
  BlockSize = 2  MaxPtr = 2  MaxGen = 2  MaxInd = 5  Batch = 1  MaxBorrowed = 1
  None = None  Vacant = Vacant  NoResv = NoResv  NoBlock = NoBlock
INVARIANTS HandleExact GuardsValid PointersMutual ArenaExact ReservationsExact NoBlockLost
SYMMETRY Symmetry
CHECK_DEADLOCK FALSE
