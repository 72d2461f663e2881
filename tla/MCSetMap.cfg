SPECIFICATION Spec
CONSTANTS
  r = r
  p1 = p1
  p2 = p2
  p3 = p3
  p4 = p4
  a = a
  b = b
  c = c
  Ptr <- MCPtr
  Key <- MCKey
  root = r
SYMMETRY MCSymmetry
INVARIANTS
  EdgesExact
  EntriesExact
PROPERTY ImplementsGraph
