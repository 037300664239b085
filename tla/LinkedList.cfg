SPECIFICATION Spec
CONSTANTS
  Node = {n1, n2, n3, n4, n5}
  Datum = {1, 2, 3}
  NULL = NULL
SYMMETRY MCSymmetry
INVARIANT WellFormed
PROPERTY ImplementsList
CHECK_DEADLOCK FALSE
