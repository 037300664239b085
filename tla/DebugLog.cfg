SPECIFICATION Spec
CONSTANTS
  IntBits = 3
  LongBits = 4
  RowBytes = 2
  ItoaBytes = 2
  Thread = {t1, t2}
  Port = {p1, p2}
  NULL = NULL
  NumPorts = 2
  Cap = 2
  Programs <- MCPrograms
SYMMETRY MCSymmetry
INVARIANTS TypeOK AllPortsAlike TextRight
PROPERTIES Contiguous FlushedInOrder
CHECK_DEADLOCK FALSE
