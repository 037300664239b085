SPECIFICATION Spec
CONSTANTS
  Size = 4
  Value = {a, b}
  MaxLen = 3
  Data <- MCData
INVARIANTS TypeOK ReadsTrue BlocksExact
PROPERTIES ImplementsFifo
CHECK_DEADLOCK FALSE
