SPECIFICATION MixedSpec
CONSTANTS
  N = 3
  Pool = 3
  Size = {1, 2}
  Program = {"pool"}
  MaxHeap = 15
INVARIANTS RemovedIsGone
CHECK_DEADLOCK FALSE
