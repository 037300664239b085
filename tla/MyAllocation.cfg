SPECIFICATION Spec
CONSTANTS
  N = 6
  Pool = 3
  Size = {1, 2, 3, 6, 7, 8, 10, 13, 18}
  Program = {"rounds", "pool"}
  MaxHeap = 216
INVARIANTS TypeOK Intact FreedIsListed
CHECK_DEADLOCK FALSE
