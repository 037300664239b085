SPECIFICATION Spec
CONSTANTS
  N = 2
  Tid = {t1, t2, t3}
  Plans <- MCDefaultPlans
  Protocols = {"HTTP", "HTTPS"}
  UL_BUFFER_TIMES = 1
  MaxChunks = 1
SYMMETRY MCTidSymmetry
INVARIANTS TypeOK NoUseAfterFree OneThreadPerSlot TotalExact OwnAlarm ChunksAccounted SocketClosed
PROPERTIES MeterSpec
CHECK_DEADLOCK FALSE
