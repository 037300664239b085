SPECIFICATION FairSpec
CONSTANTS
  N = 1
  Tid = {t1, t2}
  Plans <- MCOptionPlans
  Protocols = {"HTTP"}
  UL_BUFFER_TIMES = 2
  MaxChunks = 1
PROPERTIES ProgramEnds AlarmStopsThreads
CHECK_DEADLOCK FALSE
