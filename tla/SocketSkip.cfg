SPECIFICATION Spec
CONSTANTS
  Client = {c1, c2}
  Tid = {t1, t2}
  MaxFd = 2
  MaxConns = 3
  Word = {word, longWord}
  Long = {longWord}
  MainThread = reaper
INVARIANTS OwnConnection
CHECK_DEADLOCK FALSE
