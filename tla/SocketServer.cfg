SPECIFICATION FairSpec
CONSTANTS
  Client = {c1, c2}
  Tid = {t1, t2}
  MaxFd = 2
  MaxConns = 3
  Word = {word, longWord}
  Long = {longWord}
  MainThread = reaper
INVARIANTS TypeOK OwnReply OwnDescriptor OpenFdsServed
PROPERTIES Answered
CHECK_DEADLOCK FALSE
