SPECIFICATION Spec
CONSTANTS
  Replies <- MCReplies
  BufLen = 5
  MaxFds = 2
INVARIANTS Accounted FileIsBody
PROPERTY HttpEnds
CHECK_DEADLOCK FALSE
