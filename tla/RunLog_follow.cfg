SPECIFICATION Spec
CONSTANTS
  Readers = {w1, w2}
  MaxLines = 3
  FLUSH_BATCH = 2
  Page = 2
  MaxOut = 2
INVARIANTS LinesAccounted DoneIsComplete FollowerHasAll
CHECK_DEADLOCK FALSE
