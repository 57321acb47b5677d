SPECIFICATION Spec
CONSTANTS
  MaxAttempts = 3
  MaxOutages = 1
  TailLines = 1
  KeptLines = 2
  MaxLog = 2
INVARIANTS OneUnlessForgotten OutputIsReal LogOnce
PROPERTIES TaskEnds
CHECK_DEADLOCK FALSE
