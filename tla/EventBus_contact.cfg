SPECIFICATION Spec
CONSTANTS
  Replicas = {r1, r2}
  MaxAge = 1
  SeenKeep = 2
  Margin = 0
  MaxClock = 3
  MaxEvents = 1
  MaxLosses = 1
  NoConsumer = NoConsumer
  Never = Never
INVARIANTS HandledOnce GapsKnown
PROPERTIES EventuallyHandled
CHECK_DEADLOCK FALSE
