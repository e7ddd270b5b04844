\* One client of a manager without listeners, which exits once.
SPECIFICATION Spec
CONSTANTS
  Client = {c1}
  Secure = {}
  MaxNodes = 0
  ThreadCounts = {1}
  MaxInits = 1
  Signal = Signal
  free = free
  returned = returned
INVARIANT
  ClosedWhenReleased
CHECK_DEADLOCK FALSE
