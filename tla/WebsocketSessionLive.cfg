\* One payload and one arriving message: the liveness of a session does not
\* depend on the contents.
SPECIFICATION FairSpec
CONSTANTS
  Payload = {p}
  Empty = Empty
  Ssl = TRUE
  SizeMod = 8
  MaxFill = 2
  MaxArrive = 1
  DropByHasData = FALSE
  CloseOnce = TRUE
PROPERTIES
  CloseReported
  Flushed
CHECK_DEADLOCK FALSE
