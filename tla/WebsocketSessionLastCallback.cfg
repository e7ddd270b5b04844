\* on_close is the last callback of a connection (readme.md:318).
SPECIFICATION Spec
CONSTANTS
  Payload = {p}
  Empty = Empty
  Ssl = TRUE
  SizeMod = 8
  MaxFill = 2
  MaxArrive = 1
  DropByHasData = FALSE
  CloseOnce = TRUE
INVARIANTS
  OnCloseIsLast
CHECK_DEADLOCK FALSE
