\* on_send comes when all data was sent (readme.md:449).
SPECIFICATION Spec
CONSTANTS
  Payload = {p}
  Empty = Empty
  Ssl = TRUE
  SizeMod = 8
  MaxFill = 2
  MaxArrive = 1
  DropByHasData = FALSE
  CloseOnce = TRUE
PROPERTIES
  OnSendWhenAllSent
CHECK_DEADLOCK FALSE
