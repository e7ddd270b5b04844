\* A service that drops inside on_send while recv_buffer_has_data().
SPECIFICATION Spec
CONSTANTS
  Payload = {p}
  Empty = Empty
  Ssl = TRUE
  SizeMod = 8
  MaxFill = 2
  MaxArrive = 1
  DropByHasData = TRUE
  CloseOnce = TRUE
INVARIANTS
  NoPhantomFrame
CHECK_DEADLOCK FALSE
