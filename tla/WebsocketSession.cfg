\* A server or client session over TLS, with a service that asks once for
\* the close and drops what recv_queue_size() counts.
SPECIFICATION Spec
CONSTANTS
  Payload = {p, q}
  Empty = Empty
  Ssl = TRUE
  SizeMod = 8
  MaxFill = 2
  MaxArrive = 2
  DropByHasData = FALSE
  CloseOnce = TRUE
SYMMETRY PayloadSymmetry
INVARIANTS
  TypeOK
  SendFifo
  RecvFifo
  QueueSizes
  OneOfEachKind
  BuffersAlive
  SenderAwake
  NotOrphaned
  ClosedOnce
PROPERTIES
  ImplementsConnection
\* A finished session has no step left.
CHECK_DEADLOCK FALSE
