\* Two clients, one with ssl, and up to two nodes with a thread for each; the
\* manager is started twice.
SPECIFICATION FairSpec
CONSTANTS
  Client = {c1, c2}
  Secure = {c2}
  MaxNodes = 2
  ThreadCounts = {0}
  MaxInits = 2
  Signal = Signal
  free = free
  returned = returned
INVARIANTS
  TypeOK
  Released
PROPERTIES
  ImplementsClients
  ExitReturns
  Reported
CHECK_DEADLOCK FALSE
