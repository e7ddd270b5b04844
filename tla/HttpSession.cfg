\* Plain and ssl, every mask, a queue limit of 3, a peer that sends requests at
\* any time and ends its side at any time, but waits for its answers before it
\* upgrades.
SPECIFICATION FairSpec
CONSTANTS
  queue_limit = 3
  MaxRequests = 6
  Hasty = {"keep", "close", "end_of_stream"}
INVARIANTS
  TypeOK
  NoMisuse
  WriterAwake
  ReaderAwake
PROPERTIES
  ImplementsPipeline
  Answered
  SessionEnds
CHECK_DEADLOCK FALSE
