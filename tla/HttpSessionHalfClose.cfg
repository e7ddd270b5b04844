\* A peer that pipelines requests and ends its side while it waits for answers.
SPECIFICATION Spec
CONSTANTS
  queue_limit = 3
  MaxRequests = 2
  Hasty = {"end_of_stream"}
INVARIANT AnsweredBeforeShutdown
CHECK_DEADLOCK FALSE
