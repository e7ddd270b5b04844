\* A ping-pong with every limit up to 3, so that either side comes to it
\* first, and an echo client that sends up to two messages after the hello.
SPECIFICATION FairSpec
CONSTANTS
  MaxMessages = 3
  Payload = {1, 2, 3, word, hello}
  Words = {word}
  hello_data = hello
  Empty = Empty
INVARIANTS
  TypeOK
  AssertsHold
  Echoed
PROPERTIES
  ExchangeEnds
\* Both ends closed, or an echo client that has nothing to send.
CHECK_DEADLOCK FALSE
