\* Two connections to a node with any protocols, with or without certificate.
SPECIFICATION FairSpec
CONSTANTS
  Socket = {s1, s2}
  nobody = nobody
  failure = failure
INVARIANTS
  TypeOK
  ServedAsConfigured
  Addressed
PROPERTIES
  Accepted
  NoSilentPeer
CHECK_DEADLOCK FALSE
