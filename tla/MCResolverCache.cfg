SPECIFICATION Spec
CONSTANTS
  Client = {g1, g2}
  Key <- MCKey
  NoSOA <- MCNoSOA
  NServers = 1
  Retries = 0
  Timeout = 1
  Protocols = {"udp", "tcp", "dot"}
  Responses <- MCResponses
  DefaultTTL = 1
  MaxTime = 3
  MaxQueries = 3
INVARIANTS
  CacheFresh
  CallBounded
SYMMETRY Symmetry
CHECK_DEADLOCK FALSE
