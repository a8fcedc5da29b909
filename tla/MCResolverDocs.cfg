SPECIFICATION Spec
CONSTANTS
  Client <- MCClient
  Key <- MCKey
  NoSOA <- MCNoSOA
  NServers = 2
  Retries = 1
  Timeout = 1
  Protocols = {"udp"}
  Responses <- MCOneResponse
  DefaultTTL = 1
  MaxTime = 0
  MaxQueries = 4
INVARIANTS
  FailureCoversServers
CHECK_DEADLOCK FALSE
