SPECIFICATION Spec
CONSTANTS
  NItems = 4
  Concurrencies <- MCConcurrencies
INVARIANTS
  TypeOK
  ConcurrencyBound
  AtMostOneLate
  Drained
PROPERTIES
  RunReturns
  KeepsContract
CHECK_DEADLOCK FALSE
