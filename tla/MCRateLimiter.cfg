SPECIFICATION Spec
CONSTANTS
  Caller <- MCCaller
  Unit = 3
  TicksPerSecond = 2
  Rates <- MCRates
  MaxTime = 7
  MaxCalls = 2
  LastCall = 7
INVARIANTS
  TypeOK
  WindowBound
  NoOversleep
PROPERTIES
  CancelReturns
CHECK_DEADLOCK FALSE
