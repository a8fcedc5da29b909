SPECIFICATION PromptSpec
CONSTANTS
  Caller <- MCCaller
  Unit = 3
  TicksPerSecond = 2
  Rates <- MCRates
  MaxTime = 16
  MaxCalls = 2
  LastCall = 1
PROPERTIES
  EveryCallReturns
CHECK_DEADLOCK FALSE
