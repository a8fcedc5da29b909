SPECIFICATION Spec
CONSTANTS
  Host <- MCHost
  IP = {"i1", "i2"}
  Port <- MCPort
  Targets <- MCTargets
  NoIP = "none"
  Config <- MCConfig
  Wordlist <- MCWordlist
  Answers <- MCAnswers
  Plans <- MCPlans
  Concurrency <- MCConcurrency
  MaxRuns = 2
  Absent = Absent
INVARIANTS
  TypeOK
  NothingDangles
  SuccessIsComplete
  ResolvedIsCurrent
  ProbesInScope
  HostsInScope
PROPERTIES
  RunEnds
CHECK_DEADLOCK FALSE
