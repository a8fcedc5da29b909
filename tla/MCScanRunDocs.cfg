SPECIFICATION Spec
CONSTANTS
  Host <- MCHost
  IP = {"i1", "i2"}
  Port <- MCPort
  Targets <- MCTargets
  NoIP = "none"
  Config <- MCConfig
  Wordlist <- MCWordlist
  Answers <- MCAnswers
  Plans <- MCPlans
  Concurrency <- MCConcurrency
  MaxRuns = 1
  Absent = Absent
INVARIANTS
  VerdictIsScope
CHECK_DEADLOCK FALSE
