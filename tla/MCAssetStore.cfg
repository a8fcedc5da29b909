SPECIFICATION Spec
CONSTANTS
  Writer <- MCWriter
  Subject = {s1, s2}
  Observation <- MCObservation
  Absent = Absent
  NoScalar = NoScalar
  Horizon = 1
  MaxUpserts = 2
INVARIANTS
  TypeOK
  ReadIsKept
PROPERTIES
  VerdictsFixed
  KeepsContract
CHECK_DEADLOCK FALSE
