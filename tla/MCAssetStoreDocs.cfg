SPECIFICATION Spec
CONSTANTS
  Writer <- MCWriter
  Subject = {s1}
  Observation <- MCObservation
  Absent = Absent
  NoScalar = NoScalar
  Horizon = 1
  MaxUpserts = 1
PROPERTIES
  NeverDestroysEvidence
CHECK_DEADLOCK FALSE
