SPECIFICATION Spec
CONSTANTS
  Producer = {p1, p2}
  Engine = {g1, g2}
  Event = {e1, e2, e3}
  Absent = Absent
  Limit = 2
  Start = 3
  Horizon = 5
  MaxInserts = 4
INVARIANTS
  TypeOK
  InsertedOnce
  FinishedStaysFinished
PROPERTIES
  PendingOldestFirst
SYMMETRY Symmetry
CHECK_DEADLOCK FALSE
