SPECIFICATION Spec
CONSTANTS
  r1 = r1  r2 = r2
  Requests = {r1, r2}
  Cap = 8
  Frame = 3
  TimerMayFail = TRUE
  MaxLag = 1
  MaxTime = 13
  MaxTries = 1
SYMMETRY RequestSymmetry
CHECK_DEADLOCK FALSE
INVARIANTS
  TypeOK
  OnTime
PROPERTIES
  NeverEarly
