SPECIFICATION Spec
CONSTANTS
  r1 = r1  r2 = r2
  Requests = {r1}
  Cap = 2000
  Frame = 10
  TimerMayFail = FALSE
  MaxLag = 0
  MaxTime = 1
  MaxTries = 40
CHECK_DEADLOCK FALSE
INVARIANTS
  NeverRefused
