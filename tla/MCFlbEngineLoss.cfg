SPECIFICATION Spec
CONSTANTS
  p1 = p1  p2 = p2  in1 = in1  o1 = o1  o2 = o2
  NoTask = NoTask
  Tasks = {p1}
  Inputs = {in1}
  Outputs = {o1, o2}
  Routes <- MCRoutesFork
  RetryLimit <- MCLimitFork
  MapSize = 1
  Cap = 2000
  Frame = 10
  TimerMayFail = FALSE
  MaxAttempts = 3
  ThreadIds = 16384
CHECK_DEADLOCK FALSE
INVARIANTS
  NoSilentLoss
