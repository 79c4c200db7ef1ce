SPECIFICATION Spec
CONSTANTS
  c1 = c1  c2 = c2  c3 = c3  c4 = c4  o1 = o1  o2 = o2
  Chunks = {c1, c2}
  Outputs <- MCOutputs
  Routes <- MCRoutes
  WorkersN = 1
  RefMayFail = FALSE
  MaxStarts = 2
  MaxRequests = 2
CHECK_DEADLOCK FALSE
INVARIANTS
  CleanedUp
