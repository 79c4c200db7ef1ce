SPECIFICATION FairSpec
CONSTANTS
  a = a  b = b  d1 = d1  d2 = d2  d3 = d3
  Tags = {a, b}
  Matched = {a}
  Nodes = {d1, d2, d3}
  Limit = 3
  LockSize = 1
  Sizes = {1, 2}
  MaxTasks = 2
  TableMayFill = TRUE
  Plugins = {"tail", "systemd", "none"}
INVARIANTS
  TypeOK
  LimitHolds
  NoAppendInFlight
  StatusMatchesCollector
PROPERTIES
  StaysPaused
  ResumesUnlessDropped
