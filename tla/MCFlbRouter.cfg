SPECIFICATION Spec
CONSTANTS
  Plugins <- MCPlugins
  Dynamic <- MCDynamic
  Flagged <- MCFlagged
  NULL = NULL
  Tags <- MCTags
  Patterns <- MCPatterns
  Prior = {0, 31}
  MaxInputs = 2
  MaxOutputs = 2
  MaxFilters = 2
  MaxSets = 2
  MaxString = 4
CHECK_DEADLOCK FALSE
INVARIANTS
  TypeOK
  MatchIsCover
  RoutesFollowMatch
  FiltersFollowMatch
  
  SetsReachInstance
