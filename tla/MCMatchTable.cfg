CONSTANTS
  Code = {c1, c2}
  NULL = NULL
  Priority <- Priorities
  FramePriority <- FramePriorities
  IntMax = 3
  Junk <- JunkInts
  FirstCapacity = 1
  MaxRules = 3
  AllocMayFail = TRUE
SPECIFICATION Spec
INVARIANT HighestScoreWins
INVARIANT UnsoundExplained
INVARIANT AddedRulesMatch
SYMMETRY Symmetry
