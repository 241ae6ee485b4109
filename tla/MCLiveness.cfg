SPECIFICATION MCSpec
CONSTANTS
  Procs = {p1, p2}
  Files = {f1, f2}
  Tokens = {1, 2, 3, 4, 5}
  MaxMutations = 1
  MaxCrashes = 2
  StealFromLive = FALSE
  TornAppends = TRUE
PROPERTIES OrphanIsCompleted TimedWindowEnds
CHECK_DEADLOCK FALSE
