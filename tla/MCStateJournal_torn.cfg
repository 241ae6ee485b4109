SPECIFICATION Spec
CONSTANTS
  Procs = {p1, p2}
  Files = {f1, f2}
  Tokens = {1, 2, 3, 4, 5}
  MaxMutations = 2
  MaxCrashes = 1
  StealFromLive = FALSE
  TornAppends = TRUE
INVARIANTS JournalStaysReadable
