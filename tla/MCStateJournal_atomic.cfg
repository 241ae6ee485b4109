SPECIFICATION Spec
CONSTANTS
  Procs = {p1, p2, p3}
  Files = {f1, f2}
  Tokens = {1, 2, 3, 4, 5, 6, 7}
  MaxMutations = 2
  MaxCrashes = 1
  StealFromLive = TRUE
  TornAppends = TRUE
SYMMETRY Symmetry
INVARIANTS ReadsWholeMutations
PROPERTIES ImplementsAtomicStore
