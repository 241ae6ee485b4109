SPECIFICATION Spec
CONSTANTS
  Runs = {r1, r2, r3}
  Trees = {t1, t2}
  NoTree = NoTree
  N = 2
  Lease = 1
  WallCap = 1
  Results = {"completed_pass", "completed_hard_fail", "completed_soft_wobble"}
  Outcomes = {"pass", "flagged", "rolled_back", "halt_human"}
  DirectCalls = {r3}
  ClockMayStepBack = TRUE
  Horizon = 2
SYMMETRY Symmetry
INVARIANTS SlotAccounting ActiveSlotIsLeased FlagRemembersTrouble
PROPERTIES PassIsEarned DispositionIsFinal
