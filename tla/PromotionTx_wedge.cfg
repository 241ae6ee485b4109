SPECIFICATION FairSpec
CONSTANTS
  Procs = {p1}
  NoProc = NoProc
  Edits = {"a"}
  Reversible = {"a"}
  Retries = FALSE
  Rollbacks = TRUE
  FailAt = {}
  TornAppends = FALSE
  MaxBegun = 2
  MaxCrashes = 1
  MaxFailures = 0
PROPERTY RecoveryCompletes
CHECK_DEADLOCK FALSE
