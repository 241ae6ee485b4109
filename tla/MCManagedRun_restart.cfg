SPECIFICATION MCSpec
CONSTANTS
  Managers = {m1}
  Concurrent = FALSE
  Steps = 2
  MaxRetries = 1
  MaxReentry = 2
  MaxSteps = 4
  MaxStarts = 4
  MaxCrashes = 2
  MaxFailures = 2
  Declared = {d1, d2}
  Undeclared = {x}
  Types = {t1, t2}
  Meters = {"log_bytes"}
  NoTime = NoTime
  NoCost = NoCost
  MaxWall = 1
  MaxCalls = 2
  MaxPerDestination = 1
  MaxPerType = 2
  RateWindow = 1
  MaxPerWindow = 1
  Ceiling = 3
  UnknownCost = 2
  MaxMeter = 1
  Horizon = 2
  MaxBehind = 1
  MaxAhead = 0
  MaxSetBack = 1
  MaxCallsMade = 3
INVARIANTS EffectHappensOnce HaltStands EvidenceNamesTheDoubt BudgetsOutliveRestarts
SYMMETRY Symmetry
CHECK_DEADLOCK FALSE
