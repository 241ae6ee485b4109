SPECIFICATION MCSpec
CONSTANTS
  Managers = {m1, m2}
  Concurrent = TRUE
  Steps = 1
  MaxRetries = 0
  MaxReentry = 2
  MaxSteps = 4
  MaxStarts = 3
  MaxCrashes = 1
  MaxFailures = 0
  Declared = {d1}
  Undeclared = {x}
  Types = {t1}
  Meters = {}
  NoTime = NoTime
  NoCost = NoCost
  MaxWall = 0
  MaxCalls = 0
  MaxPerDestination = 0
  MaxPerType = 0
  RateWindow = 0
  MaxPerWindow = 0
  Ceiling = 0
  UnknownCost = 0
  MaxMeter = 0
  Horizon = 0
  MaxBehind = 0
  MaxAhead = 0
  MaxSetBack = 0
  MaxCallsMade = 0
INVARIANT OneWriter
CHECK_DEADLOCK FALSE
