SPECIFICATION MCSpec
CONSTANTS
  Evaluators = {"e1", "e2"}
  Corpora = {"c1"}
  Families = {"f1", "f2", "f3"}
  Versions = {"v1", "v2"}
  Splits = {"s1"}
  AlphaSlots = 2
  MaxEvaluations = 3
  MaxDeaths = 1
  Writers = {"w1", "w2", "w3"}
  Hosts = {"h1", "h2"}
  Instances = {"i1", "i2"}
  MaxAttempts = 2
  Clocks <- MCClocks
  Processes = {"p", "q"}
  MaxConstructions = 3
  MaxLostAppends = 1
  Operators = {"o1", "o2"}
  Modes = {"standalone", "attach"}
  MaxTime = 1
  Lifetime = 1
  MaxSets = 2
  MaxMishaps = 1
  Contents = {"1", "m"}
  Unfit = {"m"}
  MaxEvents = 4
  MaxDamage = 1
  MaxReports = 1
  Shipped <- MCShipped
  Adapters <- MCAdapters
  Values = {1, 3}
  Bounds = {{1, 2, 3}}
  ShippedBounds = {1, 2}
  Default = 2
  MaxEdits = 2
  MaxStarts = 3
  Workers = {"w1", "w2"}
  Declared = {"null", "read-only", "idempotent-by-key", "none"}
  BudgetPolls = 2
  StalePolls = 4
  MaxFirst = 3
  MaxIncrement = 2
  Rate = 2
  Leads = FALSE
  MaxBeats = 4
  MaxCalls = 1
  Steps = 3
  Projects <- MCChaosProjects
  Problems = 3
  Safety = {3}
  Screened = {1, 2}
  MaxProposals = 2
  BufferSize = 3
  MaxCount = 3
  MaxCycles = 3
  MaxAdoptions = 1
  MaxFaults = 1
  Healers = {"h1", "h2"}
  Typed = {"prompt"}
  Tunables = {}
  Code = {}
  Managers = {}
  Texts = {"a", "b", "c"}
  Suspect = {"c"}
  Unbounded = {"c"}
  Frozen = TRUE
  MaxStaged = 2
  MaxWrites = 2
  MaxRollbacks = 2
  MaxHealerDeaths = 1
  Callers = {"k1", "k2"}
  Blocks = {"b1", "b2"}
  Schemas = {1, 2}
  MaxPlacings = 2
  MaxCallerDeaths = 1
  MaxUserEdits = 2
  MaxConcurrent = 2
  LiveLooksStale = FALSE
INVARIANTS AlphaIsSpentOnce ClaimsCrossHostsByRemoval RacingClocksAreNamed ModeIsConfirmed
  ReportTellsTheTree ShippedFormGoverns KillsAreHonest RecoveryIsEarned LoopRemembers
  PlacedBlocksStay
PROPERTIES RollbackKeepsEdits
CHECK_DEADLOCK FALSE
