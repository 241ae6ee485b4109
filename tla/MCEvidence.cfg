SPECIFICATION MCSpec
CONSTANTS
  Edits <- MCEdits
  PairKinds <- MCPairKinds
  Bundles <- MCBundles
  RunDirs = {"a", "b"}
  RunListing <- MCListing
  Records <- MCRecords
  MaxLines = 2
  MaxDamaged = 1
  MaxHarvests = 1
  CallIds = {"i", "j"}
  NoId = "no id"
  SessionTools <- MCTools
  MaxCalls = 3
  MaxMarks = 1
  ReleaseFiles = {"core.js", "doc.md"}
  ProjectFiles = {"doc.md", "x.json"}
  Constitutional = {"core.js"}
  Dir <- MCDir
  OtherDirs = {"tmp"}
  MaxEntries = 3
  MaxLosses = 2
  Scenarios <- MCScenarios
  Behaviours = {"ok", "fail", "intent-no-complete", "cries", "resends", "missing"}
  StepsPerPoll = 4
  MaxRetries = 1
  MaxTimeouts = 1
  Registry <- MCToolRegistry
  Entries <- MCEntries
  Root = "root"
  Canonical <- MCCanonical
  MaxDisk = 2
  MaxFiles = 2
  Runtime = TRUE
  HostUser = "user"
  MaxChanges = 1
  MaxFailures = 1
  RunIds = {"assure", "verify"}
  PipelineSteps = 2
  Projects <- MCProjects
  Installations <- MCInstallations
  Cases = {"claims-another"}
  ToolOutcomes = {"fail", "unavailable"}
  MaxEdits = 2
  MaxPackets = 2
  Platforms = {"linux", "darwin"}
  Observations <- MCObservations
  MaxDay = 2
  MaxAge = 1
  MaxReports = 2
  Runs <- MCRuns
  Signers = {"k1"}
  MaxSeals = 2
  MaxAlterations = 1
  Approvers = {"a", "p"}
  ApprovalKeys = {"k1", "k2"}
  Trusted = {"k1", "k2"}
  Proposer = "p"
  Obligations <- MCObligations
  Evidence <- MCEvidence
  Releases <- MCReleases
  Policies <- MCPolicies
  Suite = 2
  MaxHeads = 2
  MaxRetained = 2
  MaxApprovals = 2
  MaxLogDamage = 1
  Files <- MCLintFiles
  MaxImports = 2
  Loops = {"unbounded"}
  Writes = {"bare"}
  Adapters = {"w"}
INVARIANTS PrecheckIsSound HarvestIsAnchored VerifyStoryIsHonest AlteredLogIsSeen
  ToolsGetBoundedCopies GreenPacketRanEveryStep GreenProfileWasSeenEverywhere VerdictIsEarned
  SealIsBacked SearchIsExactButForCycles
PROPERTIES PassIsBackedByState
CHECK_DEADLOCK FALSE
