SPECIFICATION RunSpec
CONSTANTS
  Registry <- MCTools
  Entries <- MCEntries
  Root = "root"
  Canonical <- MCCanonical
  MaxDisk = 2
  MaxFiles = 2
  Runtime = TRUE
  HostUser = "user"
  MaxChanges = 1
  MaxFailures = 1
INVARIANT PassMeansExitZero
CHECK_DEADLOCK FALSE
