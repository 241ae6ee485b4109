SPECIFICATION MCSpec
CONSTANTS
  Procs = {p1, p2}
  NoProc = NoProc
  Edits = {"a", "b"}
  Reversible = {"a"}
  Retries = FALSE
  Rollbacks = FALSE
  FailAt = {"begin", "install", "stage_done", "log_intent", "admit", "window_pending", "swap", "outcome_intent", "effective", "manifest", "finalize", "window_final", "tx_done", "remove", "tx_abort", "abort_intent", "abort_entry", "abort_manifest"}
  TornAppends = FALSE
  MaxBegun = 2
  MaxCrashes = 1
  MaxFailures = 1
INVARIANTS QuiescentIsAnchored TreesExist AdoptionIsObserved
PROPERTIES ActiveChangesLawfully RecoveryEnds
CHECK_DEADLOCK FALSE
