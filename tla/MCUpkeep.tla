------------------------------ MODULE MCUpkeep ------------------------------
(* Small instances of the parts that run around the state store and a project, *)
(* each a process of its own that shares no state with the others here: a      *)
(* behaviour is one of one part, and the other parts stay as they began.  All  *)
(* of the parts are proved about.                                              *)
EXTENDS AlphaLedger, WriterClaim, LeaseClock, GatewayMode, ActiveTree, FrozenProject, Watchdog,
  ChaosHarness, EvolutionLoop, HealRepair, Reconcile, Integers, TLC

\* Where three writers may run, up to the names of hosts, instances and writers.
Place(host, instance) == [host |-> host, instance |-> instance]
Alike == [w \in {"w1", "w2", "w3"} |-> Place("h1", "i1")]
Places == <<Place("h1", "i1"), Place("h1", "i2"), Place("h2", "i1"), Place("h2", "i2")>>
Identities ==
  UNION {{[Alike EXCEPT !["w2"] = Places[a], !["w3"] = Places[b]] : b \in a..4} : a \in 1..4}

\* A clock that lies about itself, one that is what it says, one that stands still, one
\* that throws, and something that is no clock.
MCClocks == {[name |-> "forged", tag |-> "manual", nature |-> "moves", reads |-> "instant"],
 [name |-> "manual", tag |-> "manual", nature |-> "stands", reads |-> "fraction"],
 [name |-> "frozen", tag |-> "system", nature |-> "stands", reads |-> "instant"],
 [name |-> "throwing", tag |-> "custom", nature |-> "throws", reads |-> "instant"],
 [name |-> "object", tag |-> "custom", nature |-> "malformed", reads |-> "instant"]}

\* The adapter that was shipped and what it may be edited to.
MCShipped == [variant |-> "none", to |-> {"api"}, sound |-> TRUE, retry |-> FALSE]
MCAdapters == {[variant |-> "local-transactional", to |-> {"api"}, sound |-> TRUE, retry |-> FALSE],
               [variant |-> "status-checkable", to |-> {"api"}, sound |-> TRUE, retry |-> TRUE],
               MCShipped}

\* Workers that declare intents or records for some steps only, resend or refuse, halt or run on.
MCChaosProjects ==
  [intends : {{2}, 1..3}, records : {{2}, 1..3}, dedups : BOOLEAN, skips : BOOLEAN,
   refuses : BOOLEAN, leases : {TRUE}, guarded : BOOLEAN, halts : {{1}, 1..3}]

-----------------------------------------------------------------------------
VARIABLE part   \* the part whose behaviour this is

ASSUME PartsAssumption ==
  /\ AlphaAssumption
  /\ ClaimAssumption
  /\ ClockAssumption
  /\ GatewayModeAssumption
  /\ ActiveTreeAssumption
  /\ ProjectAssumption
  /\ WatchdogAssumption
  /\ ChaosAssumption
  /\ EvolutionAssumption
  /\ HealAssumption
  /\ ReconcileAssumption

MCInit ==
  /\ part \in {"ledger", "claims", "clock", "modes", "tree", "project", "watch", "chaos",
    "loop", "repair", "blocks"}
  /\ LedgerInit
  /\ (part # "claims" => identity = Alike) /\ ClaimInit /\ identity \in Identities
  /\ ClockInit
  /\ (part # "modes" => links = TRUE) /\ ModeInit
  /\ TreeInit
  /\ ProjectInit
  /\ (part # "watch" => slow = TRUE) /\ WatchInit
  /\ (part # "chaos" => (project = CHOOSE p \in MCChaosProjects : TRUE)) /\ ChaosInit
  /\ (part # "loop" => events = [n \in 1..3 |-> 0]) /\ LoopInit
  /\ (part # "repair" => content = [t \in {"prompt"} |-> "a"]) /\ HealInit
  /\ PlaceInit

MCNext ==
  \/ part = "ledger" /\ LedgerNext /\ UNCHANGED <<part, claimVars, clockVars, modeVars,
    treeVars, projectVars, watchVars, chaosVars, evolutionVars, healVars, reconcileVars>>
  \/ part = "claims" /\ ClaimNext /\ UNCHANGED <<part, alphaVars, clockVars, modeVars, treeVars,
    projectVars, watchVars, chaosVars, evolutionVars, healVars, reconcileVars>>
  \/ part = "clock" /\ ClockNext /\ UNCHANGED <<part, alphaVars, claimVars, modeVars, treeVars,
    projectVars, watchVars, chaosVars, evolutionVars, healVars, reconcileVars>>
  \/ part = "modes" /\ ModeNext /\ UNCHANGED <<part, alphaVars, claimVars, clockVars, treeVars,
    projectVars, watchVars, chaosVars, evolutionVars, healVars, reconcileVars>>
  \/ part = "tree" /\ TreeNext /\ UNCHANGED <<part, alphaVars, claimVars, clockVars, modeVars,
    projectVars, watchVars, chaosVars, evolutionVars, healVars, reconcileVars>>
  \/ part = "project" /\ ProjectNext /\ UNCHANGED <<part, alphaVars, claimVars, clockVars,
    modeVars, treeVars, watchVars, chaosVars, evolutionVars, healVars, reconcileVars>>
  \/ part = "watch" /\ WatchNext /\ UNCHANGED <<part, alphaVars, claimVars, clockVars, modeVars,
    treeVars, projectVars, chaosVars, evolutionVars, healVars, reconcileVars>>
  \/ part = "chaos" /\ ChaosNext /\ UNCHANGED <<part, alphaVars, claimVars, clockVars, modeVars,
    treeVars, projectVars, watchVars, evolutionVars, healVars, reconcileVars>>
  \/ part = "loop" /\ LoopNext /\ UNCHANGED <<part, alphaVars, claimVars, clockVars, modeVars,
    treeVars, projectVars, watchVars, chaosVars, healVars, reconcileVars>>
  \/ part = "repair" /\ HealNext /\ UNCHANGED <<part, alphaVars, claimVars, clockVars, modeVars,
    treeVars, projectVars, watchVars, chaosVars, evolutionVars, reconcileVars>>
  \/ part = "blocks" /\ PlaceNext /\ UNCHANGED <<part, alphaVars, claimVars, clockVars,
    modeVars, treeVars, projectVars, watchVars, chaosVars, evolutionVars, healVars>>

MCSpec == MCInit /\ [][MCNext]_<<part, alphaVars, claimVars, clockVars, modeVars, treeVars,
  projectVars, watchVars, chaosVars, evolutionVars, healVars, reconcileVars>>

=============================================================================
