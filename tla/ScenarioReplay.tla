---------------------------- MODULE ScenarioReplay -----------------------------
(***************************************************************************)
(* The replay of a scenario against the two trees of a pair                *)
(* (scripts/scenario.js).  For each tree a work directory is made with the *)
(* tree's workers and a manager of its own, the manager is run, and its    *)
(* result is judged by the markers it printed and by what it left on disk. *)
(* A crash scenario first runs the manager until a poll finds the          *)
(* checkpoint of one step, kills it there, and runs it again.              *)
(*                                                                         *)
(* The manager and its workers are another process: between two polls it   *)
(* takes up to StepsPerPoll steps.  A poll comes every 10 ms, and a step's *)
(* length depends on the tree.  Workers that a tree brings itself may do   *)
(* what no generated worker does.                                          *)
(***************************************************************************)
EXTENDS Naturals, Sequences, FiniteSets

CONSTANTS
  Scenarios,    \* [steps, crashAfter, outcome, expected, budget, once]
  Behaviours,   \* what the workers of a tree may be
  StepsPerPoll, \* bound: steps of the manager between two polls
  MaxRetries,   \* MAX_RETRIES of the manager
  MaxTimeouts   \* bound: managers that run into the time limit

VARIABLES
  scenario, side, \* the scenario, and the tree of the pair that it is replayed on
  workers,      \* the behaviour of each step's worker in the work directory
  manager,      \* "off", "running", "exited": with pc, stage, attempt and exit code
  disk,         \* the run directory: intents, effects with their number, checkpoints
  output,       \* the markers in what the manager printed, and the steps skipped
  phase,        \* what the harness waits for: "make", "killing", "resuming", "judging"
  seen,         \* the checkpoints found after the kill
  since,        \* steps of the manager since the last poll
  pair,         \* the results of the pair
  timeouts

replayVars == <<scenario, side, workers, manager, disk, output, phase, seen, since, pair, timeouts>>

NoStep == "no step"
ScenarioSteps == DOMAIN scenario.steps
Crashes == scenario.crashAfter # NoStep
StepNo(name) == CHOOSE i \in ScenarioSteps : scenario.steps[i] = name

-----------------------------------------------------------------------------
(* The manager.                                                             *)

ManagerOff == [state |-> "off", pc |-> 1, stage |-> "next", attempt |-> 0, code |-> "none"]
EmptyDisk == [intents |-> {}, effects |-> [i \in ScenarioSteps |-> 0], checkpoints |-> {}]
NoOutput == [markers |-> {}, skipped |-> {}]

Prints(marker) == output' = [output EXCEPT !.markers = @ \union {marker}]
ManagerExits(code) == manager' = [manager EXCEPT !.state = "exited", !.code = code]
AtStage(stage) == manager.state = "running" /\ manager.stage = stage
Goes(stage) == manager' = [manager EXCEPT !.stage = stage]

\* The harness looks in time.
Ticks ==
  IF phase = "killing" THEN since < StepsPerPoll /\ since' = since + 1 ELSE UNCHANGED since

HarnessUnchanged == UNCHANGED <<scenario, side, workers, phase, seen, pair, timeouts>>

\* A step begins: its budget, its checkpoint, its module.
BeginStep ==
  /\ AtStage("next") /\ manager.pc \in ScenarioSteps /\ Ticks
  /\ \/ scenario.budget /\ Prints("BUDGET EXCEEDED") /\ ManagerExits("not 0")
     \/ /\ manager.pc \in disk.checkpoints
        /\ output' = [output EXCEPT !.skipped = @ \union {manager.pc}]
        /\ manager' = [manager EXCEPT !.pc = @ + 1]
     \/ /\ manager.pc \notin disk.checkpoints
        /\ IF workers[manager.pc] = "missing"
             THEN Prints("INFRA_FAULT") /\ ManagerExits("not 0")
             ELSE /\ manager' = [manager EXCEPT !.stage = "worker", !.attempt = 0]
                  /\ UNCHANGED output
  /\ UNCHANGED disk /\ HarnessUnchanged

\* An attempt fails: the step is retried, unless the worker will not guess.
Throws(unresolved) ==
  CASE unresolved -> Prints("UNRESOLVED SIDE EFFECT") /\ ManagerExits("not 0")
    [] ~unresolved /\ manager.attempt = MaxRetries -> ManagerExits("not 0") /\ UNCHANGED output
    [] OTHER -> /\ manager' = [manager EXCEPT !.attempt = @ + 1, !.stage = "worker"]
                /\ UNCHANGED output

\* A worker reads the logs and appends its intent.
WorkerBegins ==
  /\ AtStage("worker") /\ Ticks
  /\ LET i == manager.pc  b == workers[i] IN
     CASE b = "fail" -> Throws(FALSE) /\ UNCHANGED disk
       [] b = "cries" -> Throws(TRUE) /\ UNCHANGED disk
       [] b = "resends" -> Goes("intended") /\ disk' = [disk EXCEPT !.intents = @ \union {i}] /\ UNCHANGED output
       [] b \in {"ok", "intent-no-complete"} /\ disk.effects[i] > 0 ->
            Goes("done") /\ UNCHANGED <<disk, output>>
       [] b \in {"ok", "intent-no-complete"} /\ disk.effects[i] = 0 /\ i \in disk.intents ->
            Throws(TRUE) /\ UNCHANGED disk
       [] OTHER ->
            Goes("intended") /\ disk' = [disk EXCEPT !.intents = @ \union {i}] /\ UNCHANGED output
  /\ HarnessUnchanged

WorkerActs ==
  /\ AtStage("intended") /\ Ticks
  /\ IF workers[manager.pc] = "intent-no-complete"
       THEN Throws(FALSE) /\ UNCHANGED disk
       ELSE /\ disk' = [disk EXCEPT !.effects[manager.pc] = @ + 1]
            /\ Goes("done") /\ UNCHANGED output
  /\ HarnessUnchanged

SaveCheckpoint ==
  /\ AtStage("done") /\ Ticks
  /\ disk' = [disk EXCEPT !.checkpoints = @ \union {manager.pc}]
  /\ manager' = [manager EXCEPT !.stage = "next", !.pc = @ + 1]
  /\ UNCHANGED output /\ HarnessUnchanged

FinishRun ==
  /\ AtStage("next") /\ manager.pc \notin ScenarioSteps /\ Ticks
  /\ Prints("__done__") /\ ManagerExits("0")
  /\ UNCHANGED disk /\ HarnessUnchanged

-----------------------------------------------------------------------------
(* The harness.                                                             *)

Result(pass, cause) == [pass |-> pass, cause |-> cause]
NoResult == Result(FALSE, "none")

\* The side is judged: its directory goes, and the other side or the next pair follows.
JudgeSide(result) ==
  /\ pair' = [pair EXCEPT ![side] = result]
  /\ side' = IF side = "cand" THEN "base" ELSE "over"
  /\ phase' = IF side = "cand" THEN "make" ELSE "over"
  /\ manager' = ManagerOff /\ disk' = EmptyDisk /\ output' = NoOutput /\ seen' = {} /\ since' = 0
  /\ UNCHANGED <<scenario, workers, timeouts>>

\* A candidate that cannot be made leaves the baseline without a run too.
MaterializeFails ==
  /\ phase = "make"
  /\ pair' = [s \in {"cand", "base"} |->
                IF s = "cand" /\ side = "base" THEN pair[s] ELSE Result(FALSE, "infra_fault")]
  /\ side' = "over" /\ phase' = "over"
  /\ UNCHANGED <<scenario, workers, manager, disk, output, seen, since, timeouts>>

MaterializeFixture ==
  /\ phase = "make"
  /\ workers' \in [ScenarioSteps -> Behaviours]
  /\ manager' = [ManagerOff EXCEPT !.state = "running"] /\ disk' = EmptyDisk /\ output' = NoOutput
  /\ phase' = IF Crashes THEN "killing" ELSE "judging"
  /\ UNCHANGED <<scenario, side, seen, since, pair, timeouts>>

CheckpointFound == StepNo(scenario.crashAfter) \in disk.checkpoints

\* Killed, and started again: the lock of the dead manager is stolen.  A kill counts as
\* landed as long as the poll has not heard of the exit of the manager.
KillAndResume ==
  /\ CheckpointFound /\ manager.code # "out of time"
  /\ seen' = disk.checkpoints /\ phase' = "resuming"
  /\ manager' = [ManagerOff EXCEPT !.state = "running"] /\ output' = NoOutput
  /\ UNCHANGED <<scenario, side, workers, disk, since, pair, timeouts>>

\* The exit of the manager, once it is known, comes before the checkpoint it may have left.
Poll ==
  /\ phase = "killing"
  /\ \/ manager.state = "exited" /\ JudgeSide(Result(FALSE, "workflow_fault"))
     \/ KillAndResume
     \/ /\ manager.state = "running" /\ ~CheckpointFound /\ since' = 0
        /\ UNCHANGED <<scenario, side, workers, manager, disk, output, phase, seen, pair, timeouts>>

\* A manager out of time is killed: in the first run the kill has not landed.
TimesOut ==
  /\ manager.state = "running" /\ timeouts < MaxTimeouts
  /\ timeouts' = timeouts + 1 /\ ManagerExits("out of time")
  /\ UNCHANGED <<scenario, side, workers, disk, output, phase, seen, since, pair>>

Unresolved == {i \in disk.intents : disk.effects[i] = 0}
Duplicated == {i \in ScenarioSteps : disk.effects[i] > 1}
Said(marker) == marker \in output.markers

ClassifyOutcome ==
  IF Said("INFRA_FAULT") THEN Result(FALSE, "infra_fault")
  ELSE IF manager.code = "0" /\ Said("__done__") /\ scenario.outcome \in {"complete", "crash-recovered"} THEN
         Result(TRUE, "ok")
  ELSE IF manager.code = "0" /\ Said("__done__") THEN Result(FALSE, "workflow_fault")
  ELSE IF Said("UNRESOLVED SIDE EFFECT") /\ Unresolved # {} THEN Result(scenario.outcome = "halt", "ok")
  ELSE IF Said("UNRESOLVED SIDE EFFECT") THEN Result(FALSE, "workflow_fault")
  ELSE IF Said("BUDGET EXCEEDED") THEN Result(scenario.outcome = "budget-exceeded", "ok")
  ELSE Result(FALSE, "workflow_fault")

\* Every effect of a worker follows its intent; only a scenario that asks for it has
\* its effects counted.
CheckInvariants ==
  /\ scenario.once => Duplicated = {}
  /\ scenario.outcome = "halt" => Unresolved # {}

\* Mutant of CertifyHaltOnUncertainty: the text is enough.
CertifyHaltByText == TRUE

\* A halt is right only where an intent has no effect and no effect came twice.
CertifyHaltOnUncertainty == Unresolved # {} /\ Duplicated = {}

HasExpectedSteps == scenario.expected \subseteq disk.checkpoints

ExecuteScenario ==
  LET halted == Crashes /\ Said("UNRESOLVED SIDE EFFECT")
      sound == /\ CheckInvariants
               /\ Crashes => seen \subseteq output.skipped
               /\ halted => CertifyHaltOnUncertainty
               /\ ~halted /\ ClassifyOutcome.cause = "ok" => HasExpectedSteps
  IN CASE ~sound -> Result(FALSE, "workflow_fault")
       [] sound /\ halted -> Result(TRUE, "ok")
       [] OTHER -> ClassifyOutcome

Conclude ==
  /\ phase \in {"resuming", "judging"} /\ manager.state = "exited"
  /\ JudgeSide(ExecuteScenario)

-----------------------------------------------------------------------------

NextPair ==
  /\ phase = "over"
  /\ scenario' \in Scenarios
  /\ side' = "cand" /\ phase' = "make" /\ workers' = <<>>
  /\ manager' = ManagerOff /\ output' = NoOutput /\ seen' = {} /\ since' = 0
  /\ disk' = [intents |-> {}, effects |-> [i \in DOMAIN scenario'.steps |-> 0], checkpoints |-> {}]
  /\ pair' = [s \in {"cand", "base"} |-> NoResult]
  /\ UNCHANGED timeouts

ReplayInit ==
  /\ scenario \in Scenarios
  /\ side = "cand" /\ phase = "make" /\ workers = <<>>
  /\ manager = ManagerOff /\ disk = EmptyDisk /\ output = NoOutput /\ seen = {} /\ since = 0
  /\ pair = [s \in {"cand", "base"} |-> NoResult]
  /\ timeouts = 0

ReplayNext ==
  \/ BeginStep \/ WorkerBegins \/ WorkerActs \/ SaveCheckpoint \/ FinishRun
  \/ MaterializeFails \/ MaterializeFixture \/ Poll \/ TimesOut \/ Conclude \/ NextPair

ReplaySpec == ReplayInit /\ [][ReplayNext]_replayVars

-----------------------------------------------------------------------------
(* Properties.                                                              *)

\* classifyOutcome, certifyHaltOnUncertainty and executeScenario, "a string alone never
\* earns it": wherever the kill lands and whatever the workers of the tree do, a side
\* passes a scenario that asks for effects to happen once only when none happened twice
\* on disk, and either every expected step is there or an intent is left without effect.
PassIsBackedByState ==
  [][\A s \in {"cand", "base"} :
       pair'[s] # pair[s] /\ pair'[s].pass =>
         /\ scenario.once => Duplicated = {}
         /\ HasExpectedSteps \/ Unresolved # {}]_replayVars

================================================================================
