------------------------------ MODULE Assurance ---------------------------------
(***************************************************************************)
(* An assurance packet: scripts/assure.js runs the test suite of           *)
(* scripts/test.js, the linter, the red-team battery of scripts/redteam.js *)
(* and the registered tools one after the other and draws the packet from  *)
(* their reports.                                                          *)
(*                                                                         *)
(* The smoke test runs the manager of the project under a fixed run id, so *)
(* that a second smoke test resumes the run of the first.  The user edits  *)
(* the project at any time, between two batteries of a packet as well.  A  *)
(* check is a record of its name and its status.                           *)
(***************************************************************************)
EXTENDS Naturals, FiniteSets

CONSTANTS
  RunIds,           \* the run ids that a smoke test is run under
  PipelineSteps,    \* the number of steps of the pipeline
  Projects,         \* the editions of the project
  Installations,    \* the states of the installation that judges it
  Cases,            \* the cases that are brought along: see ByoCheck
  ToolOutcomes,     \* the outcomes of the registered tools
  MaxEdits, MaxPackets

AssuranceAssumption ==
  /\ PipelineSteps \in Nat \ {0} /\ {MaxEdits, MaxPackets} \subseteq Nat
  /\ ToolOutcomes \subseteq {"pass", "fail", "error", "unavailable", "skip"}

VARIABLES
  edition, install,
  done,          \* the steps that have a checkpoint, for each run id
  effects,       \* the effects log of each run: "none", "once", "twice"
  stage,         \* the battery that is next: "test", "lint", "redteam", "tools", "written"
  id,            \* the run id of this packet's smoke test
  battery,       \* the statuses so far
  packet,
  edits, packets

assuranceVars == <<edition, install, done, effects, stage, id, battery, packet, edits, packets>>

NoPacket == [status |-> "none", q |-> FALSE, x |-> FALSE]

Check(name, ok) == [id |-> name, status |-> IF ok THEN "pass" ELSE "fail"]
Skipped(name) == [id |-> name, status |-> "skip"]
Missing(name) == [id |-> name, status |-> "unavailable"]

\* The statuses with that of one more battery.
WithStatus(name, status) ==
  [k \in DOMAIN battery \cup {name} |-> IF k = name THEN status ELSE battery[k]]

Verdict(checks) == IF \E c \in checks : c.status = "fail" THEN "fail" ELSE "pass"

-----------------------------------------------------------------------------
(* scripts/test.js.                                                         *)

\* pipeline: "absent", "garbled" (no list, or an empty one), "repeated", "good";
\* workers: "absent", "some", "all".
UnitChecks(p) ==
  {Check("manager.js", p.manager), Check("pipeline.json", p.pipeline # "absent"),
   Check("workers-dir", p.workers # "absent")}
  \cup (IF p.pipeline = "absent" THEN {} ELSE {Check("shape", p.pipeline # "garbled")})
  \cup (IF p.pipeline \in {"absent", "garbled"} THEN {}
        ELSE {Check("unique-steps", p.pipeline # "repeated"),
              Check("workers-resolve", p.workers = "all")})

\* How a manager can end that resumes a run after `from' steps.  A silent one exits
\* with zero and never says that it is done; a slow one may be killed by the timeout.
Endings(p, from) ==
  LET ended(steps, zero, marker) == [steps |-> steps, zero |-> zero, marker |-> marker] IN
  IF p.runs = "silent" THEN {ended(k, TRUE, FALSE) : k \in from..PipelineSteps}
  ELSE IF from = PipelineSteps \/ p.runs = "completes" THEN {ended(PipelineSteps, TRUE, TRUE)}
  ELSE IF p.runs = "fails" THEN {ended(k, FALSE, FALSE) : k \in from..(PipelineSteps - 1)}
  ELSE {ended(PipelineSteps, TRUE, TRUE)} \cup {ended(k, FALSE, FALSE) : k \in from..PipelineSteps}

\* The log of a run after this ending: only a step that ran has effects.
EffectsAfter(p, from, e, before) ==
  IF e.steps = from \/ ~p.logs THEN before
  ELSE IF p.doubles \/ before = "twice" THEN "twice" ELSE "once"

\* Every JSON file of the run counts as a checkpoint, its budget and guard state too.
\* Mutant of SmokeChecks: an exit of zero is taken for a completed run.
SmokeWithoutMarker(e, logged) ==
  {Check("exit-zero", e.zero), Check("checkpoints-written", e.steps > 0 \/ edition.files)}
  \cup {IF logged = "none" THEN Skipped("no-duplicate-effects")
        ELSE Check("no-duplicate-effects", logged = "once")}

SmokeChecks(e, logged) ==
  {Check("exit-zero", e.zero), Check("completion-marker", e.zero /\ e.marker),
   Check("checkpoints-written", e.steps > 0 \/ edition.files)}
  \cup {IF logged = "none" THEN Skipped("no-duplicate-effects")
        ELSE Check("no-duplicate-effects", logged = "once")}

ScenarioRegression ==
  IF install.scenario = "absent" THEN {Missing("tool-present")}
  ELSE {Check("tool-present", TRUE), Check("corpus-load", install.corpus),
        Check("regression-selftest", install.scenario = "passes")}

\* The chaos harness runs the project under run ids of its own.
ChaosCheck ==
  IF install.chaos = "absent" THEN {Missing("harness")}
  ELSE {Check("harness", install.chaos = "passes" /\ edition.runs = "completes")}

\* The smoke test is left out when a unit check failed.
RunSuite(run, scenario, chaos) ==
  /\ stage = "test" /\ packets < MaxPackets /\ packets' = packets + 1
  /\ LET unit == UnitChecks(edition)
         rest == (IF scenario THEN ScenarioRegression ELSE {})
                 \cup (IF chaos THEN ChaosCheck ELSE {}) IN
     IF Verdict(unit) = "fail"
       THEN /\ battery' = [test |-> Verdict(unit \cup {Skipped("run")} \cup rest)]
            /\ UNCHANGED <<done, effects>>
       ELSE \E e \in Endings(edition, done[run]) :
              /\ done' = [done EXCEPT ![run] = e.steps]
              /\ effects' = [effects EXCEPT ![run] = EffectsAfter(edition, done[run], e, @)]
              /\ battery' = [test |-> Verdict(unit \cup SmokeChecks(e, effects'[run]) \cup rest)]
  /\ id' = run /\ stage' = "lint" /\ packet' = NoPacket
  /\ UNCHANGED <<edition, install, edits>>

-----------------------------------------------------------------------------
(* The linter, as scripts/assure.js reads it: a crash without a finding in  *)
(* its output passes.                                                       *)

LintStatus ==
  IF ~install.linter THEN "unavailable"
  ELSE CASE edition.lint = "unfinished" -> "error"
         [] edition.lint = "violations" -> "fail"
         [] OTHER -> "pass"

RunLint ==
  /\ stage = "lint" /\ stage' = "redteam"
  /\ battery' = WithStatus("lint", LintStatus)
  /\ UNCHANGED <<edition, install, done, effects, id, packet, edits, packets>>

-----------------------------------------------------------------------------
(* scripts/redteam.js.                                                      *)

\* The first gate has to refuse the planted injection; throwing counts as refusing.
Gate1Check ==
  IF install.gate = "absent" THEN Missing("gate1-injection")
  ELSE Check("gate1-injection", install.gate # "accepts")

\* A sandbox that does not open is no failure of the battery.
ArchitectureBattery ==
  {Check("injection-control-flow", TRUE), Gate1Check, Check("evolution-path-fence", TRUE),
   Check("subordinated-appendix", TRUE),
   IF install.sandbox THEN Check("sandbox-open", TRUE) ELSE Missing("sandbox-open")}

ShippedCorpus(deep) ==
  {Check("inventory", install.attacks # "absent"), Check("deferred-map", install.attacks # "absent")}
  \cup (IF deep /\ install.attacks # "absent" THEN {Check("discipline-cells", install.attacks = "pass")}
        ELSE {Skipped("deep-run")})

\* What an earlier run left behind decides; only then the manager is read.
ProjectCheck(p) ==
  Check("injection-control-flow",
        p.left = "blocked" \/ (p.left \notin {"corrupt", "reached"} /\ ~p.routes))

\* A declared case is blocked when the claimed step is not the planned one; a tool
\* brought along is run where it is contained, and only its status counts.
ByoCheck(case) ==
  CASE case \in {"unreadable", "exec-fail", "exec-error", "exec-skip"} -> Check(case, FALSE)
    [] case = "exec-unavailable" -> Missing(case)
    [] case = "exec-pass" -> Check(case, TRUE)
    [] OTHER -> Check(case, case \in {"claims-another", "claims-none-and-may"})

ByoChecks(cases) ==
  IF cases = {"none"} THEN {Skipped("load")}
  ELSE {Check("load", cases # {})} \cup {ByoCheck(c) : c \in cases}

RunRedteam(deep, cases) ==
  /\ stage = "redteam" /\ stage' = "tools"
  /\ battery' = WithStatus("redteam", Verdict(ArchitectureBattery \cup ShippedCorpus(deep)
                                              \cup {ProjectCheck(edition)} \cup ByoChecks(cases)))
  /\ UNCHANGED <<edition, install, done, effects, id, packet, edits, packets>>

-----------------------------------------------------------------------------
(* The packet.                                                              *)

PacketStatus(b, tools) ==
  IF {b[k] : k \in DOMAIN b} \cap {"fail", "error"} # {} \/ tools \cap {"fail", "error"} # {}
    THEN "fail" ELSE "pass"

BuildPacket(tools) ==
  /\ stage = "tools" /\ stage' = "written"
  /\ packet' = [status |-> PacketStatus(battery, tools),
                q |-> battery.test = "pass" /\ battery.lint \in {"pass", "unavailable"},
                x |-> battery.redteam = "pass"]
  /\ UNCHANGED <<edition, install, done, effects, id, battery, edits, packets>>

\* The next packet starts all over.
Again ==
  /\ stage = "written" /\ stage' = "test" /\ packet' = NoPacket /\ battery' = <<>>
  /\ UNCHANGED <<edition, install, done, effects, id, edits, packets>>

Edit ==
  /\ edits < MaxEdits /\ edits' = edits + 1
  /\ edition' \in Projects \ {edition}
  /\ UNCHANGED <<install, done, effects, stage, id, battery, packet, packets>>

AssuranceInit ==
  /\ edition \in Projects /\ install \in Installations
  /\ done = [r \in RunIds |-> 0] /\ effects = [r \in RunIds |-> "none"]
  /\ stage = "test" /\ id = (CHOOSE r \in RunIds : TRUE) /\ battery = <<>> /\ packet = NoPacket
  /\ edits = 0 /\ packets = 0

AssuranceNext ==
  \/ \E run \in RunIds, scenario, chaos \in BOOLEAN : RunSuite(run, scenario, chaos)
  \/ RunLint
  \/ \E deep \in BOOLEAN, cases \in (SUBSET (Cases \ {"none"})) \cup {{"none"}} : RunRedteam(deep, cases)
  \/ \E tools \in SUBSET ToolOutcomes : BuildPacket(tools)
  \/ Again \/ Edit

AssuranceSpec == AssuranceInit /\ [][AssuranceNext]_assuranceVars

-----------------------------------------------------------------------------
\* A packet that passes, or that finds the project assurance-tested, rests on a run
\* that went through the whole pipeline and logged no effect twice, whatever was
\* interrupted, resumed or edited before it.
GreenPacketRanEveryStep ==
  packet.status = "pass" \/ packet.q => done[id] = PipelineSteps /\ effects[id] # "twice"
=============================================================================
