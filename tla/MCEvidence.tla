----------------------------- MODULE MCEvidence -----------------------------
(* Small instances of the parts that collect evidence, judge it and seal it,   *)
(* each a program of its own that shares no state with the others here: a      *)
(* behaviour is one of one part, and the other parts stay as they began.  All  *)
(* of the parts are proved about.                                              *)
EXTENDS Gates, EventCompiler, Postmortem, Integrity, ScenarioReplay, ToolRun, Assurance,
  CapabilityReports, AttestationBundle, RegulatedMode, Graphlint, Integers, TLC

\* Event compiler: a record with the code of a safety event, and one without a code.
MCRecords == {[known |-> TRUE, coded |-> TRUE, safety |-> TRUE],
              [known |-> TRUE, coded |-> FALSE, safety |-> FALSE]}
MCListing == <<"a", "b">>

\* Post-mortem: an edit, a check whose output is read, a script that looks first.
Segment(prog, verifies, redirect, names) ==
  [prog |-> prog, verifies |-> verifies, redirect |-> redirect, names |-> names, executes |-> FALSE]
Call(kind, segments, static, style) ==
  [kind |-> kind, segments |-> segments, static |-> static, path |-> [style |-> style, place |-> "inside"]]
MCTools == {
  Call("edit", <<>>, FALSE, "relative"),
  Call("shell", <<Segment("other", TRUE, "no", FALSE), Segment("reader", FALSE, "null", TRUE)>>, FALSE, "relative"),
  Call("script", <<Segment("search", FALSE, "no", FALSE), Segment("reader", FALSE, "no", TRUE)>>, TRUE, "same")}

\* Gates: edits with one thing wrong each, and bundles around the smallest that passes.
MCEdit == [file |-> "a", anchor |-> "x", op |-> "replace", payload |-> 1, literal |-> FALSE,
           vetoed |-> FALSE, fences |-> {"doc"}, injects |-> FALSE]
MCEdits == {MCEdit, [MCEdit EXCEPT !.payload = 2], [MCEdit EXCEPT !.op = "set-knob"],
  [MCEdit EXCEPT !.anchor = "y", !.op = "delete", !.injects = TRUE], [MCEdit EXCEPT !.op = "rename"],
  [MCEdit EXCEPT !.literal = TRUE], [MCEdit EXCEPT !.vetoed = TRUE],
  [MCEdit EXCEPT !.injects = TRUE, !.anchor = "z"], [MCEdit EXCEPT !.fences = {"code"}]}
MCSound == [kind |-> "doc", fingerprinted |-> TRUE, rejectedBefore |-> FALSE, edits |-> <<MCEdit>>,
            appendixTooLong |-> FALSE, sentinel |-> "passes"]
Pair(cand, base, candRetry, baseRetry) ==
  [cand |-> cand, base |-> base, candRetry |-> candRetry, baseRetry |-> baseRetry]
Win == Pair("ok_pass", "ok_fail", "none", "none")
LateWin == Pair("ok_pass", "infra_fault", "none", "ok_fail")
Loss == Pair("workflow_fault", "ok_pass", "none", "none")
Lost == Pair("infra_fault", "infra_fault", "ok_pass", "none")
Even == Pair("ok_pass", "ok_pass", "none", "none")
MCPairKinds == {Win, LateWin, Loss, Lost, Even}
Bundle(win, late, loss, lost, even) ==
  [confirmation |-> Win :> win @@ LateWin :> late @@ Loss :> loss @@ Lost :> lost @@ Even :> even,
   selection |-> [k \in MCPairKinds |-> 0], slice |-> {}, tampered |-> FALSE, hard |-> FALSE]
MCSpoiled == [Bundle(7, 0, 1, 0, 0) EXCEPT !.hard = TRUE]
MCBundles ==
  {Bundle(win, late, loss, lost, even) :
     win \in 0..7, late \in 0..2, loss \in 0..1, lost \in 0..2, even \in 0..1} \cup
  {MCSpoiled, [Bundle(7, 0, 1, 0, 0) EXCEPT !.slice = {Loss}], [Bundle(7, 0, 1, 0, 0) EXCEPT !.tampered = TRUE]}

\* Scenarios: one for each outcome.
Scenario(crashAfter, outcome, expected, budget) ==
  [steps |-> <<"a", "b">>, crashAfter |-> crashAfter, outcome |-> outcome, expected |-> expected,
   budget |-> budget, once |-> TRUE]
MCScenarios == {Scenario("no step", "complete", {1, 2}, FALSE), Scenario("a", "crash-recovered", {1, 2}, FALSE),
  Scenario("no step", "halt", {1}, FALSE), Scenario("no step", "budget-exceeded", {1}, TRUE)}

\* Tool runs: a tree with an excluded directory, a link and a file as large as the cap.
TreeEntry(kind, size, within, entry) == [kind |-> kind, size |-> size, within |-> within, name |-> entry]
MCEntries == {TreeEntry("dir", 0, "root", "d"), TreeEntry("file", 1, "root", "f"), TreeEntry("file", 1, "d", "g"),
  TreeEntry("dir", 0, "d", ".GIT"), TreeEntry("file", 1, ".GIT", "h"), TreeEntry("link", 0, "d", "l"), TreeEntry("file", 2, "d", "m")}
MCCanonical == [n \in {"d", "f", "g", ".GIT", "h", "l", "m"} |-> IF n = ".GIT" THEN ".git" ELSE n]
Tool1(trust, image) == [trust |-> trust, command |-> TRUE, image |-> image, report |-> "r", says |-> {"pass"}]
MCToolRegistry == <<Tool1("trusted", FALSE), Tool1("byo", TRUE)>>

\* Assurance: a project for each step of the packet that can go wrong.
MCGood == [manager |-> TRUE, pipeline |-> "good", workers |-> "all", runs |-> "completes", logs |-> TRUE,
           doubles |-> FALSE, files |-> TRUE, lint |-> "clean", routes |-> FALSE, left |-> "none"]
MCProjects == {MCGood, [MCGood EXCEPT !.runs = "silent"],
  [MCGood EXCEPT !.runs = "fails", !.lint = "unfinished"], [MCGood EXCEPT !.runs = "slow", !.lint = "violations"],
  [MCGood EXCEPT !.doubles = TRUE, !.left = "reached"], [MCGood EXCEPT !.pipeline = "repeated", !.routes = TRUE],
  [MCGood EXCEPT !.routes = TRUE, !.left = "blocked"]}
MCWhole == [scenario |-> "passes", corpus |-> TRUE, chaos |-> "passes", linter |-> TRUE, gate |-> "rejects",
            sandbox |-> TRUE, attacks |-> "pass"]
MCInstallations == {MCWhole, [MCWhole EXCEPT !.scenario = "absent", !.chaos = "absent", !.linter = FALSE,
                                             !.sandbox = FALSE, !.gate = "absent"]}

\* Integrity: the directories of the listed files.
MCDir == "core.js" :> "scripts" @@ "doc.md" :> "docs" @@ "x.json" :> "ev"

\* Capability reports: the best observation and three with gaps in different columns.
MCBest == [roundTrip |-> TRUE, crashed |-> TRUE, rolledForward |-> TRUE, adapters |-> "present",
  effects |-> {"read", "none"}, halt |-> "budget", before |-> "d1", after |-> "d1", refused |-> TRUE,
  packet |-> TRUE, listed |-> TRUE, release |-> "yes", project |-> "yes", workflow |-> TRUE, suite |-> "pass",
  lint |-> "pass", sandbox |-> "pass", redteam |-> "pass", throws |-> {}]
MCObservations == {MCBest,
  [MCBest EXCEPT !.rolledForward = FALSE, !.adapters = "none", !.halt = "none", !.after = "d2",
                 !.release = "unavailable", !.lint = "unavailable", !.sandbox = "unavailable"],
  [MCBest EXCEPT !.throws = {"R", "G"}, !.effects = {"novel"}, !.project = "no", !.workflow = FALSE],
  [MCBest EXCEPT !.adapters = "invalid", !.before = "", !.after = "", !.suite = "fail", !.sandbox = "absent"]}

\* Attestation: a run of each mode, and one with a conditional artifact missing.
MCSkill == [id |-> "s1", approved |-> TRUE, signed |-> TRUE, generated |-> FALSE]
MCRun == [mode |-> "standard", trace |-> {"step"}, extra |-> {}, output |-> {"o1"}, skills |-> {MCSkill},
          suites |-> {"blocked"}, profiles |-> {"A", "X"}]
MCRuns == {MCRun,
  [MCRun EXCEPT !.mode = "regulator", !.extra = {"regulator_summary"}, !.output = {"o2"}, !.profiles = {"A", "T"}],
  [MCRun EXCEPT !.mode = "deterministic", !.trace = {"step", "auto_promote", "repair", "secret"}, !.extra = {"repair_log"},
                !.suites = {"blocked", "leaked"}, !.skills = {[MCSkill EXCEPT !.approved = FALSE, !.generated = TRUE]}],
  [MCRun EXCEPT !.trace = {"repair", "model_call"}, !.suites = {"blocked", "leaked"}]}

\* Regulated mode: policies that ask for different preconditions.
MCObligations == {[id |-> "o1", kind |-> "profile", declared |-> "covered", judged |-> FALSE],
                  [id |-> "o2", kind |-> "none", declared |-> "manual-only", judged |-> TRUE]}
MCEvidence == {[profile |-> "verified", blocked |-> 0], [profile |-> "unavailable", blocked |-> 0]}
MCReleases == {[signed |-> "this", trusted |-> TRUE, disk |-> "none"], [signed |-> "other", trusted |-> TRUE, disk |-> "none"]}
MCPolicies == {
  [strict |-> TRUE, closed |-> TRUE, own |-> TRUE, n |-> 2, required |-> {"approver", "obligations"}],
  [strict |-> TRUE, closed |-> TRUE, own |-> FALSE, n |-> 1, required |-> {"retention", "release"}],
  [strict |-> TRUE, closed |-> TRUE, own |-> FALSE, n |-> 1, required |-> {"approver"}]}

\* Graphlint: three files.
MCLintFiles == <<"m", "n", "w">>

-----------------------------------------------------------------------------
VARIABLE part   \* the part whose behaviour this is

ASSUME PartsAssumption ==
  /\ GatesAssumption
  /\ CompilerAssumption
  /\ PostmortemAssumption
  /\ IntegrityAssumption
  /\ ToolAssumption
  /\ AssuranceAssumption
  /\ CapabilityAssumption
  /\ AttestationAssumption
  /\ RegisterAssumption
  /\ LintAssumption

MCInit ==
  /\ part \in {"gates", "compiler", "postmortem", "integrity", "scenarios", "tools",
    "assurance", "badges", "bundles", "register", "linter"}
  /\ (part # "gates" => (candidate = Clean /\ evidenceBundle = MCSpoiled)) /\ GateInit /\ (evidenceBundle = MCSpoiled \/ candidate = MCSound)
  /\ CompilerInit
  /\ (part # "postmortem" => harness = "codex") /\ StoryInit
  /\ (part # "integrity" => (release = "present" /\ projectManifest = "present")) /\ IntegrityInit
  /\ (part # "scenarios" => (scenario = CHOOSE s \in MCScenarios : TRUE)) /\ ReplayInit
  /\ (part # "tools" => source = {}) /\ ToolInit
  /\ (part # "assurance" => (edition = MCGood /\ install = MCWhole)) /\ AssuranceInit
  /\ BadgeInit
  /\ AttestInit
  /\ RegisterInit
  /\ (part # "linter" => (imports = [f \in FileSet |-> <<>>] /\ calls = {} /\ saves = {})) /\ LintInit

MCNext ==
  \/ part = "gates" /\ GateNext /\ UNCHANGED <<part, compilerVars, storyVars, integrityVars,
    replayVars, runVars, assuranceVars, capabilityVars, attestVars, regVars, lintVars>>
  \/ part = "compiler" /\ CompilerNext /\ UNCHANGED <<part, gateVars, storyVars, integrityVars,
    replayVars, runVars, assuranceVars, capabilityVars, attestVars, regVars, lintVars>>
  \/ part = "postmortem" /\ StoryNext /\ UNCHANGED <<part, gateVars, compilerVars,
    integrityVars, replayVars, runVars, assuranceVars, capabilityVars, attestVars, regVars,
    lintVars>>
  \/ part = "integrity" /\ IntegrityNext /\ UNCHANGED <<part, gateVars, compilerVars, storyVars,
    replayVars, runVars, assuranceVars, capabilityVars, attestVars, regVars, lintVars>>
  \/ part = "scenarios" /\ ReplayNext /\ UNCHANGED <<part, gateVars, compilerVars, storyVars,
    integrityVars, runVars, assuranceVars, capabilityVars, attestVars, regVars, lintVars>>
  \/ part = "tools" /\ ToolNext /\ UNCHANGED <<part, gateVars, compilerVars, storyVars,
    integrityVars, replayVars, assuranceVars, capabilityVars, attestVars, regVars, lintVars>>
  \/ part = "assurance" /\ AssuranceNext /\ UNCHANGED <<part, gateVars, compilerVars, storyVars,
    integrityVars, replayVars, runVars, capabilityVars, attestVars, regVars, lintVars>>
  \/ part = "badges" /\ BadgeNext /\ UNCHANGED <<part, gateVars, compilerVars, storyVars,
    integrityVars, replayVars, runVars, assuranceVars, attestVars, regVars, lintVars>>
  \/ part = "bundles" /\ AttestNext /\ UNCHANGED <<part, gateVars, compilerVars, storyVars,
    integrityVars, replayVars, runVars, assuranceVars, capabilityVars, regVars, lintVars>>
  \/ part = "register" /\ RegisterNext /\ UNCHANGED <<part, gateVars, compilerVars, storyVars,
    integrityVars, replayVars, runVars, assuranceVars, capabilityVars, attestVars, lintVars>>
  \/ part = "linter" /\ LintNext /\ UNCHANGED <<part, gateVars, compilerVars, storyVars,
    integrityVars, replayVars, runVars, assuranceVars, capabilityVars, attestVars, regVars>>

MCSpec == MCInit /\ [][MCNext]_<<part, gateVars, compilerVars, storyVars, integrityVars,
  replayVars, runVars, assuranceVars, capabilityVars, attestVars, regVars, lintVars>>

=============================================================================
