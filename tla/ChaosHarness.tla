----------------------------- MODULE ChaosHarness --------------------------------
(***************************************************************************)
(* The chaos harness (scripts/chaos.js), which kills the manager of a      *)
(* project after its first checkpoint, restarts it and judges from what    *)
(* the two runs wrote whether the project recovers from a crash.           *)
(*                                                                         *)
(* The project is any project of the conventions of scripts/scaffold.js:   *)
(* which of its rules its manager and its workers keep is a constant of    *)
(* the run.  Harness, manager and guard are processes of their own, and    *)
(* the manager goes on between the harness's look and its kill.            *)
(***************************************************************************)
EXTENDS Naturals, FiniteSets, Functions

CONSTANTS
  Steps,        \* the number of steps
  Projects      \* dedups, skips, refuses, leases and guarded are Booleans; intends, records and
                \* halts are the steps whose worker writes intents, records effects, halts

ChaosAssumption ==
  /\ Steps \in Nat \ {0}
  /\ \A p \in Projects : p.intends \cup p.records \cup p.halts \subseteq 1..Steps

VARIABLES
  project,
  victim,     \* "off", "running", "done", "unresolved" or "broken"
  step, at,   \* where it is: "look", "act", "record", "save"
  skipped,    \* the steps that this start reported as skipped
  saved,      \* the checkpoints
  intents,    \* intents.log
  recorded,   \* how often each step stands in effects.log
  sent,       \* how often the effect of each step really happened
  deadman,    \* "off", "armed", "orphaned" (armed, and dead itself), "withdrawn", "tripped"
  stage,      \* where the harness is
  survived,   \* the checkpoints that it saw before it killed
  verdict     \* "none", "pass", "halt" or "fail"

managerVars == <<step, at, skipped, saved, intents, recorded, sent>>
chaosVars == <<project, victim, managerVars, deadman, stage, survived, verdict>>

-----------------------------------------------------------------------------
(* The manager and the worker stubs.                                        *)

Running == victim = "running"

StepTo(k, place) == step' = k /\ at' = place

\* A completed effect is not repeated, an intent without its completion halts the
\* worker, and otherwise the intent goes ahead of the effect.
LookStep ==
  /\ Running /\ at = "look" /\ step <= Steps
  /\ IF project.skips /\ step \in saved THEN
            /\ skipped' = skipped \cup {step} /\ StepTo(step + 1, "look")
            /\ UNCHANGED <<victim, intents>>
     ELSE IF project.dedups /\ recorded[step] > 0 THEN
            StepTo(step, "save") /\ UNCHANGED <<victim, skipped, intents>>
     ELSE IF step \in project.halts \cap intents /\ recorded[step] = 0 THEN
            victim' = "unresolved" /\ UNCHANGED <<step, at, skipped, intents>>
     ELSE
            /\ intents' = IF step \in project.intends THEN intents \cup {step} ELSE intents
            /\ StepTo(step, "act") /\ UNCHANGED <<victim, skipped>>
  /\ UNCHANGED <<project, saved, recorded, sent, deadman, stage, survived, verdict>>

ActStep ==
  /\ Running /\ at = "act" /\ StepTo(step, "record")
  /\ sent' = [sent EXCEPT ![step] = @ + 1]
  /\ UNCHANGED <<project, victim, skipped, saved, intents, recorded, deadman, stage, survived, verdict>>

RecordStep ==
  /\ Running /\ at = "record" /\ StepTo(step, "save")
  /\ recorded' = IF step \in project.records THEN [recorded EXCEPT ![step] = @ + 1] ELSE recorded
  /\ UNCHANGED <<project, victim, skipped, saved, intents, sent, deadman, stage, survived, verdict>>

SaveStep ==
  /\ Running /\ at = "save" /\ StepTo(step + 1, "look")
  /\ saved' = saved \cup {step}
  /\ UNCHANGED <<project, victim, skipped, intents, recorded, sent, deadman, stage, survived, verdict>>

\* A manager that is through withdraws the guard's switch.
Finish ==
  /\ Running /\ step > Steps /\ victim' = "done"
  /\ deadman' = IF deadman = "armed" THEN "withdrawn" ELSE deadman
  /\ UNCHANGED <<project, managerVars, stage, survived, verdict>>

Break ==
  /\ Running /\ stage = "resumed" /\ victim' = "broken"
  /\ UNCHANGED <<project, managerVars, deadman, stage, survived, verdict>>

Manager == LookStep \/ ActStep \/ RecordStep \/ SaveStep \/ Finish \/ Break

\* The guard outlives its manager and withdraws its switch, or it trips on something
\* that the harness did not do.
Guard ==
  /\ deadman = "armed"
  /\ \/ victim = "off" /\ deadman' = "withdrawn"
     \/ Running /\ deadman' = "tripped"
  /\ UNCHANGED <<project, victim, managerVars, stage, survived, verdict>>

-----------------------------------------------------------------------------
(* The harness.                                                             *)

Fails == verdict' = "fail" /\ stage' = "over"

StartManager ==
  /\ victim' = "running" /\ StepTo(1, "look") /\ skipped' = {}
  /\ deadman' = IF project.guarded THEN "armed" ELSE "off"
  /\ UNCHANGED <<saved, intents, recorded, sent>>

FirstStart ==
  /\ stage = "start" /\ StartManager /\ stage' = "poll"
  /\ UNCHANGED <<project, survived, verdict>>

\* It looks every 25 ms and gives up after 15 s without a checkpoint.  A finished
\* manager it sees only when it has been told of the exit.
PollCheckpoints ==
  /\ stage = "poll"
  /\ \/ saved # {} /\ survived' = saved /\ stage' = "kill" /\ UNCHANGED verdict
     \/ ~Running /\ Fails /\ UNCHANGED survived
     \/ saved = {} /\ Fails /\ UNCHANGED survived
  /\ UNCHANGED <<project, victim, managerVars, deadman>>

\* The kill may take the guard with the manager.  A kill after everything was saved
\* has proved nothing.
Kill ==
  /\ stage = "kill" /\ victim' = "off"
  /\ deadman' \in IF deadman = "armed" THEN {"armed", "orphaned"} ELSE {deadman}
  /\ IF Cardinality(survived) >= Steps THEN Fails ELSE stage' = "guard" /\ UNCHANGED verdict
  /\ UNCHANGED <<project, managerVars, survived>>

\* It waits for the guard to withdraw its switch; a dead guard cannot.
GuardDisposition ==
  /\ stage = "guard"
  /\ CASE deadman = "orphaned" -> stage' = "refusal" /\ UNCHANGED verdict
       [] deadman \in {"off", "withdrawn"} -> stage' = "restart" /\ UNCHANGED verdict
       [] OTHER -> Fails
  /\ UNCHANGED <<project, victim, managerVars, deadman, survived>>

\* A start past a dead guard has to be refused until it is acknowledged.
Refusal ==
  /\ stage = "refusal"
  /\ IF project.refuses THEN stage' = "restart" /\ UNCHANGED verdict ELSE Fails
  /\ UNCHANGED <<project, victim, managerVars, deadman, survived>>

Restart ==
  /\ stage = "restart" /\ StartManager /\ stage' = "resumed"
  /\ UNCHANGED <<project, survived, verdict>>

NoDuplicates == \A k \in 1..Steps : recorded[k] <= 1

\* A halt counts when the logs justify it.
JudgeHalt ==
  /\ stage = "resumed" /\ victim \in {"unresolved", "broken"} /\ stage' = "over"
  /\ verdict' = IF /\ victim = "unresolved"
                   /\ \E k \in intents : recorded[k] = 0
                   /\ NoDuplicates
                  THEN "halt" ELSE "fail"
  /\ UNCHANGED <<project, victim, managerVars, deadman, survived>>

\* Mutant of KillTest: the completion marker is taken for it.
KillTestByMarker == victim = "done"

KillTest == survived \subseteq skipped

\* Every recorded effect once, and none without its intent.
DoubleRunTest ==
  /\ \E k \in 1..Steps : recorded[k] > 0
  /\ NoDuplicates
  /\ \A k \in 1..Steps : recorded[k] > 0 => k \in intents

JudgeResumed ==
  /\ stage = "resumed" /\ victim = "done"
  /\ IF KillTest /\ DoubleRunTest THEN stage' = "probes" /\ UNCHANGED verdict ELSE Fails
  /\ UNCHANGED <<project, victim, managerVars, deadman, survived>>

\* Runs of their own, each from a state that the harness puts on the disk: an intent
\* of the first step alone; a lock that is held, and one that is dead, expired or fresh.
PowerLossProbe == 1 \in project.halts
LockProbes == project.leases

Probes ==
  /\ stage = "probes" /\ stage' = "over"
  /\ verdict' = IF PowerLossProbe /\ LockProbes THEN "pass" ELSE "fail"
  /\ UNCHANGED <<project, victim, managerVars, deadman, survived>>

Harness ==
  \/ FirstStart \/ PollCheckpoints \/ Kill \/ GuardDisposition \/ Refusal \/ Restart
  \/ JudgeHalt \/ JudgeResumed \/ Probes

ChaosInit ==
  /\ project \in Projects /\ victim = "off" /\ step = 1 /\ at = "look" /\ skipped = {}
  /\ saved = {} /\ intents = {} /\ recorded = [k \in 1..Steps |-> 0]
  /\ sent = [k \in 1..Steps |-> 0] /\ deadman = "off" /\ stage = "start"
  /\ survived = {} /\ verdict = "none"

ChaosNext == Manager \/ Guard \/ Harness

ChaosSpec == ChaosInit /\ [][ChaosNext]_chaosVars

-----------------------------------------------------------------------------
\* What the harness certifies is so: no step that had its checkpoint before the kill
\* was worked on again, and no effect of any step was recorded twice.
RecoveryIsEarned ==
  /\ verdict \in {"pass", "halt"} => NoDuplicates
  /\ verdict = "pass" => \A k \in survived : sent[k] = 1
=============================================================================
