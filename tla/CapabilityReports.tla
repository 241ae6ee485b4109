--------------------------- MODULE CapabilityReports -----------------------------
(***************************************************************************)
(* The capability profiles: the sentinel draws up a report on every        *)
(* platform (runProfiles of scripts/verify.js); the badge                  *)
(* (scripts/badge.js) and the matrix (scripts/matrix.js) are drawn from    *)
(* the reports that CI collected, in the order in which it names them.     *)
(*                                                                         *)
(* An observation is what the checks of one sentinel run found.  Dates are *)
(* injected and never read from a clock: one day, or none.  A report may be *)
(* older than the change of status it should have told of, may come twice  *)
(* from one platform, and may be cut short on its way.                     *)
(***************************************************************************)
EXTENDS Naturals, SequencesExt

CONSTANTS
  Platforms, Observations,
  MaxDay, MaxAge,     \* days, and the age up to which a report is fresh
  MaxReports

\* The check of T only reads a report and throws nothing.
CapabilityAssumption ==
  /\ {MaxDay, MaxAge, MaxReports} \subseteq Nat
  /\ \A o \in Observations : "T" \notin o.throws

VARIABLES
  sentinelReports,    \* as CI collected them, with the observation each was drawn from
  day,        \* the day injected into the sentinel's runs and into the badge
  shown       \* the badge and the matrix, or nothing yet

capabilityVars == <<sentinelReports, day, shown>>

NoBadge == [state |-> "none"]
NothingShown == [badge |-> NoBadge]
Profiles == {"R", "E", "B", "T", "G", "Q", "X"}
JudgeProfile(available, ok) ==
  IF ~available THEN "unavailable" ELSE IF ok THEN "verified" ELSE "failed"

-----------------------------------------------------------------------------
(* The profiles of scripts/verify.js.                                       *)

\* A checkpoint round trip and a torn mutation that is rolled forward.
ProfileResumableState(o) == JudgeProfile(TRUE, o.roundTrip /\ o.crashed /\ o.rolledForward)

\* The kind of capability that an adapter declares for an effect.
ReconciliationClass(effect) ==
  CASE effect \in {"read", "read-only"} -> "no-external-effects"
    [] effect \in {"local-transactional", "idempotent-by-key"} -> "safe-to-resume"
    [] effect \in {"status-checkable", "none"} -> "reconciliation-required"
    [] OTHER -> "unmapped"

\* Declarations: "none", "unreadable", "invalid" or "present".
ProfileEffectReconciliation(o) ==
  JudgeProfile(o.adapters # "none",
        o.adapters = "present" /\ \A e \in o.effects : ReconciliationClass(e) # "unmapped")

ProfileBudgetEnforced(o) == JudgeProfile(TRUE, o.halt = "budget")

\* Two digests have to be there before they count as equal.
ClassifyGatedLearning(before, after, proposed) ==
  JudgeProfile("" \notin {before, after}, before = after /\ proposed)

\* A proposal is staged and refused without a confirmation: ACTIVE has its digest.
ProfileGatedLearning(o) ==
  ClassifyGatedLearning(o.before, o.after, o.refused /\ o.packet /\ o.listed)

ProfileTrust(o) ==
  JudgeProfile(o.release # "unavailable", o.release = "yes" /\ o.project = "yes")

ProfileAssuranceTested(o) ==
  JudgeProfile(o.workflow /\ o.lint # "unavailable", o.suite = "pass" /\ o.lint = "pass")

\* The battery does not count unless it says that its sandbox was open.
ClassifyAdversarial(sandbox, battery) == JudgeProfile(sandbox = "pass", battery = "pass")

\* Mutant of ProfileAdversariallyTested: a report without that check passes.
AdversarialWithoutSandbox(o) ==
  JudgeProfile(o.workflow /\ o.sandbox # "unavailable", o.redteam = "pass")

ProfileAdversariallyTested(o) ==
  IF o.workflow THEN ClassifyAdversarial(o.sandbox, o.redteam) ELSE "unavailable"

\* A check that throws has failed; T is read off the integrity report, which does not.
RunProfiles(o) ==
  LET safe(k, status) == IF k \in o.throws THEN "failed" ELSE status IN
  [k \in Profiles |->
     CASE k = "R" -> safe(k, ProfileResumableState(o))
       [] k = "E" -> safe(k, ProfileEffectReconciliation(o))
       [] k = "B" -> safe(k, ProfileBudgetEnforced(o))
       [] k = "G" -> safe(k, ProfileGatedLearning(o))
       [] k = "Q" -> safe(k, ProfileAssuranceTested(o))
       [] k = "X" -> safe(k, ProfileAdversariallyTested(o))
       [] OTHER -> ProfileTrust(o)]

\* A sentinel run on a platform; its date is injected, or it has none.  A report that
\* is cut short cannot be parsed.
VerifyPlatform(platform, o, dated, whole) ==
  /\ Len(sentinelReports) < MaxReports
  /\ sentinelReports' = Append(sentinelReports, [platform |-> platform, date |-> IF dated THEN {day} ELSE {},
                                 profiles |-> RunProfiles(o), whole |-> whole, of |-> o])
  /\ shown' = NothingShown /\ UNCHANGED day

-----------------------------------------------------------------------------
(* The badge.                                                               *)

\* The reference date is injected as well; a report from after it is stale too.
Fresh(r, now) ==
  \E d \in r.date, n \in now : d <= n /\ n - d <= MaxAge

EffectiveStatus(r, k, now) ==
  IF r.profiles[k] = "verified" /\ ~Fresh(r, now) THEN "stale" ELSE r.profiles[k]

BadgeProfile(k, now) ==
  LET seen == {EffectiveStatus(r, k, now) : r \in ToSet(sentinelReports)} IN
  CASE "failed" \in seen -> "failed"
    [] seen = {"verified"} -> "verified"
    [] OTHER -> "unavailable"

BuildModel(now) ==
  LET of == [k \in Profiles |-> BadgeProfile(k, now)]
      stale == \E r \in ToSet(sentinelReports) : ~Fresh(r, now) IN
  [profiles |-> of,
   overall |-> IF "failed" \in {of[k] : k \in Profiles} THEN "failed"
               ELSE IF {of[k] : k \in Profiles} = {"verified"} /\ ~stale THEN "verified"
               ELSE IF stale THEN "stale"
               ELSE "partial"]

BuildDescriptor(model) ==
  [state |-> model.overall, profiles |-> model.profiles,
   color |-> CASE model.overall = "verified" -> "brightgreen"
               [] model.overall = "failed" -> "red"
               [] model.overall = "stale" -> "yellow"
               [] OTHER -> "lightgrey"]

-----------------------------------------------------------------------------
(* The matrix.                                                              *)

\* Reports that cannot be parsed are passed over, and of the reports of one platform
\* the last one counts.
AggregateReports ==
  LET of(p) == {i \in DOMAIN sentinelReports :
                  sentinelReports[i].whole /\ sentinelReports[i].platform = p} IN
  [p \in {q \in Platforms : of(q) # {}} |-> sentinelReports[Max(of(p))].profiles]

MatrixJson(matrix) == [p \in DOMAIN matrix |-> [k \in Profiles |-> matrix[p][k]]]

\* CI draws both from the same reports; the badge gives up on one it cannot parse.
Render(now) ==
  /\ sentinelReports # <<>> /\ shown = NothingShown
  /\ shown' = [badge |-> IF \A r \in ToSet(sentinelReports) : r.whole THEN BuildDescriptor(BuildModel(now))
                         ELSE NoBadge,
               matrix |-> MatrixJson(AggregateReports), on |-> now]
  /\ UNCHANGED <<sentinelReports, day>>

DayPasses ==
  /\ day < MaxDay /\ day' = day + 1 /\ shown' = NothingShown /\ UNCHANGED sentinelReports

BadgeInit == sentinelReports = <<>> /\ day = 0 /\ shown = NothingShown

BadgeNext ==
  \/ \E p \in Platforms, o \in Observations, dated, whole \in BOOLEAN : VerifyPlatform(p, o, dated, whole)
  \/ \E now \in {{day}, {}} : Render(now)
  \/ DayPasses

BadgeSpec == BadgeInit /\ [][BadgeNext]_capabilityVars

-----------------------------------------------------------------------------
\* What a profile claims, in terms of what was seen rather than of any verdict.
Seen(k, o) ==
  /\ k \notin o.throws
  /\ CASE k = "R" -> o.roundTrip /\ o.rolledForward
       [] k = "E" -> o.adapters = "present" /\ "novel" \notin o.effects
       [] k = "B" -> o.halt = "budget"
       [] k = "T" -> o.release = "yes"
       [] k = "G" -> o.refused /\ o.before = o.after /\ o.before # ""
       [] k = "Q" -> o.workflow /\ o.suite = "pass" /\ o.lint = "pass"
       [] k = "X" -> o.workflow /\ o.redteam = "pass" /\ o.sandbox = "pass"

\* A profile that the badge shows as verified was seen to hold by every sentinel run
\* it was drawn from, none of them older than allowed, and the matrix of the same
\* reports says so for every platform.
GreenProfileWasSeenEverywhere ==
  shown # NothingShown /\ shown.badge # NoBadge =>
    \A k \in Profiles :
      shown.badge.profiles[k] = "verified" =>
        /\ \A r \in ToSet(sentinelReports) :
             Seen(k, r.of) /\ \E d \in r.date, n \in shown.on : n - d \in 0..MaxAge
        /\ \A p \in {r.platform : r \in ToSet(sentinelReports)} : shown.matrix[p][k] = "verified"
=============================================================================
