--------------------------- MODULE AttestationBundle -----------------------------
(***************************************************************************)
(* The attestation of a run: scripts/gsa-produce.js and gsa-mcp-shim.js    *)
(* seal it, gsa-verify.js verifies the sealed bundle, gsa-plan.js replays  *)
(* its hashes and compares it with an earlier one, and `graphsmith audit   *)
(* replay' (gsa-audit-replay.js) narrates a verdict, its own or one that   *)
(* was computed earlier and is piped in.                                   *)
(*                                                                         *)
(* A hash is the content it is of, and a signature the pair of the signer  *)
(* and of what was signed.  A trace is the set of kinds of step in it.     *)
(* The extended controls are what a manifest declares of them, and what    *)
(* its own fields (grants, receipts, registry, provenance) would show.     *)
(***************************************************************************)
EXTENDS Naturals, Functions

CONSTANTS
  Runs,                 \* what runs leave behind: see AttestationAssumption
  Signers,
  MaxSeals, MaxAlterations

RunModes == {"standard", "deterministic", "regulator"}

AttestationAssumption ==
  /\ {MaxSeals, MaxAlterations} \subseteq Nat
  /\ \A r \in Runs :
       /\ r = [mode |-> r.mode, trace |-> r.trace, extra |-> r.extra, output |-> r.output,
               skills |-> r.skills, suites |-> r.suites, profiles |-> r.profiles]
       /\ r.mode \in RunModes /\ r.suites \subseteq {"blocked", "leaked"}

VARIABLES
  bundle,       \* the bundle file
  earlier,      \* the bundle of the run before
  revoked,      \* the implementations that have been revoked since
  verdict,      \* a verdict that was written down, with the bundle it is of (history)
  replay,       \* the last audit replay
  sealed,       \* history: the manifests that were signed, by whom and over what contents
  honest,       \* history: whether the file is as it was sealed, of a complete run
  seals, alterations

attestVars == <<bundle, earlier, revoked, verdict, replay, sealed, honest, seals, alterations>>

NoBundle == [manifest |-> [mode |-> "none"], contents |-> << >>]
NoVerdict == [status |-> "none"]
NoReplay == [verified |-> FALSE, provenance |-> "none"]
NoContent == {}

Required == {"policy", "graph", "trace", "output"}
Nondeterministic == {"auto_promote"}
Repairs == {"repair"}
ModelDependent == {"model_call"}
ExtendedControls ==
  {"capability_conformance", "effects_reconciled", "signer_trust", "trace_redaction", "build_provenance"}

\* A run whose repairs are logged, and with a summary exactly in regulator mode.
Complete(run) ==
  /\ Repairs \cap run.trace # {} => "repair_log" \in run.extra
  /\ run.mode = "regulator" <=> "regulator_summary" \in run.extra

-----------------------------------------------------------------------------
(* Sealing.                                                                 *)

ComputeControls(m, trace, out) ==
  [no_creation |-> ~\E s \in m.skills : s.generated /\ ~s.approved,
   skills |-> m.skills # {} /\ \A s \in m.skills : s.signed /\ s.approved /\ s.id \notin out,
   deterministic |-> m.mode \in {"deterministic", "regulator"} /\ Nondeterministic \cap trace = {},
   regulator |-> m.mode = "regulator" /\ "regulator_summary" \in DOMAIN m.artifacts,
   batteries |-> m.suites # {} /\ \A s \in m.suites : s = "blocked"]

RunFiles(run) ==
  [a \in Required \cup run.extra |-> IF a = "trace" THEN run.trace ELSE IF a = "output" THEN run.output ELSE NoContent]

SkillSet(m) == {s.id : s \in m.skills}

\* The manifest without the signature over it.
Preimage(m) == Restrict(m, DOMAIN m \ {"signature"})

Sign(m, signer) == [f \in DOMAIN m \cup {"signature"} |-> IF f = "signature" THEN <<signer, Preimage(m)>> ELSE m[f]]

ProduceBundle(run, signer, out) ==
  LET files == RunFiles(run)
      m == [mode |-> run.mode, artifacts |-> files, skills |-> run.skills, suites |-> run.suites, profiles |-> run.profiles,
            declares |-> << >>, shows |-> {},
            plan |-> <<signer, files["graph"], files["policy"], {s.id : s \in run.skills}>>]
      full == [f \in DOMAIN m \cup {"controls"} |-> IF f = "controls" THEN ComputeControls(m, run.trace, out) ELSE m[f]]
  IN [manifest |-> Sign(full, signer), contents |-> files]

\* What an observer of tool calls can say of a session: nothing approved, no battery, no plan.
SealBoundaryBundle(run) ==
  [run EXCEPT !.mode = "standard", !.profiles = {"A"}, !.suites = {}, !.extra = {},
              !.skills = {[id |-> s.id, approved |-> FALSE, signed |-> FALSE, generated |-> FALSE] : s \in @}]

Produce(run, signer) ==
  /\ seals < MaxSeals /\ seals' = seals + 1
  /\ bundle' = ProduceBundle(run, signer, revoked) /\ earlier' = bundle
  /\ sealed' = sealed \cup {[signer |-> signer, manifest |-> Preimage(bundle'.manifest), contents |-> bundle'.contents]}
  /\ honest' = Complete(run)
  /\ UNCHANGED <<revoked, verdict, replay, alterations>>

-----------------------------------------------------------------------------
(* Verification, failing at the first step that does not hold.              *)

\* Mutant of ArtifactsMatch: what is listed is there, and nobody hashes it.
ArtifactsListed(b) == DOMAIN b.manifest.artifacts \subseteq DOMAIN b.contents

ArtifactsMatch(b) ==
  \A a \in DOMAIN b.manifest.artifacts : a \in DOMAIN b.contents /\ b.contents[a] = b.manifest.artifacts[a]

SignatureHolds(m, trusted) == m.signature[1] \in trusted /\ m.signature[2] = Preimage(m)

\* A plan signed by somebody unknown passes: only its hashes are compared.
PlanHolds(b) ==
  LET m == b.manifest IN
  m.plan[2] = b.contents["graph"] /\ m.plan[3] = b.contents["policy"] /\ m.plan[4] = SkillSet(m)

ConditionalPresence(b) ==
  LET arts == DOMAIN b.manifest.artifacts IN
  /\ Repairs \cap b.contents["trace"] # {} => "repair_log" \in arts
  /\ b.manifest.mode = "regulator" <=> "regulator_summary" \in arts

\* The verifier has its own computation of what may be claimed.
ControlsHold(m, trace, out) ==
  /\ m.controls.no_creation = \A s \in m.skills : s.generated => s.approved
  /\ m.controls.skills = (m.skills # {} /\ ~\E s \in m.skills : ~s.signed \/ ~s.approved \/ s.id \in out)
  /\ m.controls.deterministic = (m.mode # "standard" /\ Nondeterministic \cap trace = {})
  /\ m.controls.regulator = (m.mode = "regulator" /\ "regulator_summary" \in DOMAIN m.artifacts)
  /\ m.controls.batteries = (m.suites # {} /\ "leaked" \notin m.suites)

\* An extended control is computed again when it is declared; a leak belies a redacted trace.
Demonstrated(m, trace) == {c \in m.shows : c = "trace_redaction" => "secret" \notin trace}

ExtendedHold(m, trace) ==
  \A c \in DOMAIN m.declares : c \in ExtendedControls /\ m.declares[c] = (c \in Demonstrated(m, trace))

VerifyBundle(b, trusted, out) ==
  LET m == b.manifest
      passes == /\ m.mode # "none" /\ Required \subseteq DOMAIN m.artifacts
                /\ ArtifactsMatch(b) /\ ConditionalPresence(b)
                /\ SignatureHolds(m, trusted) /\ PlanHolds(b)
                /\ ControlsHold(m, b.contents["trace"], out) /\ ExtendedHold(m, b.contents["trace"])
      confirmed == {p \in m.profiles : p = "A" \/ (p = "X" /\ m.controls.batteries) \/ (p = "T" /\ m.signature[1] \in trusted)}
  IN IF passes THEN [status |-> "PASS", confirmed |-> confirmed] ELSE [status |-> "FAIL", confirmed |-> {}]

\* A verdict is kept in a file; the file does not say which bundle it is of.
VerifyAttestation(trusted) ==
  /\ bundle # NoBundle
  /\ verdict' = VerifyBundle(bundle, trusted, revoked)
  /\ UNCHANGED <<bundle, earlier, revoked, replay, sealed, honest, seals, alterations>>

-----------------------------------------------------------------------------
(* Audit replay.                                                            *)

ReplayBundle(b) == ArtifactsMatch(b) /\ PlanHolds(b)

Rank == [mode \in RunModes |-> IF mode = "standard" THEN 0 ELSE IF mode = "deterministic" THEN 1 ELSE 2]

\* What a human is asked about before a run is done again.
Destructive(prev, curr) ==
  \/ \E a \in DOMAIN prev.manifest.artifacts :
       a \notin DOMAIN curr.manifest.artifacts \/ (a = "output" /\ prev.manifest.artifacts[a] # curr.manifest.artifacts[a])
  \/ Rank[curr.manifest.mode] < Rank[prev.manifest.mode]
  \/ ~(prev.manifest.profiles \subseteq curr.manifest.profiles)

Eligible(provenance, v) == provenance = "live" /\ v.status = "PASS"

\* The dimensions read the controls of the bundle; one that is not eligible is unavailable.
BuildDimensions(b, provenance, v) ==
  LET c == b.manifest.controls IN
  IF ~Eligible(provenance, v) THEN {}
  ELSE {d \in {"provenance_signing", "determinism_repair", "adversarial_coverage", "extended_controls"} :
          CASE d = "provenance_signing" -> c.skills
            [] d = "determinism_repair" -> b.manifest.mode # "standard" => c.deterministic
            [] d = "adversarial_coverage" -> c.batteries
            [] d = "extended_controls" -> b.manifest.declares # << >> /\ \A x \in DOMAIN b.manifest.declares : b.manifest.declares[x]}

\* Every marker word the trace holds, whatever the verdict.
Marks(b) ==
  (Nondeterministic \cup ModelDependent \cup Repairs) \cap (IF "trace" \in DOMAIN b.contents THEN b.contents["trace"] ELSE {})

ComposeReport(provenance, v) ==
  replay' = [provenance |-> provenance, of |-> bundle, dimensions |-> BuildDimensions(bundle, provenance, v),
             reproducible |-> ReplayBundle(bundle),
             marks |-> Marks(bundle),
             safe |-> earlier = NoBundle \/ ~Destructive(earlier, bundle),
             green |-> provenance = "live" /\ v.status = "PASS"]

AuditReplay(trusted) ==
  /\ bundle # NoBundle
  /\ ComposeReport("live", VerifyBundle(bundle, trusted, revoked))
  /\ UNCHANGED <<bundle, earlier, revoked, verdict, sealed, honest, seals, alterations>>

\* --no-verify: the verdict that is piped in only has to have the shape of one.
AuditReplayOf(v) ==
  /\ bundle # NoBundle /\ v # NoVerdict
  /\ ComposeReport("external", v)
  /\ UNCHANGED <<bundle, earlier, revoked, verdict, sealed, honest, seals, alterations>>

-----------------------------------------------------------------------------
(* What happens to a bundle file, and to what it relies on.                 *)

Alter ==
  /\ bundle # NoBundle /\ alterations < MaxAlterations /\ alterations' = alterations + 1 /\ honest' = FALSE
  /\ \/ \E a \in DOMAIN bundle.contents : bundle' = [bundle EXCEPT !.contents[a] = {"altered"}]
     \/ \E a \in DOMAIN bundle.contents :
          bundle' = [bundle EXCEPT !.contents[a] = {"altered"}, !.manifest.artifacts[a] = {"altered"}]
     \/ earlier # NoBundle /\ bundle' = [bundle EXCEPT !.manifest.signature = earlier.manifest.signature]
     \/ \E a \in DOMAIN bundle.contents \ Required :
          bundle' = [manifest |-> [bundle.manifest EXCEPT !.artifacts = Restrict(@, DOMAIN @ \ {a})],
                     contents |-> Restrict(bundle.contents, DOMAIN bundle.contents \ {a})]
     \/ \E mode \in RunModes : bundle' = [bundle EXCEPT !.manifest.mode = mode]
     \/ bundle' = [bundle EXCEPT !.manifest.controls.batteries = ~@]
     \/ bundle' = [bundle EXCEPT !.manifest.profiles = @ \cup {"X"}]
  /\ UNCHANGED <<earlier, revoked, verdict, replay, sealed, seals>>

\* What a manifest may be made to claim instead.
OtherClaims(m) ==
  LET declarations == UNION {[{c} -> BOOLEAN] : c \in ExtendedControls \cup {"made_up"}} IN
  UNION {{[m EXCEPT !.controls[c] = ~@] : c \in DOMAIN m.controls},
         {[m EXCEPT !.mode = mode] : mode \in RunModes},
         {[m EXCEPT !.declares = d] : d \in declarations},
         {[m EXCEPT !.declares = d, !.shows = ExtendedControls] : d \in declarations},
         {[m EXCEPT !.profiles = @ \cup {"X"}]}}

\* Whoever has the key of a bundle can have it claim more, or less, and sign it again.
Reseal ==
  /\ bundle # NoBundle /\ alterations < MaxAlterations /\ alterations' = alterations + 1 /\ honest' = FALSE
  /\ \E s \in sealed :
       /\ s.manifest = Preimage(bundle.manifest)
       /\ \E m \in OtherClaims(s.manifest) :
            /\ bundle' = [manifest |-> Sign(m, s.signer), contents |-> bundle.contents]
            /\ sealed' = sealed \cup {[s EXCEPT !.manifest = m]}
  /\ UNCHANGED <<earlier, revoked, verdict, replay, seals>>

Revoke ==
  /\ alterations < MaxAlterations /\ alterations' = alterations + 1 /\ honest' = FALSE
  /\ \E s \in UNION {r.skills : r \in Runs} : s.id \notin revoked /\ revoked' = revoked \cup {s.id}
  /\ UNCHANGED <<bundle, earlier, verdict, replay, sealed, seals>>

AttestInit ==
  /\ bundle = NoBundle /\ earlier = NoBundle /\ revoked = {} /\ verdict = NoVerdict /\ replay = NoReplay
  /\ sealed = {} /\ honest = FALSE /\ seals = 0 /\ alterations = 0

AttestNext ==
  \/ \E run \in Runs, signer \in Signers : Produce(run, signer) \/ Produce(SealBoundaryBundle(run), signer)
  \/ \E trusted \in SUBSET Signers : VerifyAttestation(trusted) \/ AuditReplay(trusted)
  \/ AuditReplayOf(verdict) \/ Alter \/ Reseal \/ Revoke

AttestSpec == AttestInit /\ [][AttestNext]_attestVars

-----------------------------------------------------------------------------
(* Properties.                                                              *)

\* What a manifest claims is shown by its own lists and by a trace.
ClaimsAreShown(m, trace) ==
  /\ m.controls.no_creation => {s \in m.skills : s.generated} \subseteq {s \in m.skills : s.approved}
  /\ m.controls.skills => m.skills # {} /\ \A s \in m.skills : s.signed /\ s.approved /\ s.id \notin revoked
  /\ m.controls.deterministic => m.mode # "standard" /\ "auto_promote" \notin trace
  /\ m.mode = "regulator" <=> "regulator_summary" \in DOMAIN m.artifacts
  /\ "repair" \in trace => "repair_log" \in DOMAIN m.artifacts
  /\ \A c \in DOMAIN m.declares :
       m.declares[c] => c \in m.shows /\ c \in ExtendedControls /\ (c = "trace_redaction" => "secret" \notin trace)

\* A bundle that verifies is one that a trusted signer sealed: the manifest, and the
\* contents of all that it lists.  What it claims, and the profiles that are confirmed,
\* are shown by what was sealed: X only when all batteries held; neither an alteration nor
\* a signer who has it claim more than its evidence gets a verdict for it.
PassIsAsSealed ==
  \A trusted \in SUBSET Signers :
    LET m == bundle.manifest
        v == VerifyBundle(bundle, trusted, revoked) IN
    v.status = "PASS" =>
      \E s \in sealed :
        /\ s.signer \in trusted /\ s.manifest = Preimage(m)
        /\ \A a \in DOMAIN m.artifacts : bundle.contents[a] = s.contents[a]
        /\ ClaimsAreShown(m, s.contents["trace"])
        /\ v.confirmed \subseteq m.profiles
        /\ "X" \in v.confirmed => m.suites # {} /\ m.suites \subseteq {"blocked"}

\* What the producer seals of a complete run verifies with the producer's key, as long
\* as nobody touches it: sealing and verification compute the same controls.
HonestBundleVerifies ==
  honest => VerifyBundle(bundle, {bundle.manifest.signature[1]}, revoked).status = "PASS"

\* Nothing in a replay is called verified unless the very bundle it narrates has just
\* passed, whichever older verdict was at hand.
ReplayNeedsItsOwnPass ==
  replay # NoReplay /\ replay.dimensions # {} =>
    \E trusted \in SUBSET Signers, out \in SUBSET revoked : VerifyBundle(replay.of, trusted, out).status = "PASS"

\* Producer, verifier and replay agree: only what was sealed, and what its evidence shows,
\* passes, what was sealed of a complete run and left alone does pass, and a replay borrows
\* no verdict of another bundle.
VerdictIsEarned == PassIsAsSealed /\ HonestBundleVerifies /\ ReplayNeedsItsOwnPass
=============================================================================
