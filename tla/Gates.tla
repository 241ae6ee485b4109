-------------------------------- MODULE Gates ----------------------------------
(***************************************************************************)
(* The decisions of scripts/gate.js on one candidate: the static screen,   *)
(* the tiers of the behavioural gate over an evidence bundle, in the order *)
(* the code runs them, and the adoption packet.  The alpha ledger, which   *)
(* the behavioural gate reserves in before it confirms, is AlphaLedger.    *)
(*                                                                         *)
(* A bundle counts its pairs by kind.  A pair has a result of each side    *)
(* and, where the harness repeated a side, the result of the repetition.   *)
(***************************************************************************)
EXTENDS Integers, Sequences, FiniteSets

CONSTANTS
  Edits,        \* the edits that candidates are made of
  PairKinds,    \* the kinds of pairs that bundles hold
  Bundles       \* the evidence bundles

Results == {"ok_pass", "ok_fail", "infra_fault", "workflow_fault", "other"}
NoRetry == "none"

GatesAssumption ==
  /\ IsFiniteSet(PairKinds)
  /\ PairKinds \subseteq [cand : Results, base : Results,
                          candRetry : Results \cup {NoRetry}, baseRetry : Results \cup {NoRetry}]
  /\ \A b \in Bundles : {b.confirmation, b.selection} \subseteq [PairKinds -> Nat]

VARIABLES
  candidate,    \* kind, edits, and what the rest of the screen looks at
  evidenceBundle,  \* confirmation, selection: pairs of each kind; slice; hard; tampered
  gate,         \* how far the candidate has come
  ruling        \* what stopped it, or "none"

gateVars == <<candidate, evidenceBundle, gate, ruling>>

-----------------------------------------------------------------------------
(* Gate 1: the static screen.                                               *)

Ops == {"replace", "insert", "delete", "set-knob"}

\* Two edits of one anchor contradict each other when they differ in what they do,
\* or both replace it by different texts.
Contradict(e, f) ==
  /\ e.file = f.file /\ e.anchor = f.anchor
  /\ \/ e.op # f.op
     \/ e.op = "replace" /\ f.op = "replace" /\ e.payload # f.payload

\* The fence of a kind names what it may write; the vetoed directories come first.
InFence(e, kind) == ~e.vetoed /\ kind \in e.fences

\* A file is named by an alias unless the caller has resolved the aliases.
WellFormed(e) == e.op \in Ops /\ ~e.literal
Injects(e) == e.op # "delete" /\ e.injects

Screened(c) ==
  /\ c.kind \in {"doc", "knob", "code"} /\ c.fingerprinted /\ ~c.rejectedBefore
  /\ c.edits # <<>>
  /\ \A i \in DOMAIN c.edits :
       /\ WellFormed(c.edits[i]) /\ InFence(c.edits[i], c.kind) /\ ~Injects(c.edits[i])
       /\ \A j \in 1..i - 1 : ~Contradict(c.edits[i], c.edits[j])
  /\ ~c.appendixTooLong /\ c.sentinel = "passes"

Stop(reason) == gate' = "stopped" /\ ruling' = reason
Pass(next) == gate' = next /\ UNCHANGED ruling

Gate1Static ==
  /\ gate = "static"
  /\ IF Screened(candidate) THEN Pass("hard") ELSE Stop("screened_out")
  /\ UNCHANGED <<candidate, evidenceBundle>>

-----------------------------------------------------------------------------
(* Gate 2: pairs.                                                           *)

Ok(result) == result \in {"ok_pass", "ok_fail"}

ClassifyDiscordance(cand, base) ==
  CASE Ok(cand) /\ Ok(base) -> "scored_pair"
    [] Ok(cand) /\ base = "infra_fault" -> "baseline_infra"
    [] Ok(cand) /\ base = "workflow_fault" -> "baseline_workflow_fault"
    [] cand = "infra_fault" /\ Ok(base) -> "candidate_infra"
    [] cand = "infra_fault" /\ base = "infra_fault" -> "both_infra"
    [] cand = "infra_fault" /\ base = "workflow_fault" -> "both_non_ok"
    [] cand = "workflow_fault" -> "candidate_loss"
    [] OTHER -> "unknown"

\* A side that failed in the infrastructure is replaced by its repetition, if there is one.
Repeated(p) ==
  LET class == ClassifyDiscordance(p.cand, p.base) IN
  CASE class = "baseline_infra" /\ p.baseRetry # NoRetry ->
         [p EXCEPT !.base = p.baseRetry, !.baseRetry = NoRetry]
    [] class = "candidate_infra" /\ p.candRetry # NoRetry ->
         [p EXCEPT !.cand = p.candRetry, !.candRetry = NoRetry]
    [] class = "both_infra" /\ p.baseRetry # NoRetry /\ p.candRetry # NoRetry ->
         [p EXCEPT !.cand = p.candRetry, !.base = p.baseRetry,
                   !.candRetry = NoRetry, !.baseRetry = NoRetry]
    [] OTHER -> p

\* One that is replaced may reveal that the other has to be.
Retried(pair) == Repeated(Repeated(pair))

\* "win", "loss", "concordant" or "excluded".
ResolvePair(pair) ==
  LET p == Retried(pair)  class == ClassifyDiscordance(p.cand, p.base) IN
  CASE class = "scored_pair" ->
         IF p.cand = p.base THEN "concordant" ELSE IF p.cand = "ok_pass" THEN "win" ELSE "loss"
    [] class = "candidate_loss" -> "loss"
    [] OTHER -> "excluded"

\* The pairs of some kinds, each with its number among its like.
OfKinds(pairs, kinds) == UNION {{k} \X (1..pairs[k]) : k \in kinds}
Count(pairs, kinds) == Cardinality(OfKinds(pairs, kinds))

Resolved(outcome) == {k \in PairKinds : ResolvePair(k) = outcome}
Outcomes(pairs, outcome) == Count(pairs, Resolved(outcome))
Total(pairs) == Count(pairs, PairKinds)

-----------------------------------------------------------------------------
(* Gate 2: the exact sign test, at one third of 0.05.                       *)

\* How many courses of n even trials have at least that many wins.  The p-value is their
\* share of all 2^n, which the code's doubles hold exactly up to thirty trials.
Ways(n, wins) == Cardinality({won \in SUBSET (1..n) : Cardinality(won) >= wins})
Significant(n, wins) == 60 * Ways(n, wins) <= 2 ^ n

MinWinsRequired(n) ==
  IF \E w \in 0..n : Significant(n, w)
    THEN CHOOSE w \in 0..n : Significant(n, w) /\ \A v \in 0..w - 1 : ~Significant(n, v)
    ELSE n + 1

\* Mutant of Attainable: only a scenario that the baseline failed cleanly can be won.
AttainableByFailures(pairs) == Count(pairs, {k \in PairKinds : k.base = "ok_fail"})

\* Every confirmation scenario in which the baseline has no clean pass.
Attainable(pairs) == Count(pairs, {k \in PairKinds : k.base # "ok_pass"})

Promotes(wins, losses) == Significant(wins + losses, wins) /\ wins > losses

-----------------------------------------------------------------------------
(* Gate 2: the tiers.                                                       *)

HardInvariants ==
  /\ gate = "hard"
  /\ IF evidenceBundle.hard THEN Stop("hard_violation") ELSE Pass("slices")
  /\ UNCHANGED <<candidate, evidenceBundle>>

\* Clean passes of either side in the slice, as first recorded.
Passes(side) ==
  LET passed == {k \in PairKinds \cap evidenceBundle.slice : k[side] = "ok_pass"}
  IN Count(evidenceBundle.confirmation, passed) + Count(evidenceBundle.selection, passed)

CriticalSlices ==
  /\ gate = "slices"
  /\ IF Passes("cand") < Passes("base")
       THEN Stop("slice_regression") ELSE Pass("hash")
  /\ UNCHANGED <<candidate, evidenceBundle>>

CheckBundle ==
  /\ gate = "hash"
  /\ IF evidenceBundle.tampered THEN Stop("bundle_hash_mismatch") ELSE Pass("power")
  /\ UNCHANGED <<candidate, evidenceBundle>>

Underpowered == Attainable(evidenceBundle.confirmation) < MinWinsRequired(Attainable(evidenceBundle.confirmation))

PowerPrecheck ==
  /\ gate = "power"
  /\ IF Underpowered THEN Stop("inconclusive_underpowered") ELSE Pass("confirm")
  /\ UNCHANGED <<candidate, evidenceBundle>>

Confirm ==
  LET pairs == evidenceBundle.confirmation IN
  /\ gate = "confirm"
  /\ \/ /\ 5 * Outcomes(pairs, "excluded") > Total(pairs)
        /\ Stop("inconclusive_missingness")
     \/ /\ 5 * Outcomes(pairs, "excluded") <= Total(pairs)
        /\ IF Promotes(Outcomes(pairs, "win"), Outcomes(pairs, "loss"))
             THEN Pass("packet") ELSE Stop("reject")
  /\ UNCHANGED <<candidate, evidenceBundle>>

-----------------------------------------------------------------------------
(* Gate 3: the adoption packet.                                             *)

\* Every known operation has an inverse.
Reversible(c) == \A i \in DOMAIN c.edits : c.edits[i].op \in Ops

Gate3Prepare ==
  /\ gate = "packet"
  /\ gate' = "packed"
  /\ ruling' = IF candidate.kind \in {"doc", "knob"} /\ Reversible(candidate)
                  THEN "auto_rollback_eligible" ELSE "human_rollback"
  /\ UNCHANGED <<candidate, evidenceBundle>>

-----------------------------------------------------------------------------
Clean == [kind |-> "doc", fingerprinted |-> TRUE, rejectedBefore |-> FALSE, edits |-> <<>>,
          appendixTooLong |-> FALSE, sentinel |-> "passes"]

\* Candidates of up to two edits, and those that one other check of the screen stops.
Candidates ==
  LET Good == CHOOSE e \in Edits : WellFormed(e) /\ InFence(e, "doc") /\ ~Injects(e)
      One == [Clean EXCEPT !.edits = <<Good>>] IN
  {[Clean EXCEPT !.edits = s, !.kind = k] :
     s \in {<<>>} \cup {<<e>> : e \in Edits} \cup {<<e, f>> : e \in Edits, f \in Edits},
     k \in {"doc", "code", "other"}}
  \cup {[One EXCEPT !.fingerprinted = FALSE], [One EXCEPT !.rejectedBefore = TRUE],
        [One EXCEPT !.appendixTooLong = TRUE], [One EXCEPT !.sentinel = "throws"]}

GateInit ==
  /\ candidate \in Candidates /\ evidenceBundle \in Bundles
  /\ gate = "static" /\ ruling = "none"

GateNext ==
  \/ Gate1Static \/ HardInvariants \/ CriticalSlices \/ CheckBundle
  \/ PowerPrecheck \/ Confirm \/ Gate3Prepare

GateSpec == GateInit /\ [][GateNext]_gateVars

-----------------------------------------------------------------------------
\* The power precheck costs no candidate its promotion: what it stops before any
\* confirmation result is read would not have been promoted by those results.
PrecheckIsSound ==
  ruling = "inconclusive_underpowered" =>
    ~Promotes(Outcomes(evidenceBundle.confirmation, "win"), Outcomes(evidenceBundle.confirmation, "loss"))
=============================================================================
