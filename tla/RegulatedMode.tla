--------------------------- MODULE RegulatedMode ---------------------------
(* The regulated register: gsa-register.js and the four lanes it composes,
   checks/register-approver, -obligations, -retention and -airgap.  A caller
   gathers what each lane is to judge, each at its own moment: the approvals
   of the packet that is the head when they are read, with the policy by which
   they are to be judged, the retention log and the head it must end in, the
   obligations with the evidence of a packet, the release with its signature.
   A bundle is sealed when every precondition that the policy of the activation
   names is met by what was gathered; a policy may name fewer than the five,
   and it need not be the one the approvals were judged by.  Who retains packets is not part of the repository: it appends
   and counts what it appends.  Between two steps the log can be damaged.
   One gathering and one bundle are followed: what happens after the bundle
   does not change it.                                                      *)
EXTENDS Integers, Sequences, SequencesExt, FiniteSets, FiniteSetsExt

CONSTANTS Approvers, ApprovalKeys,    \* the names on approvals, the keys that sign
          Trusted, Proposer,     \* the keys the verifier knows, who proposed
          Obligations,           \* the register: [id, kind, declared, judged]
          Evidence,              \* what a packet may show: [profile, blocked]
          Releases,              \* what a release may be: [signed, trusted, disk]
          Policies,              \* [strict, closed, own, n, required]
          Suite,                 \* the cases of a red-team suite
          MaxHeads, MaxRetained, MaxApprovals, MaxLogDamage

RegisterAssumption ==
  {MaxHeads, MaxRetained, MaxApprovals, MaxLogDamage} \subseteq Nat

VARIABLES head,        \* the head of the adoption log
          chain,       \* the retention log as it is in its file
          retained,    \* the entries that were appended to it
          approvals,   \* the attestations that were given
          inputs,      \* what the caller has gathered for the lanes
          regulated,      \* the last regulator bundle
          logDamage

regVars == <<head, chain, retained, approvals, inputs, regulated, logDamage>>

Preconditions == {"obligations", "manual", "approver", "retention", "release"}
NotGathered == [lane |-> "none"]

-----------------------------------------------------------------------------
(* The approver lane.  An approval counts by the key that signed it.        *)

\* Mutant of Covers: an approval of an earlier head still counts.
CoversAny(a, h) == a.signer \in Trusted

Covers(a, h) == a.head = h /\ a.signer \in Trusted

VerifyApprovers(policy, h, given) ==
  LET valid == {a \in given : Covers(a, h)} IN
  /\ policy.closed /\ given # {}
  /\ policy.own => \A a \in valid : a.approver # Proposer
  /\ Cardinality({a.signer : a \in valid}) >= policy.n

-----------------------------------------------------------------------------
(* The obligations lane: what an obligation declares is never what counts.  *)

Coverage(ob, ev) ==
  CASE ob.kind = "none" -> "manual-only"
    [] ob.kind = "profile" -> IF ev.profile = "verified" THEN "covered" ELSE "not-covered"
    [] ob.kind = "redteam" -> IF ev.blocked = Suite THEN "covered" ELSE IF ev.blocked > 0 THEN "partial" ELSE "not-covered"
    [] OTHER -> "not-covered"

ViolationOf(ob, ev) ==
  \/ \E other \in Obligations \ {ob} : other.id = ob.id
  \/ ob.declared = "malformed"
  \/ ob.declared = "covered" /\ Coverage(ob, ev) # "covered"
  \/ ob.kind = "none" /\ ~ob.judged

Reconcile(ev) ==
  LET violated == \E ob \in Obligations : ViolationOf(ob, ev)
      resolved == \A ob \in Obligations : Coverage(ob, ev) \in {"covered", "manual-only"}
  IN IF Obligations = {} THEN "not-applicable" ELSE IF violated THEN "failed" ELSE IF resolved THEN "verified" ELSE "unavailable"

-----------------------------------------------------------------------------
(* The retention lane.  The root has no predecessor, every later entry names
   the packet before it and the next number; the heads in between are not
   looked at, and the last one only when the caller says which it must be.  *)

Chains(before, e) == e.seq = before.seq + 1 /\ e.prev = before.packet

WalkRetention(log, expected) ==
  /\ log # << >> /\ Head(log).prev = 0
  /\ \A i \in 2..Len(log) : Chains(log[i - 1], log[i])
  /\ expected = 0 \/ Last(log).head = expected

-----------------------------------------------------------------------------
(* The release lane: what was signed is the manifest, by a key the verifier
   knows, and the files on disk, when they are supplied, are the manifest's. *)
VerifyAirgap(release) == release.signed = "this" /\ release.trusted /\ release.disk # "differs"

-----------------------------------------------------------------------------
(* The activation guard.                                                    *)

\* Every lane judges by what was gathered for it, the approvals by a policy of their own.
EvaluateRegister(ev, release) ==
  LET obl == Reconcile(ev) IN
  {p \in Preconditions :
     CASE p = "obligations" -> obl = "verified"
       [] p = "manual" -> /\ obl # "failed"
                          /\ \A ob \in Obligations : ~(Coverage(ob, ev) = "manual-only" /\ ob.declared = "covered")
       [] p = "approver" -> inputs.approver # NotGathered /\ VerifyApprovers(inputs.approver.policy, inputs.approver.head, inputs.approver.given)
       [] p = "retention" -> inputs.retention # NotGathered /\ WalkRetention(inputs.retention.log, inputs.retention.expected)
       [] p = "release" -> VerifyAirgap(release)}

\* The policy of the activation selects the preconditions and asks nothing else of a lane.
ActivateRegulatedMode(policy, ev, release) ==
  /\ policy.strict /\ policy.closed
  /\ policy.required # {} /\ policy.required \subseteq Preconditions
  /\ policy.required \subseteq EvaluateRegister(ev, release)

SealRegulatedBundle ==
  /\ \E policy \in Policies, ev \in Evidence, release \in Releases :
       /\ ActivateRegulatedMode(policy, ev, release)
       /\ regulated' = [lane |-> "all", policy |-> policy, inputs |-> inputs]
  /\ UNCHANGED <<head, chain, retained, approvals, inputs, logDamage>>

-----------------------------------------------------------------------------
(* The caller, and what happens meanwhile.                                  *)

GatherApprovals ==
  /\ inputs.approver = NotGathered
  /\ \E policy \in Policies :
       inputs' = [inputs EXCEPT !.approver = [lane |-> "approver", policy |-> policy, head |-> head, given |-> approvals]]
  /\ UNCHANGED <<head, chain, retained, approvals, regulated, logDamage>>

\* The expected head may be left out.
GatherLog ==
  /\ inputs.retention = NotGathered
  /\ \E expected \in {0, head} : inputs' = [inputs EXCEPT !.retention = [lane |-> "retention", log |-> chain, expected |-> expected]]
  /\ UNCHANGED <<head, chain, retained, approvals, regulated, logDamage>>

Adopt ==
  /\ head < MaxHeads /\ head' = head + 1
  /\ UNCHANGED <<chain, retained, approvals, inputs, regulated, logDamage>>

Approve ==
  /\ Cardinality(approvals) < MaxApprovals
  /\ \E name \in Approvers, key \in ApprovalKeys : approvals' = approvals \cup {[approver |-> name, signer |-> key, head |-> head]}
  /\ UNCHANGED <<head, chain, retained, inputs, regulated, logDamage>>

Retain ==
  /\ Len(retained) < MaxRetained
  /\ LET n == Len(retained)
         e == [seq |-> n + 1, prev |-> n, packet |-> n + 1, head |-> head]
     IN retained' = Append(retained, e) /\ chain' = Append(chain, e)
  /\ UNCHANGED <<head, approvals, inputs, regulated, logDamage>>

\* One entry lost, altered, or out of its place; or the end of the file lost.
DamageRetention ==
  /\ logDamage < MaxLogDamage /\ logDamage' = logDamage + 1
  /\ \E i \in DOMAIN chain :
       \/ chain' = RemoveAt(chain, i)
       \/ chain' = SubSeq(chain, 1, i - 1)
       \/ chain' = [chain EXCEPT ![i].packet = MaxRetained + 1]
       \/ chain' = [chain EXCEPT ![i].head = head]
       \/ i < Len(chain) /\ chain' = [chain EXCEPT ![i] = chain[i + 1], ![i + 1] = chain[i]]
  /\ UNCHANGED <<head, retained, approvals, inputs, regulated>>

RegisterInit ==
  /\ head = 1 /\ chain = << >> /\ retained = << >> /\ approvals = {}
  /\ inputs = [approver |-> NotGathered, retention |-> NotGathered] /\ regulated = NotGathered /\ logDamage = 0

RegisterNext == regulated = NotGathered /\ (GatherApprovals \/ GatherLog \/ SealRegulatedBundle \/ Adopt \/ Approve \/ Retain \/ DamageRetention)

RegulatedSpec == RegisterInit /\ [][RegisterNext]_regVars

-----------------------------------------------------------------------------
(* A bundle sealed on approvals that were gathered with a policy that asks for
   n approvers rests on n keys the verifier knows that signed the very head the
   bundle was sealed over, however many approvals of earlier heads were given
   and by however many names one key signed, and the proposer is none of the
   names if that policy separates them.  What the policy of the activation asks
   of approvers counts only where it is the same policy.                    *)
ApproversSawTheSealedHead ==
  regulated # NotGathered /\ "approver" \in regulated.policy.required =>
    LET judged == regulated.inputs.approver
        of == {a \in approvals : a.head = judged.head /\ a.signer \in Trusted /\ a \in judged.given} IN
    /\ judged.policy.closed
    /\ Cardinality({a.signer : a \in of}) >= judged.policy.n
    /\ judged.policy.own => Proposer \notin {a.approver : a \in of}

(* A bundle sealed on the retention log, bound to a head, holds every packet
   that was retained under earlier heads, each in its place and, but for the
   last of the file, unaltered: one damage to the file is seen whenever a
   packet was retained after it.                                            *)
SealedLogIsWhole ==
  regulated # NotGathered /\ "retention" \in regulated.policy.required =>
    LET log == regulated.inputs.retention.log
        expected == regulated.inputs.retention.expected
    IN /\ \A i \in 1..(Len(log) - 1) : log[i].packet = retained[i].packet
       /\ expected # 0 => \A i \in DOMAIN retained : retained[i].head < expected => i <= Len(log)

\* What a regulated bundle is sealed on holds of the head it names: its approvals, by the
\* policy they were gathered with, and the log of what was retained before.
SealIsBacked == ApproversSawTheSealedHead /\ SealedLogIsWhole
=============================================================================
