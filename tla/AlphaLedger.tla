------------------------------ MODULE AlphaLedger ------------------------------
(***************************************************************************)
(* The alpha ledger of scripts/state-store.js and its one client, the      *)
(* behavioural gate of scripts/gate.js.  A corpus of scenarios has three   *)
(* confirmation slots.  An evaluation reserves a slot for a candidate and  *)
(* its family before it looks at a confirmation result, and records the    *)
(* verdict afterwards.  Evaluations run in processes of their own, which   *)
(* die anywhere; a ledger operation is one mutation under the store lock,  *)
(* atomic by StateJournal.                                                 *)
(*                                                                         *)
(* How a verdict follows from the evidence is Gate2's subject: here it is  *)
(* any.                                                                    *)
(***************************************************************************)
EXTENDS Integers, FiniteSets, FiniteSetsExt

CONSTANTS
  Evaluators,   \* processes that run the behavioural gate
  Corpora,      \* corpus states
  Families,     \* sets of edit targets
  Versions,     \* candidates with the same edit targets differ in their payload
  Splits,       \* selection/confirmation splits of a corpus, one for each seed
  AlphaSlots,   \* confirmation slots of a corpus
  MaxEvaluations, MaxDeaths   \* bounds on evaluations begun and on crashes

AlphaAssumption == {AlphaSlots, MaxEvaluations, MaxDeaths} \subseteq Nat

VARIABLES
  reserved,     \* RESERVED records
  completions,  \* reservations with a COMPLETED record
  evaluation,   \* what each evaluator is doing
  looked,       \* confirmation results that somebody has seen
  failed,       \* families with a recorded failure, by corpus
  begun, deaths

ledger == <<reserved, completions>>
alphaVars == <<ledger, evaluation, looked, failed, begun, deaths>>

Subjects == [corpus : Corpora, split : Splits, family : Families, version : Versions]
Resting == [at |-> "idle"]
EvaluatorAt(e, place) == evaluation[e].at = place
Subject(e) == evaluation[e].subject
Proceed(e, place) == evaluation' = [evaluation EXCEPT ![e].at = place]
Rest(e) == evaluation' = [evaluation EXCEPT ![e] = Resting]

SubjectOf(reservation) == [corpus |-> reservation.corpus, split |-> reservation.split,
                           family |-> reservation.family, version |-> reservation.version]
WithSlot(subject, n) == [corpus |-> subject.corpus, split |-> subject.split,
                         family |-> subject.family, version |-> subject.version, slot |-> n]
On(corpus) == {r \in reserved : r.corpus = corpus}
FreeSlots(corpus) == (1 .. AlphaSlots) \ {r.slot : r \in On(corpus)}

-----------------------------------------------------------------------------
\* Hard violations, slice regressions and an underpowered split end an evaluation
\* before it needs the ledger.
Evaluate(e, subject) ==
  /\ EvaluatorAt(e, "idle") /\ begun < MaxEvaluations
  /\ begun' = begun + 1
  /\ evaluation' = [evaluation EXCEPT ![e] = [at |-> "reserve", subject |-> subject]]
  /\ UNCHANGED <<ledger, looked, failed, deaths>>

\* Mutant of ReserveAlpha: a reservation without a completion frees its slot and family.
ReserveAlphaOfTheCompleted(e) ==
  LET held == On(Subject(e).corpus) \cap completions
      free == (1 .. AlphaSlots) \ {r.slot : r \in held} IN
  /\ EvaluatorAt(e, "reserve")
  /\ free # {} /\ \A r \in held : r.family # Subject(e).family
  /\ reserved' = reserved \cup {WithSlot(Subject(e), Min(free))}
  /\ Proceed(e, "look")
  /\ UNCHANGED <<completions, looked, failed, begun, deaths>>

ReserveAlpha(e) ==
  LET subject == Subject(e) IN
  /\ EvaluatorAt(e, "reserve")
  /\ \/ /\ \E r \in reserved : SubjectOf(r) = subject
        /\ Proceed(e, "look")
        /\ UNCHANGED reserved
     \/ /\ \A r \in On(subject.corpus) : r.family # subject.family
        /\ FreeSlots(subject.corpus) # {}
        /\ reserved' = reserved \cup {WithSlot(subject, Min(FreeSlots(subject.corpus)))}
        /\ Proceed(e, "look")
     \/ /\ \A r \in reserved : SubjectOf(r) # subject
        /\ FreeSlots(subject.corpus) = {}
           \/ \E r \in On(subject.corpus) : r.family = subject.family
        /\ Rest(e)
        /\ UNCHANGED reserved
  /\ UNCHANGED <<completions, looked, failed, begun, deaths>>

\* Too many missing pairs end the evaluation with its reservation open.
Look(e, verdict) ==
  /\ EvaluatorAt(e, "look")
  /\ looked' = looked \cup {Subject(e)}
  /\ IF verdict = "inconclusive" THEN Rest(e)
     ELSE evaluation' = [evaluation EXCEPT
            ![e] = [at |-> "complete", subject |-> Subject(e), verdict |-> verdict]]
  /\ UNCHANGED <<ledger, failed, begun, deaths>>

\* The first completion stands; an error while completing is swallowed.
CompleteAlpha(e) ==
  /\ EvaluatorAt(e, "complete")
  /\ \/ /\ completions' = completions \cup {r \in reserved : SubjectOf(r) = Subject(e)}
        /\ failed' = IF evaluation[e].verdict = "reject"
                       THEN failed \cup {<<Subject(e).corpus, Subject(e).family>>} ELSE failed
     \/ UNCHANGED <<completions, failed>>
  /\ Rest(e)
  /\ UNCHANGED <<reserved, looked, begun, deaths>>

EvaluatorDies(e) ==
  /\ ~EvaluatorAt(e, "idle") /\ deaths < MaxDeaths
  /\ deaths' = deaths + 1
  /\ Rest(e)
  /\ UNCHANGED <<ledger, looked, failed, begun>>

LedgerInit ==
  /\ reserved = {} /\ completions = {} /\ looked = {} /\ failed = {}
  /\ evaluation = [e \in Evaluators |-> Resting] /\ begun = 0 /\ deaths = 0

LedgerNext == \E e \in Evaluators :
  \/ \E subject \in Subjects : Evaluate(e, subject)
  \/ ReserveAlpha(e) \/ CompleteAlpha(e) \/ EvaluatorDies(e)
  \/ \E verdict \in {"promote", "reject", "inconclusive"} : Look(e, verdict)

LedgerSpec == LedgerInit /\ [][LedgerNext]_alphaVars

-----------------------------------------------------------------------------
\* Whatever crashes before, while or after it looks, no more than three candidates of
\* a corpus ever have their confirmation results seen, no two of one family, and each
\* on one split: the family-wise error stays what three Bonferroni slots allow.
AlphaIsSpentOnce ==
  \A corpus \in Corpora :
    LET seen == {s \in looked : s.corpus = corpus} IN
    /\ Cardinality(seen) <= AlphaSlots
    /\ \A s, t \in seen : s.family = t.family => s = t

=============================================================================
