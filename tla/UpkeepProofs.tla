------------------------------ MODULE UpkeepProofs -----------------------------
(* Proofs about the parts that run around the state store and a project, one   *)
(* after the other: the alpha ledger, the writer claim, the gateway mode, the  *)
(* frozen project and the evolution loop.                                      *)
EXTENDS AlphaLedger, WriterClaim, GatewayMode, FrozenProject, EvolutionLoop,
  FiniteSetTheorems, WellFoundedInduction, TLAPS

-----------------------------------------------------------------------------
(***************************************************************************)
(* That the confirmation slots of a corpus are spent once, for any         *)
(* evaluators, corpora, families and numbers of slots.  Every confirmation *)
(* result that is seen has a reservation of its own (Reserved), and the    *)
(* reservations of a corpus differ in slot and in family (ReservationsApart): the      *)
(* candidates seen are mapped one to one to the slots.                     *)
(***************************************************************************)

Reservations == [corpus : Corpora, split : Splits, family : Families, version : Versions,
                 slot : 1 .. AlphaSlots]

\* What an evaluator does.
DoingAt(place) == {[at |-> place, subject |-> s] : s \in Subjects}
Completing == [at : {"complete"}, subject : Subjects, verdict : {"promote", "reject"}]

LedgerTypeOK ==
  /\ reserved \subseteq Reservations
  /\ looked \subseteq Subjects
  /\ evaluation \in [Evaluators -> {Resting} \cup DoingAt("reserve") \cup DoingAt("look")
                                   \cup Completing]

\* Two reservations of a corpus have neither a slot nor a family in common.
ReservationsApart ==
  \A r, q \in reserved :
    r.corpus = q.corpus /\ (r.slot = q.slot \/ r.family = q.family) => r = q

\* What has been seen, or is about to be, is reserved.
IsReserved(subject) == \E r \in reserved : SubjectOf(r) = subject
Reserved ==
  /\ \A s \in looked : IsReserved(s)
  /\ \A e \in Evaluators : EvaluatorAt(e, "look") => IsReserved(Subject(e))

LedgerInv == LedgerTypeOK /\ ReservationsApart /\ Reserved

-----------------------------------------------------------------------------

\* The slot that is handed out is a free one.
LEMMA MinIsFree ==
  ASSUME NEW corpus, FreeSlots(corpus) # {}
  PROVE  Min(FreeSlots(corpus)) \in FreeSlots(corpus)
  <1> DEFINE free == FreeSlots(corpus)
             less == OpToRel(<, Nat)
  <1>1. free \subseteq Nat /\ free # {}
    BY DEF FreeSlots
  <1>2. IsWellFoundedOn(less, Nat)
    BY NatLessThanWellFounded
  <1> HIDE DEF free, less
  <1>3. PICK x \in free : \A y \in free : <<y, x>> \notin less
    BY <1>1, <1>2, WFMin
  <1>4. ASSUME NEW y \in free PROVE x <= y
    <2>1. x \in Nat /\ y \in Nat /\ <<y, x>> \notin less
      BY <1>1, <1>3
    <2>2. ~(y < x)
      BY <2>1 DEF less, OpToRel
    <2>3. QED
      BY <2>1, <2>2
  <1>5. QED
    BY <1>3, <1>4 DEF Min, free

\* An evaluator's memory of its subject.
LEMMA SubjectKnown ==
  ASSUME LedgerTypeOK, NEW e \in Evaluators
  PROVE  /\ EvaluatorAt(e, "reserve") => evaluation[e] \in DoingAt("reserve")
         /\ EvaluatorAt(e, "look") => evaluation[e] \in DoingAt("look")
         /\ EvaluatorAt(e, "complete") => evaluation[e] \in Completing
         /\ ~EvaluatorAt(e, "idle") => Subject(e) \in Subjects
  <1>1. evaluation[e] \in {Resting} \cup DoingAt("reserve") \cup DoingAt("look") \cup Completing
    BY DEF LedgerTypeOK
  <1>2. CASE evaluation[e] = Resting
    BY <1>2 DEF Resting, EvaluatorAt
  <1>3. CASE evaluation[e] \in DoingAt("reserve")
    BY <1>3 DEF DoingAt, EvaluatorAt, Subject
  <1>4. CASE evaluation[e] \in DoingAt("look")
    BY <1>4 DEF DoingAt, EvaluatorAt, Subject
  <1>5. CASE evaluation[e] \in Completing
    BY <1>5 DEF Completing, EvaluatorAt, Subject
  <1>6. QED
    BY <1>1, <1>2, <1>3, <1>4, <1>5

\* A subject and a slot make a reservation of that subject.
LEMMA WithSlotReserves ==
  ASSUME NEW s \in Subjects, NEW n \in 1 .. AlphaSlots
  PROVE  /\ WithSlot(s, n) \in Reservations /\ SubjectOf(WithSlot(s, n)) = s
         /\ WithSlot(s, n).corpus = s.corpus /\ WithSlot(s, n).family = s.family
         /\ WithSlot(s, n).slot = n
  BY DEF Subjects, Reservations, WithSlot, SubjectOf

-----------------------------------------------------------------------------
(* Every step preserves the invariant.                                      *)

\* Evaluators other than the one that acts keep their reservation, as no step takes a
\* reservation away.
LEMMA StepOfOneEvaluator ==
  ASSUME LedgerInv, NEW e \in Evaluators, LedgerTypeOK', ReservationsApart', reserved \subseteq reserved',
         \A d \in Evaluators : d # e => evaluation'[d] = evaluation[d],
         \A s \in looked' : s \in looked \/ IsReserved(s),
         EvaluatorAt(e, "look")' => IsReserved(Subject(e))'
  PROVE  LedgerInv'
  <1>1. ASSUME NEW s, IsReserved(s) PROVE IsReserved(s)'
    BY <1>1 DEF IsReserved
  <1>2. \A s \in looked' : IsReserved(s)'
    BY <1>1 DEF LedgerInv, Reserved
  <1>3. ASSUME NEW d \in Evaluators, d # e, EvaluatorAt(d, "look")' PROVE IsReserved(Subject(d))'
    <2>1. EvaluatorAt(d, "look") /\ Subject(d)' = Subject(d)
      BY <1>3 DEF EvaluatorAt, Subject
    <2>2. IsReserved(Subject(d))
      BY <2>1 DEF LedgerInv, Reserved
    <2>3. QED
      BY <1>1, <2>1, <2>2 DEF IsReserved
  <1>4. QED
    BY <1>2, <1>3 DEF LedgerInv, Reserved

LEMMA RestStep ==
  ASSUME LedgerInv, NEW e \in Evaluators, Rest(e), reserved' = reserved,
         \A s \in looked' : s \in looked \/ (s \in Subjects /\ IsReserved(s))
  PROVE  LedgerInv'
  <1>1. looked' \subseteq Subjects
    BY DEF LedgerInv, LedgerTypeOK
  <1>2. LedgerTypeOK' /\ ReservationsApart'
    BY <1>1 DEF LedgerInv, LedgerTypeOK, ReservationsApart, Rest
  <1>3. ~EvaluatorAt(e, "look")'
    BY DEF LedgerInv, LedgerTypeOK, Rest, EvaluatorAt, Resting
  <1>4. QED
    BY <1>2, <1>3, StepOfOneEvaluator DEF LedgerInv, LedgerTypeOK, Rest

LEMMA EvaluateStep ==
  ASSUME LedgerInv, NEW e \in Evaluators, NEW subject \in Subjects, Evaluate(e, subject)
  PROVE  LedgerInv'
  <1>1. LedgerTypeOK' /\ ReservationsApart'
    BY DEF Evaluate, ledger, LedgerInv, LedgerTypeOK, ReservationsApart, DoingAt
  <1>2. ~EvaluatorAt(e, "look")'
    BY DEF Evaluate, LedgerInv, LedgerTypeOK, EvaluatorAt
  <1>3. QED
    BY <1>1, <1>2, StepOfOneEvaluator DEF Evaluate, ledger, LedgerInv, LedgerTypeOK

LEMMA ReserveStep ==
  ASSUME LedgerInv, NEW e \in Evaluators, ReserveAlpha(e)
  PROVE  LedgerInv'
  <1> DEFINE subject == Subject(e)
  <1>1. EvaluatorAt(e, "reserve") /\ subject \in Subjects /\ looked' = looked
    BY SubjectKnown DEF ReserveAlpha, LedgerInv, EvaluatorAt
  <1>2. Proceed(e, "look") => /\ evaluation' = [evaluation EXCEPT
                                              ![e] = [at |-> "look", subject |-> subject]]
                         /\ evaluation' \in [Evaluators -> {Resting} \cup DoingAt("reserve")
                                               \cup DoingAt("look") \cup Completing]
                         /\ Subject(e)' = subject
    <2> SUFFICES ASSUME Proceed(e, "look")
                 PROVE  /\ evaluation' = [evaluation EXCEPT
                                            ![e] = [at |-> "look", subject |-> subject]]
                        /\ evaluation' \in [Evaluators -> {Resting} \cup DoingAt("reserve")
                                              \cup DoingAt("look") \cup Completing]
                        /\ Subject(e)' = subject
      OBVIOUS
    <2>1. evaluation[e] \in DoingAt("reserve")
      BY <1>1, SubjectKnown DEF LedgerInv
    <2>2. PICK s \in Subjects : evaluation[e] = [at |-> "reserve", subject |-> s]
      BY <2>1 DEF DoingAt
    <2>3. s = subject
      BY <2>2 DEF Subject
    <2>4. evaluation' = [evaluation EXCEPT ![e] = [at |-> "look", subject |-> subject]]
      <3>1. [evaluation[e] EXCEPT !.at = "look"] = [at |-> "look", subject |-> subject]
        BY <2>2, <2>3
      <3>2. evaluation' = [evaluation EXCEPT ![e] = [evaluation[e] EXCEPT !.at = "look"]]
        BY DEF Proceed
      <3>3. QED
        BY <3>1, <3>2
    <2>5. [at |-> "look", subject |-> subject] \in DoingAt("look")
      BY <1>1 DEF DoingAt
    <2>6. QED
      BY <2>4, <2>5 DEF LedgerInv, LedgerTypeOK, Subject
  <1> HIDE DEF subject
  <1>3. CASE /\ \E r \in reserved : SubjectOf(r) = subject
             /\ Proceed(e, "look") /\ UNCHANGED reserved
    <2>1. LedgerTypeOK' /\ ReservationsApart'
      BY <1>1, <1>2, <1>3 DEF LedgerInv, LedgerTypeOK, ReservationsApart
    <2>2. IsReserved(Subject(e))'
      BY <1>2, <1>3 DEF IsReserved
    <2>3. QED
      BY <1>1, <1>2, <1>3, <2>1, <2>2, StepOfOneEvaluator DEF LedgerInv, LedgerTypeOK
  <1>4. CASE /\ \A r \in On(subject.corpus) : r.family # subject.family
             /\ FreeSlots(subject.corpus) # {}
             /\ reserved' = reserved \cup {WithSlot(subject, Min(FreeSlots(subject.corpus)))}
             /\ Proceed(e, "look")
    <2> DEFINE n == Min(FreeSlots(subject.corpus))
               new == WithSlot(subject, n)
    <2>1. n \in FreeSlots(subject.corpus)
      BY <1>4, MinIsFree
    <2>2. n \in 1 .. AlphaSlots /\ \A r \in On(subject.corpus) : r.slot # n
      BY <2>1 DEF FreeSlots
    <2>3. reserved' = reserved \cup {new}
      BY <1>4
    <2> HIDE DEF n
    <2>4. /\ new \in Reservations /\ SubjectOf(new) = subject /\ new.slot = n
          /\ new.corpus = subject.corpus /\ new.family = subject.family
      BY <1>1, <2>2, WithSlotReserves
    <2> HIDE DEF new
    <2>5. LedgerTypeOK'
      BY <1>1, <1>2, <1>4, <2>3, <2>4 DEF LedgerInv, LedgerTypeOK
    <2>6. ASSUME NEW r \in reserved, r.corpus = new.corpus
          PROVE  r.slot # new.slot /\ r.family # new.family
      <3>1. r \in On(subject.corpus)
        BY <2>4, <2>6 DEF On
      <3>2. QED
        BY <1>4, <2>2, <2>4, <3>1
    <2>7. ReservationsApart'
      BY <2>3, <2>6 DEF LedgerInv, ReservationsApart
    <2>8. IsReserved(Subject(e))'
      BY <1>2, <1>4, <2>3, <2>4 DEF IsReserved
    <2>9. QED
      BY <1>1, <1>2, <1>4, <2>3, <2>5, <2>7, <2>8, StepOfOneEvaluator DEF LedgerInv, LedgerTypeOK
  <1>5. CASE Rest(e) /\ UNCHANGED reserved
    <2>1. Rest(e) /\ reserved' = reserved
      BY <1>5
    <2>2. \A s \in looked' : s \in looked \/ (s \in Subjects /\ IsReserved(s))
      BY <1>1
    <2>3. QED
      BY <2>1, <2>2, RestStep
  <1>6. QED
    BY <1>3, <1>4, <1>5 DEF ReserveAlpha, subject

LEMMA LookStep ==
  ASSUME LedgerInv, NEW e \in Evaluators, NEW verdict \in {"promote", "reject", "inconclusive"},
         Look(e, verdict)
  PROVE  LedgerInv'
  <1>1. EvaluatorAt(e, "look") /\ looked' = looked \cup {Subject(e)} /\ UNCHANGED reserved
    BY DEF Look, ledger
  <1>2. CASE verdict = "inconclusive"
    <2>1. \A s \in looked' : s \in looked \/ (s \in Subjects /\ IsReserved(s))
      BY <1>1, SubjectKnown DEF LedgerInv, Reserved, EvaluatorAt
    <2>2. QED
      BY <1>1, <1>2, <2>1, RestStep DEF Look
  <1>3. CASE verdict # "inconclusive"
    <2> DEFINE next == [at |-> "complete", subject |-> Subject(e), verdict |-> verdict]
    <2>1. Subject(e) \in Subjects
      BY <1>1, SubjectKnown DEF LedgerInv, EvaluatorAt
    <2>2. evaluation' = [evaluation EXCEPT ![e] = next]
      BY <1>3 DEF Look
    <2>3. next \in Completing /\ next.at # "look"
      BY <1>3, <2>1 DEF Completing
    <2> HIDE DEF next
    <2>4. LedgerTypeOK' /\ ReservationsApart'
      BY <1>1, <2>1, <2>2, <2>3 DEF LedgerInv, LedgerTypeOK, ReservationsApart
    <2>5. ~EvaluatorAt(e, "look")'
      BY <2>2, <2>3 DEF LedgerInv, LedgerTypeOK, EvaluatorAt
    <2>6. \A s \in looked' : s \in looked \/ IsReserved(s)
      BY <1>1 DEF LedgerInv, Reserved
    <2>7. QED
      BY <1>1, <2>2, <2>4, <2>5, <2>6, StepOfOneEvaluator DEF LedgerInv, LedgerTypeOK
  <1>4. QED
    BY <1>2, <1>3

LEMMA LedgerStep == LedgerInv /\ [LedgerNext]_alphaVars => LedgerInv'
  <1> SUFFICES ASSUME LedgerInv, [LedgerNext]_alphaVars PROVE LedgerInv'
    OBVIOUS
  <1>1. CASE UNCHANGED alphaVars
    BY <1>1 DEF alphaVars, ledger, LedgerInv, LedgerTypeOK, ReservationsApart, Reserved, IsReserved,
                EvaluatorAt, Subject
  <1>2. ASSUME NEW e \in Evaluators, CompleteAlpha(e) \/ EvaluatorDies(e)
        PROVE  LedgerInv'
    <2>1. Rest(e) /\ reserved' = reserved /\ looked' = looked
      BY <1>2 DEF CompleteAlpha, EvaluatorDies, ledger
    <2>2. \A s \in looked' : s \in looked \/ (s \in Subjects /\ IsReserved(s))
      BY <2>1
    <2>3. QED
      BY <2>1, <2>2, RestStep
  <1>3. QED
    BY <1>1, <1>2, EvaluateStep, ReserveStep, LookStep DEF LedgerNext

-----------------------------------------------------------------------------
(* The theorem.                                                             *)

\* Seen candidates of one corpus go one to one to its slots.
LEMMA SlotsBoundTheSeen ==
  ASSUME AlphaAssumption, LedgerInv, NEW corpus \in Corpora
  PROVE  LET seen == {s \in looked : s.corpus = corpus} IN
         /\ Cardinality(seen) <= AlphaSlots
         /\ \A s, t \in seen : s.family = t.family => s = t
  <1> DEFINE seen == {s \in looked : s.corpus = corpus}
             For(s) == CHOOSE r \in reserved : SubjectOf(r) = s
             slot == [s \in seen |-> For(s).slot]
  <1>1. ASSUME NEW s \in seen
        PROVE  /\ For(s) \in reserved /\ SubjectOf(For(s)) = s /\ For(s).slot \in 1 .. AlphaSlots
               /\ For(s).corpus = corpus /\ For(s).family = s.family
    <2>1. IsReserved(s)
      BY DEF LedgerInv, Reserved
    <2>2. For(s) \in reserved /\ SubjectOf(For(s)) = s
      BY <2>1 DEF IsReserved
    <2> HIDE DEF For
    <2>3. QED
      BY <2>2 DEF SubjectOf, LedgerInv, LedgerTypeOK, Reservations
  <1> HIDE DEF For
  <1>2. ASSUME NEW s \in seen, NEW t \in seen,
               For(s).slot = For(t).slot \/ s.family = t.family
        PROVE  s = t
    <2>1. For(s) = For(t)
      BY <1>1, <1>2 DEF LedgerInv, ReservationsApart
    <2>2. QED
      BY <1>1, <2>1
  <1>3. slot \in Injection(seen, 1 .. AlphaSlots)
    BY <1>1, <1>2 DEF Injection, IsInjective
  <1>4. IsFiniteSet(1 .. AlphaSlots) /\ Cardinality(1 .. AlphaSlots) = AlphaSlots
    BY FS_Interval DEF AlphaAssumption
  <1>5. Cardinality(seen) <= AlphaSlots
    BY <1>3, <1>4, FS_Injection
  <1>6. QED
    BY <1>2, <1>5

\* No crash before, while or after an evaluation looks makes a corpus spend more
\* confirmations than it has slots, or two on one family.
THEOREM SlotsAreSpentOnce ==
  ASSUME AlphaAssumption
  PROVE  LedgerSpec => []AlphaIsSpentOnce
  <1>1. LedgerInit => LedgerInv
    BY DEF LedgerInit, LedgerInv, LedgerTypeOK, ReservationsApart, Reserved, EvaluatorAt, Resting
  <1>2. LedgerSpec => []LedgerInv
    BY <1>1, LedgerStep, PTL DEF LedgerSpec
  <1>3. LedgerInv => AlphaIsSpentOnce
    BY SlotsBoundTheSeen DEF AlphaIsSpentOnce
  <1>4. QED
    BY <1>2, <1>3, PTL

-----------------------------------------------------------------------------
(***************************************************************************)
(* That a claim of WriterClaim crosses hosts by removal only, for any      *)
(* writers, hosts and instance ids.  A claim is only ever compared by its  *)
(* token, so what has to be carried along is that every token a writer     *)
(* holds or has checked is of its own host, and still on file unless the   *)
(* claim was removed.                                                      *)
(***************************************************************************)

WriterPlaces == {"new", "acquire", "holding", "refused", "verify", "verify_release", "unlink",
           "unlink_release", "stopped", "truncate", "rewrite", "lost", "dead"}
ClaimHeld == {"holding", "truncate", "rewrite", "verify_release", "unlink_release"}
ClaimChecked == {"verify", "verify_release", "unlink", "unlink_release"}

WriterDoing == [at : WriterPlaces, seen : Writers \cup {"none"}, attempts : Nat]

\* Claims and writers are of their types, and a claim on file is somebody's.
ClaimTypeOK ==
  /\ identity \in [Writers -> [host : Hosts, instance : Instances]]
  /\ claim \in {NoClaim} \cup
       [by : Writers, age : {"fresh", "old", "ahead", "skewed"}, torn : BOOLEAN]
  /\ writer \in [Writers -> WriterDoing]
  /\ held \in [Writers -> Writers \cup {"none"}]

\* A token that was on the path is there still, unless its claim was removed.
Accounted(token) == token = claim.by \/ token \in GoneTokens

\* A writer that acts on a claim it holds has a token, and what it holds, or removes
\* next, is of its host and accounted for.
OfItsHost(w) ==
  /\ WriterAt(w, ClaimHeld) => held[w] # "none"
  /\ held[w] # "none" => Host(held[w]) = Host(w) /\ Accounted(held[w])
  /\ WriterAt(w, ClaimChecked) =>
       /\ writer[w].seen \in Writers /\ Host(writer[w].seen) = Host(w)
       /\ Accounted(writer[w].seen)

\* A removal takes what was checked, or was overtaken by another.
RemovalsOK ==
  \A r \in removals :
    \/ r.by = "human"
    \/ r.of = r.seen /\ Host(r.of) = Host(r.by)
    \/ r.of # r.seen /\ r.seen \in GoneTokens

\* The inductive invariant.
ClaimInv == ClaimTypeOK /\ RemovalsOK /\ \A w \in Writers : OfItsHost(w)

\* What was accounted for stays so.
AccountsKept == \A token \in Writers : Accounted(token) => Accounted(token)'

\* Writers other than the one that acts do and remember what they did before.
Only(w) ==
  /\ identity' = identity
  /\ \A v \in Writers : v # w => writer'[v] = writer[v] /\ held'[v] = held[v]

\* A writer that goes to another place still does something of the right type.
LEMMA GoingIsDoing ==
  ASSUME ClaimTypeOK, NEW w \in Writers, NEW place \in WriterPlaces
  PROVE  /\ [writer EXCEPT ![w].at = place] \in [Writers -> WriterDoing]
         /\ [writer EXCEPT ![w].at = place, ![w].seen = held[w]] \in [Writers -> WriterDoing]
  <1>1. PICK at \in WriterPlaces, seen \in Writers \cup {"none"}, attempts \in Nat :
          writer[w] = [at |-> at, seen |-> seen, attempts |-> attempts]
    BY DEF ClaimTypeOK, WriterDoing
  <1>2. QED
    BY <1>1 DEF ClaimTypeOK, WriterDoing

\* A step of one writer is right when it is right for that writer and for the removals.
LEMMA StepOfOneWriter ==
  ASSUME ClaimAssumption, ClaimInv, NEW w \in Writers, ClaimTypeOK', Only(w), OfItsHost(w)',
         AccountsKept, RemovalsOK'
  PROVE  ClaimInv'
  <1>1. ASSUME NEW v \in Writers, v # w PROVE OfItsHost(v)'
    <2>1. /\ writer'[v] = writer[v] /\ held'[v] = held[v] /\ identity' = identity
          /\ held[v] \in Writers \cup {"none"} /\ OfItsHost(v)
      BY <1>1 DEF ClaimInv, ClaimTypeOK, Only
    <2>2. held[v] # "none" => Accounted(held[v])'
      <3>1. CASE held[v] # "none"
        <4>1. held[v] \in Writers /\ Accounted(held[v])
          BY <2>1, <3>1 DEF OfItsHost
        <4>2. held[v] = claim'.by \/ held[v] \in GoneTokens'
          BY <4>1 DEF AccountsKept, Accounted
        <4>3. QED
          BY <2>1, <4>2 DEF Accounted
      <3>2. QED
        BY <3>1
    <2>3. WriterAt(v, ClaimChecked) => Accounted(writer[v].seen)'
      <3>1. CASE WriterAt(v, ClaimChecked)
        <4>1. writer[v].seen \in Writers /\ Accounted(writer[v].seen)
          BY <2>1, <3>1 DEF OfItsHost
        <4>2. writer[v].seen = claim'.by \/ writer[v].seen \in GoneTokens'
          BY <4>1 DEF AccountsKept, Accounted
        <4>3. QED
          BY <2>1, <4>2 DEF Accounted
      <3>2. QED
        BY <3>1
    <2>4. QED
      BY <2>1, <2>2, <2>3 DEF OfItsHost, WriterAt, Host
  <1>2. QED
    BY <1>1 DEF ClaimInv

\* Nothing is removed, and what is on the path keeps its token or was not there before.
Stays == removals' = removals /\ (claim'.by = claim.by \/ claim = NoClaim)

LEMMA StayingStep ==
  ASSUME ClaimAssumption, ClaimInv, Stays, identity' = identity
  PROVE  AccountsKept /\ RemovalsOK'
  <1>1. GoneTokens' = GoneTokens
    BY DEF Stays, GoneTokens
  <1>2. AccountsKept
    BY <1>1 DEF AccountsKept, Accounted, Stays, NoClaim, ClaimAssumption
  <1>3. RemovalsOK'
    BY <1>1 DEF RemovalsOK, Stays, Host, ClaimInv
  <1>4. QED
    BY <1>2, <1>3

\* The removed token is gone from then on.
LEMMA RemovingStep ==
  ASSUME ClaimAssumption, ClaimInv, NEW who, NEW checked, Removed(claim.by, checked, who),
         identity' = identity,
         \/ who = "human"
         \/ checked \in Writers /\ Host(checked) = Host(who) /\ Accounted(checked)
  PROVE  AccountsKept /\ RemovalsOK'
  <1>1. CASE claim.by = "none"
    <2>1. removals' = removals /\ claim' = NoClaim
      BY <1>1 DEF Removed
    <2>2. Stays
      BY <1>1, <2>1 DEF Stays, NoClaim
    <2>3. QED
      BY <2>2, StayingStep
  <1>2. CASE claim.by # "none"
    <2>0. PICK entry : entry = [of |-> claim.by, seen |-> checked, by |-> who]
      OBVIOUS
    <2>1. removals' = removals \cup {entry} /\ claim' = NoClaim
      BY <1>2, <2>0 DEF Removed
    <2>2. GoneTokens \subseteq GoneTokens' /\ claim.by \in GoneTokens'
      <3>1. entry \in removals' /\ entry.of = claim.by
        BY <2>0, <2>1
      <3>2. QED
        BY <2>1, <3>1 DEF GoneTokens
    <2>3. AccountsKept
      BY <2>2 DEF AccountsKept, Accounted
    <2>4. ASSUME NEW r \in removals
          PROVE  \/ r.by = "human"
                 \/ r.of = r.seen /\ Host(r.of)' = Host(r.by)'
                 \/ r.of # r.seen /\ r.seen \in GoneTokens'
      BY <2>2, <2>4 DEF RemovalsOK, ClaimInv, Host
    <2>5. \/ entry.by = "human"
          \/ entry.of = entry.seen /\ Host(entry.of)' = Host(entry.by)'
          \/ entry.of # entry.seen /\ entry.seen \in GoneTokens'
      <3>1. entry.of = claim.by /\ entry.seen = checked /\ entry.by = who
        BY <2>0
      <3>2. CASE who = "human"
        BY <3>1, <3>2
      <3>3. CASE checked = claim.by /\ Host(checked) = Host(who)
        BY <3>1, <3>3 DEF Host
      <3>4. CASE checked # claim.by /\ checked \in GoneTokens
        BY <2>2, <3>1, <3>4
      <3>5. QED
        BY <3>2, <3>3, <3>4 DEF Accounted
    <2>6. RemovalsOK'
      BY <2>1, <2>4, <2>5 DEF RemovalsOK, Host
    <2>7. QED
      BY <2>3, <2>6
  <1>3. QED
    BY <1>1, <1>2

USE DEF WriterAt, Go, Host, ClaimHeld, ClaimChecked, WriterPlaces, NoClaim, Fresh

\* To create a claim is to hold one's own.
LEMMA TakeStep ==
  ASSUME ClaimAssumption, ClaimInv, NEW w \in Writers,
         StartWriter(w) \/ CreateClaim(w)
  PROVE  ClaimInv'
  <1>1. CASE StartWriter(w)
    <2> USE <1>1 DEF StartWriter, ClaimInv
    <2>1. ClaimTypeOK'
      <3>1. writer' \in [Writers -> WriterDoing]
        BY GoingIsDoing DEF ClaimTypeOK
      <3>2. identity' = identity /\ held' \in [Writers -> Writers \cup {"none"}]
        BY DEF ClaimTypeOK, WriterDoing
      <3>3. claim' \in {NoClaim} \cup
              [by : Writers, age : {"fresh", "old", "ahead", "skewed"}, torn : BOOLEAN]
        BY DEF ClaimTypeOK, WriterDoing
      <3>4. QED
        BY <3>1, <3>2, <3>3 DEF ClaimTypeOK
    <2>2. Only(w)
      BY DEF ClaimTypeOK, WriterDoing, Only
    <2>3. OfItsHost(w)'
      BY DEF ClaimAssumption, ClaimTypeOK, WriterDoing, OfItsHost, Accounted, GoneTokens
    <2>4. AccountsKept /\ RemovalsOK'
      BY StayingStep DEF Stays
    <2>5. QED
      BY <2>1, <2>2, <2>3, <2>4, StepOfOneWriter
  <1>2. CASE CreateClaim(w)
    <2> USE <1>2 DEF CreateClaim, ClaimInv
    <2>1. ClaimTypeOK'
      BY DEF ClaimTypeOK, WriterDoing
    <2>2. Only(w)
      BY DEF ClaimTypeOK, WriterDoing, Only
    <2>3. OfItsHost(w)'
      BY DEF ClaimAssumption, ClaimTypeOK, WriterDoing, OfItsHost, Accounted, GoneTokens
    <2>4. AccountsKept /\ RemovalsOK'
      BY StayingStep DEF Stays
    <2>5. QED
      BY <2>1, <2>2, <2>3, <2>4, StepOfOneWriter
  <1>3. QED
    BY <1>1, <1>2

\* Only a claim of the same host is adopted or looked at again.
LEMMA AcquireStep ==
  ASSUME ClaimAssumption, ClaimInv, NEW w \in Writers, Acquire(w)
  PROVE  ClaimInv'
  <1>1. claim.by \in Writers /\ UNCHANGED <<identity, claim, removals>>
    BY DEF Acquire, ClaimInv, ClaimTypeOK
  <1>2. PICK place \in {"holding", "verify", "refused"} :
          /\ writer' = [writer EXCEPT ![w] = [at |-> place, seen |-> claim.by,
                                              attempts |-> writer[w].attempts + 1]]
          /\ place # "refused" => Host(claim.by) = Host(w)
          /\ held' = IF place = "holding" THEN [held EXCEPT ![w] = claim.by] ELSE held
    BY DEF Acquire, Decide
  <1>3. ClaimTypeOK'
    BY <1>1, <1>2 DEF ClaimInv, ClaimTypeOK, WriterDoing
  <1>4. Only(w)
    BY <1>1, <1>2 DEF ClaimInv, ClaimTypeOK, WriterDoing, Only
  <1>5. OfItsHost(w)'
    BY <1>1, <1>2
    DEF ClaimAssumption, ClaimInv, ClaimTypeOK, WriterDoing, OfItsHost, Accounted, GoneTokens
  <1>6. AccountsKept /\ RemovalsOK'
    BY <1>1, StayingStep DEF Stays
  <1>7. QED
    BY <1>3, <1>4, <1>5, <1>6, StepOfOneWriter

\* A removal goes by the token that was seen before.
LEMMA RemoveStep ==
  ASSUME ClaimAssumption, ClaimInv, NEW w \in Writers,
         VerifyToken(w) \/ Unlink(w) \/ Release(w)
  PROVE  ClaimInv'
  <1>1. CASE VerifyToken(w)
    <2> USE <1>1 DEF VerifyToken, ClaimInv
    <2>1. ClaimTypeOK'
      <3>1. writer' = writer \/ \E place \in WriterPlaces : writer' = [writer EXCEPT ![w].at = place]
        OBVIOUS
      <3>2. writer' \in [Writers -> WriterDoing]
        <4>1. CASE writer' = writer
          BY <4>1 DEF ClaimTypeOK
        <4>2. ASSUME NEW place \in WriterPlaces, writer' = [writer EXCEPT ![w].at = place]
              PROVE  writer' \in [Writers -> WriterDoing]
          <5>1. ClaimTypeOK
            OBVIOUS
          <5>2. [writer EXCEPT ![w].at = place] \in [Writers -> WriterDoing]
            BY <5>1, GoingIsDoing
          <5>3. QED
            BY <4>2, <5>2
        <4>3. QED
          BY <3>1, <4>1, <4>2
      <3>3. identity' = identity /\ held' \in [Writers -> Writers \cup {"none"}]
        BY DEF ClaimTypeOK, WriterDoing
      <3>4. claim' \in {NoClaim} \cup
              [by : Writers, age : {"fresh", "old", "ahead", "skewed"}, torn : BOOLEAN]
        BY DEF ClaimTypeOK, WriterDoing
      <3>5. QED
        BY <3>2, <3>3, <3>4 DEF ClaimTypeOK
    <2>2. Only(w)
      BY DEF ClaimTypeOK, WriterDoing, Only
    <2>3. OfItsHost(w)'
      BY DEF ClaimAssumption, ClaimTypeOK, WriterDoing, OfItsHost, Accounted, GoneTokens
    <2>4. AccountsKept /\ RemovalsOK'
      BY StayingStep DEF Stays
    <2>5. QED
      BY <2>1, <2>2, <2>3, <2>4, StepOfOneWriter
  <1>2. CASE Unlink(w)
    <2> USE <1>2 DEF Unlink, Removed, ClaimInv
    <2>1. ClaimTypeOK'
      <3>1. writer' = writer \/ \E place \in WriterPlaces : writer' = [writer EXCEPT ![w].at = place]
        OBVIOUS
      <3>2. writer' \in [Writers -> WriterDoing]
        <4>1. CASE writer' = writer
          BY <4>1 DEF ClaimTypeOK
        <4>2. ASSUME NEW place \in WriterPlaces, writer' = [writer EXCEPT ![w].at = place]
              PROVE  writer' \in [Writers -> WriterDoing]
          <5>1. ClaimTypeOK
            OBVIOUS
          <5>2. [writer EXCEPT ![w].at = place] \in [Writers -> WriterDoing]
            BY <5>1, GoingIsDoing
          <5>3. QED
            BY <4>2, <5>2
        <4>3. QED
          BY <3>1, <4>1, <4>2
      <3>3. identity' = identity /\ held' \in [Writers -> Writers \cup {"none"}]
        BY DEF ClaimTypeOK, WriterDoing
      <3>4. claim' \in {NoClaim} \cup
              [by : Writers, age : {"fresh", "old", "ahead", "skewed"}, torn : BOOLEAN]
        BY DEF ClaimTypeOK, WriterDoing
      <3>5. QED
        BY <3>2, <3>3, <3>4 DEF ClaimTypeOK
    <2>2. Only(w)
      BY DEF ClaimTypeOK, WriterDoing, Only
    <2>3. AccountsKept /\ RemovalsOK'
      <3>1. /\ Removed(claim.by, writer[w].seen, w) /\ identity' = identity
            /\ writer[w].seen \in Writers /\ Host(writer[w].seen) = Host(w)
            /\ Accounted(writer[w].seen)
        BY DEF OfItsHost
      <3>2. QED
        BY <3>1, RemovingStep
    <2>4. OfItsHost(w)'
      <3>1. held[w] \in Writers \cup {"none"} /\ OfItsHost(w)
        BY DEF ClaimTypeOK
      <3>2. held[w] # "none" => Accounted(held[w])
        BY <3>1 DEF OfItsHost
      <3>3. held[w] # "none" => held[w] = claim'.by \/ held[w] \in GoneTokens'
        BY <2>3, <3>1, <3>2 DEF AccountsKept, Accounted
      <3>4. PICK place \in WriterPlaces :
              /\ writer' = [writer EXCEPT ![w].at = place]
              /\ place \notin ClaimChecked
              /\ \/ held' = held /\ (place \in ClaimHeld => WriterAt(w, ClaimHeld))
                 \/ held' = [held EXCEPT ![w] = "none"] /\ place \notin ClaimHeld
        OBVIOUS
      <3>5. writer'[w].at = place /\ held'[w] \in {held[w], "none"}
        BY <3>4 DEF ClaimTypeOK, WriterDoing
      <3>6. WriterAt(w, ClaimHeld)' => held'[w] # "none"
        BY <3>1, <3>4, <3>5 DEF OfItsHost
      <3>7. held'[w] # "none" => Host(held[w])' = Host(w)' /\ held'[w] = held[w]
        BY <3>1, <3>5 DEF OfItsHost
      <3>8. ~WriterAt(w, ClaimChecked)'
        BY <3>4, <3>5
      <3>9. QED
        BY <3>3, <3>6, <3>7, <3>8 DEF OfItsHost, Accounted
    <2>5. QED
      BY <2>1, <2>2, <2>3, <2>4, StepOfOneWriter
  <1>3. CASE Release(w)
    <2> USE <1>3 DEF Release, ClaimInv
    <2>1. ClaimTypeOK'
      <3>1. writer' \in [Writers -> WriterDoing]
        BY GoingIsDoing DEF ClaimTypeOK
      <3>2. identity' = identity /\ held' \in [Writers -> Writers \cup {"none"}]
        BY DEF ClaimTypeOK, WriterDoing
      <3>3. claim' \in {NoClaim} \cup
              [by : Writers, age : {"fresh", "old", "ahead", "skewed"}, torn : BOOLEAN]
        BY DEF ClaimTypeOK, WriterDoing
      <3>4. QED
        BY <3>1, <3>2, <3>3 DEF ClaimTypeOK
    <2>2. Only(w)
      BY DEF ClaimTypeOK, WriterDoing, Only
    <2>3. OfItsHost(w)'
      BY DEF ClaimAssumption, ClaimTypeOK, WriterDoing, OfItsHost, Accounted, GoneTokens
    <2>4. AccountsKept /\ RemovalsOK'
      BY StayingStep DEF Stays
    <2>5. QED
      BY <2>1, <2>2, <2>3, <2>4, StepOfOneWriter
  <1>4. QED
    BY <1>1, <1>2, <1>3

\* A renewal writes through the descriptor of the claim that is held.
LEMMA RenewStep ==
  ASSUME ClaimAssumption, ClaimInv, NEW w \in Writers,
         OpenToRenew(w) \/ Truncate(w) \/ Rewrite(w) \/ WriterDies(w)
  PROVE  ClaimInv'
  <1>1. CASE OpenToRenew(w)
    <2> USE <1>1 DEF OpenToRenew, ClaimInv
    <2>1. ClaimTypeOK'
      <3>1. writer' = writer \/ \E place \in WriterPlaces : writer' = [writer EXCEPT ![w].at = place]
        OBVIOUS
      <3>2. writer' \in [Writers -> WriterDoing]
        <4>1. CASE writer' = writer
          BY <4>1 DEF ClaimTypeOK
        <4>2. ASSUME NEW place \in WriterPlaces, writer' = [writer EXCEPT ![w].at = place]
              PROVE  writer' \in [Writers -> WriterDoing]
          <5>1. ClaimTypeOK
            OBVIOUS
          <5>2. [writer EXCEPT ![w].at = place] \in [Writers -> WriterDoing]
            BY <5>1, GoingIsDoing
          <5>3. QED
            BY <4>2, <5>2
        <4>3. QED
          BY <3>1, <4>1, <4>2
      <3>3. identity' = identity /\ held' \in [Writers -> Writers \cup {"none"}]
        BY DEF ClaimTypeOK, WriterDoing
      <3>4. claim' \in {NoClaim} \cup
              [by : Writers, age : {"fresh", "old", "ahead", "skewed"}, torn : BOOLEAN]
        BY DEF ClaimTypeOK, WriterDoing
      <3>5. QED
        BY <3>2, <3>3, <3>4 DEF ClaimTypeOK
    <2>2. Only(w)
      BY DEF ClaimTypeOK, WriterDoing, Only
    <2>3. OfItsHost(w)'
      BY DEF ClaimAssumption, ClaimTypeOK, WriterDoing, OfItsHost, Accounted, GoneTokens
    <2>4. AccountsKept /\ RemovalsOK'
      BY StayingStep DEF Stays
    <2>5. QED
      BY <2>1, <2>2, <2>3, <2>4, StepOfOneWriter
  <1>2. CASE Truncate(w)
    <2> USE <1>2 DEF Truncate, ClaimInv
    <2>1. ClaimTypeOK'
      <3>1. writer' \in [Writers -> WriterDoing]
        BY GoingIsDoing DEF ClaimTypeOK
      <3>2. identity' = identity /\ held' \in [Writers -> Writers \cup {"none"}]
        BY DEF ClaimTypeOK, WriterDoing
      <3>3. claim' \in {NoClaim} \cup
              [by : Writers, age : {"fresh", "old", "ahead", "skewed"}, torn : BOOLEAN]
        <4>1. CASE claim.by = held[w]
          <5>1. claim.by # "none"
            BY <4>1 DEF OfItsHost
          <5>2. PICK by \in Writers, age \in {"fresh", "old", "ahead", "skewed"}, torn \in BOOLEAN :
                  claim = [by |-> by, age |-> age, torn |-> torn]
            BY <5>1 DEF ClaimTypeOK
          <5>3. claim' = [by |-> by, age |-> age, torn |-> TRUE]
            BY <4>1, <5>2
          <5>4. QED
            <6>1. claim' \in [by : Writers, age : {"fresh", "old", "ahead", "skewed"},
                              torn : BOOLEAN]
              BY ONLY <5>2, <5>3
            <6>2. QED
              BY ONLY <6>1
        <4>2. CASE claim.by # held[w]
          BY <4>2 DEF ClaimTypeOK
        <4>3. QED
          BY <4>1, <4>2
      <3>4. QED
        BY <3>1, <3>2, <3>3 DEF ClaimTypeOK
    <2>2. Only(w)
      BY DEF ClaimTypeOK, WriterDoing, Only
    <2>3. OfItsHost(w)'
      BY DEF ClaimAssumption, ClaimTypeOK, WriterDoing, OfItsHost, Accounted, GoneTokens
    <2>4. AccountsKept /\ RemovalsOK'
      BY StayingStep DEF Stays
    <2>5. QED
      BY <2>1, <2>2, <2>3, <2>4, StepOfOneWriter
  <1>3. CASE Rewrite(w)
    <2> USE <1>3 DEF Rewrite, ClaimInv
    <2>1. ClaimTypeOK'
      <3>1. writer' \in [Writers -> WriterDoing]
        BY GoingIsDoing DEF ClaimTypeOK
      <3>2. identity' = identity /\ held' \in [Writers -> Writers \cup {"none"}]
        BY DEF ClaimTypeOK, WriterDoing
      <3>3. claim' \in {NoClaim} \cup
              [by : Writers, age : {"fresh", "old", "ahead", "skewed"}, torn : BOOLEAN]
        BY DEF ClaimTypeOK, OfItsHost
      <3>4. QED
        BY <3>1, <3>2, <3>3 DEF ClaimTypeOK
    <2>2. Only(w)
      BY DEF ClaimTypeOK, WriterDoing, Only
    <2>3. OfItsHost(w)'
      BY DEF ClaimAssumption, ClaimTypeOK, WriterDoing, OfItsHost, Accounted, GoneTokens
    <2>4. AccountsKept /\ RemovalsOK'
      BY StayingStep DEF Stays
    <2>5. QED
      BY <2>1, <2>2, <2>3, <2>4, StepOfOneWriter
  <1>4. CASE WriterDies(w)
    <2> USE <1>4 DEF WriterDies, ClaimInv
    <2>1. ClaimTypeOK'
      <3>1. writer' \in [Writers -> WriterDoing]
        BY GoingIsDoing DEF ClaimTypeOK
      <3>2. identity' = identity /\ held' \in [Writers -> Writers \cup {"none"}]
        BY DEF ClaimTypeOK, WriterDoing
      <3>3. claim' \in {NoClaim} \cup
              [by : Writers, age : {"fresh", "old", "ahead", "skewed"}, torn : BOOLEAN]
        BY DEF ClaimTypeOK, WriterDoing
      <3>4. QED
        BY <3>1, <3>2, <3>3 DEF ClaimTypeOK
    <2>2. Only(w)
      BY DEF ClaimTypeOK, WriterDoing, Only
    <2>3. OfItsHost(w)'
      BY DEF ClaimAssumption, ClaimTypeOK, WriterDoing, OfItsHost, Accounted, GoneTokens
    <2>4. AccountsKept /\ RemovalsOK'
      BY StayingStep DEF Stays
    <2>5. QED
      BY <2>1, <2>2, <2>3, <2>4, StepOfOneWriter
  <1>5. QED
    BY <1>1, <1>2, <1>3, <1>4

\* Every step preserves the invariant, the world's included.
LEMMA ClaimStep ==
  ASSUME ClaimAssumption, ClaimInv, [ClaimNext]_claimVars
  PROVE  ClaimInv'
  <1>1. CASE UNCHANGED claimVars
    BY <1>1
    DEF claimVars, ClaimInv, ClaimTypeOK, OfItsHost, Accounted, GoneTokens, RemovalsOK
  <1>2. ASSUME NEW age \in {"old", "ahead", "skewed"}, ClaimAges(age)
        PROVE  ClaimInv'
    <2>1. claim'.by = claim.by
      BY <1>2 DEF ClaimAges, ClaimInv, ClaimTypeOK
    <2>2. ClaimTypeOK'
      BY <1>2 DEF ClaimAges, ClaimInv, ClaimTypeOK
    <2>3. QED
      BY <1>2, <2>1, <2>2
      DEF ClaimAges, ClaimInv, OfItsHost, Accounted, GoneTokens, RemovalsOK
  <1>3. CASE HumanRemovesClaim
    <2>1. AccountsKept /\ RemovalsOK'
      <3>1. Removed(claim.by, claim.by, "human") /\ identity' = identity
        BY <1>3 DEF HumanRemovesClaim
      <3>2. QED
        BY <3>1, RemovingStep
    <2>2. ClaimTypeOK' /\ held' = held /\ writer' = writer /\ identity' = identity
      BY <1>3 DEF HumanRemovesClaim, Removed, ClaimInv, ClaimTypeOK
    <2>3. ASSUME NEW v \in Writers
          PROVE  OfItsHost(v)'
      <3>1. held[v] = "none" /\ OfItsHost(v)
        BY <1>3 DEF HumanRemovesClaim, ClaimInv
      <3>2. CASE WriterAt(v, ClaimChecked)
        <4>1. writer[v].seen \in Writers /\ Accounted(writer[v].seen)
          BY <3>1, <3>2 DEF OfItsHost
        <4>2. writer[v].seen = claim'.by \/ writer[v].seen \in GoneTokens'
          BY <2>1, <4>1 DEF AccountsKept, Accounted
        <4>3. QED
          BY <2>2, <3>1, <4>2 DEF OfItsHost, Accounted
      <3>3. CASE ~WriterAt(v, ClaimChecked)
        BY <2>2, <3>1, <3>3 DEF OfItsHost
      <3>4. QED
        BY <3>2, <3>3
    <2>4. QED
      BY <2>1, <2>2, <2>3 DEF ClaimInv
  <1>4. QED
    BY <1>1, <1>2, <1>3, TakeStep, AcquireStep, RemoveStep, RenewStep DEF ClaimNext

\* A claim crosses hosts by removal only: acquire looks at the host before anything else,
\* and everything later goes by the token it saw.  What is removed is the claim that was
\* checked, unless another removed that one first, and two hosts hold claims at once only
\* when one of them was removed.
THEOREM CrossingTakesRemoval ==
  ASSUME ClaimAssumption
  PROVE  ClaimSpec => []ClaimsCrossHostsByRemoval
  <1>1. ClaimInit => ClaimInv
    BY DEF ClaimInit, ClaimInv, ClaimTypeOK, WriterDoing, OfItsHost, RemovalsOK
  <1>2. ClaimInv /\ [ClaimNext]_claimVars => ClaimInv'
    BY ClaimStep
  <1>3. ClaimInv => ClaimsCrossHostsByRemoval
    BY DEF ClaimInv, OfItsHost, Accounted, RemovalsOK, ClaimsCrossHostsByRemoval
  <1>4. QED
    BY <1>1, <1>2, <1>3, PTL DEF ClaimSpec

-----------------------------------------------------------------------------
(***************************************************************************)
(* That a gateway runs only in a mode that was confirmed, and that what    *)
(* was confirmed can run, for any operators, modes, edits and losses.      *)
(*                                                                         *)
(* Confirmed says that whatever carries a token, wherever it is edited,    *)
(* carries it for a mode that was typed back: a token is only ever made    *)
(* for one.  OneKey says that first commands that race end up with the key *)
(* that is on file, as long as files can be linked and nothing is lost.    *)
(***************************************************************************)

Busy == {"key", "fill", "read", "write"}
Lists == {<<"artifact", "record">>, <<"record">>}

\* A command that is under way, for a mode that was typed back.
IsCommand(s) ==
  /\ s = [at |-> s.at, mode |-> s.mode, key |-> s.key, left |-> s.left]
  /\ s.at \in Busy /\ s.left \in Lists

\* Every token on the way to a gateway, or into an artifact, is for a typed mode.
Confirmed ==
  /\ setter = [o \in Operators |-> setter[o]]
  /\ \A o \in Operators : setter[o] = Idle \/ (IsCommand(setter[o]) /\ setter[o].mode \in typed)
  /\ gateway = [b \in Modes |-> gateway[b]]
  /\ \A b \in Modes :
       \/ gateway[b] = Off
       \/ gateway[b] = [at |-> "running"] /\ b \in typed
       \/ /\ gateway[b] = [at |-> "read", record |-> gateway[b].record]
          /\ gateway[b].record.token.of \in typed
  /\ \/ \E m \in Modes \cup {"none", "unknown"} : record = [mode |-> m]
     \/ record = [mode |-> record.mode, token |-> record.token] /\ record.token.of \in typed
  /\ artifact = NoArtifact \/
       /\ artifact = [mode |-> artifact.mode, expires |-> artifact.expires,
                      hmac |-> artifact.hmac]
       /\ artifact.hmac.of \in granted
  /\ \A g \in granted : g[1] \in typed
  /\ \A u \in used : \E g \in granted : g[1] = u[1] /\ u[2] < g[2]

\* With links, and until somebody edits or loses something, there is one key.
OneKey ==
  links /\ mishaps = 0 =>
    /\ key # Empty
    /\ \A o \in Operators :
         /\ setter[o].at # "fill"
         /\ setter[o].at = "read" => key # NoKey
         /\ setter[o].at = "write" => key # NoKey /\ setter[o].key = key
    /\ record # NoRecord =>
         key # NoKey /\ "token" \in DOMAIN record /\ record.token.key = key

ModeInv == Confirmed /\ OneKey /\ mishaps \in Nat

USE DEF NoKey, Empty, Token

LEMMA CommandIsBusy ==
  ASSUME NEW s, IsCommand(s)
  PROVE  s # Idle /\ s.at \in Busy /\ s.left \in Lists
  BY DEF IsCommand, Busy, Idle

LEMMA NewCommand ==
  ASSUME NEW m, NEW left \in Lists,
         NEW s, s = [at |-> "key", mode |-> m, key |-> NoKey, left |-> left]
  PROVE  IsCommand(s) /\ s.mode = m /\ s.at = "key"
  BY DEF IsCommand, Busy

\* Whoever is not idle carries out a command for a typed mode.
LEMMA BusyIsCommand ==
  ASSUME ModeInv, NEW o \in Operators, setter[o].at # "idle"
  PROVE  IsCommand(setter[o]) /\ setter[o].mode \in typed
  BY DEF ModeInv, Confirmed, Idle

\* A command that steps from one place to the next.
LEMMA CommandStep ==
  ASSUME ModeInv, NEW o \in Operators, IsCommand(setter[o]), NEW place \in Busy, NEW k,
         setter' = [setter EXCEPT ![o].at = place, ![o].key = k],
         UNCHANGED <<links, record, artifact, gateway, typed, granted, used, mishaps>>,
         links /\ mishaps = 0 =>
           /\ key' # Empty /\ place # "fill"
           /\ key # NoKey => key' = key
           /\ place = "read" => key' # NoKey
           /\ place = "write" => key' # NoKey /\ k = key'
  PROVE  ModeInv'
  <1>1. \A n \in Operators \ {o} : setter'[n] = setter[n]
    BY DEF ModeInv, Confirmed
  <1>2. setter'[o] = [setter[o] EXCEPT !.at = place, !.key = k]
    BY DEF ModeInv, Confirmed
  <1>3. setter'[o].at = place /\ setter'[o].key = k /\ setter'[o].mode = setter[o].mode
        /\ IsCommand(setter'[o])
    BY <1>2 DEF IsCommand
  <1>4. setter' = [n \in Operators |-> setter'[n]]
    BY DEF ModeInv, Confirmed
  <1>5. setter[o].mode \in typed
    BY CommandIsBusy DEF ModeInv, Confirmed
  <1>6. Confirmed'
    <2>1. \A n \in Operators :
            setter'[n] = Idle \/ (IsCommand(setter'[n]) /\ setter'[n].mode \in typed')
      <3> SUFFICES ASSUME NEW n \in Operators
                   PROVE  setter'[n] = Idle \/
                            (IsCommand(setter'[n]) /\ setter'[n].mode \in typed)
        OBVIOUS
      <3>1. CASE n = o
        BY <1>3, <1>5, <3>1
      <3>2. CASE n # o
        BY <1>1, <3>2 DEF ModeInv, Confirmed
      <3>3. QED
        BY <3>1, <3>2
    <2>2. QED
      BY <1>4, <2>1 DEF ModeInv, Confirmed
  <1>7. OneKey'
    BY <1>1, <1>3 DEF ModeInv, OneKey
  <1>8. QED
    BY <1>6, <1>7 DEF ModeInv

\* A command that begins.
LEMMA BeginStep ==
  ASSUME GatewayModeAssumption, ModeInv, NEW o \in Operators, NEW m \in Modes,
         UseArtifact(o, m) \/ \E ahead \in BOOLEAN : TypeMode(o, m, ahead)
  PROVE  ModeInv'
  <1>1. PICK left \in Lists :
          setter' = [setter EXCEPT ![o] = [at |-> "key", mode |-> m, key |-> NoKey,
                                           left |-> left]]
    BY DEF UseArtifact, TypeMode, Lists
  <1>2. UNCHANGED <<links, key, record, artifact, gateway, granted, mishaps>>
    BY DEF UseArtifact, TypeMode
  <1>3. typed \subseteq typed' /\ m \in typed'
        /\ \A u \in used' : \E g \in granted : g[1] = u[1] /\ u[2] < g[2]
    <2>1. CASE \E ahead \in BOOLEAN : TypeMode(o, m, ahead)
      BY <2>1 DEF TypeMode, ModeInv, Confirmed
    <2>2. CASE UseArtifact(o, m)
      <3>1. artifact.mode = m /\ artifact.hmac = Token(key, <<artifact.mode, artifact.expires>>)
            /\ now < artifact.expires /\ used' = used \cup {<<m, now>>} /\ typed' = typed
        BY <2>2 DEF UseArtifact, VerifyPreAuthorizationArtifact
      <3>2. artifact # NoArtifact
        <4>1. m # "none"
          BY DEF GatewayModeAssumption
        <4>2. NoArtifact.mode = "none"
          BY DEF NoArtifact
        <4>3. QED
          BY <3>1, <4>1, <4>2
      <3>3. <<m, artifact.expires>> \in granted
        BY <3>1, <3>2 DEF ModeInv, Confirmed
      <3>4. <<m, artifact.expires>>[1] = m /\ <<m, artifact.expires>>[2] = artifact.expires
            /\ <<m, now>>[1] = m /\ <<m, now>>[2] = now
        OBVIOUS
      <3>5. m \in typed
        BY <3>3, <3>4 DEF ModeInv, Confirmed
      <3>6. QED
        BY <3>1, <3>3, <3>4, <3>5 DEF ModeInv, Confirmed
    <2>3. QED
      BY <2>1, <2>2
  <1>4. /\ \A n \in Operators \ {o} : setter'[n] = setter[n]
        /\ setter'[o] = [at |-> "key", mode |-> m, key |-> NoKey, left |-> left]
        /\ setter' = [n \in Operators |-> setter'[n]]
    BY <1>1 DEF ModeInv, Confirmed
  <1>5. IsCommand(setter'[o]) /\ setter'[o].mode = m /\ setter'[o].at = "key"
    BY <1>1, <1>4, NewCommand
  <1>6. Confirmed'
    BY <1>2, <1>3, <1>4, <1>5 DEF ModeInv, Confirmed
  <1>7. OneKey'
    BY <1>2, <1>4, <1>5 DEF ModeInv, OneKey
  <1>8. QED
    BY <1>2, <1>6, <1>7 DEF ModeInv

\* Commands that find, create or read the key.
LEMMA KeyStep ==
  ASSUME GatewayModeAssumption, ModeInv, NEW o \in Operators,
         CreateKey(o) \/ FillKey(o) \/ FindKey(o) \/ ReadKey(o)
  PROVE  ModeInv'
  <1>1. IsCommand(setter[o])
    <2>1. setter[o].at # "idle"
      BY DEF CreateKey, FillKey, FindKey, ReadKey
    <2>2. QED
      BY <2>1, BusyIsCommand
  <1>2. o # NoKey /\ o # Empty
    BY DEF GatewayModeAssumption
  <1>3. UNCHANGED <<links, record, artifact, gateway, typed, granted, used, mishaps>>
    BY DEF CreateKey, FillKey, FindKey, ReadKey
  <1>4. \A place : [setter EXCEPT ![o].at = place]
                     = [setter EXCEPT ![o].at = place, ![o].key = setter[o].key]
    <2> SUFFICES ASSUME NEW place
                 PROVE  [setter[o] EXCEPT !.at = place]
                          = [setter[o] EXCEPT !.at = place, !.key = setter[o].key]
      BY DEF ModeInv, Confirmed
    <2> QED
      BY <1>1 DEF IsCommand
  <1>5. CASE CreateKey(o)
    <2>1. CASE links
      BY <1>1, <1>2, <1>3, <1>5, <2>1, CommandStep DEF CreateKey, Busy
    <2>2. CASE ~links
      <3>1. setter' = [setter EXCEPT ![o].at = "fill", ![o].key = setter[o].key]
        BY <1>4, <1>5, <2>2 DEF CreateKey, Goto
      <3>2. QED
        BY <1>1, <1>3, <2>2, <3>1, CommandStep DEF Busy
    <2>3. QED
      BY <2>1, <2>2
  <1>6. CASE FillKey(o)
    BY <1>1, <1>2, <1>3, <1>6, CommandStep DEF FillKey, Busy, ModeInv, OneKey
  <1>7. CASE FindKey(o)
    BY <1>1, <1>3, <1>4, <1>7, CommandStep DEF FindKey, Goto, Busy, ModeInv, OneKey
  <1>8. CASE ReadKey(o)
    <2>1. CASE key = NoKey
      <3>1. setter' = [setter EXCEPT ![o] = Idle]
        BY <1>8, <2>1 DEF ReadKey
      <3>2. /\ \A n \in Operators \ {o} : setter'[n] = setter[n]
            /\ setter'[o] = Idle /\ setter' = [n \in Operators |-> setter'[n]]
        BY <3>1 DEF ModeInv, Confirmed
      <3>3. Confirmed'
        BY <1>3, <3>2 DEF ModeInv, Confirmed
      <3>4. OneKey'
        <4>1. setter'[o].at = "idle" /\ key' = key
          BY <1>8, <3>2 DEF ReadKey, Idle
        <4>2. QED
          BY <1>3, <3>2, <4>1 DEF ModeInv, OneKey
      <3>5. QED
        BY <1>3, <3>3, <3>4 DEF ModeInv
    <2>2. CASE key # NoKey
      <3>1. setter' = [setter EXCEPT ![o].at = "write", ![o].key = key] /\ key' = key
        BY <1>8, <2>2 DEF ReadKey
      <3>2. links /\ mishaps = 0 => key # Empty
        BY DEF ModeInv, OneKey
      <3>3. QED
        BY <1>1, <1>3, <2>2, <3>1, <3>2, CommandStep DEF Busy
    <2>3. QED
      BY <2>1, <2>2
  <1>9. QED
    BY <1>5, <1>6, <1>7, <1>8

LEMMA WriteArtifactStep ==
  ASSUME ModeInv, NEW o \in Operators, WriteArtifact(o)
  PROVE  ModeInv'
  <1> DEFINE m == setter[o].mode
             e == now + Lifetime
  <1>1. /\ setter[o].at = "write" /\ Head(setter[o].left) = "artifact"
        /\ artifact' = [mode |-> m, expires |-> e, hmac |-> Token(setter[o].key, <<m, e>>)]
        /\ granted' = granted \cup {<<m, e>>}
        /\ setter' = [setter EXCEPT ![o].at = "key", ![o].left = Tail(@)]
        /\ UNCHANGED <<links, key, record, gateway, typed, used, mishaps>>
    BY DEF WriteArtifact
  <1>2. IsCommand(setter[o]) /\ m \in typed
    BY <1>1 DEF ModeInv, Confirmed, Idle
  <1>3. Tail(setter[o].left) \in Lists
    <2>1. CASE setter[o].left = <<"artifact", "record">>
      <3>1. Tail(<<"artifact", "record">>) = <<"record">>
        OBVIOUS
      <3>2. QED
        BY <2>1, <3>1 DEF Lists
    <2>2. CASE setter[o].left = <<"record">>
      <3>1. Head(<<"record">>) = "record"
        OBVIOUS
      <3>2. QED
        BY <1>1, <2>2, <3>1
    <2>3. QED
      BY <1>2, <2>1, <2>2, CommandIsBusy DEF Lists
  <1>4. /\ \A n \in Operators \ {o} : setter'[n] = setter[n]
        /\ setter'[o] = [setter[o] EXCEPT !.at = "key", !.left = Tail(@)]
        /\ setter' = [n \in Operators |-> setter'[n]]
    BY <1>1 DEF ModeInv, Confirmed
  <1>5. IsCommand(setter'[o]) /\ setter'[o].mode = m /\ setter'[o].at = "key"
    BY <1>2, <1>3, <1>4 DEF IsCommand, Busy
  <1>6. <<m, e>>[1] = m
    OBVIOUS
  <1> HIDE DEF m, e
  <1>7. artifact'.hmac.of \in granted' /\ artifact' = [mode |-> artifact'.mode,
             expires |-> artifact'.expires, hmac |-> artifact'.hmac]
    BY <1>1
  <1>8. Confirmed'
    BY <1>1, <1>2, <1>4, <1>5, <1>6, <1>7 DEF ModeInv, Confirmed
  <1>9. OneKey'
    BY <1>1, <1>4, <1>5 DEF ModeInv, OneKey
  <1>10. QED
    BY <1>1, <1>8, <1>9 DEF ModeInv

LEMMA WriteGatewayModeStep ==
  ASSUME ModeInv, NEW o \in Operators, WriteGatewayMode(o)
  PROVE  ModeInv'
  <1>1. /\ setter[o].at = "write"
        /\ record' = [mode |-> setter[o].mode,
                      token |-> [key |-> setter[o].key, of |-> setter[o].mode]]
        /\ setter' = [setter EXCEPT ![o] = Idle]
        /\ UNCHANGED <<links, key, artifact, gateway, typed, granted, used, mishaps>>
    BY DEF WriteGatewayMode, Confirmation
  <1>2. setter[o].mode \in typed
    BY <1>1 DEF ModeInv, Confirmed, Idle
  <1>3. /\ \A n \in Operators \ {o} : setter'[n] = setter[n]
        /\ setter'[o] = Idle /\ setter' = [n \in Operators |-> setter'[n]]
    BY <1>1 DEF ModeInv, Confirmed
  <1>4. record'.token.of \in typed /\ record'.token.key = setter[o].key
        /\ "token" \in DOMAIN record'
        /\ record' = [mode |-> record'.mode, token |-> record'.token]
    BY <1>1, <1>2
  <1>5. Confirmed'
    BY <1>1, <1>3, <1>4 DEF ModeInv, Confirmed
  <1>6. OneKey'
    BY <1>1, <1>3, <1>4 DEF ModeInv, OneKey, Idle
  <1>7. QED
    BY <1>1, <1>5, <1>6 DEF ModeInv

\* A gateway keeps the record it has read until it has recomputed the token.
LEMMA GatewayStep ==
  ASSUME ModeInv, NEW b \in Modes,
         ReadGatewayModeFile(b) \/ ReadAndValidateGatewayMode(b) \/ StopGateway(b)
  PROVE  ModeInv'
  <1>1. UNCHANGED <<links, key, record, artifact, setter, typed, granted, used, mishaps>>
    BY DEF ReadGatewayModeFile, ReadAndValidateGatewayMode, StopGateway
  <1>2. PICK g : gateway' = [gateway EXCEPT ![b] = g] /\
          \/ g = [at |-> "read", record |-> record] /\ "token" \in DOMAIN record
          \/ g = Off
          \/ /\ g = [at |-> "running"] /\ gateway[b].at = "read"
             /\ gateway[b].record.token = Confirmation(key, gateway[b].record.mode)
             /\ gateway[b].record.mode = b
    BY DEF ReadGatewayModeFile, ReadAndValidateGatewayMode, StopGateway
  <1>3. /\ \A c \in Modes \ {b} : gateway'[c] = gateway[c]
        /\ gateway'[b] = g /\ gateway' = [c \in Modes |-> gateway'[c]]
    BY <1>2 DEF ModeInv, Confirmed
  <1>4. \/ g = Off
        \/ g = [at |-> "running"] /\ b \in typed
        \/ g = [at |-> "read", record |-> g.record] /\ g.record.token.of \in typed
    <2>1. CASE g = [at |-> "read", record |-> record] /\ "token" \in DOMAIN record
      BY <2>1 DEF ModeInv, Confirmed
    <2>2. CASE /\ g = [at |-> "running"] /\ gateway[b].at = "read"
               /\ gateway[b].record.token = Confirmation(key, gateway[b].record.mode)
               /\ gateway[b].record.mode = b
      <3>1. gateway[b].record.token.of = b
        BY <2>2 DEF Confirmation
      <3>2. gateway[b].record.token.of \in typed
        BY <2>2 DEF ModeInv, Confirmed, Off
      <3>3. QED
        BY <2>2, <3>1, <3>2
    <2>3. QED
      BY <1>2, <2>1, <2>2
  <1>5. Confirmed'
    BY <1>1, <1>3, <1>4 DEF ModeInv, Confirmed
  <1>6. OneKey' /\ mishaps' \in Nat
    BY <1>1 DEF ModeInv, OneKey
  <1>7. QED
    BY <1>5, <1>6 DEF ModeInv

\* An edit leaves every token as it is, and OneKey behind.
LEMMA EditModeStep ==
  ASSUME ModeInv, EditFile
  PROVE  ModeInv'
  <1>1. /\ UNCHANGED <<links, key, setter, gateway, now, typed, granted, used, sets>>
        /\ mishaps' = mishaps + 1
    BY DEF EditFile
  <1>2. OneKey' /\ mishaps' \in Nat
    <2>1. mishaps' \in Nat /\ mishaps' # 0
      BY <1>1 DEF ModeInv
    <2>2. QED
      BY <2>1 DEF OneKey
  <1>3. PICK m : \/ /\ record # NoRecord /\ record' = [record EXCEPT !.mode = m]
                    /\ artifact' = artifact /\ m \in Modes \cup {"unknown"}
                 \/ record' = [mode |-> m] /\ artifact' = artifact /\ m \in Modes
                 \/ /\ artifact # NoArtifact /\ artifact' = [artifact EXCEPT !.mode = m]
                    /\ record' = record
                 \/ /\ artifact # NoArtifact /\ artifact' = [artifact EXCEPT !.expires = m]
                    /\ record' = record
    BY DEF EditFile
  <1>4. \/ \E n \in Modes \cup {"none", "unknown"} : record' = [mode |-> n]
        \/ /\ record' = [mode |-> record'.mode, token |-> record'.token]
           /\ record'.token.of \in typed
    BY <1>3 DEF ModeInv, Confirmed
  <1>5. artifact' = NoArtifact \/
          /\ artifact' = [mode |-> artifact'.mode, expires |-> artifact'.expires,
                          hmac |-> artifact'.hmac]
          /\ artifact'.hmac.of \in granted
    BY <1>3 DEF ModeInv, Confirmed
  <1>6. Confirmed'
    BY <1>1, <1>4, <1>5 DEF ModeInv, Confirmed
  <1>7. QED
    BY <1>2, <1>6 DEF ModeInv

LEMMA ModeInvInit ==
  ASSUME ModeInit
  PROVE  ModeInv
  <1>1. Confirmed
    BY DEF ModeInit, Confirmed, NoRecord, NoArtifact
  <1>2. OneKey /\ mishaps \in Nat
    BY DEF ModeInit, OneKey, Idle
  <1>3. QED
    BY <1>1, <1>2 DEF ModeInv

LEMMA ModeInvStep ==
  ASSUME GatewayModeAssumption, ModeInv, [ModeNext]_modeVars
  PROVE  ModeInv'
  <1>1. CASE UNCHANGED modeVars \/ Tick
    <2>1. UNCHANGED <<links, key, record, artifact, setter, gateway, typed, granted, used,
                      mishaps>>
      BY <1>1 DEF modeVars, Tick
    <2>2. QED
      BY <2>1 DEF ModeInv, Confirmed, OneKey
  <1>2. CASE LoseKey
    <2>1. /\ UNCHANGED <<links, record, artifact, setter, gateway, typed, granted, used>>
          /\ mishaps' = mishaps + 1
      BY <1>2 DEF LoseKey
    <2>2. mishaps' \in Nat /\ mishaps' # 0
      BY <2>1 DEF ModeInv
    <2>3. Confirmed'
      BY <2>1 DEF ModeInv, Confirmed
    <2>4. QED
      BY <2>2, <2>3 DEF ModeInv, OneKey
  <1>3. ASSUME NEW o \in Operators, Set(o) PROVE ModeInv'
    BY <1>3, BeginStep, KeyStep, WriteArtifactStep, WriteGatewayModeStep DEF Set
  <1>4. QED
    BY <1>1, <1>2, <1>3, GatewayStep, EditModeStep DEF ModeNext

\* The mode a gateway runs in was typed back by an operator, artifacts are used as they
\* were signed and in time, and what was confirmed lets the gateway of that mode start.
THEOREM ModesAreConfirmed ==
  ASSUME GatewayModeAssumption
  PROVE  ModeSpec => []ModeIsConfirmed
  <1>1. ModeInit => ModeInv
    BY ModeInvInit
  <1>2. ModeInv /\ [ModeNext]_modeVars => ModeInv'
    BY ModeInvStep
  <1>3. ModeInv => RunningModeWasConfirmed
    BY DEF ModeInv, Confirmed, RunningModeWasConfirmed, Off
  <1>4. ModeInv => ConfirmedModeCanStart
    BY DEF ModeInv, OneKey, ConfirmedModeCanStart
  <1>5. QED
    BY <1>1, <1>2, <1>3, <1>4, PTL DEF ModeSpec, ModeIsConfirmed

-----------------------------------------------------------------------------
(***************************************************************************)
(* That the shipped form of a project governs its runs, for any adapter,   *)
(* tunables, bounds and edits.  The manifest can be edited, but only in    *)
(* its bounds, and not together with its self hash (Sealed); so whatever   *)
(* passes VerifyFrozen is the shipped form, and as long as no file is      *)
(* edited a manager that was verified still sees what it verified.         *)
(***************************************************************************)

ManagerPlaces == {"loaded", "verified", "up", "working", "acting"}

\* The files, but for what is in the adapter, the bounds and the tunable.
DiskTypeOK ==
  /\ disk = [core |-> disk.core, adapter |-> disk.adapter, value |-> disk.value,
             prompt |-> disk.prompt, watchdog |-> disk.watchdog, manifest |-> disk.manifest]
  /\ disk.manifest = [core |-> disk.manifest.core, adapter |-> disk.manifest.adapter,
                      bounds |-> disk.manifest.bounds, self |-> disk.manifest.self]

ManagerTypeOK ==
  manager = Down \/
  /\ manager = [at |-> manager.at, core |-> manager.core, value |-> manager.value,
                to |-> manager.to]
  /\ manager.at \in ManagerPlaces

\* Nothing but scaffold.js computes a self hash.
Sealed ==
  /\ disk.manifest.core = "shipped" /\ disk.manifest.adapter = Shipped
  /\ disk.manifest.self = <<"shipped", Shipped, ShippedBounds>>

\* What a manager of undisturbed files has found out about them.
Verified ==
  manager # Down /\ undisturbed =>
    /\ manager.core = disk.core
    /\ manager.at # "loaded" => VerifyFrozen(disk) /\ manager.value \in disk.manifest.bounds
    /\ manager.at \in {"up", "working", "acting"} => manager.to \subseteq Shipped.to

ProjectInv ==
  DiskTypeOK /\ ManagerTypeOK /\ Sealed /\ Verified /\ OpenEffectIsJudgedAsShipped

\* Files that pass the check are in their shipped form.
LEMMA OnlyShippedPasses ==
  ASSUME Sealed, VerifyFrozen(disk)
  PROVE  /\ disk.core = "shipped" /\ disk.adapter = Shipped
         /\ disk.manifest.bounds = ShippedBounds
  BY DEF Sealed, VerifyFrozen

LEMMA ProjectInvInit ==
  ASSUME ProjectAssumption, ProjectInit
  PROVE  ProjectInv
  <1>1. DiskTypeOK /\ Sealed
    BY DEF ProjectInit, ScaffoldProject, BuildWorkflowManifest, DiskTypeOK, Sealed
  <1>2. ManagerTypeOK /\ Verified
    BY DEF ProjectInit, ManagerTypeOK, Verified
  <1>3. OpenEffectIsJudgedAsShipped
    BY DEF ProjectInit, OpenEffectIsJudgedAsShipped
  <1>4. QED
    BY <1>1, <1>2, <1>3 DEF ProjectInv

\* A step of a manager, seen from the files: they stay as they are.
LEMMA ManagerStep ==
  ASSUME ProjectInv, disk' = disk, ManagerTypeOK', Verified', OpenEffectIsJudgedAsShipped'
  PROVE  ProjectInv'
  BY DEF ProjectInv, DiskTypeOK, Sealed

LEMMA DownStep ==
  ASSUME ProjectInv, disk' = disk, manager' = Down, OpenEffectIsJudgedAsShipped'
  PROVE  ProjectInv'
  BY ManagerStep DEF ManagerTypeOK, Verified

\* A manager that goes on with what it has found out.
LEMMA GoingOnStep ==
  ASSUME ProjectInv, NEW place \in {"up", "working", "acting"},
         manager # Down, manager.at \in {"up", "working", "acting"},
         manager' = [manager EXCEPT !.at = place],
         UNCHANGED <<disk, message, undisturbed>>
  PROVE  ProjectInv'
  <1>1. /\ manager' # Down /\ manager'.at = place /\ manager'.core = manager.core
        /\ manager'.value = manager.value /\ manager'.to = manager.to
        /\ manager' = [at |-> manager'.at, core |-> manager'.core, value |-> manager'.value,
                       to |-> manager'.to]
    BY DEF ProjectInv, ManagerTypeOK, Down
  <1>2. ManagerTypeOK'
    BY <1>1 DEF ManagerTypeOK, ManagerPlaces
  <1>3. Verified'
    BY <1>1 DEF ProjectInv, Verified, VerifyFrozen
  <1>4. OpenEffectIsJudgedAsShipped'
    BY DEF ProjectInv, OpenEffectIsJudgedAsShipped
  <1>5. QED
    BY <1>2, <1>3, <1>4, ManagerStep

LEMMA StartStep ==
  ASSUME ProjectInv, Start
  PROVE  ProjectInv'
  <1>1. /\ manager' = [at |-> "loaded", core |-> disk.core, value |-> disk.value, to |-> {}]
        /\ disk' = disk /\ message' = Quiet
    BY DEF Start
  <1>2. ManagerTypeOK' /\ Verified'
    BY <1>1 DEF ManagerTypeOK, Verified, ManagerPlaces
  <1>3. OpenEffectIsJudgedAsShipped'
    BY <1>1 DEF OpenEffectIsJudgedAsShipped
  <1>4. QED
    BY <1>1, <1>2, <1>3, ManagerStep

LEMMA VerifyStep ==
  ASSUME ProjectInv, manager # Down, Verify
  PROVE  ProjectInv'
  <1>1. OpenEffectIsJudgedAsShipped' /\ disk' = disk
    BY DEF Verify, ProjectInv, OpenEffectIsJudgedAsShipped
  <1>2. CASE LoadTunables(disk)
    <2>1. manager' = [manager EXCEPT !.at = "verified", !.value = disk.value]
      BY <1>2 DEF Verify
    <2>2. /\ manager' # Down /\ manager'.at = "verified" /\ manager'.core = manager.core
          /\ manager'.value = disk.value
          /\ manager' = [at |-> manager'.at, core |-> manager'.core,
                         value |-> manager'.value, to |-> manager'.to]
      BY <2>1 DEF ProjectInv, ManagerTypeOK, Down
    <2>3. ManagerTypeOK'
      BY <2>2 DEF ManagerTypeOK, ManagerPlaces
    <2>4. Verified'
      BY <1>1, <1>2, <2>2 DEF Verify, ProjectInv, Verified, LoadTunables, VerifyFrozen
    <2>5. QED
      BY <1>1, <2>3, <2>4, ManagerStep
  <1>3. CASE ~LoadTunables(disk)
    BY <1>1, <1>3, DownStep DEF Verify
  <1>4. QED
    BY <1>2, <1>3

LEMMA CreateSupervisorStep ==
  ASSUME ProjectAssumption, ProjectInv, manager # Down, CreateSupervisor
  PROVE  ProjectInv'
  <1>1. OpenEffectIsJudgedAsShipped' /\ disk' = disk
    BY DEF CreateSupervisor, ProjectInv, OpenEffectIsJudgedAsShipped
  <1>2. manager' = [manager EXCEPT !.at = "up", !.to = LoadAllowlist(disk)]
        /\ manager.at = "verified"
    BY DEF CreateSupervisor, ManagerAt
  <1>3. /\ manager' # Down /\ manager'.at = "up" /\ manager'.core = manager.core
        /\ manager'.value = manager.value /\ manager'.to = LoadAllowlist(disk)
        /\ manager' = [at |-> manager'.at, core |-> manager'.core,
                       value |-> manager'.value, to |-> manager'.to]
    BY <1>2 DEF ProjectInv, ManagerTypeOK, Down
  <1>4. ManagerTypeOK'
    BY <1>3 DEF ManagerTypeOK, ManagerPlaces
  <1>5. Verified'
    <2>1. ASSUME undisturbed
          PROVE  VerifyFrozen(disk) /\ manager.value \in disk.manifest.bounds
                 /\ manager.core = disk.core
      BY <1>2, <2>1 DEF CreateSupervisor, ProjectInv, Verified
    <2>2. undisturbed => LoadAllowlist(disk) = Shipped.to
      BY <2>1, OnlyShippedPasses DEF ProjectInv, LoadAllowlist, ProjectAssumption
    <2>3. QED
      BY <1>1, <1>3, <2>1, <2>2 DEF CreateSupervisor, Verified, VerifyFrozen
  <1>6. QED
    BY <1>1, <1>4, <1>5, ManagerStep

\* The only message about an open effect comes from a manager that was verified.
LEMMA RunWorkerStep ==
  ASSUME ProjectInv, manager # Down, RunWorker
  PROVE  ProjectInv'
  <1>1. disk' = disk /\ undisturbed' = undisturbed /\ manager.at = "working"
    BY DEF RunWorker, ManagerAt
  <1>2. CASE manager' = Down /\ message' = message
    BY <1>1, <1>2, DownStep DEF ProjectInv, OpenEffectIsJudgedAsShipped
  <1>3. CASE manager' = Down /\ message' = KillMessageFor
    <2>1. undisturbed => KillMessageFor \in {DeriveKillMessage(Shipped, TRUE, FALSE, "none"),
                                              "reconciliation-required"}
      BY <1>1, OnlyShippedPasses DEF ProjectInv, Verified, KillMessageFor
    <2>2. QED
      BY <1>1, <1>3, <2>1, DownStep DEF OpenEffectIsJudgedAsShipped
  <1>4. CASE manager' = [manager EXCEPT !.at = "acting"] /\ message' = message
    BY <1>1, <1>4, GoingOnStep
  <1>5. QED
    BY <1>2, <1>3, <1>4 DEF RunWorker

LEMMA EditProjectStep ==
  ASSUME ProjectInv, Edit
  PROVE  ProjectInv'
  <1>1. manager' = manager /\ ~undisturbed'
    BY DEF Edit
  <1>2. PICK a, v, b, c, p :
          \/ disk' = [disk EXCEPT !.adapter = a]
          \/ disk' = [disk EXCEPT !.value = v]
          \/ disk' = [disk EXCEPT !.manifest.bounds = b]
          \/ disk' = [disk EXCEPT !.core = c]
          \/ disk' = [disk EXCEPT !.prompt = p]
    BY DEF Edit
  <1>3. DiskTypeOK' /\ Sealed'
    BY <1>2 DEF ProjectInv, DiskTypeOK, Sealed
  <1>4. ManagerTypeOK' /\ Verified' /\ OpenEffectIsJudgedAsShipped'
    BY <1>1 DEF ProjectInv, ManagerTypeOK, Verified, OpenEffectIsJudgedAsShipped
  <1>5. QED
    BY <1>3, <1>4 DEF ProjectInv

LEMMA ProjectInvStep ==
  ASSUME ProjectAssumption, ProjectInv, [ProjectNext]_projectVars
  PROVE  ProjectInv'
  <1>1. CASE UNCHANGED projectVars
    BY <1>1, ManagerStep DEF projectVars, ProjectInv, ManagerTypeOK, Verified, VerifyFrozen,
                             OpenEffectIsJudgedAsShipped
  <1>2. Down.at \notin ManagerPlaces
    BY DEF Down, ManagerPlaces
  <1>3. CASE Verify
    BY <1>2, <1>3, VerifyStep DEF Verify, ManagerAt, ManagerPlaces
  <1>4. CASE CreateSupervisor
    BY <1>2, <1>4, CreateSupervisorStep DEF CreateSupervisor, ManagerAt, ManagerPlaces
  <1>5. CASE SetCapabilityInFlight
    BY <1>2, <1>5, GoingOnStep DEF SetCapabilityInFlight, ManagerAt, ManagerPlaces
  <1>6. CASE RunWorker
    BY <1>2, <1>6, RunWorkerStep DEF RunWorker, ManagerAt, ManagerPlaces
  <1>7. CASE Act \/ Crash
    <2>1. manager' = Down /\ UNCHANGED <<disk, message, undisturbed>>
      BY <1>7 DEF Act, Crash
    <2>2. OpenEffectIsJudgedAsShipped'
      BY <2>1 DEF ProjectInv, OpenEffectIsJudgedAsShipped
    <2>3. QED
      BY <2>1, <2>2, DownStep
  <1>8. CASE Resolve
    BY <1>8, DownStep DEF Resolve, Up, OpenEffectIsJudgedAsShipped
  <1>9. QED
    BY <1>1, <1>3, <1>4, <1>5, <1>6, <1>7, <1>8, StartStep, EditProjectStep DEF ProjectNext

\* Edits of the project's files, before a start, after it or between a crash and the
\* restart, change neither the limits of a run nor how an open effect is judged.
THEOREM ShippedFormStays ==
  ASSUME ProjectAssumption
  PROVE  ProjectSpec => []ShippedFormGoverns
  <1>1. ProjectInit => ProjectInv
    BY ProjectInvInit
  <1>2. ProjectInv /\ [ProjectNext]_projectVars => ProjectInv'
    BY ProjectInvStep
  <1>3. ProjectInv => ShippedFormGoverns
    BY OnlyShippedPasses DEF ProjectInv, Verified, ShippedFormGoverns, Up,
                             RunStaysInFrozenLimits
  <1>4. QED
    BY <1>1, <1>2, <1>3, PTL DEF ProjectSpec

-----------------------------------------------------------------------------
(***************************************************************************)
(* That the evolution loop forgets neither a refusal nor a proposal        *)
(* (EvolutionLoop), for any problems, limits and numbers of faults.  A     *)
(* declined problem lies among the last Room(faults) entries of the        *)
(* rejected buffer between the cycles; within a cycle, what was pushed     *)
(* lies among the last entries of this cycle, and what is still to be      *)
(* renewed no deeper than it began and was pushed down since (Renewed).  A *)
(* death before the last renewal deepens that by one push less than a      *)
(* cycle makes, which is what Room counts.                                 *)
(***************************************************************************)

Proposals == [problem : Problem, count : Nat]
Lines == [proposal : Proposals, status : {"PENDING_HUMAN_REVIEW", "ADOPTED"}] \cup {GluedLine}
Cycling == [at : {"push", "stage"}, dups : SUBSET Problem, fresh : SUBSET Problem]
Adopting == [at : {"promote", "tombstone"}, proposal : Proposals]

LoopTypes ==
  /\ events \in [Problem -> Nat]
  /\ buffer \in Seq(Problem) /\ Len(buffer) <= BufferSize
  /\ proposals \in Seq(Lines)
  /\ cycle \in Cycling \cup {LoopIdle}
  /\ adoption \in Adopting \cup {LoopIdle}
  /\ declined \subseteq Problem
  /\ faults \in 0 .. MaxFaults

\* A problem is among the last entries of a buffer.
InLast(entries, r, depth) ==
  \E i \in 1 .. Len(entries) : entries[i] = r /\ i + depth > Len(entries)

\* How many problems the cycle still has before it.
Left(c) == Cardinality(c.dups \cup c.fresh)

Renewed ==
  /\ cycle = LoopIdle => \A r \in declined : InLast(buffer, r, Room(faults))
  /\ cycle # LoopIdle =>
       /\ cycle.dups \cap cycle.fresh = {} /\ cycle.fresh \cap declined = {}
       /\ Left(cycle) <= MaxProposals
       /\ cycle.at = "stage" => cycle.dups = {}
       /\ \A r \in declined \ cycle.dups : InLast(buffer, r, MaxProposals - Left(cycle))
       /\ cycle.at = "push" /\ faults < MaxFaults =>
            \A r \in declined \cap cycle.dups :
              InLast(buffer, r, Room(faults) + (MaxProposals - Left(cycle)))

\* A record that says adopted, and an adoption about to say so, follow a promotion.
Consumed ==
  /\ adoption # LoopIdle /\ adoption.at = "tombstone" => adoption.proposal \in promoted
  /\ ConsumedWasPromoted

LEMMA RoomGrows ==
  ASSUME EvolutionAssumption, NEW n \in 0 .. MaxFaults
  PROVE  /\ MaxProposals \in Nat /\ MaxProposals >= 1 /\ BufferSize \in Nat
         /\ Room(n) \in Nat /\ MaxProposals <= Room(n) /\ Room(n) <= BufferSize
         /\ n < MaxFaults => n + 1 \in 0 .. MaxFaults
                             /\ Room(n + 1) = Room(n) + (MaxProposals - 1)
                             /\ Room(n + 1) <= BufferSize
<1>1. /\ MaxProposals \in Nat /\ MaxProposals >= 1 /\ MaxFaults \in Nat /\ BufferSize \in Nat
      /\ Room(MaxFaults) <= BufferSize /\ n \in Nat /\ n <= MaxFaults
  BY DEF EvolutionAssumption
<1>2. PICK d \in Nat : d = MaxProposals - 1
  BY <1>1
<1>3. /\ \A k \in Nat : d * k \in Nat
      /\ \A k \in Nat : d * (k + 1) = d * k + d
      /\ \A k, l \in Nat : k <= l => d * k <= d * l
  <2>1. \A k, e \in Nat : d * k \in Nat /\ d * (k + 1) = d * k + d /\ d * (k + e) = d * k + d * e
    OBVIOUS
  <2>2. ASSUME NEW k \in Nat, NEW l \in Nat, k <= l
        PROVE  d * k <= d * l
    <3>1. PICK e \in Nat : l = k + e
      <4>1. l - k \in Nat /\ l = k + (l - k)
        BY <2>2
      <4> QED
        BY <4>1
    <3>2. d * l = d * k + d * e /\ d * e \in Nat /\ d * k \in Nat
      BY <2>1, <3>1
    <3> QED
      BY <3>2
  <2> QED
    BY <2>1, <2>2
<1>4. \A k \in Nat : Room(k) = MaxProposals + d * k
  BY <1>2 DEF Room
<1>5. Room(n) \in Nat /\ MaxProposals <= Room(n)
  BY <1>1, <1>3, <1>4
<1>6. \A k \in Nat : k <= MaxFaults => Room(k) <= BufferSize
  <2> SUFFICES ASSUME NEW k \in Nat, k <= MaxFaults
               PROVE  Room(k) <= BufferSize
    OBVIOUS
  <2>1. d * k \in Nat /\ d * MaxFaults \in Nat /\ d * k <= d * MaxFaults
    BY <1>1, <1>3
  <2>2. Room(k) = MaxProposals + d * k /\ Room(MaxFaults) = MaxProposals + d * MaxFaults
    BY <1>1, <1>4
  <2> QED
    BY <1>1, <2>1, <2>2
<1>7. ASSUME n < MaxFaults
      PROVE  n + 1 \in 0 .. MaxFaults /\ Room(n + 1) = Room(n) + (MaxProposals - 1)
             /\ Room(n + 1) <= BufferSize
  <2>1. n + 1 \in Nat /\ n + 1 <= MaxFaults
    BY <1>1, <1>7
  <2>2. Room(n + 1) = MaxProposals + d * (n + 1) /\ Room(n) = MaxProposals + d * n
    BY <1>1, <1>4, <2>1
  <2>3. d * (n + 1) = d * n + d /\ d * n \in Nat
    BY <1>1, <1>3
  <2>4. Room(n + 1) <= BufferSize
    BY <1>6, <2>1
  <2> QED
    BY <1>1, <1>2, <2>1, <2>2, <2>3, <2>4
<1> QED
  BY <1>1, <1>5, <1>6, <1>7

LEMMA DeeperIsLast ==
  ASSUME NEW entries \in Seq(Problem), NEW r, NEW m \in Nat, NEW n \in Nat, m <= n,
         InLast(entries, r, m)
  PROVE  InLast(entries, r, n)
<1>1. PICK i \in 1 .. Len(entries) : entries[i] = r /\ i + m > Len(entries)
  BY DEF InLast
<1>2. i + n > Len(entries)
  BY <1>1
<1> QED
  BY <1>1, <1>2 DEF InLast

\* A push puts its problem last, and every entry one deeper, out of a full buffer the
\* first one.
LEMMA PushDeepens ==
  ASSUME LoopTypes, BufferSize \in Nat, BufferSize >= 1, NEW p \in Problem, PushRejected(p)
  PROVE  /\ buffer' \in Seq(Problem) /\ Len(buffer') <= BufferSize
         /\ InLast(buffer', p, 1)
         /\ \A r \in Problem, m \in Nat :
              m + 1 <= BufferSize /\ InLast(buffer, r, m) => InLast(buffer', r, m + 1)
<1>1. PICK b \in Seq(Problem), n \in Nat : b = buffer /\ n = Len(b) /\ n <= BufferSize
  BY DEF LoopTypes
<1>2. PICK longer : longer = Append(b, p)
  OBVIOUS
<1>3. /\ longer \in Seq(Problem) /\ Len(longer) = n + 1 /\ longer[n + 1] = p /\ \A i \in 1 .. n : longer[i] = b[i]
  BY <1>1, <1>2
<1>4. buffer' = IF Len(longer) > BufferSize THEN Tail(longer) ELSE longer
  BY <1>1, <1>2 DEF PushRejected
<1>5. CASE n + 1 <= BufferSize
  <2>1. buffer' = longer
    BY <1>3, <1>4, <1>5
  <2>2. InLast(longer, p, 1)
    BY <1>3 DEF InLast
  <2>3. ASSUME NEW r \in Problem, NEW m \in Nat, InLast(b, r, m)
        PROVE  InLast(longer, r, m + 1)
    <3>1. PICK i \in 1 .. n : b[i] = r /\ i + m > n
      BY <1>1, <2>3 DEF InLast
    <3>2. i \in 1 .. n + 1 /\ longer[i] = r /\ i + (m + 1) > n + 1
      BY <1>3, <3>1
    <3> QED
      BY <1>3, <3>2 DEF InLast
  <2> QED
    BY <1>1, <1>3, <1>5, <2>1, <2>2, <2>3
<1>6. CASE n = BufferSize
  <2>1. PICK short : short = Tail(longer)
    OBVIOUS
  <2>2. buffer' = short
    BY <1>3, <1>4, <1>6, <2>1
  <2>3. /\ short \in Seq(Problem) /\ Len(short) = n
        /\ \A i \in 1 .. n : short[i] = longer[i + 1]
    <3>1. longer # <<>>
      BY <1>3
    <3> QED
      BY <1>1, <1>3, <2>1, <3>1
  <2>4. InLast(short, p, 1)
    <3>1. n \in 1 .. n /\ short[n] = p /\ n + 1 > n
      BY <1>3, <1>6, <2>3
    <3> QED
      BY <2>3, <3>1 DEF InLast
  <2>5. ASSUME NEW r \in Problem, NEW m \in Nat, m + 1 <= BufferSize, InLast(b, r, m)
        PROVE  InLast(short, r, m + 1)
    <3>1. PICK i \in 1 .. n : b[i] = r /\ i + m > n
      BY <1>1, <2>5 DEF InLast
    <3>2. PICK j \in Nat : j = i - 1
      BY <3>1
    <3>3. j \in 1 .. n /\ j + 1 = i
      BY <1>6, <2>5, <3>1, <3>2
    <3>4. short[j] = r /\ j + (m + 1) > n
      BY <1>3, <2>3, <3>1, <3>3
    <3> QED
      BY <2>3, <3>3, <3>4 DEF InLast
  <2> QED
    BY <1>1, <1>6, <2>2, <2>3, <2>4, <2>5
<1> QED
  BY <1>1, <1>5, <1>6

\* The problems that are mined come at different places of a total order.
LEMMA BeforeIsTotal ==
  ASSUME LoopTypes, NEW p \in Problem, NEW q \in Problem, p # q
  PROVE  /\ Before(p, q) \/ Before(q, p)
         /\ ~Before(p, p)
         /\ \A r \in Problem : Before(r, p) /\ Before(p, q) => Before(r, q)
<1>1. \A r \in Problem : events[r] \in Nat /\ r \in Int
  BY DEF LoopTypes, Problem
<1> QED
  BY <1>1 DEF Before

LEMMA FewAreMined ==
  ASSUME LoopTypes, EvolutionAssumption
  PROVE  Mined \subseteq Problem /\ IsFiniteSet(Mined) /\ Cardinality(Mined) <= MaxProposals
<1>1. IsFiniteSet(Problem) /\ MaxProposals \in Nat /\ MaxProposals >= 1
  BY FS_Interval DEF Problem, EvolutionAssumption
<1>2. Frequent \subseteq Problem /\ IsFiniteSet(Frequent)
  <2>1. Frequent \in SUBSET Problem
    BY DEF Frequent
  <2> QED
    BY <1>1, <2>1, FS_Subset
<1>3. PICK ahead : ahead = [p \in Problem |-> {q \in Frequent : Before(q, p)}]
  OBVIOUS
<1>4. \A p \in Problem : /\ ahead[p] = {q \in Frequent : Before(q, p)}
                         /\ IsFiniteSet(ahead[p]) /\ Cardinality(ahead[p]) \in Nat
  <2> SUFFICES ASSUME NEW p \in Problem
               PROVE  /\ ahead[p] = {q \in Frequent : Before(q, p)}
                      /\ IsFiniteSet(ahead[p]) /\ Cardinality(ahead[p]) \in Nat
    OBVIOUS
  <2>1. ahead[p] = {q \in Frequent : Before(q, p)} /\ ahead[p] \in SUBSET Frequent
    BY <1>3
  <2> QED
    BY <1>2, <2>1, FS_Subset, FS_CardinalityType
<1>5. PICK mined : mined = Mined
  OBVIOUS
<1>6. mined \subseteq Frequent /\ \A p \in mined : Cardinality(ahead[p]) < MaxProposals
  BY <1>2, <1>4, <1>5 DEF Mined
<1>7. PICK f : f = [p \in mined |-> Cardinality(ahead[p])]
  OBVIOUS
<1>8. f \in [mined -> 0 .. MaxProposals - 1]
  BY <1>1, <1>2, <1>4, <1>6, <1>7
<1>9. ASSUME NEW p \in mined, NEW q \in mined, Before(p, q), p # q
      PROVE  Cardinality(ahead[p]) # Cardinality(ahead[q])
  <2>1. p \in Problem /\ q \in Problem /\ p \in Frequent
    BY <1>2, <1>6
  <2>2. ahead[p] \in SUBSET ahead[q]
    BY <1>2, <1>4, <1>9, <2>1, BeforeIsTotal
  <2>3. p \in ahead[q] /\ p \notin ahead[p]
    BY <1>4, <1>9, <2>1, BeforeIsTotal
  <2> QED
    BY <1>4, <2>1, <2>2, <2>3, FS_Subset
<1>10. \A p, q \in mined : f[p] = f[q] => p = q
  <2> SUFFICES ASSUME NEW p \in mined, NEW q \in mined, p # q
               PROVE  f[p] # f[q]
    OBVIOUS
  <2>1. Before(p, q) \/ Before(q, p)
    BY <1>2, <1>6, BeforeIsTotal
  <2> QED
    BY <1>7, <1>9, <2>1
<1>11. f \in Injection(mined, 0 .. MaxProposals - 1)
  BY <1>8, <1>10 DEF Injection, IsInjective
<1>12. IsFiniteSet(0 .. MaxProposals - 1) /\ Cardinality(0 .. MaxProposals - 1) = MaxProposals
  BY <1>1, FS_Interval
<1>13. IsFiniteSet(mined) /\ Cardinality(mined) <= MaxProposals
  BY <1>11, <1>12, FS_Injection
<1> QED
  BY <1>2, <1>5, <1>6, <1>13

\* One problem less before the cycle.
LEMMA OneLess ==
  ASSUME LoopTypes, EvolutionAssumption, NEW c \in Cycling, NEW d \in Cycling,
         NEW p \in c.dups \cup c.fresh, d.dups \cup d.fresh = (c.dups \cup c.fresh) \ {p}
  PROVE  Left(c) \in Nat /\ Left(c) >= 1 /\ Left(d) \in Nat /\ Left(d) = Left(c) - 1
<1>1. PICK s : s = c.dups \cup c.fresh
  OBVIOUS
<1>2. s \in SUBSET Problem
  BY <1>1 DEF Cycling
<1>3. IsFiniteSet(Problem)
  BY FS_Interval DEF Problem, EvolutionAssumption
<1>4. IsFiniteSet(s) /\ Cardinality(s) \in Nat
  BY <1>2, <1>3, FS_Subset, FS_CardinalityType
<1>5. IsFiniteSet(s \ {p}) /\ Cardinality(s \ {p}) = Cardinality(s) - 1
  BY <1>1, <1>4, FS_RemoveElement
<1>6. Cardinality(s \ {p}) \in Nat
  BY <1>5, FS_CardinalityType
<1>7. Left(c) = Cardinality(s) /\ Left(d) = Cardinality(s \ {p})
  BY <1>1 DEF Left
<1> QED
  BY <1>4, <1>5, <1>6, <1>7

LEMMA LeftIsNat ==
  ASSUME EvolutionAssumption, NEW c \in Cycling
  PROVE  Left(c) \in Nat /\ (Left(c) = 0 => c.dups = {})
<1>1. PICK s : s = c.dups \cup c.fresh
  OBVIOUS
<1>2. s \in SUBSET Problem
  BY <1>1 DEF Cycling
<1>3. IsFiniteSet(Problem)
  BY FS_Interval DEF Problem, EvolutionAssumption
<1>4. IsFiniteSet(s) /\ Cardinality(s) \in Nat
  BY <1>2, <1>3, FS_Subset, FS_CardinalityType
<1>5. Cardinality(s) = 0 => s = {}
  BY <1>4, FS_EmptySet
<1> QED
  BY <1>1, <1>4, <1>5 DEF Left

\* A step that leaves the buffer and the cycle alone, and at most counts a fault.
LEMMA RenewedWaits ==
  ASSUME LoopTypes, EvolutionAssumption, Renewed, UNCHANGED <<buffer, cycle, declined>>,
         faults' = faults \/ (faults < MaxFaults /\ faults' = faults + 1)
  PROVE  Renewed'
<1>1. CASE faults' = faults
  BY <1>1 DEF Renewed
<1>2. CASE faults < MaxFaults /\ faults' = faults + 1
  <2>1. PICK n \in 0 .. MaxFaults : n = faults
    BY DEF LoopTypes
  <2>2. /\ Room(n) \in Nat /\ n + 1 \in 0 .. MaxFaults
        /\ Room(n + 1) = Room(n) + (MaxProposals - 1) /\ MaxProposals \in Nat /\ MaxProposals >= 1
    BY <1>2, <2>1, RoomGrows
  <2>3. Room(n + 1) \in Nat /\ Room(n) <= Room(n + 1)
    BY <2>2
  <2>4. buffer \in Seq(Problem)
    BY DEF LoopTypes
  <2>5. CASE cycle = LoopIdle
    <3>1. \A r \in declined : InLast(buffer, r, Room(n + 1))
      BY <2>1, <2>2, <2>3, <2>4, <2>5, DeeperIsLast DEF Renewed
    <3> QED
      BY <1>2, <2>1, <2>5, <3>1 DEF Renewed
  <2>6. CASE cycle # LoopIdle
    <3>1. PICK k \in Cycling : k = cycle
      BY <2>6 DEF LoopTypes
    <3>2. PICK p : p = MaxProposals - Left(k)
      OBVIOUS
    <3>3. p \in Nat
      BY <2>2, <2>6, <3>1, <3>2, LeftIsNat DEF Renewed
    <3>4. k.at = "push" /\ n < MaxFaults =>
            \A r \in declined \cap k.dups : InLast(buffer, r, Room(n) + p)
      BY <2>1, <2>6, <3>1, <3>2 DEF Renewed
    <3>5. k.at = "push" =>
            \A r \in declined \cap k.dups : InLast(buffer, r, Room(n + 1) + p)
      <4>1. Room(n) + p \in Nat /\ Room(n + 1) + p \in Nat /\ Room(n) + p <= Room(n + 1) + p
        BY <2>2, <2>3, <3>3
      <4> QED
        BY <1>2, <2>1, <2>4, <3>4, <4>1, DeeperIsLast
    <3> QED
      BY <1>2, <2>1, <2>6, <3>1, <3>2, <3>5 DEF Renewed
  <2> QED
    BY <2>5, <2>6
<1> QED
  BY <1>1, <1>2

LEMMA BeginRenews ==
  ASSUME LoopTypes, EvolutionAssumption, Renewed, BeginCycle
  PROVE  Renewed' /\ cycle' \in Cycling /\ declined' \subseteq Problem
<1>1. PICK rejected, mined : rejected = {buffer[i] : i \in DOMAIN buffer} /\ mined = Mined
  OBVIOUS
<1>2. mined \subseteq Problem /\ IsFiniteSet(mined) /\ Cardinality(mined) <= MaxProposals
  BY <1>1, FewAreMined
<1>3. PICK k : k = [at |-> "push", dups |-> mined \cap rejected, fresh |-> mined \ rejected]
  OBVIOUS
<1>4. /\ k \in Cycling /\ k.at = "push" /\ k.dups = mined \cap rejected /\ k.fresh = mined \ rejected
  BY <1>2, <1>3 DEF Cycling
<1>5. /\ cycle = LoopIdle /\ cycle' = k /\ declined' = declined \cap mined
      /\ UNCHANGED <<buffer, faults>>
  BY <1>1, <1>3 DEF BeginCycle, files
<1>6. k # LoopIdle
  BY <1>4 DEF LoopIdle
<1>7. buffer \in Seq(Problem) /\ declined \subseteq Problem /\ faults \in 0 .. MaxFaults
  BY DEF LoopTypes
<1>8. \A r \in declined : r \in rejected /\ InLast(buffer, r, Room(faults))
  <2> SUFFICES ASSUME NEW r \in declined
               PROVE  r \in rejected /\ InLast(buffer, r, Room(faults))
    OBVIOUS
  <2>1. InLast(buffer, r, Room(faults))
    BY <1>5 DEF Renewed
  <2>2. PICK i \in 1 .. Len(buffer) : buffer[i] = r
    BY <2>1 DEF InLast
  <2>3. DOMAIN buffer = 1 .. Len(buffer)
    BY <1>7
  <2> QED
    BY <1>1, <2>1, <2>2, <2>3
<1>9. PICK left : left = Left(k)
  OBVIOUS
<1>10. left \in Nat /\ left <= MaxProposals /\ MaxProposals \in Nat
  <2>1. k.dups \cup k.fresh = mined
    BY <1>4
  <2> QED
    BY <1>2, <1>4, <1>7, <1>9, <2>1, LeftIsNat, RoomGrows DEF Left
<1>11. \A r \in declined : InLast(buffer, r, Room(faults) + (MaxProposals - left))
  <2>1. /\ Room(faults) \in Nat /\ Room(faults) + (MaxProposals - left) \in Nat
        /\ Room(faults) <= Room(faults) + (MaxProposals - left)
    BY <1>7, <1>10, RoomGrows
  <2> QED
    BY <1>7, <1>8, <2>1, DeeperIsLast
<1>12. declined' \ k.dups = {} /\ k.dups \cap k.fresh = {} /\ k.fresh \cap declined' = {}
  BY <1>4, <1>5, <1>8
<1>13. Renewed'
  BY <1>4, <1>5, <1>6, <1>9, <1>10, <1>11, <1>12 DEF Renewed
<1> QED
  BY <1>4, <1>5, <1>7, <1>13

LEMMA RefuseRenews ==
  ASSUME LoopTypes, EvolutionAssumption, Renewed, NEW p \in Problem, RefuseDuplicate(p)
  PROVE  Renewed' /\ cycle' \in Cycling /\ declined' \subseteq Problem
<1>1. PICK k \in Cycling : k = cycle
  BY DEF RefuseDuplicate, LoopTypes
<1>2. k.at = "push" /\ p \in k.dups /\ k # LoopIdle
  BY <1>1 DEF RefuseDuplicate, FirstOf
<1>3. PICK m : m = [k EXCEPT !.dups = k.dups \ {p}]
  OBVIOUS
<1>4. m \in Cycling /\ m.at = "push" /\ m.dups = k.dups \ {p} /\ m.fresh = k.fresh
  BY <1>2, <1>3 DEF Cycling
<1>5. cycle' = m /\ declined' = declined \cup {p} /\ faults' = faults /\ PushRejected(p)
  BY <1>1, <1>3 DEF RefuseDuplicate, bounds
<1>6. m # LoopIdle
  BY <1>4 DEF LoopIdle
<1>7. /\ k.dups \cap k.fresh = {} /\ k.fresh \cap declined = {} /\ Left(k) <= MaxProposals
      /\ \A r \in declined \ k.dups : InLast(buffer, r, MaxProposals - Left(k))
      /\ faults < MaxFaults =>
           \A r \in declined \cap k.dups : InLast(buffer, r, Room(faults) + (MaxProposals - Left(k)))
  BY <1>1, <1>2 DEF Renewed
<1>8. PICK before, after : before = Left(k) /\ after = Left(m)
  OBVIOUS
<1>9. before \in Nat /\ before >= 1 /\ after \in Nat /\ after = before - 1
  <2>1. m.dups \cup m.fresh = (k.dups \cup k.fresh) \ {p}
    BY <1>2, <1>4, <1>7
  <2> QED
    BY <1>2, <1>4, <1>8, <2>1, OneLess
<1>10. PICK f \in 0 .. MaxFaults : f = faults
  BY DEF LoopTypes
<1>11. /\ MaxProposals \in Nat /\ MaxProposals >= 1 /\ BufferSize \in Nat /\ MaxProposals <= BufferSize
       /\ Room(f) \in Nat
       /\ f < MaxFaults => Room(f) + (MaxProposals - 1) <= BufferSize
  BY RoomGrows
<1>12. /\ buffer' \in Seq(Problem) /\ InLast(buffer', p, 1)
       /\ \A r \in Problem, n \in Nat :
            n + 1 <= BufferSize /\ InLast(buffer, r, n) => InLast(buffer', r, n + 1)
  BY <1>5, <1>11, PushDeepens
<1>13. declined \subseteq Problem /\ declined' \subseteq Problem
  BY <1>5 DEF LoopTypes
<1>14. PICK deep \in Nat : deep = MaxProposals - before /\ deep + 1 = MaxProposals - after
                           /\ deep + 1 <= MaxProposals
  <2>1. MaxProposals - before \in Nat /\ (MaxProposals - before) + 1 = MaxProposals - after
        /\ (MaxProposals - before) + 1 <= MaxProposals
    BY <1>7, <1>8, <1>9, <1>11
  <2> QED
    BY <2>1
<1>15. \A r \in declined' \ m.dups : InLast(buffer', r, deep + 1)
  <2> SUFFICES ASSUME NEW r \in declined' \ m.dups
               PROVE  InLast(buffer', r, deep + 1)
    OBVIOUS
  <2>1. CASE r = p
    BY <1>12, <1>14, <2>1, DeeperIsLast
  <2>2. CASE r # p
    <3>1. r \in declined \ k.dups /\ r \in Problem
      BY <1>4, <1>5, <1>13, <2>2
    <3>2. InLast(buffer, r, deep) /\ deep + 1 <= BufferSize
      BY <1>7, <1>8, <1>11, <1>14, <3>1
    <3> QED
      BY <1>12, <3>1, <3>2
  <2> QED
    BY <2>1, <2>2
<1>16. f < MaxFaults => \A r \in declined' \cap m.dups : InLast(buffer', r, Room(f) + (deep + 1))
  <2> SUFFICES ASSUME f < MaxFaults, NEW r \in declined' \cap m.dups
               PROVE  InLast(buffer', r, Room(f) + (deep + 1))
    OBVIOUS
  <2>1. r \in declined \cap k.dups /\ r \in Problem
    BY <1>4, <1>5, <1>13
  <2>2. InLast(buffer, r, Room(f) + deep)
    BY <1>7, <1>8, <1>10, <1>14, <2>1
  <2>3. after # 0
    BY <1>4, <1>8, LeftIsNat
  <2>4. Room(f) + deep \in Nat /\ (Room(f) + deep) + 1 <= BufferSize
    BY <1>9, <1>11, <1>14, <2>3
  <2>5. InLast(buffer', r, (Room(f) + deep) + 1)
    BY <1>12, <2>1, <2>2, <2>4
  <2>6. (Room(f) + deep) + 1 = Room(f) + (deep + 1)
    BY <1>11
  <2> QED
    BY <2>5, <2>6
<1>17. m.dups \cap m.fresh = {} /\ m.fresh \cap declined' = {} /\ after <= MaxProposals
  BY <1>2, <1>4, <1>5, <1>7, <1>8, <1>9, <1>11
<1>18. Renewed'
  BY <1>4, <1>5, <1>6, <1>8, <1>10, <1>14, <1>15, <1>16, <1>17 DEF Renewed
<1> QED
  BY <1>4, <1>5, <1>13, <1>18

\* A candidate that is rejected, or staged, in the second pass; nothing is left to renew.
LEMMA SecondPassRenews ==
  ASSUME LoopTypes, EvolutionAssumption, Renewed, NEW p \in Problem,
         cycle # LoopIdle, cycle.at = "stage", p \in cycle.fresh,
         cycle' = [cycle EXCEPT !.fresh = @ \ {p}],
         faults' = faults \/ (faults < MaxFaults /\ faults' = faults + 1),
         \/ PushRejected(p) /\ declined' = declined \cup {p}
         \/ UNCHANGED <<buffer, declined>>
  PROVE  Renewed' /\ cycle' \in Cycling /\ declined' \subseteq Problem
<1>1. PICK k \in Cycling : k = cycle
  BY DEF LoopTypes
<1>2. PICK m : m = [k EXCEPT !.fresh = k.fresh \ {p}]
  OBVIOUS
<1>3. m \in Cycling /\ m.at = "stage" /\ m.dups = k.dups /\ m.fresh = k.fresh \ {p}
  BY <1>1, <1>2 DEF Cycling
<1>4. cycle' = m /\ m # LoopIdle
  BY <1>1, <1>2, <1>3 DEF LoopIdle
<1>5. /\ k.fresh \cap declined = {} /\ k.dups = {} /\ Left(k) <= MaxProposals
      /\ \A r \in declined : InLast(buffer, r, MaxProposals - Left(k))
  BY <1>1 DEF Renewed
<1>6. PICK before, after : before = Left(k) /\ after = Left(m)
  OBVIOUS
<1>7. before \in Nat /\ before >= 1 /\ after \in Nat /\ after = before - 1
  <2>1. m.dups \cup m.fresh = (k.dups \cup k.fresh) \ {p} /\ p \in k.dups \cup k.fresh
    BY <1>1, <1>3, <1>5
  <2> QED
    BY <1>3, <1>6, <2>1, OneLess
<1>8. /\ MaxProposals \in Nat /\ MaxProposals >= 1 /\ BufferSize \in Nat /\ MaxProposals <= BufferSize
  <2>1. faults \in 0 .. MaxFaults
    BY DEF LoopTypes
  <2> QED
    BY <2>1, RoomGrows
<1>9. PICK deep \in Nat : deep = MaxProposals - before /\ deep + 1 = MaxProposals - after
                          /\ deep + 1 <= MaxProposals
  <2>1. MaxProposals - before \in Nat /\ (MaxProposals - before) + 1 = MaxProposals - after
        /\ (MaxProposals - before) + 1 <= MaxProposals
    BY <1>5, <1>6, <1>7, <1>8
  <2> QED
    BY <2>1
<1>10. declined \subseteq Problem /\ declined' \subseteq declined \cup {p} /\ declined' \subseteq Problem
  BY DEF LoopTypes
<1>11. \A r \in declined' : InLast(buffer', r, deep + 1)
  <2>1. \A r \in declined : InLast(buffer, r, deep)
    BY <1>5, <1>6, <1>9
  <2>2. CASE PushRejected(p) /\ declined' = declined \cup {p}
    <3>1. /\ buffer' \in Seq(Problem) /\ InLast(buffer', p, 1)
          /\ \A r \in Problem, n \in Nat :
               n + 1 <= BufferSize /\ InLast(buffer, r, n) => InLast(buffer', r, n + 1)
      BY <1>8, <2>2, PushDeepens
    <3>2. InLast(buffer', p, deep + 1)
      BY <1>9, <3>1, DeeperIsLast
    <3>3. \A r \in declined : InLast(buffer', r, deep + 1)
      BY <1>8, <1>9, <1>10, <2>1, <3>1
    <3> QED
      BY <2>2, <3>2, <3>3
  <2>3. CASE UNCHANGED <<buffer, declined>>
    <3>1. buffer \in Seq(Problem) /\ deep + 1 \in Nat /\ deep <= deep + 1
      BY <1>9 DEF LoopTypes
    <3>2. \A r \in declined : InLast(buffer, r, deep + 1)
      BY <1>9, <2>1, <3>1, DeeperIsLast
    <3> QED
      BY <2>3, <3>2
  <2> QED
    BY <2>2, <2>3
<1>12. m.dups = {} /\ m.fresh \cap declined' = {} /\ after <= MaxProposals
  BY <1>3, <1>5, <1>6, <1>7, <1>8, <1>10
<1>13. Renewed'
  BY <1>3, <1>4, <1>6, <1>9, <1>11, <1>12 DEF Renewed
<1> QED
  BY <1>3, <1>4, <1>10, <1>13

LEMMA PassEndsRenewed ==
  ASSUME LoopTypes, Renewed, DuplicatesRefused
  PROVE  Renewed' /\ cycle' \in Cycling
<1>1. PICK k \in Cycling : k = cycle
  BY DEF DuplicatesRefused, LoopTypes
<1>2. PICK m : m = [k EXCEPT !.at = "stage"]
  OBVIOUS
<1>3. m \in Cycling /\ m.at = "stage" /\ m.dups = k.dups /\ m.fresh = k.fresh /\ m # LoopIdle
  BY <1>2 DEF Cycling, LoopIdle
<1>4. /\ cycle' = m /\ k.dups = {} /\ k # LoopIdle /\ UNCHANGED <<buffer, declined, faults>>
  BY <1>1, <1>2 DEF DuplicatesRefused, files, bounds
<1>5. Left(m) = Left(k)
  BY <1>3 DEF Left
<1> QED
  BY <1>1, <1>3, <1>4, <1>5 DEF Renewed

\* The end of a cycle, and a death in one.
LEMMA LeavingRenews ==
  ASSUME LoopTypes, EvolutionAssumption, Renewed, cycle # LoopIdle, cycle' = LoopIdle,
         UNCHANGED <<buffer, declined>>,
         \/ faults' = faults /\ cycle.at = "stage"
         \/ faults < MaxFaults /\ faults' = faults + 1
  PROVE  Renewed'
<1>1. PICK k \in Cycling : k = cycle
  BY DEF LoopTypes
<1>2. PICK f \in 0 .. MaxFaults : f = faults
  BY DEF LoopTypes
<1>3. PICK left \in Nat : left = Left(k) /\ (left = 0 => k.dups = {})
  BY LeftIsNat
<1>4. /\ MaxProposals \in Nat /\ MaxProposals >= 1 /\ Room(f) \in Nat /\ MaxProposals <= Room(f)
      /\ f < MaxFaults => Room(f + 1) = Room(f) + (MaxProposals - 1)
  BY RoomGrows
<1>5. /\ left <= MaxProposals /\ (k.at = "stage" => k.dups = {})
      /\ \A r \in declined \ k.dups : InLast(buffer, r, MaxProposals - left)
      /\ k.at = "push" /\ f < MaxFaults =>
           \A r \in declined \cap k.dups : InLast(buffer, r, Room(f) + (MaxProposals - left))
  BY <1>1, <1>2, <1>3 DEF Renewed
<1>6. PICK room : room = Room(faults')
  OBVIOUS
<1>7. room \in Nat /\ MaxProposals <= room
      /\ (faults' = faults => room = Room(f))
      /\ (faults' # faults => room = Room(f) + (MaxProposals - 1))
  BY <1>2, <1>4, <1>6
<1>8. buffer \in Seq(Problem)
  BY DEF LoopTypes
<1>9. MaxProposals - left \in Nat /\ MaxProposals - left <= room
  BY <1>3, <1>4, <1>5, <1>7
<1>10. ASSUME NEW r \in declined
       PROVE  InLast(buffer, r, room)
  <2>1. CASE r \notin k.dups
    <3>1. InLast(buffer, r, MaxProposals - left)
      BY <1>5, <2>1
    <3> QED
      BY <1>7, <1>8, <1>9, <3>1, DeeperIsLast
  <2>2. CASE r \in k.dups
    <3>1. k.at = "push" /\ left >= 1 /\ f < MaxFaults /\ faults' # faults
      BY <1>1, <1>2, <1>3, <1>5, <2>2 DEF Cycling
    <3>2. InLast(buffer, r, Room(f) + (MaxProposals - left))
      BY <1>5, <2>2, <3>1
    <3>3. Room(f) + (MaxProposals - left) \in Nat /\ Room(f) + (MaxProposals - left) <= room
      BY <1>3, <1>4, <1>7, <1>9, <3>1
    <3> QED
      BY <1>7, <1>8, <3>2, <3>3, DeeperIsLast
  <2> QED
    BY <2>1, <2>2
<1> QED
  BY <1>6, <1>10 DEF Renewed

\* What ConsumedWasPromoted says of the lines of the file.
Remembered(lines, done) ==
  \A i \in DOMAIN lines : lines[i] # GluedLine =>
    \/ lines[i].proposal \in done
    \/ \E j \in DOMAIN lines :
         /\ lines[j] # GluedLine /\ lines[j].proposal = lines[i].proposal
         /\ lines[j].status = "PENDING_HUMAN_REVIEW"
         /\ \A k \in DOMAIN lines :
              lines[k] # GluedLine /\ lines[k].proposal = lines[i].proposal => k <= j

LEMMA ConsumedIsRemembered ==
  /\ ConsumedWasPromoted <=> Remembered(proposals, promoted)
  /\ ConsumedWasPromoted' <=> Remembered(proposals', promoted')
<1>1. ConsumedWasPromoted <=> Remembered(proposals, promoted)
  BY DEF ConsumedWasPromoted, Remembered, Staged, Pending, Latest, Records
<1>2. ConsumedWasPromoted' <=> Remembered(proposals', promoted')
  BY DEF ConsumedWasPromoted, Remembered, Staged, Pending, Latest, Records
<1> QED
  BY <1>1, <1>2

LEMMA LineRemembers ==
  ASSUME NEW lines \in Seq(Lines), NEW done, NEW line \in Lines, Remembered(lines, done),
         line # GluedLine => line.status = "PENDING_HUMAN_REVIEW" \/ line.proposal \in done
  PROVE  Append(lines, line) \in Seq(Lines) /\ Remembered(Append(lines, line), done)
<1>1. PICK longer : longer = Append(lines, line)
  OBVIOUS
<1>2. PICK n \in Nat : n = Len(lines)
  OBVIOUS
<1>3. /\ longer \in Seq(Lines) /\ DOMAIN longer = 1 .. n + 1 /\ DOMAIN lines = 1 .. n
      /\ longer[n + 1] = line /\ \A i \in 1 .. n : longer[i] = lines[i]
  BY <1>1, <1>2
<1>4. ASSUME NEW i \in 1 .. n + 1, longer[i] # GluedLine, longer[i].proposal \notin done
      PROVE  \E j \in 1 .. n + 1 :
               /\ longer[j] # GluedLine /\ longer[j].proposal = longer[i].proposal
               /\ longer[j].status = "PENDING_HUMAN_REVIEW"
               /\ \A k \in 1 .. n + 1 :
                    longer[k] # GluedLine /\ longer[k].proposal = longer[i].proposal => k <= j
  <2>1. CASE line # GluedLine /\ line.proposal = longer[i].proposal
    BY <1>3, <1>4, <2>1
  <2>2. CASE ~(line # GluedLine /\ line.proposal = longer[i].proposal)
    <3>1. i \in 1 .. n /\ longer[i] = lines[i]
      BY <1>3, <1>4, <2>2
    <3>2. PICK j \in 1 .. n :
            /\ lines[j] # GluedLine /\ lines[j].proposal = lines[i].proposal
            /\ lines[j].status = "PENDING_HUMAN_REVIEW"
            /\ \A k \in 1 .. n :
                 lines[k] # GluedLine /\ lines[k].proposal = lines[i].proposal => k <= j
      BY <1>3, <1>4, <3>1 DEF Remembered
    <3>3. j \in 1 .. n + 1 /\ longer[j] = lines[j]
      BY <1>3, <3>2
    <3>4. \A k \in 1 .. n + 1 :
            longer[k] # GluedLine /\ longer[k].proposal = longer[i].proposal => k <= j
      <4> SUFFICES ASSUME NEW k \in 1 .. n + 1,
                          longer[k] # GluedLine, longer[k].proposal = longer[i].proposal
                   PROVE  k <= j
        OBVIOUS
      <4>1. k \in 1 .. n /\ longer[k] = lines[k]
        BY <1>3, <2>2
      <4> QED
        BY <3>1, <3>2, <4>1
    <3> QED
      BY <3>1, <3>2, <3>3, <3>4
  <2> QED
    BY <2>1, <2>2
<1>5. Remembered(longer, done)
  BY <1>3, <1>4 DEF Remembered
<1> QED
  BY <1>1, <1>3, <1>5

\* An append adds its line, or glues it to the half of one; one cut short adds at most that.
LEMMA AppendRemembers ==
  ASSUME LoopTypes, ConsumedWasPromoted, promoted' = promoted, NEW line \in Lines,
         line # GluedLine => line.status = "PENDING_HUMAN_REVIEW" \/ line.proposal \in promoted,
         Append1(line) \/ AppendCut \/ UNCHANGED proposals
  PROVE  proposals' \in Seq(Lines) /\ ConsumedWasPromoted'
<1>1. PICK lines \in Seq(Lines) : lines = proposals
  BY DEF LoopTypes
<1>2. Remembered(lines, promoted)
  BY <1>1, ConsumedIsRemembered
<1>3. GluedLine \in Lines
  BY DEF Lines
<1>4. /\ Append(lines, line) \in Seq(Lines) /\ Remembered(Append(lines, line), promoted)
      /\ Append(lines, GluedLine) \in Seq(Lines) /\ Remembered(Append(lines, GluedLine), promoted)
  BY <1>1, <1>2, <1>3, LineRemembers
<1>5. proposals' \in {lines, Append(lines, line), Append(lines, GluedLine)}
  BY <1>1 DEF Append1, AppendCut
<1>6. proposals' \in Seq(Lines) /\ Remembered(proposals', promoted)
  BY <1>2, <1>4, <1>5
<1> QED
  BY <1>1, <1>6, ConsumedIsRemembered

\* More promotions, and the same lines.
LEMMA PromotedRemembers ==
  ASSUME ConsumedWasPromoted, proposals' = proposals, promoted \subseteq promoted'
  PROVE  ConsumedWasPromoted'
BY ConsumedIsRemembered DEF Remembered

LoopInv == LoopTypes /\ Renewed /\ Consumed

\* What a step of a cycle keeps of an adoption, and one of an adoption of a cycle.
LEMMA CyclesStep ==
  ASSUME LoopInv, EvolutionAssumption,
         \/ BeginCycle \/ DuplicatesRefused \/ EndCycle \/ CycleDies
         \/ \E p \in Problem : RefuseDuplicate(p) \/ RejectCandidate(p) \/ StagePendingProposal(p)
  PROVE  LoopInv'
<1>1. LoopTypes /\ Renewed /\ Consumed /\ ConsumedWasPromoted
  BY DEF LoopInv, Consumed
<1>2. buffer \in Seq(Problem) /\ Len(buffer) <= BufferSize /\ faults \in 0 .. MaxFaults /\ MaxFaults \in Nat
  BY <1>1 DEF LoopTypes, EvolutionAssumption
<1>3. /\ UNCHANGED <<events, adoption, promoted>>
  BY DEF BeginCycle, DuplicatesRefused, EndCycle, CycleDies, RefuseDuplicate, RejectCandidate,
         StagePendingProposal
<1>4. faults' = faults \/ (faults < MaxFaults /\ faults' = faults + 1)
  BY DEF BeginCycle, DuplicatesRefused, EndCycle, CycleDies, RefuseDuplicate, RejectCandidate,
         StagePendingProposal, bounds, Fault
<1>5. faults' \in 0 .. MaxFaults
  BY <1>2, <1>4
<1>6. buffer' \in Seq(Problem) /\ Len(buffer') <= BufferSize
  <2>1. ASSUME NEW p \in Problem, PushRejected(p)
        PROVE  buffer' \in Seq(Problem) /\ Len(buffer') <= BufferSize
    <3>1. BufferSize \in Nat /\ BufferSize >= 1
      BY <1>2, RoomGrows
    <3> QED
      BY <1>1, <2>1, <3>1, PushDeepens
  <2>2. CASE UNCHANGED buffer
    BY <1>2, <2>2
  <2>3. UNCHANGED buffer \/ \E p \in Problem : PushRejected(p)
    BY DEF BeginCycle, DuplicatesRefused, EndCycle, CycleDies, RefuseDuplicate, RejectCandidate,
           StagePendingProposal, files
  <2> QED
    BY <2>1, <2>2, <2>3
<1>7. proposals' \in Seq(Lines) /\ ConsumedWasPromoted'
  <2>1. CASE Append1(GluedLine) \/ AppendCut \/ UNCHANGED proposals
    <3>1. GluedLine \in Lines
      BY DEF Lines
    <3> QED
      BY <1>1, <1>3, <2>1, <3>1, AppendRemembers
  <2>2. ASSUME NEW p \in Problem, StagePendingProposal(p)
        PROVE  proposals' \in Seq(Lines) /\ ConsumedWasPromoted'
    <3>1. PICK line : line = Line([problem |-> p, count |-> events[p]], "PENDING_HUMAN_REVIEW")
      OBVIOUS
    <3>2. line \in Lines /\ line.status = "PENDING_HUMAN_REVIEW"
      BY <1>1, <3>1 DEF LoopTypes, Line, Lines, Proposals
    <3>3. Append1(line)
      BY <2>2, <3>1 DEF StagePendingProposal
    <3> QED
      BY <1>1, <1>3, <3>2, <3>3, AppendRemembers
  <2>3. \/ Append1(GluedLine) \/ AppendCut \/ UNCHANGED proposals
        \/ \E p \in Problem : StagePendingProposal(p)
    BY DEF BeginCycle, DuplicatesRefused, EndCycle, CycleDies, RefuseDuplicate, RejectCandidate, files
  <2> QED
    BY <2>1, <2>2, <2>3
<1>8. Renewed' /\ cycle' \in Cycling \cup {LoopIdle} /\ declined' \subseteq Problem
  <2>1. declined \subseteq Problem
    BY <1>1 DEF LoopTypes
  <2>2. CASE BeginCycle
    BY <1>1, <2>2, BeginRenews
  <2>3. CASE DuplicatesRefused
    <3>1. declined' = declined
      BY <2>3 DEF DuplicatesRefused
    <3> QED
      BY <1>1, <2>1, <2>3, <3>1, PassEndsRenewed
  <2>4. CASE EndCycle \/ CycleDies
    <3>1. /\ cycle # LoopIdle /\ cycle' = LoopIdle /\ UNCHANGED <<buffer, declined>>
          /\ \/ faults' = faults /\ cycle.at = "stage"
             \/ faults < MaxFaults /\ faults' = faults + 1
      BY <2>4 DEF EndCycle, CycleDies, files, bounds, Fault
    <3> QED
      BY <1>1, <2>1, <3>1, LeavingRenews
  <2>5. ASSUME NEW p \in Problem, RefuseDuplicate(p)
        PROVE  Renewed' /\ cycle' \in Cycling /\ declined' \subseteq Problem
    BY <1>1, <2>5, RefuseRenews
  <2>6. ASSUME NEW p \in Problem, RejectCandidate(p) \/ StagePendingProposal(p)
        PROVE  Renewed' /\ cycle' \in Cycling /\ declined' \subseteq Problem
    <3>1. /\ cycle # LoopIdle /\ cycle.at = "stage" /\ p \in cycle.fresh
          /\ cycle' = [cycle EXCEPT !.fresh = @ \ {p}]
      BY <2>6 DEF RejectCandidate, StagePendingProposal, FirstOf
    <3>2. \/ PushRejected(p) /\ declined' = declined \cup {p}
          \/ UNCHANGED <<buffer, declined>>
      BY <2>6 DEF RejectCandidate, StagePendingProposal
    <3> QED
      BY <1>1, <1>4, <3>1, <3>2, SecondPassRenews
  <2> QED
    BY <2>2, <2>3, <2>4, <2>5, <2>6
<1>9. LoopTypes'
  BY <1>1, <1>3, <1>5, <1>6, <1>7, <1>8 DEF LoopTypes
<1>10. Consumed'
  BY <1>1, <1>3, <1>7 DEF Consumed
<1> QED
  BY <1>8, <1>9, <1>10 DEF LoopInv

LEMMA AdoptionsStep ==
  ASSUME LoopInv, EvolutionAssumption,
         \/ (\E p \in Staged : Adopt(p)) \/ Promote \/ AppendTombstone \/ AdoptionDies
         \/ CloseCanary \/ \E p \in Problem : Harvest(p)
  PROVE  LoopInv'
<1>1. LoopTypes /\ Renewed /\ Consumed /\ ConsumedWasPromoted
  BY DEF LoopInv, Consumed
<1>2. UNCHANGED <<buffer, cycle, declined>>
  BY DEF Adopt, Promote, AppendTombstone, AdoptionDies, CloseCanary, Harvest, files
<1>3. faults' = faults \/ (faults < MaxFaults /\ faults' = faults + 1)
  BY DEF Adopt, Promote, AppendTombstone, AdoptionDies, CloseCanary, Harvest, bounds, Fault
<1>4. Renewed'
  BY <1>1, <1>2, <1>3, RenewedWaits
<1>5. faults' \in 0 .. MaxFaults
  <2>1. faults \in 0 .. MaxFaults /\ MaxFaults \in Nat
    BY <1>1 DEF LoopTypes, EvolutionAssumption
  <2> QED
    BY <1>3, <2>1
<1>6. events' \in [Problem -> Nat]
  <2>1. CASE UNCHANGED events
    BY <1>1, <2>1 DEF LoopTypes
  <2>2. ASSUME NEW p \in Problem, Harvest(p)
        PROVE  events' \in [Problem -> Nat]
    BY <1>1, <2>2 DEF LoopTypes, Harvest
  <2> QED
    BY <2>1, <2>2 DEF Adopt, Promote, AppendTombstone, AdoptionDies, CloseCanary
<1>7. /\ proposals' \in Seq(Lines) /\ ConsumedWasPromoted'
      /\ adoption' \in Adopting \cup {LoopIdle}
      /\ adoption' # LoopIdle /\ adoption'.at = "tombstone" => adoption'.proposal \in promoted'
  <2>1. ASSUME NEW p \in Staged, Adopt(p)
        PROVE  /\ proposals' \in Seq(Lines) /\ ConsumedWasPromoted'
               /\ adoption' \in Adopting \cup {LoopIdle}
               /\ adoption' # LoopIdle /\ adoption'.at = "tombstone" => adoption'.proposal \in promoted'
    <3>1. p \in Proposals
      <4>1. PICK i \in DOMAIN proposals : proposals[i] # GluedLine /\ p = proposals[i].proposal
        BY DEF Staged
      <4>2. proposals[i] \in Lines
        BY <1>1, <4>1 DEF LoopTypes
      <4> QED
        BY <4>1, <4>2 DEF Lines
    <3>2. /\ adoption' = [at |-> "promote", proposal |-> p]
          /\ proposals' = proposals /\ promoted' = promoted
      BY <2>1 DEF Adopt, files
    <3>3. adoption' \in Adopting /\ adoption'.at = "promote"
      BY <3>1, <3>2 DEF Adopting
    <3>4. proposals' \in Seq(Lines) /\ ConsumedWasPromoted'
      BY <1>1, <3>2, PromotedRemembers DEF LoopTypes
    <3> QED
      BY <3>3, <3>4
  <2>2. CASE Promote
    <3>1. PICK a \in Adopting : a = adoption
      BY <1>1, <2>2 DEF Promote, LoopTypes
    <3>2. /\ proposals' = proposals
          /\ \/ adoption' = LoopIdle /\ promoted' = promoted
             \/ /\ adoption' = [a EXCEPT !.at = "tombstone"]
                /\ promoted' = promoted \cup {a.proposal}
      BY <2>2, <3>1 DEF Promote, files
    <3>3. proposals' \in Seq(Lines) /\ ConsumedWasPromoted'
      BY <1>1, <3>2, PromotedRemembers DEF LoopTypes
    <3>4. CASE adoption' = LoopIdle
      BY <3>3, <3>4
    <3>5. CASE /\ adoption' = [a EXCEPT !.at = "tombstone"]
               /\ promoted' = promoted \cup {a.proposal}
      <4>1. PICK b : b = [a EXCEPT !.at = "tombstone"]
        OBVIOUS
      <4>2. b \in Adopting /\ b.proposal = a.proposal
        BY <4>1 DEF Adopting
      <4> QED
        BY <3>3, <3>5, <4>1, <4>2
    <3> QED
      BY <3>2, <3>4, <3>5
  <2>3. CASE AppendTombstone
    <3>1. PICK a \in Adopting : a = adoption
      BY <1>1, <2>3 DEF AppendTombstone, LoopTypes
    <3>2. PICK line : line = Line(a.proposal, "ADOPTED")
      OBVIOUS
    <3>3. line \in Lines /\ line.proposal = a.proposal
      BY <3>1, <3>2 DEF Line, Lines, Adopting
    <3>4. /\ Append1(line) /\ adoption' = LoopIdle /\ promoted' = promoted
          /\ a.proposal \in promoted
      BY <1>1, <2>3, <3>1, <3>2 DEF AppendTombstone, Consumed
    <3>5. proposals' \in Seq(Lines) /\ ConsumedWasPromoted'
      BY <1>1, <3>3, <3>4, AppendRemembers
    <3> QED
      BY <3>4, <3>5
  <2>4. CASE AdoptionDies
    <3>1. /\ AppendCut \/ UNCHANGED proposals
          /\ adoption' = LoopIdle /\ promoted' = promoted
      BY <2>4 DEF AdoptionDies
    <3>2. GluedLine \in Lines
      BY DEF Lines
    <3>3. proposals' \in Seq(Lines) /\ ConsumedWasPromoted'
      BY <1>1, <3>1, <3>2, AppendRemembers
    <3> QED
      BY <3>1, <3>3
  <2>5. CASE UNCHANGED <<proposals, adoption, promoted>>
    <3>1. proposals' \in Seq(Lines) /\ ConsumedWasPromoted'
      BY <1>1, <2>5, PromotedRemembers DEF LoopTypes
    <3> QED
      BY <1>1, <2>5, <3>1 DEF LoopTypes, Consumed
  <2> QED
    BY <2>1, <2>2, <2>3, <2>4, <2>5 DEF CloseCanary, Harvest, files
<1>8. LoopTypes'
  BY <1>1, <1>2, <1>5, <1>6, <1>7 DEF LoopTypes
<1>9. Consumed'
  BY <1>7 DEF Consumed
<1> QED
  BY <1>4, <1>8, <1>9 DEF LoopInv

LEMMA LoopWaits ==
  ASSUME LoopInv, EvolutionAssumption, UNCHANGED evolutionVars
  PROVE  LoopInv'
<1>1. UNCHANGED <<events, buffer, proposals, cycle, adoption, promoted, declined, faults>>
  BY DEF evolutionVars, files, bounds
<1>2. LoopTypes /\ Renewed /\ Consumed
  BY DEF LoopInv
<1>3. LoopTypes'
  BY <1>1, <1>2 DEF LoopTypes
<1>4. Renewed'
  BY <1>1, <1>2, RenewedWaits
<1>5. Consumed'
  BY <1>1, <1>2, PromotedRemembers DEF Consumed
<1> QED
  BY <1>3, <1>4, <1>5 DEF LoopInv

LEMMA LoopBegins ==
  ASSUME EvolutionAssumption, LoopInit
  PROVE  LoopInv
<1>1. LoopTypes
  <2>1. events \in [Problem -> Nat]
    BY DEF LoopInit
  <2>2. /\ buffer \in Seq(Problem) /\ Len(buffer) = 0 /\ proposals \in Seq(Lines)
    BY DEF LoopInit
  <2>3. /\ 0 \in Nat /\ BufferSize \in Nat /\ MaxFaults \in Nat
    BY DEF EvolutionAssumption
  <2>4. Len(buffer) <= BufferSize /\ faults \in 0 .. MaxFaults
    BY <2>2, <2>3 DEF LoopInit
  <2> QED
    BY <2>1, <2>2, <2>4 DEF LoopInit, LoopTypes
<1>2. Renewed
  BY DEF LoopInit, Renewed
<1>3. Consumed
  BY DEF LoopInit, Consumed, ConsumedWasPromoted, Staged
<1> QED
  BY <1>1, <1>2, <1>3 DEF LoopInv

\* The evolution loop does not propose again a problem it rejected and has mined ever
\* since, and takes no proposal off the pending list that was not promoted.
THEOREM LoopForgetsNothing ==
  ASSUME EvolutionAssumption
  PROVE  LoopSpec => []LoopRemembers
<1>1. LoopInit => LoopInv
  BY LoopBegins
<1>2. LoopInv /\ [LoopNext]_evolutionVars => LoopInv'
  BY CyclesStep, AdoptionsStep, LoopWaits DEF LoopNext
<1>3. LoopInv => LoopRemembers
  BY DEF LoopInv, Renewed, Consumed, LoopRemembers, RefusalIsRenewed
<1> QED
  BY <1>1, <1>2, <1>3, PTL DEF LoopSpec
=============================================================================
