------------------------- MODULE EvidenceProofs -------------------------
(***************************************************************************)
(* Proofs of what a reader may conclude from a green report: of a harvest, *)
(* an integrity report, an attestation, a regulator bundle, a scenario, a  *)
(* post-mortem, an assurance packet, a badge, an evaluation copy and the   *)
(* linter of the import graph, and that the gate stops no winner early.    *)
(***************************************************************************)
EXTENDS EventCompiler, Integrity, AttestationBundle, RegulatedMode, ScenarioReplay, Postmortem,
  Assurance, CapabilityReports, ToolRun, Graphlint, Gates, FiniteSetTheorems, SequenceTheorems,
  WellFoundedInduction, TLAPS

-----------------------------------------------------------------------------
(* Least and greatest elements, from the well-ordering of Nat.              *)

LEMMA LeastExists ==
  ASSUME NEW S \in SUBSET Nat, S # {}
  PROVE  \E n \in S : \A m \in S : n <= m
<1> DEFINE R == OpToRel(<, Nat)
<1>1. IsWellFoundedOn(R, Nat)
  BY NatLessThanWellFounded
<1>2. \A m, n \in Nat : m < n => <<m, n>> \in R
  BY DEF OpToRel
<1> HIDE DEF R
<1>3. PICK n \in S : \A m \in S : ~(<<m, n>> \in R)
  BY <1>1, WFMin
<1>4. \A m \in S : ~(m < n)
  BY <1>2, <1>3
<1> QED
  BY <1>4

LEMMA MaxIsGreatest ==
  ASSUME NEW n \in Nat, NEW S \in SUBSET (0..n), S # {}
  PROVE  Max(S) \in S /\ \A m \in S : m <= Max(S)
<1> DEFINE Gaps == {n - m : m \in S}
<1>1. Gaps \in SUBSET Nat /\ Gaps # {}
  <2>1. \A m \in S : n - m \in Nat
    OBVIOUS
  <2> QED
    BY <2>1
<1>2. PICK gap \in Gaps : \A g \in Gaps : gap <= g
  BY <1>1, LeastExists
<1>3. PICK greatest \in S : gap = n - greatest
  BY <1>2
<1>4. \A m \in S : greatest >= m
  <2> TAKE m \in S
  <2>1. gap <= n - m
    BY <1>2
  <2> QED
    BY <1>3, <2>1
<1>5. \E x \in S : \A y \in S : x >= y
  BY <1>4
<1>6. Max(S) \in S /\ \A m \in S : Max(S) >= m
  BY <1>5 DEF Max
<1> QED
  BY <1>6
-----------------------------------------------------------------------------
(* EventCompiler.                                                           *)

\* The events that a finished run is mined for.
Usables(r) ==
  {[run |-> r, place |-> i, body |-> finished[r][i]] :
     i \in {j \in DOMAIN finished[r] : Usable(finished[r][j])}}

EventsOf(events, r) == {e \in events : e.run = r}

LogLines ==
  [body : Records, prev : Seq(Records), own : Seq(Records), torn : BOOLEAN]

\* An anchor, once it is set, is what the run had logged; a compilation knows anchors as
\* they were; and of each run it has nothing yet or all there is.
HarvestInv ==
  /\ runLog \in [RunDirs -> Seq(LogLines)]
  /\ DOMAIN anchors = RunDirs /\ finished = anchors
  /\ harvest = NoHarvest \/
       /\ harvest = [phase |-> harvest.phase, next |-> harvest.next, known |-> harvest.known,
                     events |-> harvest.events, valid |-> harvest.valid, view |-> harvest.view]
       /\ harvest.phase \in {"compiling", "done"} /\ harvest.view \in {{}, harvest.events}
       /\ harvest.phase = "compiling" => harvest.next \in Nat /\ harvest.view = {}
       /\ \A r \in RunDirs : harvest.known[r] \in {NoHead, anchors[r]}
       /\ \A e \in harvest.events : e.run \in RunDirs
       /\ \A r \in RunDirs :
            EventsOf(harvest.events, r) \in {{}} \/
            (anchors[r] # NoHead /\ EventsOf(harvest.events, r) = Usables(r))

\* The logs stay sequences of log lines.
LEMMA AppendedIsTyped ==
  ASSUME NEW r \in RunDirs, NEW body \in Records, runLog \in [RunDirs -> Seq(LogLines)],
         AppendLine(r, body)
  PROVE  runLog' \in [RunDirs -> Seq(LogLines)]
<1>1. PICK log \in Seq(LogLines) : log = runLog[r]
  OBVIOUS
<1>2. PICK bodies : bodies = Bodies(log)
  OBVIOUS
<1>3. bodies \in Seq(Records)
  <2>1. bodies = [i \in 1..Len(log) |-> log[i].body]
    BY <1>2 DEF Bodies
  <2>2. \A i \in 1..Len(log) : log[i].body \in Records
    <3>1. \A i \in 1..Len(log) : log[i] \in LogLines
      OBVIOUS
    <3>2. \A line \in LogLines : line.body \in Records
      BY DEF LogLines
    <3> QED
      BY <3>1, <3>2
  <2> QED
    BY <2>1, <2>2
<1>4. PICK line : line = [body |-> body, prev |-> bodies, own |-> Append(bodies, body),
          torn |-> FALSE]
  OBVIOUS
<1>5. line \in LogLines
  BY <1>3, <1>4 DEF LogLines
<1>6. Append(log, line) \in Seq(LogLines)
  BY <1>5
<1>7. runLog' = [runLog EXCEPT ![r] = Append(log, line)]
  BY <1>1, <1>2, <1>4 DEF AppendLine
<1> QED
  BY <1>6, <1>7

LEMMA DamagedIsTyped ==
  ASSUME NEW r \in RunDirs, runLog \in [RunDirs -> Seq(LogLines)], DamageRun(r)
  PROVE  runLog' \in [RunDirs -> Seq(LogLines)]
<1>1. PICK log \in Seq(LogLines) : log = runLog[r]
  OBVIOUS
<1>2. PICK i \in 1..Len(log) :
        \/ \E body \in Records \ {log[i].body} : runLog' = [runLog EXCEPT ![r][i].body = body]
        \/ runLog' = [runLog EXCEPT ![r][i].torn = TRUE]
        \/ runLog' = [runLog EXCEPT ![r] = RemoveAt(@, i)]
  BY <1>1 DEF DamageRun
<1>3. log[i] \in LogLines
  OBVIOUS
<1>4. \A body \in Records : [log EXCEPT ![i].body = body] \in Seq(LogLines)
  <2>1. \A body \in Records : [log[i] EXCEPT !.body = body] \in LogLines
    BY <1>3 DEF LogLines
  <2> QED
    BY <2>1
<1>5. [log EXCEPT ![i].torn = TRUE] \in Seq(LogLines)
  <2>1. [log[i] EXCEPT !.torn = TRUE] \in LogLines
    BY <1>3 DEF LogLines
  <2> QED
    BY <2>1
<1>6. RemoveAt(log, i) \in Seq(LogLines)
  BY DEF RemoveAt
<1>7. CASE \E body \in Records : runLog' = [runLog EXCEPT ![r][i].body = body]
  BY <1>1, <1>4, <1>7
<1>8. CASE runLog' = [runLog EXCEPT ![r][i].torn = TRUE]
  BY <1>1, <1>5, <1>8
<1>9. CASE runLog' = [runLog EXCEPT ![r] = RemoveAt(@, i)]
  BY <1>1, <1>6, <1>9
<1> QED
  BY <1>2, <1>7, <1>8, <1>9

\* Without a torn line inside, line for line the readable log is the log.
LEMMA ReadableIsPrefix ==
  ASSUME NEW log \in Seq(LogLines)
  PROVE  /\ DOMAIN Readable(log) \subseteq DOMAIN log
         /\ \A i \in DOMAIN Readable(log) : Readable(log)[i] = log[i]
<1>1. CASE log # <<>> /\ Last(log).torn
  BY <1>1 DEF Readable, Front
<1>2. CASE ~(log # <<>> /\ Last(log).torn)
  BY <1>2 DEF Readable
<1> QED
  BY <1>1, <1>2

\* What is extracted from an anchored run is what it had when the anchor was set.
LEMMA ExtractedIsAnchored ==
  ASSUME NEW r \in RunDirs, HarvestInv, NEW known, known[r] \in {NoHead, anchors[r]},
         Anchored(r, known)
  PROVE  anchors[r] # NoHead /\ Extract(r) = Usables(r)
<1>1. anchors[r] = Bodies(Readable(runLog[r])) /\ anchors[r] # NoHead /\ finished[r] = anchors[r]
  BY DEF Anchored, HarvestInv
<1>2. /\ DOMAIN finished[r] = DOMAIN Readable(runLog[r])
      /\ \A i \in DOMAIN finished[r] : finished[r][i] = runLog[r][i].body
  BY <1>1, ReadableIsPrefix DEF Bodies, HarvestInv
<1> QED
  BY <1>1, <1>2 DEF Extract, Usables

LEMMA CompiledIsAnchored ==
  ASSUME CompilerAssumption, HarvestInv, CompileRun
  PROVE  HarvestInv'
<1>1. PICK r \in RunDirs : r = RunListing[harvest.next]
  BY DEF CompileRun, CompilerAssumption
<1>2. harvest # NoHarvest /\ harvest.phase = "compiling" /\ harvest.next \in Nat
  BY DEF CompileRun, Compiling, HarvestInv, NoHarvest
<1>3. UNCHANGED <<runLog, anchors, finished>>
  BY DEF CompileRun
<1>4. PICK known : known = harvest.known
  OBVIOUS
<1>5. known[r] \in {NoHead, anchors[r]}
  BY <1>2, <1>4 DEF HarvestInv
<1>6. CASE /\ Anchored(r, harvest.known)
           /\ harvest' = RunDone([harvest EXCEPT !.events = @ \cup Extract(r)])
  <2>1. anchors[r] # NoHead /\ Extract(r) = Usables(r)
    <3>1. Anchored(r, known)
      BY <1>6, <1>4
    <3> QED
      BY <1>5, <3>1, ExtractedIsAnchored
  <2>2. harvest' = [phase |-> "compiling", next |-> harvest.next + 1, known |-> harvest.known,
                    events |-> harvest.events \cup Usables(r), valid |-> harvest.valid,
                    view |-> harvest.view]
    BY <1>2, <1>6, <2>1 DEF RunDone, HarvestInv
  <2>3. \A e \in Usables(r) : e.run = r
    BY DEF Usables
  <2>4. ASSUME NEW q \in RunDirs
        PROVE  EventsOf(harvest'.events, q) \in {{}} \/
               (anchors[q] # NoHead /\ EventsOf(harvest'.events, q) = Usables(q))
    <3>1. CASE q = r
      <4>1. EventsOf(harvest'.events, q) = EventsOf(harvest.events, r) \cup Usables(r)
        BY <2>2, <2>3, <3>1 DEF EventsOf
      <4>2. EventsOf(harvest.events, r) \in {{}, Usables(r)}
        BY <1>2 DEF HarvestInv
      <4> QED
        BY <2>1, <3>1, <4>1, <4>2
    <3>2. CASE q # r
      <4>1. EventsOf(harvest'.events, q) = EventsOf(harvest.events, q)
        BY <2>2, <2>3, <3>2 DEF EventsOf
      <4> QED
        BY <1>2, <4>1 DEF HarvestInv
    <3> QED
      BY <3>1, <3>2
  <2>5. Usables(r)' = Usables(r) /\ \A q \in RunDirs : Usables(q)' = Usables(q)
    BY <1>3 DEF Usables
  <2>6. \A e \in harvest'.events : e.run \in RunDirs
    BY <1>2, <2>2, <2>3 DEF HarvestInv
  <2>7. harvest.view = {} /\ \A q \in RunDirs : harvest.known[q] \in {NoHead, anchors[q]}
    BY <1>2 DEF HarvestInv
  <2>8. /\ harvest' = [phase |-> harvest'.phase, next |-> harvest'.next, known |-> harvest'.known,
                       events |-> harvest'.events, valid |-> harvest'.valid,
                           view |-> harvest'.view]
        /\ harvest'.phase = "compiling" /\ harvest'.view = {} /\ harvest'.next \in Nat
        /\ harvest'.known = harvest.known
    BY <1>2, <2>2, <2>7
  <2>9. /\ runLog' \in [RunDirs -> Seq(LogLines)] /\ DOMAIN anchors' = RunDirs
        /\ finished' = anchors' /\ anchors' = anchors
    BY <1>3 DEF HarvestInv
  <2>10. \A q \in RunDirs : EventsOf(harvest.events, q)' = EventsOf(harvest'.events, q)
    BY DEF EventsOf
  <2> QED
    BY <2>4, <2>5, <2>6, <2>7, <2>8, <2>9, <2>10 DEF HarvestInv
<1>7. CASE harvest' = RunDone([harvest EXCEPT !.valid = FALSE])
  <2>1. harvest' = [phase |-> "compiling", next |-> harvest.next + 1, known |-> harvest.known,
                    events |-> harvest.events, valid |-> FALSE, view |-> harvest.view]
    BY <1>2, <1>7 DEF RunDone, HarvestInv
  <2>2. \A q \in RunDirs : Usables(q)' = Usables(q)
            /\ EventsOf(harvest'.events, q) = EventsOf(harvest.events, q)
    BY <1>3, <2>1 DEF Usables, EventsOf
  <2> QED
    BY <1>2, <1>3, <2>1, <2>2 DEF HarvestInv
<1> QED
  BY <1>1, <1>6, <1>7 DEF CompileRun

\* HarvestIsAnchored, for any runs and lines: what a finished harvest holds of a run is
\* nothing, or the usable lines that the run had when its anchor was set.
THEOREM HarvestsAreAnchored ==
  ASSUME CompilerAssumption
  PROVE  CompilerSpec => []HarvestIsAnchored
<1>1. CompilerInit => HarvestInv
  BY DEF CompilerInit, HarvestInv
<1>2. ASSUME HarvestInv, [CompilerNext]_compilerVars
      PROVE  HarvestInv'
  <2>1. CASE BeginHarvest
    BY <1>2, <2>1 DEF BeginHarvest, HarvestInv, EventsOf
  <2>2. CASE CompileRun
    BY <1>2, <2>2, CompiledIsAnchored
  <2>3. CASE SkipRun
    BY <1>2, <2>3 DEF SkipRun, RunDone, Compiling, NoHarvest, HarvestInv, Usables
  <2>4. CASE CorruptLog
    BY <1>2, <2>4 DEF CorruptLog, HarvestInv
  <2>5. CASE FinishHarvest
    <3>1. PICK valid \in BOOLEAN :
            harvest' = [harvest EXCEPT !.phase = "done", !.valid = valid,
                                       !.view = IF valid THEN harvest.events ELSE {}]
      BY <2>5 DEF FinishHarvest
    <3>2. harvest # NoHarvest /\ UNCHANGED <<runLog, anchors, finished>>
      BY <2>5 DEF FinishHarvest, Compiling, NoHarvest
    <3>3. harvest' = [phase |-> "done", next |-> harvest.next, known |-> harvest.known,
                      events |-> harvest.events, valid |-> valid,
                      view |-> IF valid THEN harvest.events ELSE {}]
      BY <1>2, <3>1, <3>2 DEF HarvestInv
    <3>4. \A q \in RunDirs : Usables(q)' = Usables(q)
      BY <3>2 DEF Usables
    <3> QED
      BY <1>2, <3>2, <3>3, <3>4 DEF HarvestInv, EventsOf
  <2>6. ASSUME NEW r \in RunDirs, NEW body \in Records, AppendLine(r, body)
        PROVE  HarvestInv'
    <3>1. UNCHANGED <<anchors, finished, harvest>> /\ runLog' \in [RunDirs -> Seq(LogLines)]
      BY <1>2, <2>6, AppendedIsTyped DEF AppendLine, HarvestInv
    <3> QED
      BY <1>2, <3>1 DEF HarvestInv, Usables
  <2>7. ASSUME NEW r \in RunDirs, SetAnchor(r)
        PROVE  HarvestInv'
    BY <1>2, <2>7 DEF SetAnchor, HarvestInv, Usables
  <2>8. ASSUME NEW r \in RunDirs, DamageRun(r)
        PROVE  HarvestInv'
    <3>1. UNCHANGED <<anchors, finished, harvest>> /\ runLog' \in [RunDirs -> Seq(LogLines)]
      BY <1>2, <2>8, DamagedIsTyped DEF DamageRun, HarvestInv
    <3> QED
      BY <1>2, <3>1 DEF HarvestInv, Usables
  <2>9. ASSUME NEW r \in RunDirs, MakeDir(r)
        PROVE  HarvestInv'
    BY <1>2, <2>9 DEF MakeDir, HarvestInv, Usables
  <2>10. CASE UNCHANGED compilerVars
    BY <1>2, <2>10 DEF compilerVars, HarvestInv, Usables
  <2> QED
    BY <1>2, <2>1, <2>2, <2>3, <2>4, <2>5, <2>6, <2>7, <2>8, <2>9, <2>10 DEF CompilerNext
<1>3. HarvestInv => HarvestIsAnchored
  BY DEF HarvestInv, HarvestIsAnchored, EventsOf, Usables, NoHarvest
<1> QED
  BY <1>1, <1>2, <1>3, PTL DEF CompilerSpec
-----------------------------------------------------------------------------
(* Integrity.                                                               *)

EntryLike(e) ==
  e = [seq |-> e.seq, body |-> e.body, prev |-> e.prev, digest |-> e.digest, shaped |-> e.shaped]

IsSeq(s) == \E S : s \in Seq(S)

LogOf(S) == (\A e \in S : EntryLike(e)) /\ adoptionLog \in Seq(S)

\* What the promotions wrote is a chain, the anchor is its head, and the log is what
\* they wrote until something is lost.
ChainInv ==
  /\ \E S : LogOf(S)
  /\ IsSeq(written)
  /\ \A i \in 1..Len(written) :
       written[i] = Entry(i, "as adopted", IF i = 1 THEN Null ELSE written[i - 1].digest)
  /\ anchoredHead = IF written = <<>> THEN Null ELSE written[Len(written)].digest
  /\ losses \in Nat
  /\ losses = 0 => adoptionLog = written
  /\ written = <<>> => adoptionLog = <<>>
  /\ integrityReport # NoIntegrityReport => integrityReport.log =
      VerifyAdoptionLog(adoptionLog, Anchor)

LEMMA SequencesAreLists ==
  ASSUME NEW s, IsSeq(s)
  PROVE  /\ Len(s) \in Nat /\ DOMAIN s = 1..Len(s)
         /\ s = <<>> <=> Len(s) = 0
         /\ \A t : IsSeq(t) /\ Len(t) = Len(s) /\ (\A i \in 1..Len(s) : s[i] = t[i]) => s = t
<1>1. PICK S : s \in Seq(S)
  BY DEF IsSeq
<1>2. Len(s) \in Nat /\ DOMAIN s = 1..Len(s) /\ (s = <<>> <=> Len(s) = 0)
  BY <1>1
<1>3. ASSUME NEW t, IsSeq(t), Len(t) = Len(s), \A i \in 1..Len(s) : s[i] = t[i]
      PROVE  s = t
  <2>1. PICK T : t \in Seq(T)
    BY <1>3 DEF IsSeq
  <2> QED
    BY <1>1, <1>3, <2>1
<1> QED
  BY <1>2, <1>3

LEMMA DigestsAreNotNull ==
  ASSUME NEW a, NEW b, NEW c
  PROVE  <<a, b, c>> # Null
BY DEF Null

\* Two intact entries with one digest are one entry.
LEMMA DigestTellsAll ==
  ASSUME NEW d, NEW e, EntryLike(d), EntryLike(e), d.shaped = e.shaped,
         d.digest = Digest(d), e.digest = Digest(e), d.digest = e.digest
  PROVE  d = e
<1>1. d.seq = e.seq /\ d.body = e.body /\ d.prev = e.prev
  BY DEF Digest
<1> QED
  BY <1>1 DEF EntryLike

\* A chain that ends in the digest of the chain that was written is that chain.
LEMMA OneChainPerHead ==
  ASSUME ChainInv, written # <<>>, adoptionLog # <<>>,
         \A i \in 1..Len(adoptionLog) : adoptionLog[i].shaped = TRUE,
         Linked(adoptionLog), ContentsMatch(adoptionLog),
         adoptionLog[Len(adoptionLog)].digest = anchoredHead
  PROVE  adoptionLog = written
<1>1. PICK S : LogOf(S)
  BY DEF ChainInv
<1>2. IsSeq(adoptionLog) /\ IsSeq(written)
  BY <1>1 DEF LogOf, IsSeq, ChainInv
<1>3. PICK n \in Nat : n = Len(adoptionLog) /\ DOMAIN adoptionLog = 1..n /\ n # 0
  BY <1>2, SequencesAreLists
<1>4. PICK m \in Nat : m = Len(written) /\ m # 0
  BY <1>2, SequencesAreLists
<1>5. n = Len(adoptionLog) /\ m = Len(written) /\ n > 0 /\ m > 0 /\ DOMAIN adoptionLog = 1..n
  BY <1>3, <1>4
<1>6. \A j \in 1..m : written[j] = Entry(j, "as adopted", IF j = 1
          THEN Null ELSE written[j - 1].digest)
  BY <1>5 DEF ChainInv
<1>7. \A i \in 1..n : /\ EntryLike(adoptionLog[i])
                      /\ adoptionLog[i].shaped = TRUE
                      /\ adoptionLog[i].digest = Digest(adoptionLog[i])
  BY <1>5, <1>1 DEF LogOf, ContentsMatch
<1>8. \A j \in 1..m : /\ EntryLike(written[j])
                      /\ written[j].shaped = TRUE
                      /\ written[j].digest = Digest(written[j])
                      /\ written[j].prev = IF j = 1 THEN Null ELSE written[j - 1].digest
  <2> TAKE j \in 1..m
  <2>1. PICK prev : prev = IF j = 1 THEN Null ELSE written[j - 1].digest
    OBVIOUS
  <2>2. written[j] = Entry(j, "as adopted", prev)
    BY <1>6, <2>1
  <2>3. /\ EntryLike(written[j]) /\ written[j].shaped = TRUE /\ written[j].prev = prev
        /\ written[j].digest = Digest(written[j])
    <3>1. PICK e : e = written[j]
      OBVIOUS
    <3>2. e = [seq |-> j, body |-> "as adopted", prev |-> prev,
               digest |-> <<j, "as adopted", prev>>, shaped |-> TRUE]
      BY <2>2, <3>1 DEF Entry
    <3>3. EntryLike(e) /\ e.shaped = TRUE /\ e.prev = prev /\ e.digest = <<e.seq, e.body, e.prev>>
      BY <3>2 DEF EntryLike
    <3> QED
      BY <3>1, <3>3 DEF Digest
  <2> QED
    BY <2>1, <2>3
<1>9. \A i \in 1..n : adoptionLog[i].prev = IF i = 1 THEN Null ELSE adoptionLog[i - 1].digest
  BY <1>5 DEF Linked
<1>10. adoptionLog[n].digest = written[m].digest
  BY <1>5 DEF ChainInv
<1>11. \A i \in 1..n, j \in 1..m :
        adoptionLog[i].digest = written[j].digest => adoptionLog[i] = written[j]
  BY <1>7, <1>8, DigestTellsAll
<1> DEFINE Differ == {k \in Nat : k < n /\ k < m /\ adoptionLog[n - k] # written[m - k]}
<1>12. Differ = {}
  <2> SUFFICES ASSUME Differ # {} PROVE FALSE
    OBVIOUS
  <2>1. PICK k \in Differ : \A l \in Differ : k <= l
    BY LeastExists
  <2>2. CASE k = 0
    BY <1>5, <1>10, <1>11, <2>1, <2>2
  <2>3. CASE k > 0
    <3>1. adoptionLog[n - k + 1] = written[m - k + 1]
      <4>1. k - 1 \notin Differ /\ k - 1 \in Nat
        <5>1. k \in Nat /\ k - 1 \in Nat /\ ~(k <= k - 1)
          BY <2>1, <2>3
        <5> QED
          BY <2>1, <5>1
      <4>2. n - (k - 1) = n - k + 1 /\ m - (k - 1) = m - k + 1
        BY <2>1
      <4> QED
        BY <2>1, <4>1, <4>2
    <3>2. adoptionLog[n - k].digest = written[m - k].digest
      <4>1. n - k + 1 \in 2..n /\ m - k + 1 \in 2..m /\ n - k + 1 - 1 = n - k
                /\ m - k + 1 - 1 = m - k
        BY <2>1, <2>3
      <4>2. adoptionLog[n - k + 1].prev = adoptionLog[n - k].digest
        BY <1>9, <4>1
      <4>3. written[m - k + 1].prev = written[m - k].digest
        BY <1>8, <4>1
      <4> QED
        BY <3>1, <4>2, <4>3
    <3> QED
      BY <1>11, <2>1, <3>2
  <2> QED
    BY <2>1, <2>2, <2>3
<1>13. \A k \in Nat : k < n /\ k < m => adoptionLog[n - k] = written[m - k]
  BY <1>12
<1>14. n = m
  <2>1. CASE n < m
    <3>1. adoptionLog[1] = written[m - n + 1]
      <4>1. n - 1 \in Nat /\ n - (n - 1) = 1 /\ m - (n - 1) = m - n + 1 /\ n - 1 < n /\ n - 1 < m
        BY <1>5, <2>1
      <4> QED
        BY <1>13, <4>1
    <3>2. m - n + 1 \in 2..m /\ m - n + 1 - 1 = m - n /\ m - n \in 1..m
      BY <1>5, <2>1
    <3>3. written[m - n].digest = Null
      <4>1. adoptionLog[1].prev = Null
        BY <1>5, <1>9
      <4>2. m - n + 1 \in 1..m /\ m - n + 1 # 1
        BY <1>5, <3>2
      <4>3. written[m - n + 1].prev = written[m - n].digest
        BY <1>8, <3>2, <4>2
      <4> QED
        BY <3>1, <4>1, <4>3
    <3>4. written[m - n].digest = Digest(written[m - n])
      BY <1>8, <3>2
    <3> QED
      BY <3>3, <3>4, DigestsAreNotNull DEF Digest
  <2>2. CASE m < n
    <3>1. adoptionLog[n - m + 1] = written[1]
      <4>1. m - 1 \in Nat /\ m - (m - 1) = 1 /\ n - (m - 1) = n - m + 1 /\ m - 1 < n /\ m - 1 < m
        BY <1>5, <2>2
      <4> QED
        BY <1>13, <4>1
    <3>2. n - m + 1 \in 2..n /\ n - m + 1 - 1 = n - m /\ n - m \in 1..n
      BY <1>5, <2>2
    <3>3. adoptionLog[n - m].digest = Null
      <4>1. written[1].prev = Null
        BY <1>5, <1>8
      <4>2. n - m + 1 \in 1..n /\ n - m + 1 # 1
        BY <1>5, <3>2
      <4>3. adoptionLog[n - m + 1].prev = adoptionLog[n - m].digest
        BY <1>9, <3>2, <4>2
      <4> QED
        BY <3>1, <4>1, <4>3
    <3>4. adoptionLog[n - m].digest = Digest(adoptionLog[n - m])
      BY <1>7, <3>2
    <3> QED
      BY <3>3, <3>4, DigestsAreNotNull DEF Digest
  <2> QED
    BY <1>5, <2>1, <2>2
<1>15. \A i \in 1..n : adoptionLog[i] = written[i]
  <2> TAKE i \in 1..n
  <2>1. n - i \in Nat /\ n - i < n /\ n - (n - i) = i
    BY <1>5
  <2> QED
    BY <1>13, <1>14, <2>1
<1> QED
  BY <1>5, <1>14, <1>15, <1>2, SequencesAreLists

\* Whatever happens to the log, it stays a sequence of entries.
LEMMA DamagedLogIsALog ==
  ASSUME NEW S, LogOf(S), DamageAdoptions
  PROVE  (\E T : LogOf(T)') /\ adoptionLog # <<>>
<1>1. PICK log \in Seq(S) : log = adoptionLog
  BY DEF LogOf
<1>2. PICK i \in 1..Len(log) :
       \/ adoptionLog' = [log EXCEPT ![i].body = "as altered"]
       \/ adoptionLog' = [log EXCEPT ![i].shaped = FALSE]
       \/ adoptionLog' = RemoveAt(log, i)
       \/ adoptionLog' = InsertAt(log, i, log[i])
       \/ i < Len(log) /\ adoptionLog' = [log EXCEPT ![i] = log[i + 1], ![i + 1] = log[i]]
       \/ adoptionLog' = <<>>
  <2>1. DOMAIN adoptionLog = 1..Len(log)
    BY <1>1
  <2> QED
    BY <1>1, <2>1 DEF DamageAdoptions
<1>3. log[i] \in S /\ \A e \in S : EntryLike(e)
  BY DEF LogOf
<1>4. adoptionLog # <<>>
  BY <1>1
<1>5. CASE adoptionLog' = [log EXCEPT ![i].body = "as altered"]
  <2>1. PICK new : new = [log[i] EXCEPT !.body = "as altered"]
    OBVIOUS
  <2>2. EntryLike(log[i])
    BY <1>3
  <2>3. EntryLike(new)
    BY <2>1, <2>2 DEF EntryLike
  <2>4. adoptionLog' \in Seq(S \cup {new})
    <3>1. adoptionLog' = [log EXCEPT ![i] = new]
      BY <1>5, <2>1
    <3> QED
      BY <3>1
  <2> QED
    BY <1>3, <1>4, <2>3, <2>4 DEF LogOf
<1>6. CASE adoptionLog' = [log EXCEPT ![i].shaped = FALSE]
  <2>1. PICK new : new = [log[i] EXCEPT !.shaped = FALSE]
    OBVIOUS
  <2>2. EntryLike(log[i])
    BY <1>3
  <2>3. EntryLike(new)
    BY <2>1, <2>2 DEF EntryLike
  <2>4. adoptionLog' \in Seq(S \cup {new})
    <3>1. adoptionLog' = [log EXCEPT ![i] = new]
      BY <1>6, <2>1
    <3> QED
      BY <3>1
  <2> QED
    BY <1>3, <1>4, <2>3, <2>4 DEF LogOf
<1>7. CASE adoptionLog' = RemoveAt(log, i)
  <2>1. adoptionLog' \in Seq(S)
    BY <1>7 DEF RemoveAt
  <2> QED
    BY <1>3, <1>4, <2>1 DEF LogOf
<1>8. CASE adoptionLog' = InsertAt(log, i, log[i])
  <2>1. adoptionLog' \in Seq(S)
    BY <1>3, <1>8 DEF InsertAt
  <2> QED
    BY <1>3, <1>4, <2>1 DEF LogOf
<1>9. CASE i < Len(log) /\ adoptionLog' = [log EXCEPT ![i] = log[i + 1], ![i + 1] = log[i]]
  <2>1. log[i + 1] \in S
    BY <1>9
  <2>2. adoptionLog' \in Seq(S)
    BY <1>3, <1>9, <2>1
  <2> QED
    BY <1>3, <1>4, <2>2 DEF LogOf
<1>10. CASE adoptionLog' = <<>>
  BY <1>3, <1>4, <1>10 DEF LogOf
<1> QED
  BY <1>2, <1>5, <1>6, <1>7, <1>8, <1>9, <1>10

\* A promotion puts the next link on the chain.
LEMMA PromotionExtendsChain ==
  ASSUME ChainInv, LogPromotion
  PROVE  ChainInv'
<1>1. PICK S : LogOf(S)
  BY DEF ChainInv
<1>2. PICK n \in Nat : n = Len(written)
  BY SequencesAreLists DEF ChainInv
<1>3. PICK prev : prev = IF written = <<>> THEN Null ELSE written[n].digest
  OBVIOUS
<1>4. PICK entry : entry = Entry(n + 1, "as adopted", prev)
  OBVIOUS
<1>5. adoptionLog = written /\ written \in Seq(S)
  BY <1>1 DEF LogPromotion, ChainInv, LogOf
<1>6. /\ adoptionLog' = Append(written, entry) /\ written' = Append(written, entry)
      /\ anchoredHead' = entry.digest /\ integrityReport' = NoIntegrityReport /\ losses' = losses
  BY <1>2, <1>3, <1>4, <1>5 DEF LogPromotion, Last
<1>7. EntryLike(entry) /\ entry.digest = <<n + 1, "as adopted", prev>>
  BY <1>4 DEF Entry, EntryLike
<1>8. Append(written, entry) \in Seq(S \cup {entry})
  BY <1>5
<1>9. LogOf(S \cup {entry})'
  BY <1>1, <1>6, <1>7, <1>8 DEF LogOf
<1>10. Len(written') = n + 1 /\ written'[n + 1] = entry
           /\ \A i \in 1..n : written'[i] = written[i]
  BY <1>2, <1>5, <1>6
<1>11. \A i \in 1..Len(written') :
        written'[i] = Entry(i, "as adopted", IF i = 1 THEN Null ELSE written'[i - 1].digest)
  <2> TAKE i \in 1..Len(written')
  <2>1. CASE i \in 1..n
    <3>1. written[i] = Entry(i, "as adopted", IF i = 1 THEN Null ELSE written[i - 1].digest)
      BY <1>2, <2>1 DEF ChainInv
    <3>2. i # 1 => i - 1 \in 1..n
      BY <2>1
    <3>3. i # 1 => written'[i - 1] = written[i - 1]
      BY <1>10, <3>2
    <3> QED
      BY <1>10, <2>1, <3>1, <3>3
  <2>2. CASE i = n + 1
    <3>1. prev = IF i = 1 THEN Null ELSE written'[i - 1].digest
      BY <1>2, <1>3, <1>5, <1>10, <2>2
    <3> QED
      BY <1>4, <1>10, <2>2, <3>1
  <2> QED
    <3>1. i \in 1..n \/ i = n + 1
      BY <1>2, <1>10
    <3> QED
      BY <2>1, <2>2, <3>1
<1>12. IsSeq(written')
  BY <1>6, <1>8 DEF IsSeq
<1>13. written' # <<>> /\ anchoredHead' = written'[Len(written')].digest
  BY <1>2, <1>5, <1>6, <1>10
<1> QED
  BY <1>5, <1>6, <1>9, <1>11, <1>12, <1>13 DEF ChainInv

\* AlteredLogIsSeen, for a log of any length and any number of alterations, removals,
\* doublings and swaps: an adoption log that is reported in order is the one written.
THEOREM AlteredLogsAreSeen ==
  ASSUME IntegrityAssumption
  PROVE  IntegritySpec => []AlteredLogIsSeen
<1>1. IntegrityInit => ChainInv
  <2> SUFFICES ASSUME IntegrityInit PROVE ChainInv
    OBVIOUS
  <2>1. LogOf({}) /\ written \in Seq({})
    BY DEF IntegrityInit, LogOf
  <2>2. (\E S : LogOf(S)) /\ IsSeq(written)
    BY <2>1 DEF IsSeq
  <2>3. 1..Len(written) = {}
    BY DEF IntegrityInit
  <2> QED
    BY <2>2, <2>3 DEF IntegrityInit, ChainInv
<1>2. ASSUME ChainInv, [IntegrityNext]_integrityVars
      PROVE  ChainInv'
  <2>1. CASE RunIntegrity
    <3>1. UNCHANGED <<adoptionLog, anchoredHead, written, losses, projectManifest>>
      BY <2>1 DEF RunIntegrity, filesOnDisk
    <3>2. integrityReport'.log = VerifyAdoptionLog(adoptionLog, Anchor)
      BY <2>1 DEF RunIntegrity
    <3>3. integrityReport'.log = VerifyAdoptionLog(adoptionLog', Anchor')
      BY <3>1, <3>2 DEF Anchor, VerifyAdoptionLog, Linked, ContentsMatch, Digest, Last
    <3> QED
      BY <1>2, <3>1, <3>3 DEF ChainInv, LogOf
  <2>2. CASE LogPromotion
    BY <1>2, <2>2, PromotionExtendsChain
  <2>3. CASE DamageFiles
    <3>1. UNCHANGED <<adoptionLog, anchoredHead, written>> /\ integrityReport' = NoIntegrityReport
      BY <2>3 DEF DamageFiles, Harm
    <3>2. losses' = losses + 1
      BY <2>3 DEF DamageFiles, Harm
    <3>3. losses \in Nat
      BY <1>2 DEF ChainInv
    <3>4. PICK S : LogOf(S)
      BY <1>2 DEF ChainInv
    <3>5. LogOf(S)'
      BY <3>4, <3>1 DEF LogOf
    <3>6. losses' \in Nat /\ losses' # 0 /\ \E T : LogOf(T)'
      BY <3>3, <3>5, <3>2
    <3> QED
      BY <1>2, <3>1, <3>6 DEF ChainInv
  <2>4. CASE DamageAdoptions
    <3>1. UNCHANGED <<anchoredHead, written>> /\ integrityReport' = NoIntegrityReport
              /\ losses' = losses + 1
      BY <2>4 DEF DamageAdoptions, Harm
    <3>2. (\E T : LogOf(T)') /\ adoptionLog # <<>>
      BY <1>2, <2>4, DamagedLogIsALog DEF ChainInv
    <3>3. losses \in Nat
      BY <1>2 DEF ChainInv
    <3>4. losses' \in Nat /\ losses' # 0
      BY <3>3, <3>1
    <3> QED
      BY <1>2, <3>1, <3>2, <3>4 DEF ChainInv
  <2>5. CASE UNCHANGED integrityVars
    BY <1>2, <2>5 DEF integrityVars, filesOnDisk, ChainInv, LogOf, Anchor, VerifyAdoptionLog,
       Linked,
       ContentsMatch, Digest, Last
  <2> QED
    BY <1>2, <2>1, <2>2, <2>3, <2>4, <2>5 DEF IntegrityNext
<1>3. ChainInv => AlteredLogIsSeen
  <2> SUFFICES ASSUME ChainInv, integrityReport # NoIntegrityReport, projectManifest = "present",
                      integrityReport.log = "ok"
               PROVE  adoptionLog = written
    BY DEF AlteredLogIsSeen
  <2>1. VerifyAdoptionLog(adoptionLog, Anchor) = "ok" /\ Anchor = anchoredHead
    BY DEF ChainInv, Anchor
  <2>2. PICK S : adoptionLog \in Seq(S)
    BY DEF ChainInv, LogOf
  <2>3. /\ \A i \in 1..Len(adoptionLog) : adoptionLog[i].shaped
        /\ adoptionLog # <<>> /\ Linked(adoptionLog) /\ ContentsMatch(adoptionLog)
        /\ anchoredHead \in {Null, Last(adoptionLog).digest}
    BY <2>1, <2>2 DEF VerifyAdoptionLog
  <2>4. written # <<>>
    BY <2>3 DEF ChainInv
  <2>5. anchoredHead # Null
    <3>1. PICK n \in Nat : n = Len(written) /\ n > 0
      <4>1. Len(written) \in Nat /\ Len(written) # 0
        BY <2>4, SequencesAreLists DEF ChainInv
      <4> QED
        BY <4>1
    <3>2. \A i \in 1..Len(written) :
            written[i] = Entry(i, "as adopted", IF i = 1 THEN Null ELSE written[i - 1].digest)
      BY DEF ChainInv
    <3>3. PICK prev : prev = IF n = 1 THEN Null ELSE written[n - 1].digest
      OBVIOUS
    <3>4. written[n] = Entry(n, "as adopted", prev)
      <4>1. n \in 1..Len(written)
        BY <3>1
      <4>2. written[n] = Entry(n, "as adopted", IF n = 1 THEN Null ELSE written[n - 1].digest)
        BY <3>2, <4>1
      <4> QED
        BY <3>3, <4>2
    <3>5. written[n].digest = <<n, "as adopted", prev>>
      <4>1. Entry(n, "as adopted", prev).digest = <<n, "as adopted", prev>>
        BY DEF Entry
      <4> QED
        BY <3>4, <4>1
    <3>6. written[n].digest = <<n, "as adopted", prev>> /\ anchoredHead = written[n].digest
      BY <2>4, <3>1, <3>5 DEF ChainInv
    <3> QED
      BY <3>6, DigestsAreNotNull
  <2> QED
    BY <2>3, <2>4, <2>5, OneChainPerHead DEF Last
<1> QED
  BY <1>1, <1>2, <1>3, PTL DEF IntegritySpec
-----------------------------------------------------------------------------
(* Attestation.                                                             *)

SealedRun(run) ==
  /\ run.mode \in RunModes /\ run.suites \subseteq {"blocked", "leaked"}

\* The manifest that a producer signs.
Unsigned(run, signer, out) ==
  LET files == RunFiles(run)
      m == [mode |-> run.mode, artifacts |-> files, skills |-> run.skills, suites |-> run.suites,
            profiles |-> run.profiles, declares |-> << >>, shows |-> {},
            plan |-> <<signer, files["graph"], files["policy"], {s.id : s \in run.skills}>>]
  IN [f \in DOMAIN m \cup {"controls"} |->
        IF f = "controls" THEN ComputeControls(m, run.trace, out) ELSE m[f]]

\* What somebody signed, with the contents that its artifacts were hashed from.
SealLike(s) ==
  /\ s = [signer |-> s.signer, manifest |-> s.manifest, contents |-> s.contents]
  /\ s.manifest = [f \in DOMAIN s.manifest |-> s.manifest[f]]
  /\ "signature" \notin DOMAIN s.manifest /\ {"artifacts", "suites"} \subseteq DOMAIN s.manifest
  /\ s.contents = s.manifest.artifacts /\ s.manifest.suites \subseteq {"blocked", "leaked"}

BundleLike(b) ==
  b = [manifest |-> b.manifest, contents |-> b.contents] /\ "signature" \in DOMAIN b.manifest

SignedBy(b, s) == b.manifest.signature = <<s.signer, s.manifest>>

\* A bundle carries a signature that somebody made; one that nobody touched is as its
\* producer made it; and what a replay says was verified.
AttestInv ==
  /\ \A s \in sealed : SealLike(s)
  /\ bundle = NoBundle \/ (BundleLike(bundle) /\ \E s \in sealed : SignedBy(bundle, s))
  /\ earlier = NoBundle \/ (BundleLike(earlier) /\ \E s \in sealed : SignedBy(earlier, s))
  /\ honest \in BOOLEAN
  /\ honest => \E run, signer :
       SealedRun(run) /\ Complete(run) /\ bundle = ProduceBundle(run, signer, revoked)
  /\ ReplayNeedsItsOwnPass

\* What is signed is all of the manifest but the signature.
LEMMA SignatureCovers ==
  ASSUME NEW m, NEW signer, "signature" \notin DOMAIN m, m = [f \in DOMAIN m |-> m[f]]
  PROVE  /\ Preimage(Sign(m, signer)) = m
         /\ Sign(m, signer).signature = <<signer, m>>
         /\ \A f \in DOMAIN m : Sign(m, signer)[f] = m[f]
         /\ DOMAIN Sign(m, signer) = DOMAIN m \cup {"signature"}
<1>1. Preimage(m) = m
  BY DEF Preimage, Restrict
<1>2. PICK sm : sm = Sign(m, signer)
  OBVIOUS
<1>3. /\ DOMAIN sm = DOMAIN m \cup {"signature"} /\ sm["signature"] = <<signer, m>>
      /\ \A f \in DOMAIN m : sm[f] = m[f]
  BY <1>1, <1>2 DEF Sign
<1>4. Preimage(sm) = m
  BY <1>3 DEF Preimage, Restrict
<1> QED
  BY <1>2, <1>3, <1>4

LEMMA ManifestIsSigned ==
  ASSUME NEW run, NEW signer, NEW out
  PROVE  LET u == Unsigned(run, signer, out)
             b == ProduceBundle(run, signer, out) IN
         /\ b = [manifest |-> Sign(u, signer), contents |-> RunFiles(run)]
         /\ "signature" \notin DOMAIN u /\ u = [f \in DOMAIN u |-> u[f]]
         /\ {"mode", "artifacts", "skills", "suites", "profiles", "declares", "shows", "plan",
            "controls"} = DOMAIN u
         /\ u.mode = run.mode /\ u.artifacts = RunFiles(run) /\ u.skills = run.skills
         /\ u.suites = run.suites /\ u.profiles = run.profiles /\ u.declares = << >>
         /\ u.plan = <<signer, RunFiles(run)["graph"], RunFiles(run)["policy"],
             {s.id : s \in run.skills}>>
         /\ u.controls = ComputeControls(u, run.trace, out)
<1>1. PICK m : m = [mode |-> run.mode, artifacts |-> RunFiles(run), skills |-> run.skills,
          suites |-> run.suites,
            profiles |-> run.profiles, declares |-> << >>, shows |-> {},
            plan |-> <<signer, RunFiles(run)["graph"], RunFiles(run)["policy"],
                {s.id : s \in run.skills}>>]
  OBVIOUS
<1>2. PICK controls : controls = ComputeControls(m, run.trace, out)
  OBVIOUS
<1>3. PICK u : u = [f \in DOMAIN m \cup {"controls"} |-> IF f = "controls"
          THEN controls ELSE m[f]]
  OBVIOUS
<1>4. u = Unsigned(run, signer, out)
  BY <1>1, <1>2, <1>3 DEF Unsigned
<1>5. ProduceBundle(run, signer, out) = [manifest |-> Sign(u, signer), contents |-> RunFiles(run)]
  BY <1>1, <1>2, <1>3 DEF ProduceBundle
<1>6. DOMAIN m = {"mode", "artifacts", "skills", "suites", "profiles", "declares", "shows", "plan"}
  BY <1>1
<1>7. DOMAIN u = {"mode", "artifacts", "skills", "suites", "profiles", "declares", "shows",
          "plan", "controls"}
  BY <1>3, <1>6
<1>8. u.mode = m.mode /\ u.artifacts = m.artifacts /\ u.skills = m.skills /\ u.suites = m.suites
      /\ u.profiles = m.profiles /\ u.plan = m.plan /\ u.declares = m.declares
  BY <1>3, <1>6
<1>9. u.controls = ComputeControls(u, run.trace, out)
  <2>1. u.controls = controls
    BY <1>3
  <2> QED
    BY <1>2, <1>8, <2>1 DEF ComputeControls
<1> QED
  <2>1. /\ u.mode = run.mode /\ u.artifacts = RunFiles(run) /\ u.skills = run.skills
        /\ u.suites = run.suites /\ u.profiles = run.profiles /\ u.declares = << >>
        /\ u.plan = <<signer, RunFiles(run)["graph"], RunFiles(run)["policy"],
            {s.id : s \in run.skills}>>
    BY <1>1, <1>8
  <2>2. "signature" \notin DOMAIN u /\ u = [f \in DOMAIN u |-> u[f]]
    BY <1>3, <1>7
  <2> QED
    BY <1>4, <1>5, <1>7, <1>9, <2>1, <2>2

\* The producer and the verifier compute the same claims.
LEMMA ControlsAgree ==
  ASSUME NEW m, NEW trace, NEW out, m.mode \in RunModes, m.suites \subseteq {"blocked", "leaked"},
         m.controls = ComputeControls(m, trace, out)
  PROVE  ControlsHold(m, trace, out)
<1>1. m.controls.skills = (m.skills # {} /\ \A s \in m.skills : s.signed /\ s.approved
          /\ s.id \notin out)
  BY DEF ComputeControls
<1>2. m.controls.deterministic = (m.mode \in {"deterministic", "regulator"}
          /\ Nondeterministic \cap trace = {})
  BY DEF ComputeControls
<1>3. m.controls.regulator = (m.mode = "regulator" /\ "regulator_summary" \in DOMAIN m.artifacts)
  BY DEF ComputeControls
<1>4. m.controls.batteries = (m.suites # {} /\ \A s \in m.suites : s = "blocked")
  BY DEF ComputeControls
<1>5. (\A s \in m.skills : s.signed /\ s.approved /\ s.id \notin out)
       <=> ~\E s \in m.skills : ~s.signed \/ ~s.approved \/ s.id \in out
  OBVIOUS
<1>6. m.mode \in {"deterministic", "regulator"} <=> m.mode # "standard"
  BY DEF RunModes
<1>7. (\A s \in m.suites : s = "blocked") <=> "leaked" \notin m.suites
  OBVIOUS
<1>8. m.controls.skills = (m.skills # {} /\ ~\E s \in m.skills : ~s.signed \/ ~s.approved
          \/ s.id \in out)
  BY <1>1, <1>5
<1>9. m.controls.deterministic = (m.mode # "standard" /\ Nondeterministic \cap trace = {})
  BY <1>2, <1>6
<1>10. m.controls.batteries = (m.suites # {} /\ "leaked" \notin m.suites)
  BY <1>4, <1>7
<1>11. m.controls.no_creation = ~\E s \in m.skills : s.generated /\ ~s.approved
  BY DEF ComputeControls
<1>12. m.controls.no_creation = \A s \in m.skills : s.generated => s.approved
  BY <1>11
<1> QED
  BY <1>3, <1>8, <1>9, <1>10, <1>12 DEF ControlsHold

\* What is sealed of a complete run verifies.
LEMMA SealedRunVerifies ==
  ASSUME NEW run, NEW signer, NEW out, SealedRun(run), Complete(run),
         NEW b, b = ProduceBundle(run, signer, out)
  PROVE  VerifyBundle(b, {b.manifest.signature[1]}, out).status = "PASS"
<1>1. PICK u : u = Unsigned(run, signer, out)
  OBVIOUS
<1>2. PICK m : m = Sign(u, signer)
  OBVIOUS
<1>3. b = [manifest |-> m, contents |-> RunFiles(run)]
  BY <1>1, <1>2, ManifestIsSigned
<1>4. "signature" \notin DOMAIN u /\ u = [f \in DOMAIN u |-> u[f]]
  BY <1>1, ManifestIsSigned
<1>5. {"mode", "artifacts", "skills", "suites", "profiles", "declares", "shows", "plan",
        "controls"} = DOMAIN u
  BY <1>1, ManifestIsSigned
<1>6. /\ u.mode = run.mode /\ u.artifacts = RunFiles(run) /\ u.skills = run.skills
       /\ u.suites = run.suites /\ u.declares = << >>
  BY <1>1, ManifestIsSigned
<1>7. u.plan = <<signer, RunFiles(run)["graph"], RunFiles(run)["policy"],
                  {s.id : s \in run.skills}>>
  BY <1>1, ManifestIsSigned
<1>8. u.controls = ComputeControls(u, run.trace, out)
  BY <1>1, ManifestIsSigned
<1>9. /\ Preimage(m) = u /\ m.signature = <<signer, u>> /\ \A f \in DOMAIN u : m[f] = u[f]
      /\ DOMAIN m = DOMAIN u \cup {"signature"}
  BY <1>2, <1>4, SignatureCovers
<1>10. /\ m.mode = u.mode /\ m.artifacts = u.artifacts /\ m.skills = u.skills
          /\ m.suites = u.suites
      /\ m.plan = u.plan /\ m.controls = u.controls /\ m.declares = u.declares
  BY <1>9, <1>5
<1>11. DOMAIN RunFiles(run) = Required \cup run.extra /\ RunFiles(run)["trace"] = run.trace
  BY DEF RunFiles, Required
<1>12. m.mode # "none" /\ Required \subseteq DOMAIN m.artifacts
  BY <1>10, <1>11, <1>6 DEF SealedRun, RunModes
<1>13. ArtifactsMatch(b)
  BY <1>3, <1>10, <1>6 DEF ArtifactsMatch
<1>14. ConditionalPresence(b)
  BY <1>3, <1>10, <1>11, <1>6 DEF ConditionalPresence, Complete, Required
<1>15. SignatureHolds(m, {m.signature[1]})
  BY <1>9 DEF SignatureHolds
<1>16. PlanHolds(b)
  BY <1>3, <1>10, <1>6, <1>7 DEF PlanHolds, SkillSet
<1>17. ControlsHold(m, b.contents["trace"], out)
  <2>1. m.controls = ComputeControls(m, run.trace, out)
    BY <1>10, <1>8 DEF ComputeControls
  <2> QED
    BY <1>3, <1>10, <1>11, <1>6, <2>1, ControlsAgree DEF SealedRun
<1>18. ExtendedHold(m, b.contents["trace"])
  <2>1. DOMAIN m.declares = {}
    BY <1>10, <1>6
  <2> QED
    BY <2>1 DEF ExtendedHold
<1> QED
  BY <1>3, <1>12, <1>13, <1>14, <1>15, <1>16, <1>17, <1>18 DEF VerifyBundle

\* Only what has passed all of the steps passes.
LEMMA PassIsSigned ==
  ASSUME NEW b, NEW trusted, NEW out, VerifyBundle(b, trusted, out).status = "PASS"
  PROVE  LET m == b.manifest IN
         /\ m.mode # "none" /\ Required \subseteq DOMAIN m.artifacts
         /\ ArtifactsMatch(b) /\ ConditionalPresence(b) /\ SignatureHolds(m, trusted)
         /\ ControlsHold(m, b.contents["trace"], out) /\ ExtendedHold(m, b.contents["trace"])
         /\ VerifyBundle(b, trusted, out).confirmed =
              {p \in m.profiles : \/ p = "A" \/ (p = "X" /\ m.controls.batteries)
                                 \/ (p = "T" /\ m.signature[1] \in trusted)}
BY DEF VerifyBundle

\* What a bundle that passes claims is shown by its contents.
LEMMA PassedClaimsAreShown ==
  ASSUME NEW b, NEW m, m = b.manifest, ControlsHold(m, b.contents["trace"], revoked),
         ExtendedHold(m, b.contents["trace"]), ConditionalPresence(b)
  PROVE  ClaimsAreShown(m, b.contents["trace"])
<1>1. PICK trace : trace = b.contents["trace"]
  OBVIOUS
<1>2. m.controls.no_creation =>
        {s \in m.skills : s.generated} \subseteq {s \in m.skills : s.approved}
  BY DEF ControlsHold
<1>3. m.controls.skills =>
        m.skills # {} /\ \A s \in m.skills : s.signed /\ s.approved /\ s.id \notin revoked
  BY DEF ControlsHold
<1>4. m.controls.deterministic => m.mode # "standard" /\ "auto_promote" \notin trace
  BY <1>1 DEF ControlsHold, Nondeterministic
<1>5. /\ m.mode = "regulator" <=> "regulator_summary" \in DOMAIN m.artifacts
      /\ "repair" \in trace => "repair_log" \in DOMAIN m.artifacts
  BY <1>1 DEF ConditionalPresence, Repairs
<1>6. \A c \in DOMAIN m.declares :
        m.declares[c] =>
          /\ c \in m.shows /\ c \in ExtendedControls
          /\ c = "trace_redaction" => "secret" \notin trace
  BY <1>1 DEF ExtendedHold, Demonstrated
<1> QED
  BY <1>1, <1>2, <1>3, <1>4, <1>5, <1>6 DEF ClaimsAreShown

\* Other claims are made of the same artifacts and the same suites.
LEMMA ClaimsOfTheSame ==
  ASSUME NEW m, m = [f \in DOMAIN m |-> m[f]], NEW other \in OtherClaims(m)
  PROVE  /\ other = [f \in DOMAIN other |-> other[f]] /\ DOMAIN other = DOMAIN m
         /\ "artifacts" \in DOMAIN m => other.artifacts = m.artifacts
         /\ "suites" \in DOMAIN m => other.suites = m.suites
<1>1. \/ \E v : other = [m EXCEPT !.controls = v]
      \/ \E v : other = [m EXCEPT !.mode = v]
      \/ \E v : other = [m EXCEPT !.declares = v]
      \/ \E v, w : other = [m EXCEPT !.declares = v, !.shows = w]
      \/ \E v : other = [m EXCEPT !.profiles = v]
  <2>1. PICK declarations :
          \/ other \in {[m EXCEPT !.controls[c] = ~@] : c \in DOMAIN m.controls}
          \/ other \in {[m EXCEPT !.mode = mode] : mode \in RunModes}
          \/ other \in {[m EXCEPT !.declares = d] : d \in declarations}
          \/ other \in {[m EXCEPT !.declares = d, !.shows = ExtendedControls] : d \in declarations}
          \/ other = [m EXCEPT !.profiles = @ \cup {"X"}]
    BY Zenon DEF OtherClaims
  <2>2. CASE other \in {[m EXCEPT !.controls[c] = ~@] : c \in DOMAIN m.controls}
    <3>1. PICK c \in DOMAIN m.controls : other = [m EXCEPT !.controls[c] = ~@]
      BY <2>2
    <3>2. other = [m EXCEPT !.controls = [m.controls EXCEPT ![c] = ~m.controls[c]]]
      BY <3>1
    <3> QED
      BY <3>2
  <2>3. CASE other \in {[m EXCEPT !.mode = mode] : mode \in RunModes}
    BY <2>3
  <2>4. CASE other \in {[m EXCEPT !.declares = d] : d \in declarations}
    <3>1. PICK d : other = [m EXCEPT !.declares = d]
      BY <2>4
    <3> QED
      BY <3>1
  <2>5. CASE other \in {[m EXCEPT !.declares = d, !.shows = ExtendedControls] : d \in declarations}
    BY <2>5
  <2>6. CASE other = [m EXCEPT !.profiles = @ \cup {"X"}]
    BY <2>6
  <2> QED
    BY <2>1, <2>2, <2>3, <2>4, <2>5, <2>6
<1> QED
  BY <1>1

\* A bundle that is altered carries a signature that was made.
LEMMA SignatureStays ==
  ASSUME bundle # NoBundle, BundleLike(bundle), earlier # NoBundle => BundleLike(earlier), Alter
  PROVE  /\ BundleLike(bundle')
         /\ \/ bundle'.manifest.signature = bundle.manifest.signature
            \/ earlier # NoBundle /\ bundle'.manifest.signature = earlier.manifest.signature
<1>1. PICK m, c : bundle = [manifest |-> m, contents |-> c]
  BY DEF BundleLike
<1>2. bundle.manifest = m /\ bundle.contents = c /\ "signature" \in DOMAIN m
  BY <1>1 DEF BundleLike
<1>3. PICK signature : signature = earlier.manifest.signature
  OBVIOUS
<1>4. \/ \E d : bundle' = [manifest |-> m, contents |-> d]
      \/ \E v, d : bundle' = [manifest |-> [m EXCEPT !.artifacts = v], contents |-> d]
      \/ /\ earlier # NoBundle
         /\ bundle' = [manifest |-> [m EXCEPT !.signature = signature], contents |-> c]
      \/ \E v : bundle' = [manifest |-> [m EXCEPT !.mode = v], contents |-> c]
      \/ \E v : bundle' = [manifest |-> [m EXCEPT !.controls = v], contents |-> c]
      \/ \E v : bundle' = [manifest |-> [m EXCEPT !.profiles = v], contents |-> c]
  <2>1. CASE \E a \in DOMAIN c : bundle' = [bundle EXCEPT !.contents[a] = {"altered"}]
    BY <1>1, <2>1
  <2>2. CASE \E a \in DOMAIN c :
               bundle' = [bundle EXCEPT !.contents[a] = {"altered"},
                                        !.manifest.artifacts[a] = {"altered"}]
    BY <1>1, <2>2
  <2>3. CASE /\ earlier # NoBundle
             /\ bundle' = [bundle EXCEPT !.manifest.signature = earlier.manifest.signature]
    BY <1>1, <1>3, <2>3
  <2>4. CASE \E a \in DOMAIN c \ Required :
               bundle' = [manifest |-> [m EXCEPT !.artifacts = Restrict(@, DOMAIN @ \ {a})],
                          contents |-> Restrict(c, DOMAIN c \ {a})]
    BY <2>4
  <2>5. CASE \E mode \in RunModes : bundle' = [bundle EXCEPT !.manifest.mode = mode]
    BY <1>1, <2>5
  <2>6. CASE bundle' = [bundle EXCEPT !.manifest.controls.batteries = ~@]
    BY <1>1, <2>6
  <2>7. CASE bundle' = [bundle EXCEPT !.manifest.profiles = @ \cup {"X"}]
    BY <1>1, <2>7
  <2> QED
    BY <1>2, <2>1, <2>2, <2>3, <2>4, <2>5, <2>6, <2>7 DEF Alter
<1> QED
  BY <1>2, <1>3, <1>4 DEF BundleLike

\* VerdictIsEarned, for any runs, signers, alterations, signed claims and revocations:
\* only what was sealed passes, contents and all, and only claims and profiles that are
\* shown by it; what was left alone does pass; and a replay borrows no verdict.
THEOREM VerdictsAreEarned ==
  ASSUME AttestationAssumption
  PROVE  AttestSpec => []VerdictIsEarned
<1>1. AttestInit => AttestInv
  BY DEF AttestInit, AttestInv, ReplayNeedsItsOwnPass
<1>2. ASSUME AttestInv, [AttestNext]_attestVars
      PROVE  AttestInv'
  <2>1. ASSUME NEW run, NEW signer, SealedRun(run), Produce(run, signer)
        PROVE  AttestInv'
    <3>1. PICK u : u = Unsigned(run, signer, revoked)
      OBVIOUS
    <3>2. bundle' = [manifest |-> Sign(u, signer), contents |-> RunFiles(run)]
      BY <2>1, <3>1, ManifestIsSigned DEF Produce
    <3>3. /\ "signature" \notin DOMAIN u /\ u = [f \in DOMAIN u |-> u[f]]
          /\ {"artifacts", "suites"} \subseteq DOMAIN u
          /\ u.artifacts = RunFiles(run) /\ u.suites = run.suites
      BY <3>1, ManifestIsSigned
    <3>4. PICK signed : signed = Sign(u, signer)
      OBVIOUS
    <3>5. Preimage(signed) = u /\ signed.signature = <<signer, u>> /\ "signature" \in DOMAIN signed
      <4>1. "signature" \notin DOMAIN u /\ u = [f \in DOMAIN u |-> u[f]]
        BY <3>3
      <4>2. /\ Preimage(signed) = u /\ signed.signature = <<signer, u>>
            /\ \A f \in DOMAIN u : signed[f] = u[f]
            /\ DOMAIN signed = DOMAIN u \cup {"signature"}
        BY <3>4, <4>1, SignatureCovers
      <4> QED
        BY <4>2
    <3>6. BundleLike(bundle)'
      BY <3>2, <3>4, <3>5 DEF BundleLike
    <3>7. PICK s : s = [signer |-> signer, manifest |-> u, contents |-> RunFiles(run)]
      OBVIOUS
    <3>8. sealed' = sealed \cup {s}
      BY <2>1, <3>2, <3>4, <3>5, <3>7 DEF Produce
    <3>9. SealLike(s) /\ SignedBy(bundle', s)
      BY <2>1, <3>2, <3>3, <3>4, <3>5, <3>7 DEF SealLike, SignedBy, SealedRun
    <3>10. earlier' = bundle
      BY <2>1 DEF Produce
    <3>11. /\ \A t \in sealed' : SealLike(t)
           /\ BundleLike(bundle') /\ \E t \in sealed' : SignedBy(bundle', t)
           /\ \/ earlier' = NoBundle
              \/ BundleLike(earlier') /\ \E t \in sealed' : SignedBy(earlier', t)
      BY <1>2, <3>6, <3>8, <3>9, <3>10 DEF AttestInv
    <3>12. honest' = Complete(run) /\ UNCHANGED <<revoked, replay>>
      BY <2>1 DEF Produce
    <3>13. bundle' = ProduceBundle(run, signer, revoked')
      BY <2>1 DEF Produce
    <3>14. ReplayNeedsItsOwnPass'
      BY <1>2, <3>12 DEF AttestInv, ReplayNeedsItsOwnPass
    <3>15. honest' \in BOOLEAN
      BY <3>12 DEF Complete
    <3> QED
      BY <2>1, <3>11, <3>12, <3>13, <3>14, <3>15 DEF AttestInv, BundleLike, SignedBy
  <2>2. ASSUME NEW run \in Runs, NEW signer \in Signers,
               Produce(run, signer) \/ Produce(SealBoundaryBundle(run), signer)
        PROVE  AttestInv'
    <3>1. SealedRun(run)
      BY DEF SealedRun, AttestationAssumption
    <3>2. SealedRun(SealBoundaryBundle(run))
      BY DEF SealedRun, SealBoundaryBundle, AttestationAssumption, RunModes
    <3> QED
      BY <2>1, <2>2, <3>1, <3>2
  <2>3. ASSUME NEW trusted \in SUBSET Signers, VerifyAttestation(trusted)
        PROVE  AttestInv'
    <3>1. UNCHANGED <<bundle, earlier, revoked, replay, sealed, honest>>
      BY <2>3 DEF VerifyAttestation
    <3> QED
      BY <1>2, <3>1 DEF AttestInv, ReplayNeedsItsOwnPass, BundleLike, SignedBy
  <2>4. ASSUME NEW trusted \in SUBSET Signers, AuditReplay(trusted)
        PROVE  AttestInv'
    <3>1. UNCHANGED <<bundle, earlier, revoked, sealed, honest>>
      BY <2>4 DEF AuditReplay
    <3>2. PICK v : v = VerifyBundle(bundle, trusted, revoked)
      OBVIOUS
    <3>3. replay'.of = bundle /\ replay'.dimensions = BuildDimensions(bundle, "live", v)
      BY <2>4, <3>2 DEF AuditReplay, ComposeReport
    <3>4. replay'.dimensions # {} => v.status = "PASS"
      BY <3>3 DEF BuildDimensions, Eligible
    <3>5. ReplayNeedsItsOwnPass'
      BY <3>1, <3>2, <3>3, <3>4 DEF ReplayNeedsItsOwnPass
    <3> QED
      BY <1>2, <3>1, <3>5 DEF AttestInv, BundleLike, SignedBy
  <2>5. CASE AuditReplayOf(verdict)
    <3>1. UNCHANGED <<bundle, earlier, revoked, sealed, honest>>
      BY <2>5 DEF AuditReplayOf
    <3>2. replay'.dimensions = BuildDimensions(bundle, "external", verdict)
      BY <2>5 DEF AuditReplayOf, ComposeReport
    <3>3. replay'.dimensions = {}
      BY <3>2 DEF BuildDimensions, Eligible
    <3>4. ReplayNeedsItsOwnPass'
      BY <3>3 DEF ReplayNeedsItsOwnPass
    <3> QED
      BY <1>2, <3>1, <3>4 DEF AttestInv, BundleLike, SignedBy
  <2>6. CASE Alter
    <3>1. bundle # NoBundle /\ honest' = FALSE /\ UNCHANGED <<earlier, revoked, replay, sealed>>
      BY <2>6 DEF Alter
    <3>2. /\ BundleLike(bundle')
          /\ \/ bundle'.manifest.signature = bundle.manifest.signature
             \/ earlier # NoBundle /\ bundle'.manifest.signature = earlier.manifest.signature
      BY <1>2, <2>6, <3>1, SignatureStays DEF AttestInv
    <3>3. \E s \in sealed : SignedBy(bundle', s)
      BY <1>2, <3>1, <3>2 DEF AttestInv, SignedBy
    <3> QED
      BY <1>2, <3>1, <3>2, <3>3 DEF AttestInv, ReplayNeedsItsOwnPass, BundleLike, SignedBy
  <2>7. CASE Reseal
    <3>1. PICK s \in sealed : \E m \in OtherClaims(s.manifest) :
            /\ bundle' = [manifest |-> Sign(m, s.signer), contents |-> bundle.contents]
            /\ sealed' = sealed \cup {[s EXCEPT !.manifest = m]}
      BY <2>7 DEF Reseal
    <3>2. PICK m \in OtherClaims(s.manifest) :
            /\ bundle' = [manifest |-> Sign(m, s.signer), contents |-> bundle.contents]
            /\ sealed' = sealed \cup {[s EXCEPT !.manifest = m]}
      BY <3>1
    <3>3. honest' = FALSE /\ UNCHANGED <<earlier, revoked, replay>>
      BY <2>7 DEF Reseal
    <3>4. SealLike(s)
      BY <1>2 DEF AttestInv
    <3>5. /\ m = [f \in DOMAIN m |-> m[f]] /\ DOMAIN m = DOMAIN s.manifest
          /\ m.artifacts = s.manifest.artifacts /\ m.suites = s.manifest.suites
      <4>1. PICK old : old = s.manifest
        OBVIOUS
      <4>2. old = [f \in DOMAIN old |-> old[f]] /\ {"artifacts", "suites"} \subseteq DOMAIN old
        BY <3>4, <4>1 DEF SealLike
      <4>3. m \in OtherClaims(old)
        BY <4>1
      <4> QED
        BY <4>1, <4>2, <4>3, ClaimsOfTheSame
    <3>6. "signature" \notin DOMAIN m /\ {"artifacts", "suites"} \subseteq DOMAIN m
      BY <3>4, <3>5 DEF SealLike
    <3>7. PICK signed : signed = Sign(m, s.signer)
      OBVIOUS
    <3>8. signed.signature = <<s.signer, m>> /\ "signature" \in DOMAIN signed
      <4>1. PICK signer : signer = s.signer
        OBVIOUS
      <4>2. "signature" \notin DOMAIN m /\ m = [f \in DOMAIN m |-> m[f]] /\ signed = Sign(m, signer)
        BY <3>5, <3>6, <3>7, <4>1
      <4>3. /\ Preimage(signed) = m /\ signed.signature = <<signer, m>>
            /\ \A f \in DOMAIN m : signed[f] = m[f]
            /\ DOMAIN signed = DOMAIN m \cup {"signature"}
        BY <4>2, SignatureCovers
      <4> QED
        BY <4>1, <4>3
    <3>9. PICK t : t = [s EXCEPT !.manifest = m]
      OBVIOUS
    <3>10. t = [signer |-> s.signer, manifest |-> m, contents |-> s.contents]
      BY <3>4, <3>9 DEF SealLike
    <3>11. SealLike(t) /\ BundleLike(bundle') /\ SignedBy(bundle', t)
      BY <3>2, <3>4, <3>5, <3>6, <3>7, <3>8, <3>10 DEF SealLike, BundleLike, SignedBy
    <3>12. /\ \A r \in sealed' : SealLike(r)
           /\ \E r \in sealed' : SignedBy(bundle', r)
           /\ sealed \subseteq sealed'
      BY <1>2, <3>2, <3>9, <3>11 DEF AttestInv
    <3> QED
      BY <1>2, <3>3, <3>11, <3>12 DEF AttestInv, ReplayNeedsItsOwnPass, BundleLike, SignedBy
  <2>8. CASE Revoke
    <3>1. /\ UNCHANGED <<bundle, earlier, replay, sealed>>
          /\ honest' = FALSE /\ revoked \subseteq revoked'
      BY <2>8 DEF Revoke
    <3>2. ReplayNeedsItsOwnPass'
      BY <1>2, <3>1 DEF AttestInv, ReplayNeedsItsOwnPass
    <3> QED
      BY <1>2, <3>1, <3>2 DEF AttestInv, BundleLike, SignedBy
  <2>9. CASE UNCHANGED attestVars
    BY <1>2, <2>9 DEF attestVars, AttestInv, ReplayNeedsItsOwnPass, BundleLike, SignedBy
  <2> QED
    BY <1>2, <2>2, <2>3, <2>4, <2>5, <2>6, <2>7, <2>8, <2>9 DEF AttestNext
<1>3. ASSUME AttestInv
      PROVE  VerdictIsEarned
  <2>1. PassIsAsSealed
    <3> SUFFICES ASSUME NEW trusted \in SUBSET Signers, NEW v, NEW m, m = bundle.manifest,
                        v = VerifyBundle(bundle, trusted, revoked), v.status = "PASS"
                 PROVE  \E s \in sealed :
                          /\ s.signer \in trusted /\ s.manifest = Preimage(m)
                          /\ \A a \in DOMAIN m.artifacts : bundle.contents[a] = s.contents[a]
                          /\ ClaimsAreShown(m, s.contents["trace"])
                          /\ v.confirmed \subseteq m.profiles
                          /\ "X" \in v.confirmed => m.suites # {} /\ m.suites \subseteq {"blocked"}
      BY DEF PassIsAsSealed
    <3>1. /\ m.mode # "none" /\ Required \subseteq DOMAIN m.artifacts
          /\ ArtifactsMatch(bundle) /\ ConditionalPresence(bundle) /\ SignatureHolds(m, trusted)
          /\ ControlsHold(m, bundle.contents["trace"], revoked)
          /\ ExtendedHold(m, bundle.contents["trace"])
          /\ v.confirmed = {p \in m.profiles : \/ p = "A" \/ (p = "X" /\ m.controls.batteries)
                                              \/ (p = "T" /\ m.signature[1] \in trusted)}
      BY PassIsSigned
    <3>2. bundle # NoBundle
      BY <3>1 DEF NoBundle
    <3>3. PICK s \in sealed : m.signature = <<s.signer, s.manifest>> /\ SealLike(s)
      BY <1>3, <3>2 DEF AttestInv, SignedBy
    <3>4. s.signer \in trusted /\ s.manifest = Preimage(m)
      BY <3>1, <3>3 DEF SignatureHolds
    <3>5. \A f \in DOMAIN s.manifest : s.manifest[f] = m[f]
      BY <3>4 DEF Preimage, Restrict
    <3>6. s.contents = m.artifacts /\ m.suites \subseteq {"blocked", "leaked"}
      BY <3>3, <3>5 DEF SealLike
    <3>7. \A a \in DOMAIN m.artifacts : bundle.contents[a] = s.contents[a]
      BY <3>1, <3>6 DEF ArtifactsMatch
    <3>8. ClaimsAreShown(m, s.contents["trace"])
      <4>1. bundle.contents["trace"] = s.contents["trace"]
        BY <3>1, <3>7 DEF Required
      <4>2. ClaimsAreShown(m, bundle.contents["trace"])
        BY <3>1, PassedClaimsAreShown
      <4> QED
        BY <4>1, <4>2
    <3>9. v.confirmed \subseteq m.profiles
      BY <3>1
    <3>10. "X" \in v.confirmed => m.suites # {} /\ m.suites \subseteq {"blocked"}
      <4>1. "X" \in v.confirmed => m.controls.batteries
        BY <3>1
      <4>2. m.controls.batteries = (m.suites # {} /\ "leaked" \notin m.suites)
        BY <3>1 DEF ControlsHold
      <4> QED
        BY <3>6, <4>1, <4>2
    <3> QED
      BY <3>3, <3>4, <3>7, <3>8, <3>9, <3>10
  <2>2. HonestBundleVerifies
    <3> SUFFICES ASSUME honest = TRUE
                 PROVE  VerifyBundle(bundle, {bundle.manifest.signature[1]},
                            revoked).status = "PASS"
      BY <1>3 DEF HonestBundleVerifies, AttestInv
    <3>1. PICK run, signer : SealedRun(run) /\ Complete(run) /\ bundle =
              ProduceBundle(run, signer, revoked)
      BY <1>3 DEF AttestInv
    <3> QED
      BY <3>1, SealedRunVerifies
  <2> QED
    BY <1>3, <2>1, <2>2 DEF VerdictIsEarned, AttestInv
<1> QED
  BY <1>1, <1>2, <1>3, PTL DEF AttestSpec
-----------------------------------------------------------------------------
(* The regulated register.                                                  *)

Packets == [seq : Nat, prev : Nat, packet : Nat, head : Nat]

\* What a log holds that at most lost or altered something of what was retained.
OfRetained(e, kept) == e \in Packets /\ e.seq = e.prev + 1 /\ e.seq <= Len(kept)
HeadIntact(e, kept) == e.head = kept[e.seq].head

RetentionInv ==
  /\ head \in Nat /\ retained \in Seq(Packets)
  /\ \A i \in 1..Len(retained) :
       retained[i].seq = i /\ retained[i].prev = i - 1 /\ retained[i].packet = i
           /\ retained[i].head <= head
  /\ \A i, j \in 1..Len(retained) : i <= j => retained[i].head <= retained[j].head

\* One damage takes packets away or alters a head, and never both.
ChainedInv ==
  /\ logDamage \in Nat
  /\ logDamage <= MaxLogDamage
  /\ logDamage = 0 => chain = retained
  /\ chain \in Seq(Packets) /\ \A i \in 1..Len(chain) : OfRetained(chain[i], retained)
  /\ (\A i \in 1..Len(chain) : HeadIntact(chain[i], retained)) \/ Len(chain) = Len(retained)

\* A log that was gathered misses no packet that was retained under an earlier head,
\* unless its heads are as they were.
LogGathered(log, expected) ==
  /\ log \in Seq(Packets) /\ \A i \in 1..Len(log) : OfRetained(log[i], retained)
  /\ expected \in Nat /\ expected <= head
  /\ \/ \A i \in 1..Len(log) : HeadIntact(log[i], retained)
     \/ \A i \in 1..Len(retained) : Len(log) < i /\ expected # 0 => expected <= retained[i].head

GatheredInv ==
  /\ inputs = [approver |-> inputs.approver, retention |-> inputs.retention]
  /\ inputs.retention # NotGathered
      => LogGathered(inputs.retention.log, inputs.retention.expected)
  /\ inputs.approver # NotGathered => inputs.approver.given \subseteq approvals

\* A bundle was sealed on what is gathered, and that met what the policy requires.
SealedInv ==
  regulated # NotGathered =>
    /\ regulated.inputs = inputs
    /\ "retention" \in regulated.policy.required =>
         /\ inputs.retention # NotGathered
         /\ WalkRetention(inputs.retention.log, inputs.retention.expected)
    /\ "approver" \in regulated.policy.required =>
         /\ inputs.approver # NotGathered
         /\ VerifyApprovers(inputs.approver.policy, inputs.approver.head, inputs.approver.given)

RegisterInv == RetentionInv /\ ChainedInv /\ GatheredInv /\ SealedInv

\* Retaining a packet leaves what was said of the earlier ones.
LEMMA PacketIsRetained ==
  ASSUME RegisterInv, Retain, regulated = NotGathered
  PROVE  RegisterInv'
<1>1. PICK r \in Seq(Packets), c \in Seq(Packets) : r = retained /\ c = chain
  BY DEF RegisterInv, RetentionInv, ChainedInv
<1>2. PICK e : e = [seq |-> Len(r) + 1, prev |-> Len(r), packet |-> Len(r) + 1, head |-> head]
  OBVIOUS
<1>3. /\ retained' = Append(r, e) /\ chain' = Append(c, e)
      /\ UNCHANGED <<head, approvals, inputs, regulated, logDamage>>
  BY <1>1, <1>2 DEF Retain
<1>4. e \in Packets /\ e.seq = Len(r) + 1 /\ e.prev = Len(r) /\ e.packet = Len(r) + 1
          /\ e.head = head
  BY <1>2 DEF Packets, RegisterInv, RetentionInv
<1>5. /\ retained' \in Seq(Packets) /\ Len(retained') = Len(r) + 1 /\ retained'[Len(r) + 1] = e
      /\ \A i \in 1..Len(r) : retained'[i] = r[i]
      /\ chain' \in Seq(Packets) /\ Len(chain') = Len(c) + 1 /\ chain'[Len(c) + 1] = e
      /\ \A i \in 1..Len(c) : chain'[i] = c[i]
  BY <1>3, <1>4
<1>6. RetentionInv'
  <2>1. \A i \in 1..Len(r) : r[i].seq = i /\ r[i].prev = i - 1 /\ r[i].packet = i
            /\ r[i].head <= head
    BY <1>1 DEF RegisterInv, RetentionInv
  <2>2. \A i, j \in 1..Len(r) : i <= j => r[i].head <= r[j].head
    BY <1>1 DEF RegisterInv, RetentionInv
  <2>3. \A i \in 1..Len(r) + 1 : i \in 1..Len(r) \/ i = Len(r) + 1
    OBVIOUS
  <2>4. head \in Nat /\ Len(r) + 1 - 1 = Len(r) /\ head <= head
    BY DEF RegisterInv, RetentionInv
  <2>5. \A i \in 1..Len(retained') :
          /\ retained'[i].seq = i /\ retained'[i].prev = i - 1 /\ retained'[i].packet = i
          /\ retained'[i].head <= head
    BY <1>4, <1>5, <2>1, <2>3, <2>4
  <2>6. ASSUME NEW i \in 1..Len(r) + 1, NEW j \in 1..Len(r) + 1, i <= j
        PROVE  retained'[i].head <= retained'[j].head
    <3>1. CASE j \in 1..Len(r)
      <4>1. i \in 1..Len(r)
        BY <2>6, <3>1
      <4> QED
        BY <1>5, <2>2, <2>6, <3>1, <4>1
    <3>2. CASE j = Len(r) + 1
      <4>1. retained'[j].head = head
        BY <1>4, <1>5, <3>2
      <4> QED
        BY <1>5, <2>5, <4>1
    <3> QED
      BY <2>3, <3>1, <3>2
  <2> QED
    BY <1>3, <1>5, <2>4, <2>5, <2>6 DEF RetentionInv
<1>7. \A d : OfRetained(d, retained) => OfRetained(d, retained') /\ (HeadIntact(d, retained) =>
          HeadIntact(d, retained'))
  <2> TAKE d
  <2> HAVE OfRetained(d, retained)
  <2>1. d \in Packets /\ d.seq = d.prev + 1 /\ d.seq <= Len(r) /\ d.seq \in 1..Len(r)
            /\ Len(r) \in Nat
    BY <1>1 DEF OfRetained, Packets
  <2> QED
    BY <1>1, <1>5, <2>1 DEF OfRetained, HeadIntact
<1>8. OfRetained(e, retained') /\ HeadIntact(e, retained')
  BY <1>4, <1>5 DEF OfRetained, HeadIntact
<1>9. ChainedInv'
  <2>1. \A i \in 1..Len(c) + 1 : i \in 1..Len(c) \/ i = Len(c) + 1
    OBVIOUS
  <2>2. \A i \in 1..Len(chain') : OfRetained(chain'[i], retained')
    <3>1. \A i \in 1..Len(c) : OfRetained(c[i], retained)
      BY <1>1 DEF RegisterInv, ChainedInv
    <3>2. \A i \in 1..Len(c) : OfRetained(chain'[i], retained')
      BY <1>5, <1>7, <3>1
    <3> QED
      BY <1>5, <1>8, <2>1, <3>2
  <2>3. (\A i \in 1..Len(c) : HeadIntact(c[i], retained)) =>
            \A i \in 1..Len(chain') : HeadIntact(chain'[i], retained')
    <3>1. \A i \in 1..Len(c) : OfRetained(c[i], retained)
      BY <1>1 DEF RegisterInv, ChainedInv
    <3> SUFFICES ASSUME \A i \in 1..Len(c) : HeadIntact(c[i], retained)
                 PROVE  \A i \in 1..Len(chain') : HeadIntact(chain'[i], retained')
      OBVIOUS
    <3>2. \A i \in 1..Len(c) : HeadIntact(chain'[i], retained')
      BY <1>5, <1>7, <3>1
    <3> QED
      BY <1>5, <1>8, <2>1, <3>2
  <2>4. Len(c) = Len(r) => Len(chain') = Len(retained')
    BY <1>5
  <2>5. (\A i \in 1..Len(c) : HeadIntact(c[i], retained)) \/ Len(c) = Len(r)
    BY <1>1 DEF RegisterInv, ChainedInv
  <2>6. logDamage = 0 => chain' = retained'
    BY <1>1, <1>3 DEF RegisterInv, ChainedInv
  <2>7. logDamage \in Nat /\ logDamage <= MaxLogDamage
    BY DEF RegisterInv, ChainedInv
  <2> QED
    BY <1>3, <1>5, <2>2, <2>3, <2>4, <2>5, <2>6, <2>7 DEF ChainedInv
<1>10. ASSUME NEW log, NEW expected, LogGathered(log, expected)
       PROVE  LogGathered(log, expected)'
  <2>1. log \in Seq(Packets) /\ \A i \in 1..Len(log) : OfRetained(log[i], retained)
    BY <1>10 DEF LogGathered
  <2>2. expected \in Nat /\ expected <= head /\ head \in Nat
    BY <1>10 DEF LogGathered, RegisterInv, RetentionInv
  <2>3. CASE \A i \in 1..Len(log) : HeadIntact(log[i], retained)
    BY <1>3, <1>7, <2>1, <2>2, <2>3 DEF LogGathered
  <2>4. CASE \A i \in 1..Len(retained) : Len(log) < i /\ expected # 0 =>
                 expected <= retained[i].head
    <3>1. \A i \in 1..Len(retained') : i \in 1..Len(r) \/ i = Len(r) + 1
      BY <1>5
    <3>2. \A i \in 1..Len(retained') : Len(log) < i /\ expected # 0 =>
              expected <= retained'[i].head
      BY <1>1, <1>4, <1>5, <2>2, <2>4, <3>1
    <3> QED
      BY <1>3, <1>7, <2>1, <2>2, <3>2 DEF LogGathered
  <2> QED
    BY <1>10, <2>3, <2>4 DEF LogGathered
<1>11. GatheredInv'
  <2>1. UNCHANGED <<inputs, approvals>>
    BY <1>3
  <2> QED
    BY <1>10, <2>1 DEF RegisterInv, GatheredInv
<1>12. SealedInv'
  BY <1>3 DEF SealedInv
<1> QED
  BY <1>6, <1>9, <1>11, <1>12 DEF RegisterInv

\* The first damage to the log.
LEMMA DamagedOnce ==
  ASSUME RegisterInv, MaxLogDamage \in Nat, MaxLogDamage <= 1, DamageRetention, head \in Nat,
         MaxRetained \in Nat
  PROVE  ChainedInv'
<1>1. logDamage = 0 /\ logDamage' = 1 /\ chain = retained /\ UNCHANGED retained
  BY DEF RegisterInv, ChainedInv, DamageRetention
<1>2. PICK r \in Seq(Packets) : r = retained /\ r = chain
  BY <1>1 DEF RegisterInv, ChainedInv
<1>3. PICK i \in 1..Len(r) :
       \/ chain' = RemoveAt(r, i)
       \/ chain' = SubSeq(r, 1, i - 1)
       \/ chain' = [r EXCEPT ![i].packet = MaxRetained + 1]
       \/ chain' = [r EXCEPT ![i].head = head]
       \/ i < Len(r) /\ chain' = [r EXCEPT ![i] = r[i + 1], ![i + 1] = r[i]]
  <2>1. DOMAIN chain = 1..Len(r)
    BY <1>2
  <2> QED
    BY <1>2, <2>1 DEF DamageRetention
<1> DEFINE S == {r[j] : j \in 1..Len(r)}
<1>4. \A e \in S : OfRetained(e, retained) /\ HeadIntact(e, retained)
  <2>1. \A j \in 1..Len(r) : r[j] \in Packets /\ r[j].seq = j /\ r[j].prev = j - 1
    BY <1>2 DEF RegisterInv, RetentionInv
  <2>2. \A j \in 1..Len(r) : OfRetained(r[j], retained) /\ HeadIntact(r[j], retained)
    <3> TAKE j \in 1..Len(r)
    <3>1. Len(r) \in Nat /\ j <= Len(r) /\ j = j - 1 + 1
      OBVIOUS
    <3> QED
      BY <1>2, <2>1, <3>1 DEF OfRetained, HeadIntact
  <2> QED
    BY <2>2
<1>5. r \in Seq(S) /\ r[i] \in S /\ r[i] \in Packets
  OBVIOUS
<1> HIDE DEF S
<1>6. \A e : (OfRetained(e, retained) <=> OfRetained(e, retained'))
          /\ (HeadIntact(e, retained) <=> HeadIntact(e, retained'))
  BY <1>1 DEF OfRetained, HeadIntact
<1>7. ASSUME NEW T, \A e \in T : OfRetained(e, retained) /\ HeadIntact(e, retained),
             chain' \in Seq(T)
      PROVE  ChainedInv'
  <2>1. \A j \in 1..Len(chain') : chain'[j] \in T
    BY <1>7
  <2>2. \A j \in 1..Len(chain') : OfRetained(chain'[j], retained')
            /\ HeadIntact(chain'[j], retained')
    BY <1>6, <1>7, <2>1
  <2>3. T \subseteq Packets
    BY <1>7 DEF OfRetained
  <2>4. chain' \in Seq(Packets)
    BY <1>7, <2>3
  <2>5. logDamage' <= MaxLogDamage
    BY <1>1 DEF DamageRetention
  <2> QED
    BY <1>1, <2>2, <2>4, <2>5 DEF ChainedInv
<1>8. CASE chain' = RemoveAt(r, i)
  <2>1. chain' \in Seq(S)
    BY <1>5, <1>8 DEF RemoveAt
  <2> QED
    BY <1>4, <1>7, <2>1
<1>9. CASE chain' = SubSeq(r, 1, i - 1)
  <2>1. chain' \in Seq(S)
    BY <1>5, <1>9
  <2> QED
    BY <1>4, <1>7, <2>1
<1>10. CASE chain' = [r EXCEPT ![i].packet = MaxRetained + 1]
  <2>1. PICK e : e = [r[i] EXCEPT !.packet = MaxRetained + 1]
    OBVIOUS
  <2>2. OfRetained(r[i], retained) /\ HeadIntact(r[i], retained)
    BY <1>4, <1>5
  <2>3. OfRetained(e, retained) /\ HeadIntact(e, retained)
    <3>1. e \in Packets /\ e.seq = r[i].seq /\ e.prev = r[i].prev /\ e.head = r[i].head
      <4>1. PICK p \in Packets : p = r[i]
        BY <1>5
      <4>2. e = [seq |-> p.seq, prev |-> p.prev, packet |-> MaxRetained + 1, head |-> p.head]
        BY <2>1, <4>1 DEF Packets
      <4>3. p.seq \in Nat /\ p.prev \in Nat /\ p.head \in Nat /\ MaxRetained + 1 \in Nat
        BY DEF Packets
      <4> QED
        BY <4>1, <4>2, <4>3 DEF Packets
    <3> QED
      BY <2>2, <3>1 DEF OfRetained, HeadIntact
  <2>4. chain' = [r EXCEPT ![i] = e]
    BY <1>10, <2>1
  <2>5. chain' \in Seq(S \cup {e})
    BY <1>5, <2>4
  <2> QED
    BY <1>4, <1>7, <2>3, <2>5
<1>11. CASE chain' = [r EXCEPT ![i].head = head]
  <2>1. PICK e : e = [r[i] EXCEPT !.head = head]
    OBVIOUS
  <2>2. OfRetained(r[i], retained)
    BY <1>4, <1>5
  <2>3. OfRetained(e, retained)
    BY <1>5, <2>1, <2>2 DEF OfRetained, Packets
  <2>4. chain' = [r EXCEPT ![i] = e]
    BY <1>11, <2>1
  <2>5. chain' \in Seq(Packets)
    BY <2>3, <2>4 DEF OfRetained
  <2>6. Len(chain') = Len(r) /\ \A j \in 1..Len(r) : chain'[j] = IF j = i THEN e ELSE r[j]
    BY <2>4
  <2>7. \A j \in 1..Len(r) : OfRetained(r[j], retained)
    <3>1. \A j \in 1..Len(r) : r[j] \in S
      BY <1>5
    <3> QED
      BY <1>4, <3>1
  <2>8. \A j \in 1..Len(chain') : OfRetained(chain'[j], retained')
    <3>1. \A j \in 1..Len(r) : OfRetained(chain'[j], retained)
      BY <2>3, <2>6, <2>7
    <3> QED
      BY <1>6, <2>6, <3>1
  <2> QED
    <3>1. Len(chain') = Len(retained') /\ logDamage' <= MaxLogDamage
      BY <1>1, <1>2, <2>6 DEF DamageRetention
    <3> QED
      BY <1>1, <2>5, <2>8, <3>1 DEF ChainedInv
<1>12. CASE i < Len(r) /\ chain' = [r EXCEPT ![i] = r[i + 1], ![i + 1] = r[i]]
  <2>1. r[i + 1] \in S
    BY <1>5, <1>12
  <2>2. chain' \in Seq(S)
    BY <1>5, <1>12, <2>1
  <2> QED
    BY <1>4, <1>7, <2>2
<1> QED
  BY <1>3, <1>8, <1>9, <1>10, <1>11, <1>12

\* A log that the walk accepts holds the numbers in their order.
LEMMA WalkedLogIsNumbered ==
  ASSUME NEW log, NEW expected, log \in Seq(Packets), \A i \in 1..Len(log) : OfRetained(log[i],
         retained),
         WalkRetention(log, expected)
  PROVE  /\ log # <<>>
         /\ \A i \in 1..Len(log) : log[i].seq = i
         /\ \A i \in 1..(Len(log) - 1) : log[i].packet = i
<1>1. PICK n \in Nat : n = Len(log) /\ n > 0
  <2>1. Len(log) \in Nat /\ Len(log) # 0
    BY DEF WalkRetention
  <2> QED
    BY <2>1
<1>2. log[1].prev = 0 /\ \A i \in 2..n : log[i].seq = log[i - 1].seq + 1
          /\ log[i].prev = log[i - 1].packet
  BY <1>1 DEF WalkRetention, Chains
<1>3. \A i \in 1..n : log[i] \in Packets /\ log[i].seq = log[i].prev + 1
  BY <1>1 DEF OfRetained
<1> DEFINE Wrong == {i \in Nat : i \in 1..n /\ log[i].seq # i}
<1>4. Wrong = {}
  <2> SUFFICES ASSUME Wrong # {} PROVE FALSE
    OBVIOUS
  <2>1. PICK i \in Wrong : \A j \in Wrong : i <= j
    BY LeastExists
  <2>2. CASE i = 1
    BY <1>1, <1>2, <1>3, <2>1, <2>2
  <2>3. CASE i # 1
    <3>1. i \in 2..n /\ i - 1 \in 1..n /\ i - 1 \in Nat /\ ~(i <= i - 1)
      BY <2>1, <2>3
    <3>2. log[i - 1].seq = i - 1
      BY <2>1, <3>1
    <3> QED
      BY <1>2, <2>1, <3>1, <3>2
  <2> QED
    BY <2>2, <2>3
<1>5. \A i \in 1..n : log[i].seq = i
  BY <1>4
<1>6. ASSUME NEW i \in 1..(n - 1)
      PROVE  log[i].packet = i
  <2>1. i + 1 \in 2..n /\ i + 1 \in 1..n /\ i + 1 - 1 = i
    BY <1>1
  <2>2. log[i + 1].seq = i + 1 /\ log[i + 1].seq = log[i + 1].prev + 1
            /\ log[i + 1].prev = log[i].packet
    BY <1>2, <1>3, <1>5, <2>1
  <2>3. log[i + 1].prev \in Nat
    BY <1>3, <2>1 DEF Packets
  <2> QED
    BY <2>2, <2>3
<1> QED
  BY <1>1, <1>5, <1>6 DEF WalkRetention

LEMMA SealedLogsAreWhole ==
  ASSUME RegisterInv
  PROVE  SealedLogIsWhole
<1> SUFFICES ASSUME regulated # NotGathered, "retention" \in regulated.policy.required,
                    NEW log, log = regulated.inputs.retention.log,
                    NEW expected, expected = regulated.inputs.retention.expected
             PROVE  /\ \A i \in 1..(Len(log) - 1) : log[i].packet = retained[i].packet
                    /\ expected # 0 => \A i \in DOMAIN retained : retained[i].head < expected =>
                        i <= Len(log)
  BY DEF SealedLogIsWhole
<1>1. WalkRetention(log, expected) /\ LogGathered(log, expected)
  BY DEF RegisterInv, SealedInv, GatheredInv
<1>2. log \in Seq(Packets) /\ (\A i \in 1..Len(log) : OfRetained(log[i], retained))
  BY <1>1 DEF LogGathered
<1>3. /\ log # <<>> /\ \A i \in 1..Len(log) : log[i].seq = i
      /\ \A i \in 1..(Len(log) - 1) : log[i].packet = i
  BY <1>1, <1>2, WalkedLogIsNumbered
<1>4. PICK n \in Nat, m \in Nat : n = Len(log) /\ m = Len(retained) /\ n > 0
  <2>1. Len(log) \in Nat /\ Len(log) # 0 /\ Len(retained) \in Nat
    BY <1>2, <1>3 DEF RegisterInv, RetentionInv
  <2> QED
    BY <2>1
<1>5. n <= m
  BY <1>2, <1>3, <1>4 DEF OfRetained
<1>6. \A i \in 1..(n - 1) : log[i].packet = retained[i].packet
  <2>1. \A i \in 1..m : retained[i].packet = i
    BY <1>4 DEF RegisterInv, RetentionInv
  <2> QED
    BY <1>3, <1>4, <1>5, <2>1
<1>7. ASSUME expected # 0, NEW i \in 1..m, retained[i].head < expected
      PROVE  i <= n
  <2> SUFFICES ASSUME n < i PROVE FALSE
    BY <1>4
  <2>1. expected \in Nat /\ retained[i].head \in Nat /\ retained[n].head \in Nat /\ n \in 1..m
    <3>1. \A j \in 1..m : retained[j] \in Packets
      BY <1>4 DEF RegisterInv, RetentionInv
    <3>2. \A e \in Packets : e.head \in Nat
      BY DEF Packets
    <3>3. n \in 1..m /\ expected \in Nat
      BY <1>1, <1>4, <1>5 DEF LogGathered
    <3> QED
      BY <3>1, <3>2, <3>3
  <2>2. retained[n].head <= retained[i].head
    BY <1>4, <2>1 DEF RegisterInv, RetentionInv
  <2>3. log[n].head = expected
    BY <1>1, <1>4, <1>7 DEF WalkRetention, Last
  <2>4. ~HeadIntact(log[n], retained)
    <3> SUFFICES ASSUME HeadIntact(log[n], retained) PROVE FALSE
      OBVIOUS
    <3>1. n \in 1..Len(log)
      BY <1>4
    <3>2. log[n].seq = n
      BY <1>3, <3>1
    <3>3. retained[n].head = expected
      BY <2>3, <3>2 DEF HeadIntact
    <3> QED
      BY <1>7, <2>1, <2>2, <3>3
  <2>5. expected <= retained[i].head
    BY <1>1, <1>4, <1>7, <2>4 DEF LogGathered
  <2> QED
    BY <1>7, <2>1, <2>5
<1>8. DOMAIN retained = 1..m
  BY <1>4 DEF RegisterInv, RetentionInv
<1> QED
  BY <1>4, <1>6, <1>7, <1>8

LEMMA ApproversSaw ==
  ASSUME RegisterInv
  PROVE  ApproversSawTheSealedHead
<1> SUFFICES ASSUME regulated # NotGathered, "approver" \in regulated.policy.required
             PROVE  LET judged == regulated.inputs.approver
                        of == {a \in approvals : /\ a.head = judged.head /\ a.signer \in Trusted
                                                 /\ a \in judged.given} IN
                    /\ judged.policy.closed
                    /\ Cardinality({a.signer : a \in of}) >= judged.policy.n
                    /\ judged.policy.own => Proposer \notin {a.approver : a \in of}
  BY DEF ApproversSawTheSealedHead
<1>1. /\ regulated.inputs = inputs /\ inputs.approver.given \subseteq approvals
      /\ VerifyApprovers(inputs.approver.policy, inputs.approver.head, inputs.approver.given)
  BY DEF RegisterInv, SealedInv, GatheredInv
<1>2. PICK h, given, asked : /\ h = inputs.approver.head /\ given = inputs.approver.given
                             /\ asked = inputs.approver.policy
  OBVIOUS
<1>3. PICK valid : valid = {a \in given : Covers(a, h)}
  OBVIOUS
<1>4. {a \in approvals : /\ a.head = regulated.inputs.approver.head /\ a.signer \in Trusted
                         /\ a \in regulated.inputs.approver.given} = valid
  BY <1>1, <1>2, <1>3 DEF Covers
<1>5. /\ asked.closed /\ Cardinality({a.signer : a \in valid}) >= asked.n
      /\ asked.own => \A a \in valid : a.approver # Proposer
  BY <1>1, <1>2, <1>3 DEF VerifyApprovers
<1>6. regulated.inputs.approver.policy = asked
  BY <1>1, <1>2
<1> QED
  BY <1>4, <1>5, <1>6

\* SealIsBacked, for any approvers, obligations and lengths of the log, which one damage
\* may have met: the approvals are of the sealed head, and as many as the policy they were
\* gathered with asks for, whatever policy the activation names; of the log nothing is
\* missing or altered but for what its last entry says.
THEOREM SealsAreBacked ==
  ASSUME RegisterAssumption, MaxLogDamage <= 1
  PROVE  RegulatedSpec => []SealIsBacked
<1>1. RegisterInit => RegisterInv
  BY DEF RegisterInit, RegisterInv, RetentionInv, ChainedInv, GatheredInv, SealedInv,
     RegisterAssumption
<1>2. ASSUME RegisterInv, [RegisterNext]_regVars
      PROVE  RegisterInv'
  <2>1. CASE UNCHANGED regVars
    BY <1>2, <2>1 DEF regVars, RegisterInv, RetentionInv, ChainedInv, GatheredInv, SealedInv,
       LogGathered,
       OfRetained, HeadIntact
  <2>2. CASE regulated = NotGathered /\ Retain
    BY <1>2, <2>2, PacketIsRetained
  <2>3. CASE DamageRetention
    <3>1. ChainedInv'
      BY <1>2, <2>3, DamagedOnce DEF RegisterAssumption, RegisterInv, RetentionInv
    <3>2. UNCHANGED <<head, retained, approvals, inputs, regulated>>
      BY <2>3 DEF DamageRetention
    <3> QED
      BY <1>2, <3>1, <3>2 DEF RegisterInv, RetentionInv, GatheredInv, SealedInv, LogGathered,
         OfRetained, HeadIntact
  <2>4. CASE GatherApprovals /\ regulated = NotGathered
    <3>1. UNCHANGED <<head, chain, retained, approvals, regulated, logDamage>>
      BY <2>4 DEF GatherApprovals
    <3>2. /\ inputs' = [approver |-> inputs'.approver, retention |-> inputs.retention]
          /\ inputs'.approver.given = approvals
      BY <1>2, <2>4 DEF GatherApprovals, RegisterInv, GatheredInv
    <3> QED
      BY <1>2, <2>4, <3>1, <3>2 DEF RegisterInv, RetentionInv, ChainedInv, GatheredInv,
         SealedInv, LogGathered,
         OfRetained, HeadIntact
  <2>5. CASE GatherLog /\ regulated = NotGathered
    <3>1. UNCHANGED <<head, chain, retained, approvals, regulated, logDamage>>
      BY <2>5 DEF GatherLog
    <3>2. PICK expected \in {0, head} :
            inputs' = [approver |-> inputs.approver,
                       retention |-> [lane |-> "retention", log |-> chain, expected |-> expected]]
      BY <1>2, <2>5 DEF GatherLog, RegisterInv, GatheredInv
    <3>3. LogGathered(chain, expected)
      <4>1. expected \in Nat /\ expected <= head
        BY <1>2 DEF RegisterInv, RetentionInv
      <4>2. Len(chain) = Len(retained) => \A i \in 1..Len(retained) : ~(Len(chain) < i)
        BY <1>2 DEF RegisterInv, RetentionInv
      <4> QED
        BY <1>2, <4>1, <4>2 DEF RegisterInv, ChainedInv, LogGathered
    <3>4. LogGathered(chain, expected)'
      BY <3>1, <3>3 DEF LogGathered, OfRetained, HeadIntact
    <3>5. inputs'.retention.log = chain' /\ inputs'.retention.expected = expected
      BY <3>1, <3>2
    <3>6. GatheredInv'
      BY <1>2, <3>1, <3>2, <3>4, <3>5 DEF RegisterInv, GatheredInv
    <3> QED
      BY <1>2, <2>5, <3>1, <3>6 DEF RegisterInv, RetentionInv, ChainedInv, SealedInv, OfRetained,
         HeadIntact
  <2>6. CASE SealRegulatedBundle /\ regulated = NotGathered
    <3>1. UNCHANGED <<head, chain, retained, approvals, inputs, logDamage>>
      BY <2>6 DEF SealRegulatedBundle
    <3>2. PICK policy \in Policies, ev \in Evidence, shipped \in Releases :
            /\ ActivateRegulatedMode(policy, ev, shipped)
            /\ regulated' = [lane |-> "all", policy |-> policy, inputs |-> inputs]
      BY <2>6 DEF SealRegulatedBundle
    <3>3. policy.required \subseteq EvaluateRegister(ev, shipped)
      BY <3>2 DEF ActivateRegulatedMode
    <3>4. "retention" \in policy.required =>
             inputs.retention # NotGathered
                 /\ WalkRetention(inputs.retention.log, inputs.retention.expected)
      BY <3>3 DEF EvaluateRegister
    <3>5. "approver" \in policy.required =>
             inputs.approver # NotGathered
                 /\ VerifyApprovers(inputs.approver.policy, inputs.approver.head,
                                    inputs.approver.given)
      BY <3>3 DEF EvaluateRegister
    <3>6. regulated'.policy = policy /\ regulated'.inputs = inputs
      BY <3>2
    <3>7. SealedInv'
      BY <3>1, <3>4, <3>5, <3>6 DEF SealedInv, WalkRetention, Chains, VerifyApprovers, Covers
    <3> QED
      BY <1>2, <3>1, <3>7 DEF RegisterInv, RetentionInv, ChainedInv, GatheredInv, LogGathered,
         OfRetained, HeadIntact
  <2>7. CASE Adopt /\ regulated = NotGathered
    <3>1. UNCHANGED <<chain, retained, approvals, inputs, regulated, logDamage>>
              /\ head' = head + 1
      BY <2>7 DEF Adopt
    <3>2. head \in Nat /\ retained \in Seq(Packets)
      BY <1>2 DEF RegisterInv, RetentionInv
    <3>3. RetentionInv'
      <4>1. \A i \in 1..Len(retained) : retained[i].head \in Nat
        <5>1. \A i \in 1..Len(retained) : retained[i] \in Packets
          BY <3>2
        <5>2. \A e \in Packets : e.head \in Nat
          BY DEF Packets
        <5> QED
          BY <5>1, <5>2
      <4> QED
        BY <1>2, <3>1, <3>2, <4>1 DEF RegisterInv, RetentionInv
    <3>4. \A log, expected : LogGathered(log, expected) => LogGathered(log, expected)'
      BY <3>1, <3>2 DEF LogGathered, OfRetained, HeadIntact
    <3>5. GatheredInv'
      BY <1>2, <3>1, <3>4 DEF RegisterInv, GatheredInv
    <3> QED
      BY <1>2, <2>7, <3>1, <3>3, <3>5 DEF RegisterInv, ChainedInv, SealedInv, OfRetained,
         HeadIntact
  <2>8. CASE Approve /\ regulated = NotGathered
    <3>1. UNCHANGED <<head, chain, retained, inputs, regulated, logDamage>>
              /\ approvals \subseteq approvals'
      BY <2>8 DEF Approve
    <3> QED
      BY <1>2, <2>8, <3>1 DEF RegisterInv, RetentionInv, ChainedInv, GatheredInv, SealedInv,
         LogGathered,
         OfRetained, HeadIntact
  <2> QED
    BY <1>2, <2>1, <2>2, <2>3, <2>4, <2>5, <2>6, <2>7, <2>8 DEF RegisterNext
<1>3. RegisterInv => SealIsBacked
  BY SealedLogsAreWhole, ApproversSaw DEF SealIsBacked
<1> QED
  BY <1>1, <1>2, <1>3, PTL DEF RegulatedSpec
-----------------------------------------------------------------------------
(* Scenario replay.                                                         *)

Sides == {"cand", "base"}
PairIsJudged == DOMAIN pair = Sides

Backed ==
  /\ scenario.once => Duplicated = {}
  /\ HasExpectedSteps \/ Unresolved # {}

\* What executeScenario passes is backed by the disk.
LEMMA PassedIsBacked ==
  ASSUME ExecuteScenario.pass
  PROVE  Backed
<1>1. PICK halted : halted = (Crashes /\ Said("UNRESOLVED SIDE EFFECT"))
  OBVIOUS
<1>2. PICK sound \in BOOLEAN :
        sound <=> /\ CheckInvariants
                  /\ Crashes => seen \subseteq output.skipped
                  /\ halted => CertifyHaltOnUncertainty
                  /\ ~halted /\ ClassifyOutcome.cause = "ok" => HasExpectedSteps
  OBVIOUS
<1>3. ExecuteScenario =
        CASE ~sound -> Result(FALSE, "workflow_fault")
          [] sound /\ halted -> Result(TRUE, "ok")
          [] OTHER -> ClassifyOutcome
  BY <1>1, <1>2 DEF ExecuteScenario
<1>4. sound
  BY <1>3 DEF Result
<1>5. scenario.once => Duplicated = {}
  BY <1>2, <1>4 DEF CheckInvariants
<1>6. CASE halted
  BY <1>2, <1>4, <1>5, <1>6 DEF CertifyHaltOnUncertainty, Backed
<1>7. CASE ~halted
  <2>1. ClassifyOutcome.pass
    BY <1>3, <1>4, <1>7
  <2>2. ClassifyOutcome.cause = "ok"
    BY <2>1 DEF ClassifyOutcome, Result
  <2> QED
    BY <1>2, <1>4, <1>5, <1>7, <2>2 DEF Backed
<1> QED
  BY <1>6, <1>7

\* PassIsBackedByState, for any scenarios, steps and kills: a side that passes left a
\* disk on which no effect happened twice, with every step there or an intent left open.
THEOREM PassesAreBacked == ReplaySpec => PassIsBackedByState
<1>1. ReplayInit => PairIsJudged
  BY DEF ReplayInit, PairIsJudged, Sides
<1>2. PairIsJudged /\ [ReplayNext]_replayVars => PairIsJudged'
  <2> SUFFICES ASSUME PairIsJudged, [ReplayNext]_replayVars PROVE DOMAIN pair' = Sides
    BY DEF PairIsJudged
  <2>1. pair' = pair \/ DOMAIN pair' = Sides
    BY DEF ReplayNext, BeginStep, WorkerBegins, WorkerActs, SaveCheckpoint, FinishRun,
       HarnessUnchanged, MaterializeFails, MaterializeFixture, Poll, KillAndResume, TimesOut,
       Conclude, NextPair, JudgeSide, replayVars, PairIsJudged, Sides
  <2> QED
    BY <2>1 DEF PairIsJudged
<1>3. PairIsJudged /\ [ReplayNext]_replayVars =>
        [\A s \in Sides : pair'[s] # pair[s] /\ pair'[s].pass => Backed]_replayVars
  <2> SUFFICES ASSUME PairIsJudged, ReplayNext, NEW s \in Sides,
                      pair'[s] # pair[s], pair'[s].pass
               PROVE  Backed
    OBVIOUS
  <2>1. ~UNCHANGED pair
    OBVIOUS
  <2>2. MaterializeFails \/ Poll \/ Conclude \/ NextPair
    BY <2>1 DEF ReplayNext, BeginStep, WorkerBegins, WorkerActs, SaveCheckpoint, FinishRun,
       HarnessUnchanged, MaterializeFixture, TimesOut
  <2>3. CASE MaterializeFails
    BY <2>3 DEF MaterializeFails, Result, Sides
  <2>4. CASE Poll
    <3>1. JudgeSide(Result(FALSE, "workflow_fault"))
      BY <2>1, <2>4 DEF Poll, KillAndResume
    <3>2. pair'[s] = Result(FALSE, "workflow_fault")
      BY <3>1 DEF JudgeSide, PairIsJudged
    <3> QED
      BY <3>2 DEF Result
  <2>5. CASE Conclude
    <3>1. PICK result : result = ExecuteScenario
      OBVIOUS
    <3>2. pair' = [pair EXCEPT ![side] = result]
      BY <2>5, <3>1 DEF Conclude, JudgeSide
    <3>3. pair'[s] = result
      BY <3>2 DEF PairIsJudged
    <3> QED
      BY <3>1, <3>3, PassedIsBacked
  <2>6. CASE NextPair
    BY <2>6 DEF NextPair, NoResult, Result, Sides
  <2> QED
    BY <2>2, <2>3, <2>4, <2>5, <2>6
<1> QED
  BY <1>1, <1>2, <1>3, PTL DEF ReplaySpec, PassIsBackedByState, Backed, Sides
-----------------------------------------------------------------------------
(* Post-mortem.                                                             *)

Occurrences ==
  [id : CallIds \cup {NoId}, tool : SessionTools, result : {"none", "ok", "failed"}]

IssuedCalls == [tool : SessionTools, id : CallIds \cup {NoId}]

\* A session whose ids can be matched.
Matchable == clean /\ (harness = "codex" => \A i \in DOMAIN issued : issued[i].id # NoId)

\* The calls that were read are the calls that were issued, one for one.
StoryInv ==
  /\ harness \in {"claude-code", "codex"}
  /\ sessionCalls \in Seq(Occurrences) /\ issued \in Seq(IssuedCalls)
  /\ Matchable => /\ Len(sessionCalls) = Len(issued)
                  /\ \A i \in 1..Len(issued) : sessionCalls[i].tool = issued[i].tool

LEMMA CallIsRead ==
  ASSUME StoryInv, NEW callId \in CallIds \cup {NoId}, NEW t \in SessionTools, ToolUse(callId, t)
  PROVE  StoryInv'
<1>1. PICK paired \in Seq(Occurrences) : paired = sessionCalls
  BY DEF StoryInv
<1>2. PICK asked \in Seq(IssuedCalls) : asked = issued
  BY DEF StoryInv
<1>3. PICK call \in IssuedCalls : call = [tool |-> t, id |-> callId]
  BY DEF IssuedCalls
<1>4. issued' = Append(asked, call) /\ issued' \in Seq(IssuedCalls) /\ harness' = harness
  BY <1>2, <1>3 DEF ToolUse
<1>5. CASE sessionCalls' = paired /\ ~Matchable'
  BY <1>1, <1>4, <1>5 DEF StoryInv
<1>6. CASE \E n \in CallIds \cup {NoId} :
             sessionCalls' = Append(paired, [id |-> n, tool |-> t, result |-> "none"])
  <2>1. PICK occ \in Occurrences : occ.tool = t /\ sessionCalls' = Append(paired, occ)
    BY <1>6 DEF Occurrences
  <2>2. Matchable' => Matchable
    <3>1. DOMAIN issued' = 1..Len(asked) + 1 /\ DOMAIN issued = 1..Len(asked)
      BY <1>2, <1>4
    <3>2. \A i \in DOMAIN issued : i \in DOMAIN issued' /\ issued'[i] = issued[i]
      BY <1>2, <1>4, <3>1
    <3>3. clean' => clean
      BY DEF ToolUse
    <3> QED
      BY <1>4, <3>2, <3>3 DEF Matchable
  <2>3. ASSUME Matchable, NEW i \in 1..Len(issued')
        PROVE  sessionCalls'[i].tool = issued'[i].tool /\ Len(sessionCalls') = Len(issued')
    <3>1. Len(paired) = Len(asked) /\ \A j \in 1..Len(asked) : paired[j].tool = asked[j].tool
      BY <1>1, <1>2, <2>3 DEF StoryInv
    <3>2. call.tool = t
      BY <1>3
    <3> QED
      BY <1>4, <2>1, <2>3, <3>1, <3>2
  <2>4. Matchable => Len(sessionCalls') = Len(issued')
    BY <1>1, <1>2, <1>4, <2>1 DEF StoryInv
  <2> QED
    BY <1>4, <2>1, <2>2, <2>3, <2>4 DEF StoryInv
<1>7. \/ sessionCalls' = paired /\ callId = NoId /\ harness = "codex"
      \/ sessionCalls' = paired /\ callId # NoId /\ Open(callId) # {}
      \/ sessionCalls' = Append(paired, [id |-> NoId, tool |-> t, result |-> "none"])
      \/ sessionCalls' = Append(paired, [id |-> callId, tool |-> t, result |-> "none"])
  BY <1>1 DEF ToolUse
<1>8. CASE sessionCalls' = paired /\ callId = NoId /\ harness = "codex"
  <2>1. Len(asked) + 1 \in DOMAIN issued' /\ issued'[Len(asked) + 1] = call /\ call.id = NoId
    BY <1>3, <1>4, <1>8
  <2>2. ~Matchable'
    BY <1>4, <1>8, <2>1 DEF Matchable
  <2> QED
    BY <1>5, <1>8, <2>2
<1>9. CASE sessionCalls' = paired /\ callId # NoId /\ Open(callId) # {}
  <2>1. ~Matchable'
    BY <1>9 DEF Matchable, ToolUse
  <2> QED
    BY <1>5, <1>9, <2>1
<1> QED
  BY <1>6, <1>7, <1>8, <1>9

LEMMA ResultIsRead ==
  ASSUME StoryInv, NEW callId \in CallIds, NEW outcome \in {"ok", "failed"}, ToolResult(callId,
         outcome)
  PROVE  StoryInv'
<1>1. PICK paired \in Seq(Occurrences) : paired = sessionCalls
  BY DEF StoryInv
<1>2. PICK k : sessionCalls' = [paired EXCEPT ![k].result = outcome]
  BY <1>1 DEF ToolResult
<1>3. \A occ \in Occurrences : /\ [occ EXCEPT !.result = outcome] \in Occurrences
                               /\ [occ EXCEPT !.result = outcome].tool = occ.tool
  BY DEF Occurrences
<1>4. \A i \in 1..Len(paired) : paired[i] \in Occurrences
  OBVIOUS
<1>5. /\ sessionCalls' \in Seq(Occurrences) /\ Len(sessionCalls') = Len(paired)
      /\ \A i \in 1..Len(paired) : sessionCalls'[i].tool = paired[i].tool
  <2>1. CASE k \in 1..Len(paired)
    <3>1. PICK occ \in Occurrences : occ = [paired[k] EXCEPT !.result = outcome]
              /\ occ.tool = paired[k].tool
      BY <1>3, <1>4, <2>1
    <3>2. sessionCalls' = [paired EXCEPT ![k] = occ]
      BY <1>2, <3>1
    <3> QED
      BY <1>4, <2>1, <3>1, <3>2
  <2>2. CASE k \notin 1..Len(paired)
    <3>1. sessionCalls' = paired
      BY <1>2, <2>2
    <3> QED
      BY <3>1
  <2> QED
    BY <2>1, <2>2
<1>6. UNCHANGED <<harness, issued, clean>>
  BY DEF ToolResult
<1> QED
  BY <1>1, <1>5, <1>6 DEF StoryInv, Matchable

\* VerifyStoryIsHonest, for transcripts of any length, with results that come late, twice
\* or never: the edits counted after the last verification are those issued after it.
THEOREM StoriesAreHonest == StorySpec => []VerifyStoryIsHonest
<1>1. StoryInit => StoryInv
  BY DEF StoryInit, StoryInv, Occurrences, IssuedCalls
<1>2. ASSUME StoryInv, [StoryNext]_storyVars
      PROVE  StoryInv'
  <2>1. ASSUME NEW callId \in CallIds \cup {NoId}, NEW t \in SessionTools, ToolUse(callId, t)
        PROVE  StoryInv'
    BY <1>2, <2>1, CallIsRead
  <2>2. ASSUME NEW callId \in CallIds, NEW outcome \in {"ok", "failed"},
               ToolResult(callId, outcome)
        PROVE  StoryInv'
    BY <1>2, <2>2, ResultIsRead
  <2>3. CASE UNCHANGED <<harness, sessionCalls, issued, clean>>
    BY <1>2, <2>3 DEF StoryInv, Matchable
  <2> QED
    BY <1>2, <2>1, <2>2, <2>3 DEF StoryNext, UserTurn, Sidechain, ForeignLine, BuildPostmortem,
       storyVars
<1>3. ASSUME StoryInv, Matchable
      PROVE  LET Is(a) == {i \in DOMAIN issued : ActionFor(issued[i].tool) = a} IN
             SessionReport.editsAfterLastVerify =
               Cardinality({i \in Is("edit") : \A v \in Is("verify") : v < i})
  <2> DEFINE Is(a) == {i \in DOMAIN issued : ActionFor(issued[i].tool) = a}
             Did(a) == {i \in DOMAIN Events : Events[i].action = a}
             last == Max(Did("verify") \cup {0})
  <2>1. PICK n \in Nat : n = Len(issued) /\ DOMAIN issued = 1..n /\ DOMAIN Events = 1..n
    BY <1>3 DEF StoryInv, Events
  <2>2. \A i \in 1..n : Events[i].action = ActionFor(issued[i].tool)
    BY <1>3, <2>1 DEF StoryInv, Events, BuildEvent
  <2>3. Did("edit") = Is("edit") /\ Did("verify") = Is("verify")
    BY <2>1, <2>2
  <2>4. SessionReport.editsAfterLastVerify = Cardinality({i \in Did("edit") : i > last})
    BY DEF SessionReport, EventsInOrder, ComputeStats
  <2>5. last \in Did("verify") \cup {0} /\ \A m \in Did("verify") \cup {0} : m <= last
    <3>1. Did("verify") \cup {0} \in SUBSET (0..n)
      BY <2>1
    <3> HIDE DEF Did
    <3> QED
      BY <3>1, MaxIsGreatest
  <2> HIDE DEF last
  <2>6. Did("edit") \subseteq 1..n /\ Did("verify") \subseteq 1..n
    BY <2>1
  <2> HIDE DEF Did
  <2>7. {i \in Did("edit") : i > last} = {i \in Did("edit") : \A v \in Did("verify") : v < i}
    BY <2>5, <2>6
  <2> QED
    BY <2>3, <2>4, <2>7
<1>4. StoryInv => VerifyStoryIsHonest
  BY <1>3 DEF VerifyStoryIsHonest, Matchable
<1> QED
  BY <1>1, <1>2, <1>4, PTL DEF StorySpec
-----------------------------------------------------------------------------
(* Assurance.                                                               *)

RanEveryStep(run) == done[run] = PipelineSteps /\ effects[run] # "twice"

\* A battery of tests that passed saw its run complete, and only a battery that passed
\* lets a packet pass.
PacketInv ==
  /\ DOMAIN done = RunIds /\ DOMAIN effects = RunIds
  /\ stage \in {"test", "lint", "redteam", "tools", "written"}
  /\ stage # "test" => /\ "test" \in DOMAIN battery /\ battery.test \in {"pass", "fail"}
                       /\ battery.test = "pass" => RanEveryStep(id)
  /\ packet.status = "pass" \/ packet.q => stage = "written" /\ battery.test = "pass"

LEMMA VerdictPasses ==
  ASSUME NEW checks
  PROVE  /\ Verdict(checks) \in {"pass", "fail"}
         /\ Verdict(checks) = "pass" => \A c \in checks : c.status # "fail"
BY DEF Verdict

LEMMA OnlyTheLastStepIsMarked ==
  ASSUME NEW p, NEW from, NEW e \in Endings(p, from), e.marker
  PROVE  e.steps = PipelineSteps
BY DEF Endings

\* The status of the tests stays when the next battery's is added.
LEMMA StatusIsAdded ==
  ASSUME "test" \in DOMAIN battery, NEW name \in {"lint", "redteam"}, NEW result
  PROVE  "test" \in DOMAIN WithStatus(name, result)
             /\ WithStatus(name, result).test = battery.test
BY DEF WithStatus

\* Smoke checks among which none failed.
LEMMA SmokePasses ==
  ASSUME NEW e, NEW logged, NEW checks,
         SmokeChecks(e, logged) \subseteq checks, Verdict(checks) = "pass"
  PROVE  e.marker /\ logged # "twice"
<1>1. Check("completion-marker", e.zero /\ e.marker) \in checks
  BY DEF SmokeChecks
<1>2. e.zero /\ e.marker
  BY <1>1, VerdictPasses DEF Check
<1>3. logged # "none" => Check("no-duplicate-effects", logged = "once") \in checks
  BY DEF SmokeChecks
<1>4. logged # "none" => logged = "once"
  BY <1>3, VerdictPasses DEF Check
<1> QED
  BY <1>2, <1>4

LEMMA SuiteIsHonest ==
  ASSUME PacketInv, NEW run \in RunIds, NEW regression \in BOOLEAN, NEW chaos \in BOOLEAN,
         RunSuite(run, regression, chaos)
  PROVE  PacketInv'
<1>1. PICK unit : unit = UnitChecks(edition)
  OBVIOUS
<1>2. PICK rest : rest = (IF regression THEN ScenarioRegression ELSE {}) \cup (IF chaos
          THEN ChaosCheck ELSE {})
  OBVIOUS
<1>3. id' = run /\ stage' = "lint" /\ packet' = NoPacket
  BY DEF RunSuite
<1>4. /\ DOMAIN done' = RunIds /\ DOMAIN effects' = RunIds
      /\ "test" \in DOMAIN battery' /\ battery'.test \in {"pass", "fail"}
      /\ battery'.test = "pass" => done'[run] = PipelineSteps /\ effects'[run] # "twice"
  <2>1. CASE Verdict(unit) = "fail"
    <3>1. battery' = [test |-> Verdict(unit \cup {Skipped("run")} \cup rest)]
              /\ UNCHANGED <<done, effects>>
      BY <1>1, <1>2, <2>1 DEF RunSuite
    <3>2. PICK all : all = unit \cup {Skipped("run")} \cup rest
      OBVIOUS
    <3>3. \E c \in all : c.status = "fail"
      BY <2>1, <3>2 DEF Verdict
    <3>4. Verdict(all) = "fail"
      BY <3>3 DEF Verdict
    <3> QED
      BY <3>1, <3>2, <3>4 DEF PacketInv
  <2>2. CASE Verdict(unit) # "fail"
    <3>1. PICK e \in Endings(edition, done[run]) :
            /\ done' = [done EXCEPT ![run] = e.steps]
            /\ effects' = [effects EXCEPT ![run] = EffectsAfter(edition, done[run], e, @)]
            /\ battery' = [test |-> Verdict(unit \cup SmokeChecks(e, effects'[run]) \cup rest)]
      BY <1>1, <1>2, <2>2 DEF RunSuite
    <3>2. PICK all, logged : all = unit \cup SmokeChecks(e, logged) \cup rest
              /\ logged = effects'[run]
      OBVIOUS
    <3>3. battery' = [test |-> Verdict(all)]
      BY <3>1, <3>2
    <3>4. DOMAIN done' = RunIds /\ DOMAIN effects' = RunIds /\ done'[run] = e.steps
      BY <3>1 DEF PacketInv
    <3>5. ASSUME Verdict(all) = "pass"
          PROVE  e.steps = PipelineSteps /\ logged # "twice"
      <4>1. SmokeChecks(e, logged) \subseteq all
        BY <3>2
      <4>2. e.marker /\ logged # "twice"
        BY <3>5, <4>1, SmokePasses
      <4> QED
        BY <4>2, OnlyTheLastStepIsMarked
    <3> QED
      BY <3>2, <3>3, <3>4, <3>5, VerdictPasses
  <2> QED
    BY <2>1, <2>2
<1> QED
  BY <1>3, <1>4 DEF PacketInv, RanEveryStep, NoPacket

\* GreenPacketRanEveryStep, for any pipeline: a packet that passes rests on a run that
\* went through all of it and logged no effect twice.
THEOREM GreenPacketsRanEveryStep == AssuranceSpec => []GreenPacketRanEveryStep
<1>1. AssuranceInit => PacketInv
  BY DEF AssuranceInit, PacketInv, NoPacket
<1>2. ASSUME PacketInv, [AssuranceNext]_assuranceVars
      PROVE  PacketInv'
  <2>1. ASSUME NEW run \in RunIds, NEW regression \in BOOLEAN, NEW chaos \in BOOLEAN,
               RunSuite(run, regression, chaos)
        PROVE  PacketInv'
    BY <1>2, <2>1, SuiteIsHonest
  <2>2. CASE RunLint
    <3>1. "test" \in DOMAIN battery' /\ battery'.test = battery.test
      BY <1>2, <2>2, StatusIsAdded DEF RunLint, PacketInv
    <3> QED
      BY <1>2, <2>2, <3>1 DEF RunLint, PacketInv, RanEveryStep
  <2>3. ASSUME NEW deep \in BOOLEAN, NEW cases \in (SUBSET (Cases \ {"none"})) \cup {{"none"}},
               RunRedteam(deep, cases)
        PROVE  PacketInv'
    <3>1. PICK result : battery' = WithStatus("redteam", result)
      BY <2>3 DEF RunRedteam
    <3>2. "test" \in DOMAIN battery' /\ battery'.test = battery.test
      BY <1>2, <2>3, <3>1, StatusIsAdded DEF RunRedteam, PacketInv
    <3> QED
      BY <1>2, <2>3, <3>2 DEF RunRedteam, PacketInv, RanEveryStep
  <2>4. ASSUME NEW tools \in SUBSET ToolOutcomes, BuildPacket(tools)
        PROVE  PacketInv'
    <3>1. PacketStatus(battery, tools) = "pass" => battery.test # "fail"
      BY <1>2, <2>4 DEF PacketStatus, PacketInv, BuildPacket
    <3> QED
      BY <1>2, <2>4, <3>1 DEF BuildPacket, PacketInv, RanEveryStep
  <2>5. CASE Again
    BY <1>2, <2>5 DEF Again, PacketInv, RanEveryStep, NoPacket
  <2>6. CASE Edit
    BY <1>2, <2>6 DEF Edit, PacketInv, RanEveryStep
  <2>7. CASE UNCHANGED assuranceVars
    BY <1>2, <2>7 DEF assuranceVars, PacketInv, RanEveryStep
  <2> QED
    BY <1>2, <2>1, <2>2, <2>3, <2>4, <2>5, <2>6, <2>7 DEF AssuranceNext
<1>3. PacketInv => GreenPacketRanEveryStep
  BY DEF PacketInv, GreenPacketRanEveryStep, RanEveryStep
<1> QED
  BY <1>1, <1>2, <1>3, PTL DEF AssuranceSpec
-----------------------------------------------------------------------------
(* Capability reports.                                                      *)

Statuses == {"verified", "failed", "unavailable"}

Reports ==
  {r \in [platform : Platforms, date : SUBSET Nat, profiles : [Profiles -> Statuses],
          whole : BOOLEAN, of : Observations] : r.profiles = RunProfiles(r.of)}

\* What is shown was drawn from the reports as they are.
BadgeInv ==
  /\ sentinelReports \in Seq(Reports) /\ day \in Nat
  /\ shown # NothingShown =>
       /\ shown.on \in SUBSET Nat /\ sentinelReports # <<>>
       /\ shown.matrix = MatrixJson(AggregateReports)
       /\ shown.badge # NoBadge =>
            /\ \A i \in DOMAIN sentinelReports : sentinelReports[i].whole
            /\ \A k \in Profiles : shown.badge.profiles[k] = BadgeProfile(k, shown.on)

\* A profile that is judged verified was seen to hold.
LEMMA VerifiedIsSeen ==
  ASSUME CapabilityAssumption, NEW o \in Observations, NEW k \in Profiles,
         RunProfiles(o)[k] = "verified"
  PROVE  Seen(k, o)
<1>1. \A available, ok : JudgeProfile(available, ok) = "verified" => available /\ ok
  BY DEF JudgeProfile
<1>2. CASE k = "R"
  BY <1>2, <1>1 DEF RunProfiles, ProfileResumableState, Seen
<1>3. CASE k = "E"
  <2>1. ProfileEffectReconciliation(o) = "verified" /\ "E" \notin o.throws
    BY <1>3 DEF RunProfiles
  <2>2. o.adapters = "present" /\ \A e \in o.effects : ReconciliationClass(e) # "unmapped"
    BY <1>1, <2>1 DEF ProfileEffectReconciliation
  <2>3. ReconciliationClass("novel") = "unmapped"
    BY DEF ReconciliationClass
  <2> QED
    BY <1>3, <2>1, <2>2, <2>3 DEF Seen
<1>4. CASE k = "B"
  BY <1>4, <1>1 DEF RunProfiles, ProfileBudgetEnforced, Seen
<1>5. CASE k = "T"
  BY <1>5, <1>1 DEF RunProfiles, ProfileTrust, Seen, CapabilityAssumption
<1>6. CASE k = "G"
  BY <1>6, <1>1 DEF RunProfiles, ProfileGatedLearning, ClassifyGatedLearning, Seen
<1>7. CASE k = "Q"
  BY <1>7, <1>1 DEF RunProfiles, ProfileAssuranceTested, Seen
<1>8. CASE k = "X"
  BY <1>8, <1>1 DEF RunProfiles, ProfileAdversariallyTested, ClassifyAdversarial, Seen
<1> QED
  BY <1>2, <1>3, <1>4, <1>5, <1>6, <1>7, <1>8 DEF Profiles

LEMMA ProfilesAreJudged ==
  ASSUME NEW o
  PROVE  RunProfiles(o) \in [Profiles -> Statuses]
<1>1. \A available, ok : JudgeProfile(available, ok) \in Statuses
  BY DEF JudgeProfile, Statuses
<1> QED
  BY <1>1 DEF RunProfiles, ProfileResumableState, ProfileEffectReconciliation,
     ProfileBudgetEnforced, ProfileGatedLearning, ClassifyGatedLearning, ProfileTrust,
     ProfileAssuranceTested, ProfileAdversariallyTested, ClassifyAdversarial, Statuses

LEMMA ReportIsCollected ==
  ASSUME BadgeInv, NEW p \in Platforms, NEW o \in Observations, NEW dated \in BOOLEAN,
         NEW whole \in BOOLEAN, VerifyPlatform(p, o, dated, whole)
  PROVE  BadgeInv'
<1>1. PICK date \in SUBSET Nat : date = IF dated THEN {day} ELSE {}
  BY DEF BadgeInv
<1>2. PICK r : r = [platform |-> p, date |-> date, profiles |-> RunProfiles(o), whole |-> whole,
          of |-> o]
  OBVIOUS
<1>3. r \in Reports
  BY <1>2, ProfilesAreJudged DEF Reports
<1>4. sentinelReports' = Append(sentinelReports, r) /\ shown' = NothingShown /\ day' = day
  BY <1>1, <1>2 DEF VerifyPlatform
<1> QED
  BY <1>3, <1>4 DEF BadgeInv

LEMMA ShownIsDrawn ==
  ASSUME BadgeInv, NEW now \in {{day}, {}}, Render(now)
  PROVE  BadgeInv'
<1>1. PICK whole \in BOOLEAN : whole <=> \A r \in ToSet(sentinelReports) : r.whole
  OBVIOUS
<1>2. PICK badge, matrix : /\ badge = IF whole THEN BuildDescriptor(BuildModel(now)) ELSE NoBadge
                           /\ matrix = MatrixJson(AggregateReports)
  OBVIOUS
<1>3. /\ shown' = [badge |-> badge, matrix |-> matrix, on |-> now] /\ sentinelReports # <<>>
      /\ UNCHANGED <<sentinelReports, day>>
  BY <1>1, <1>2 DEF Render
<1>4. now \in SUBSET Nat
  BY DEF BadgeInv
<1>5. badge # NoBadge => \A i \in DOMAIN sentinelReports : sentinelReports[i].whole
  BY <1>1, <1>2 DEF ToSet
<1>6. badge # NoBadge => \A k \in Profiles : badge.profiles[k] = BadgeProfile(k, now)
  BY <1>2 DEF BuildDescriptor, BuildModel
<1>7. matrix = MatrixJson(AggregateReports)'
  BY <1>2, <1>3 DEF MatrixJson, AggregateReports
<1>8. \A k \in Profiles : BadgeProfile(k, now)' = BadgeProfile(k, now)
  BY <1>3 DEF BadgeProfile
<1> QED
  BY <1>3, <1>4, <1>5, <1>6, <1>7, <1>8 DEF BadgeInv

\* A profile that the badge shows as verified, every report has verified and in time.
LEMMA ShownIsVerified ==
  ASSUME BadgeInv, NEW k \in Profiles, NEW now, BadgeProfile(k, now) = "verified",
         NEW i \in DOMAIN sentinelReports
  PROVE  sentinelReports[i].profiles[k] = "verified" /\ Fresh(sentinelReports[i], now)
<1> DEFINE states == {EffectiveStatus(r, k, now) : r \in ToSet(sentinelReports)}
<1>1. states = {"verified"}
  BY DEF BadgeProfile
<1>2. sentinelReports[i] \in ToSet(sentinelReports)
  BY DEF ToSet
<1>3. EffectiveStatus(sentinelReports[i], k, now) = "verified"
  BY <1>1, <1>2
<1> QED
  BY <1>3 DEF EffectiveStatus

\* GreenProfileWasSeenEverywhere, for any platforms, observations and days: what the badge
\* shows as verified was seen by every sentinel run, in time, and the matrix agrees.
THEOREM GreenProfilesWereSeen ==
  ASSUME CapabilityAssumption
  PROVE  BadgeSpec => []GreenProfileWasSeenEverywhere
<1>1. BadgeInit => BadgeInv
  BY DEF BadgeInit, BadgeInv
<1>2. ASSUME BadgeInv, [BadgeNext]_capabilityVars
      PROVE  BadgeInv'
  <2>1. ASSUME NEW p \in Platforms, NEW o \in Observations, NEW dated \in BOOLEAN,
               NEW whole \in BOOLEAN,
               VerifyPlatform(p, o, dated, whole)
        PROVE  BadgeInv'
    BY <1>2, <2>1, ReportIsCollected
  <2>2. ASSUME NEW now \in {{day}, {}}, Render(now)
        PROVE  BadgeInv'
    BY <1>2, <2>2, ShownIsDrawn
  <2>3. CASE DayPasses
    BY <1>2, <2>3 DEF DayPasses, BadgeInv
  <2>4. CASE UNCHANGED capabilityVars
    <3>1. UNCHANGED <<sentinelReports, day, shown>>
      BY <2>4 DEF capabilityVars
    <3>2. MatrixJson(AggregateReports)' = MatrixJson(AggregateReports)
      BY <3>1 DEF MatrixJson, AggregateReports
    <3>3. \A k \in Profiles : BadgeProfile(k, shown.on)' = BadgeProfile(k, shown.on)
      BY <3>1 DEF BadgeProfile, EffectiveStatus
    <3> QED
      BY <1>2, <3>1, <3>2, <3>3 DEF BadgeInv
  <2> QED
    BY <1>2, <2>1, <2>2, <2>3, <2>4 DEF BadgeNext
<1>3. BadgeInv => GreenProfileWasSeenEverywhere
  <2> SUFFICES ASSUME BadgeInv, shown # NothingShown, shown.badge # NoBadge, NEW k \in Profiles,
                      shown.badge.profiles[k] = "verified"
               PROVE  /\ \A r \in ToSet(sentinelReports) :
                           Seen(k, r.of) /\ \E d \in r.date, n \in shown.on : n - d \in 0..MaxAge
                      /\ \A p \in {r.platform : r \in ToSet(sentinelReports)} :
                           shown.matrix[p][k] = "verified"
    BY DEF GreenProfileWasSeenEverywhere
  <2>1. PICK on \in SUBSET Nat : on = shown.on /\ BadgeProfile(k, on) = "verified"
    BY DEF BadgeInv
  <2>2. \A i \in DOMAIN sentinelReports :
          sentinelReports[i].profiles[k] = "verified" /\ Fresh(sentinelReports[i], on)
    BY <2>1, ShownIsVerified
  <2>3. ASSUME NEW i \in DOMAIN sentinelReports
        PROVE  Seen(k, sentinelReports[i].of) /\ \E d \in sentinelReports[i].date,
                   n \in on : n - d \in 0..MaxAge
    <3>1. PICK r \in Reports : r = sentinelReports[i]
      BY DEF BadgeInv
    <3>2. Seen(k, r.of)
      BY <2>2, <3>1, VerifiedIsSeen DEF Reports
    <3>3. PICK d \in r.date, n \in on : d <= n /\ n - d <= MaxAge
      BY <2>2, <3>1 DEF Fresh
    <3>4. d \in Nat /\ n \in Nat /\ MaxAge \in Nat
      BY <3>1 DEF Reports, CapabilityAssumption
    <3> QED
      BY <3>1, <3>2, <3>3, <3>4
  <2>4. ASSUME NEW j \in DOMAIN sentinelReports
        PROVE  shown.matrix[sentinelReports[j].platform][k] = "verified"
    <3>1. PICK p \in Platforms : p = sentinelReports[j].platform
      BY DEF BadgeInv, Reports
    <3>2. PICK of : of = {i \in DOMAIN sentinelReports :
                            sentinelReports[i].whole /\ sentinelReports[i].platform = p}
      OBVIOUS
    <3>3. j \in of
      BY <3>1, <3>2 DEF BadgeInv
    <3>4. Max(of) \in of
      <4>1. of \in SUBSET (0..Len(sentinelReports)) /\ Len(sentinelReports) \in Nat
        BY <3>2 DEF BadgeInv
      <4> QED
        BY <3>3, <4>1, MaxIsGreatest
    <3>5. AggregateReports[p] = sentinelReports[Max(of)].profiles /\ p \in DOMAIN AggregateReports
      BY <3>2, <3>3 DEF AggregateReports
    <3>6. shown.matrix[p][k] = AggregateReports[p][k]
      BY <3>5 DEF BadgeInv, MatrixJson
    <3>7. sentinelReports[Max(of)].profiles[k] = "verified"
      BY <2>2, <3>2, <3>4
    <3> QED
      BY <3>1, <3>5, <3>6, <3>7
  <2> QED
    BY <2>1, <2>3, <2>4 DEF ToSet
<1> QED
  BY <1>1, <1>2, <1>3, PTL DEF BadgeSpec
-----------------------------------------------------------------------------
(* Tool runs.                                                               *)

\* What the walk has let through: nothing excluded, no link, and the directory it is in.
Admitted(e) ==
  /\ e \in Entries /\ ~Excluded(e) /\ e.kind \in {"file", "dir"}
  /\ e.within # Root => \E d \in copy.entries : d.name = e.within /\ d.kind = "dir"

\* A copy keeps to its budget at any time, and so will the entries that are still to do
\* keep to the tree.
CopyInv ==
  /\ source \subseteq Entries
  /\ copy = [entries |-> copy.entries, bytes |-> copy.bytes, counted |-> copy.counted,
             todo |-> copy.todo, isolated |-> copy.isolated]
  /\ copy.bytes \in Nat /\ copy.bytes <= MaxDisk
  /\ copy.counted \in Nat /\ copy.counted <= MaxFiles
  /\ IsFiniteSet(copy.entries) /\ Cardinality(copy.entries) <= copy.counted
  /\ \A e \in copy.entries \cup copy.todo : Admitted(e)

LEMMA NewCopyIsBounded ==
  ASSUME ToolAssumption, source' \subseteq Entries, NEW todo,
         copy' = [entries |-> {}, bytes |-> 0, counted |-> 0, todo |-> todo,
                  isolated |-> FALSE],
         \A e \in todo : e \in Entries /\ ~Excluded(e) /\ e.kind \in {"file", "dir"}
             /\ e.within = Root
  PROVE  CopyInv'
<1>1. IsFiniteSet({}) /\ Cardinality({}) = 0
  BY FS_EmptySet
<1>2. \A e \in copy'.entries \cup copy'.todo : Admitted(e)'
  BY DEF Admitted, Excluded
<1> QED
  BY <1>1, <1>2 DEF CopyInv, ToolAssumption

LEMMA GrownCopyIsBounded ==
  ASSUME ToolAssumption, CopyInv, NEW e \in copy.todo, ~OverBudget(Recorded(copy, e)),
         copy' = Recorded(copy, e), source' = source
  PROVE  CopyInv'
<1>1. PICK below : below = IF e.kind = "dir" THEN Listing(e.name) ELSE {}
  OBVIOUS
<1>2. /\ Admitted(e) /\ e \in Entries /\ e.size \in Nat
      /\ copy.bytes \in Nat /\ copy.counted \in Nat /\ source \subseteq Entries
  BY DEF CopyInv, Admitted, ToolAssumption
<1>3. copy' = [entries |-> copy.entries \cup {e}, bytes |-> copy.bytes + e.size,
               counted |-> copy.counted + 1, todo |-> (copy.todo \ {e}) \cup below,
               isolated |-> FALSE]
  BY <1>1 DEF Recorded
<1>4. /\ IsFiniteSet(copy.entries \cup {e})
      /\ Cardinality(copy.entries \cup {e}) <= copy.counted + 1
  <2>1. IsFiniteSet(copy.entries) /\ Cardinality(copy.entries) <= copy.counted
    BY DEF CopyInv
  <2>2. /\ IsFiniteSet(copy.entries \cup {e})
        /\ Cardinality(copy.entries \cup {e}) =
             IF e \in copy.entries THEN Cardinality(copy.entries)
             ELSE Cardinality(copy.entries) + 1
    BY <2>1, FS_AddElement
  <2>3. Cardinality(copy.entries) \in Nat
    BY <2>1, FS_CardinalityType
  <2> QED
    BY <1>2, <2>1, <2>2, <2>3
<1>5. copy'.bytes <= MaxDisk /\ copy'.counted <= MaxFiles
  <2>1. ~(copy'.bytes > MaxDisk) /\ ~(copy'.counted > MaxFiles)
    BY DEF OverBudget
  <2> QED
    BY <1>2, <1>3, <2>1 DEF ToolAssumption
<1>6. \A f \in copy.entries \cup copy.todo : Admitted(f)'
  <2> TAKE f \in copy.entries \cup copy.todo
  <2>1. Admitted(f)
    BY DEF CopyInv
  <2> QED
    BY <1>3, <2>1 DEF Admitted, Excluded
<1>7. \A f \in below : Admitted(f)'
  <2> TAKE f \in below
  <2>1. e.kind = "dir" /\ f \in source /\ f.within = e.name /\ ~Excluded(f)
            /\ f.kind \in {"file", "dir"}
    BY <1>1 DEF Listing
  <2>2. e \in copy'.entries
    BY <1>3
  <2> QED
    BY <1>2, <2>1, <2>2 DEF Admitted, Excluded
<1>8. \A f \in copy'.entries \cup copy'.todo : Admitted(f)'
  BY <1>3, <1>6, <1>7
<1> QED
  BY <1>2, <1>3, <1>4, <1>5, <1>8 DEF CopyInv

LEMMA SameCopyIsBounded ==
  ASSUME CopyInv, UNCHANGED copy, source' \subseteq Entries
  PROVE  CopyInv'
<1>1. \A e : Admitted(e)' <=> Admitted(e)
  BY DEF Admitted, Excluded
<1> QED
  BY <1>1 DEF CopyInv

LEMMA AuditedCopyIsBounded ==
  ASSUME CopyInv, copy' = [copy EXCEPT !.isolated = CheckIsolation(copy)], source' = source
  PROVE  CopyInv' /\ copy'.isolated
<1>1. CheckIsolation(copy)
  BY DEF CheckIsolation, CopyInv, Admitted, Excluded
<1>2. copy' = [entries |-> copy.entries, bytes |-> copy.bytes, counted |-> copy.counted,
               todo |-> copy.todo, isolated |-> TRUE]
  <2>1. PICK audit : audit = CheckIsolation(copy)
    OBVIOUS
  <2>2. copy' = [copy EXCEPT !.isolated = TRUE]
    BY <1>1
  <2> QED
    BY <2>2 DEF CopyInv
<1>3. \A e : Admitted(e)' <=> Admitted(e)
  BY <1>2 DEF Admitted, Excluded
<1> QED
  BY <1>2, <1>3 DEF CopyInv

\* A tool meets a copy that was filed as isolated.
AuditInv == toolPhase \in {"ready", "ran"} => copy.isolated

\* ToolsGetBoundedCopies, for any tree that changes while it is copied and any limits: a
\* tool is started in a copy within its limits, with nothing excluded, filed as isolated.
THEOREM CopiesAreBounded ==
  ASSUME ToolAssumption
  PROVE  RunSpec => []ToolsGetBoundedCopies
<1>1. ToolInit => CopyInv /\ AuditInv
  <2> SUFFICES ASSUME ToolInit PROVE CopyInv /\ AuditInv
    OBVIOUS
  <2>1. IsFiniteSet({}) /\ Cardinality({}) = 0
    BY FS_EmptySet
  <2>2. /\ copy = [entries |-> {}, bytes |-> 0, counted |-> 0, todo |-> {}, isolated |-> FALSE]
        /\ source \subseteq Entries
    BY DEF ToolInit, EmptyCopy
  <2> QED
    BY <2>1, <2>2 DEF CopyInv, AuditInv, ToolInit, ToolAssumption
<1>2. ASSUME CopyInv, [ToolNext]_runVars
      PROVE  CopyInv'
  <2>1. source' \subseteq Entries
    <3>1. source' = source \/ \E e \in Entries : source' = source \cup {e}
      BY <1>2 DEF ToolNext, OpenProfile, CopyEntry, CopyEnds, CopyFails, VerifyStub, RunTool,
         NormalizeReport, SourceChanges, RegistryDone, runVars
    <3> QED
      BY <1>2, <3>1 DEF CopyInv
  <2>2. CASE UNCHANGED copy
    BY <1>2, <2>1, <2>2, SameCopyIsBounded
  <2>3. CASE copy' = EmptyCopy
    BY <2>1, <2>3, NewCopyIsBounded DEF EmptyCopy
  <2>4. CASE OpenProfile /\ copy' = [EmptyCopy EXCEPT !.todo = Listing(Root)]
    <3>1. copy' = [entries |-> {}, bytes |-> 0, counted |-> 0, todo |-> Listing(Root),
                   isolated |-> FALSE]
      BY <2>4 DEF EmptyCopy
    <3>2. \A e \in Listing(Root) :
            e \in Entries /\ ~Excluded(e) /\ e.kind \in {"file", "dir"} /\ e.within = Root
      BY <1>2 DEF Listing, CopyInv
    <3> QED
      BY <2>1, <3>1, <3>2, NewCopyIsBounded
  <2>5. ASSUME NEW e \in copy.todo, ~OverBudget(Recorded(copy, e)), copy' = Recorded(copy, e),
               source' = source
        PROVE  CopyInv'
    BY <1>2, <2>5, GrownCopyIsBounded
  <2>6. CASE OpenProfile
    BY <2>2, <2>3, <2>4, <2>6 DEF OpenProfile, Refuse, SettleTool
  <2>7. CASE CopyEntry
    BY <2>2, <2>3, <2>5, <2>7 DEF CopyEntry, Refuse, SettleTool
  <2>8. CASE VerifyStub
    BY <1>2, <2>2, <2>3, <2>8, AuditedCopyIsBounded DEF VerifyStub, Refuse, SettleTool
  <2>9. CASE ToolNext /\ ~OpenProfile /\ ~CopyEntry /\ ~VerifyStub
    <3>1. UNCHANGED copy \/ copy' = EmptyCopy
      BY <2>9 DEF ToolNext, CopyEnds, CopyFails, RunTool, NormalizeReport, SourceChanges,
         RegistryDone, runVars, Refuse, SettleTool, Spawn
    <3> QED
      BY <2>2, <2>3, <3>1
  <2> QED
    BY <1>2, <2>2, <2>6, <2>7, <2>8, <2>9 DEF runVars
<1>3. ASSUME CopyInv, AuditInv, [ToolNext]_runVars
      PROVE  AuditInv'
  <2>1. CASE VerifyStub
    BY <1>3, <2>1, AuditedCopyIsBounded DEF VerifyStub, Refuse, SettleTool, AuditInv
  <2>2. CASE UNCHANGED copy /\ (toolPhase' = toolPhase \/ toolPhase = "ready")
    BY <1>3, <2>2 DEF AuditInv
  <2>3. CASE toolPhase' \notin {"ready", "ran"}
    BY <2>3 DEF AuditInv
  <2>4. CASE ToolNext /\ ~VerifyStub
    BY <2>2, <2>3, <2>4 DEF ToolNext, OpenProfile, CopyEntry, CopyEnds, CopyFails, RunTool,
       NormalizeReport, SourceChanges, RegistryDone, runVars, Refuse, SettleTool, Spawn
  <2> QED
    BY <1>3, <2>1, <2>2, <2>4 DEF runVars
<1>4. CopyInv /\ AuditInv => ToolsGetBoundedCopies
  <2> SUFFICES ASSUME CopyInv, AuditInv PROVE ToolsGetBoundedCopies
    OBVIOUS
  <2>1. Cardinality(copy.entries) \in Nat
    BY FS_CardinalityType DEF CopyInv
  <2>2. Cardinality(copy.entries) <= MaxFiles /\ copy.bytes <= MaxDisk
    BY <2>1 DEF CopyInv, ToolAssumption
  <2>3. \A e \in copy.entries : Admitted(e)
    BY DEF CopyInv
  <2> QED
    BY <2>2, <2>3 DEF ToolsGetBoundedCopies, Admitted, AuditInv
<1> QED
  BY <1>1, <1>2, <1>3, <1>4, PTL DEF RunSpec

-----------------------------------------------------------------------------
(***************************************************************************)
(* That the search of the import graph is sound, and complete except for   *)
(* files that lead into a cycle (Graphlint), for any files and imports.    *)
(* The files in progress form a chain of imports (Chain), so an import     *)
(* that is skipped because it is in progress closes a cycle; every other   *)
(* import that was passed over reaches no model (Passed).  What a file     *)
(* reaches is the least closed set around its imports, so both directions  *)
(* follow from the imports alone, without an induction over paths.         *)
(***************************************************************************)

Answers == {"unknown", "yes", "no"}
Frames == [file : FileSet, next : Nat]

LintTypes ==
  /\ imports \in [FileSet -> Seq(FileSet)]
  /\ calls \subseteq FileSet
  /\ started \in Nat
  /\ stack \in Seq(Frames)
  /\ entered \subseteq FileSet
  /\ reach \in [FileSet -> Answers]

\* The graph: what each file reaches, who leads into a cycle, who reaches a model.
Reaching == [f \in FileSet |-> ReachedFrom(f)]
CyclicFiles == {f \in FileSet : Cyclic(f)}
ModelFiles == {f \in FileSet : ReachesModel(f)}

\* The files in progress reach each other in the order of the stack, have no answer
\* yet, and are the only ones that were entered and have none.
Chain ==
  /\ \A k \in 1 .. Len(stack) :
       stack[k].next >= 1 /\ stack[k].file \in entered /\ reach[stack[k].file] = "unknown"
  /\ \A k, l \in 1 .. Len(stack) : k < l => stack[l].file \in Reaching[stack[k].file]
  /\ \A k, l \in 1 .. Len(stack) : k # l => stack[k].file # stack[l].file
  /\ \A g \in entered : reach[g] = "unknown" => \E k \in 1 .. Len(stack) : stack[k].file = g

\* The imports that the files in progress have passed over.
Passed ==
  \A k \in 1 .. Len(stack) : \A j \in 1 .. Len(imports[stack[k].file]) :
    j < stack[k].next =>
      reach[imports[stack[k].file][j]] = "no" \/ stack[k].file \in CyclicFiles

\* The answers so far.
Exact ==
  \A f \in FileSet :
    /\ reach[f] = "yes" => f \in ModelFiles
    /\ reach[f] = "no" /\ f \notin CyclicFiles => f \notin ModelFiles

LintInv == LintTypes /\ Chain /\ Passed /\ Exact

\* What a file reaches is files, is closed, and holds its imports.
LEMMA ReachedIsClosed ==
  ASSUME LintTypes, NEW f \in FileSet
  PROVE  /\ ReachedFrom(f) \subseteq FileSet /\ Imported(f) \subseteq FileSet
         /\ Imported(f) \subseteq ReachedFrom(f) /\ Closed(ReachedFrom(f))
<1>1. \A g \in FileSet : Imported(g) \subseteq FileSet
  BY DEF LintTypes, Imported, ToSet
<1>2. \A g \in ReachedFrom(f) : Imported(g) \subseteq ReachedFrom(f)
  <2> SUFFICES ASSUME NEW g \in ReachedFrom(f), NEW h \in Imported(g), NEW files \in SUBSET FileSet,
                      Imported(f) \subseteq files, Closed(files)
               PROVE  h \in FileSet /\ h \in files
    BY <1>1 DEF ReachedFrom
  <2>1. g \in files
    BY DEF ReachedFrom
  <2> QED
    BY <1>1, <2>1 DEF Closed, ReachedFrom
<1>3. Imported(f) \subseteq ReachedFrom(f)
  BY <1>1 DEF ReachedFrom
<1>4. ReachedFrom(f) \subseteq FileSet
  BY DEF ReachedFrom
<1> QED
  BY <1>1, <1>2, <1>3, <1>4 DEF Closed

\* It is the least such set.
LEMMA ReachedIsLeast ==
  ASSUME NEW f \in FileSet, NEW files \in SUBSET FileSet, Imported(f) \subseteq files, Closed(files)
  PROVE  ReachedFrom(f) \subseteq files
BY DEF ReachedFrom

LEMMA ReachedGoesOn ==
  ASSUME LintTypes, NEW f \in FileSet, NEW g \in ReachedFrom(f)
  PROVE  ReachedFrom(g) \subseteq ReachedFrom(f)
<1>1. /\ g \in FileSet /\ ReachedFrom(f) \in SUBSET FileSet /\ Closed(ReachedFrom(f))
  BY ReachedIsClosed
<1>2. Imported(g) \subseteq ReachedFrom(f)
  BY <1>1 DEF Closed
<1> QED
  BY <1>1, <1>2, ReachedIsLeast

\* What is reached is an import or is reached from one.
LEMMA ReachedThroughImports ==
  ASSUME LintTypes, NEW f \in FileSet, NEW h \in ReachedFrom(f)
  PROVE  \E g \in Imported(f) : g \in FileSet /\ (h = g \/ h \in ReachedFrom(g))
<1>1. PICK files : files = Imported(f) \cup UNION {ReachedFrom(g) : g \in Imported(f)}
  OBVIOUS
<1>2. Imported(f) \subseteq FileSet
  BY ReachedIsClosed
<1>3. \A g \in Imported(f) : /\ ReachedFrom(g) \subseteq FileSet
                             /\ Imported(g) \subseteq ReachedFrom(g) /\ Closed(ReachedFrom(g))
  BY <1>2, ReachedIsClosed
<1>4. files \in SUBSET FileSet
  BY <1>1, <1>2, <1>3
<1>5. Closed(files)
  <2> SUFFICES ASSUME NEW e \in files
               PROVE  Imported(e) \subseteq files
    BY DEF Closed
  <2>1. CASE e \in Imported(f)
    BY <1>1, <1>3, <2>1
  <2>2. ASSUME NEW g \in Imported(f), e \in ReachedFrom(g)
        PROVE  Imported(e) \subseteq files
    <3>1. Imported(e) \subseteq ReachedFrom(g)
      BY <1>3, <2>2 DEF Closed
    <3> QED
      BY <1>1, <2>2, <3>1
  <2> QED
    BY <1>1, <2>1, <2>2
<1>6. h \in files
  BY <1>1, <1>4, <1>5, ReachedIsLeast
<1> QED
  BY <1>1, <1>2, <1>6

\* A file that imports one that reaches a model reaches it, too.
LEMMA ReachesThrough ==
  ASSUME LintTypes, NEW f \in FileSet, NEW g \in Imported(f), g \in FileSet, ReachesModel(g)
  PROVE  ReachesModel(f)
<1>1. g \in ReachedFrom(f)
  BY ReachedIsClosed
<1>2. ReachedFrom(g) \subseteq ReachedFrom(f)
  BY <1>1, ReachedGoesOn
<1> QED
  BY <1>1, <1>2 DEF ReachesModel

\* A file none of whose imports reaches a model, and that calls none, reaches none.
LEMMA ReachesNone ==
  ASSUME LintTypes, NEW f \in FileSet, f \notin calls,
         \A g \in Imported(f) : g \in FileSet => ~ReachesModel(g)
  PROVE  ~ReachesModel(f)
<1> SUFFICES ASSUME NEW h \in ReachedFrom(f), h \in calls
             PROVE  FALSE
  BY DEF ReachesModel
<1>1. PICK g \in Imported(f) : g \in FileSet /\ (h = g \/ h \in ReachedFrom(g))
  BY ReachedThroughImports
<1> QED
  BY <1>1 DEF ReachesModel

\* An import of a file that leads into no cycle leads into none.
LEMMA ImportsAreAcyclic ==
  ASSUME LintTypes, NEW f \in FileSet, NEW g \in Imported(f), g \in FileSet, ~Cyclic(f)
  PROVE  ~Cyclic(g)
<1>1. g \in ReachedFrom(f)
  BY ReachedIsClosed
<1>2. ReachedFrom(g) \subseteq ReachedFrom(f)
  BY <1>1, ReachedGoesOn
<1> QED
  BY <1>1, <1>2 DEF Cyclic

\* The answer "no" is right for a file that has passed over all of its imports.
LEMMA NoIsRight ==
  ASSUME LintTypes, Exact, NEW f \in FileSet, f \notin calls, f \notin CyclicFiles,
         \A j \in 1 .. Len(imports[f]) : reach[imports[f][j]] = "no"
  PROVE  f \notin ModelFiles
<1>1. \A g \in Imported(f) : reach[g] = "no"
  BY DEF Imported, ToSet, LintTypes
<1>2. \A g \in Imported(f) : g \in FileSet => ~Cyclic(g)
  BY ImportsAreAcyclic DEF CyclicFiles
<1>3. \A g \in Imported(f) : g \in FileSet => ~ReachesModel(g)
  BY <1>1, <1>2 DEF Exact, CyclicFiles, ModelFiles
<1> QED
  BY <1>3, ReachesNone DEF ModelFiles

LEMMA GraphStays ==
  ASSUME UNCHANGED <<imports, calls>>
  PROVE  Reaching' = Reaching /\ CyclicFiles' = CyclicFiles /\ ModelFiles' = ModelFiles
BY DEF Reaching, CyclicFiles, ModelFiles, ReachesModel, Cyclic, ReachedFrom, Closed, Imported

\* The innermost file in progress.
LEMMA TopFrame ==
  ASSUME LintTypes, stack # <<>>
  PROVE  /\ Len(stack) \in Nat \ {0} /\ Top = stack[Len(stack)] /\ Top \in Frames
         /\ Top.file \in FileSet /\ Top.next \in Nat /\ imports[Top.file] \in Seq(FileSet)
<1>1. Len(stack) \in Nat \ {0}
  BY DEF LintTypes
<1>2. stack[Len(stack)] \in Frames
  BY <1>1 DEF LintTypes
<1> QED
  BY <1>1, <1>2 DEF Top, Frames, LintTypes

\* A search ends at the innermost file with an answer that is right for it.
LEMMA SettleKeeps ==
  ASSUME LintInv, stack # <<>>, NEW answer \in {"yes", "no"}, Settle(answer),
         UNCHANGED <<imports, calls, started>>,
         answer = "yes" => Top.file \in ModelFiles,
         answer = "no" /\ Top.file \notin CyclicFiles => Top.file \notin ModelFiles
  PROVE  LintInv'
<1>1. PICK n, f : n = Len(stack) /\ f = Top.file
  OBVIOUS
<1>2. n \in Nat \ {0} /\ f = stack[n].file /\ f \in FileSet
  BY <1>1, TopFrame DEF LintInv
<1>3. /\ stack' \in Seq(Frames) /\ Len(stack') = n - 1
      /\ \A k \in 1 .. n - 1 : stack'[k] = stack[k]
  BY <1>1, <1>2 DEF Settle, Front, LintInv, LintTypes
<1>4. /\ reach' \in [FileSet -> Answers] /\ reach'[f] = answer
      /\ \A g \in FileSet : g # f => reach'[g] = reach[g]
  BY <1>1, <1>2 DEF Settle, LintInv, LintTypes, Answers
<1>5. entered' = entered /\ 1 .. n - 1 \subseteq 1 .. n /\ entered \subseteq FileSet
  BY <1>2 DEF Settle, LintInv, LintTypes
<1>6. LintTypes'
  BY <1>3, <1>4, <1>5 DEF LintInv, LintTypes
<1>7. Reaching' = Reaching /\ CyclicFiles' = CyclicFiles /\ ModelFiles' = ModelFiles
  BY GraphStays
<1>8. \A k \in 1 .. n - 1 : /\ stack[k].file \in FileSet /\ stack[k].file # f
                            /\ imports[stack[k].file] \in Seq(FileSet)
  <2> SUFFICES ASSUME NEW k \in 1 .. n - 1
               PROVE  /\ stack[k].file \in FileSet /\ stack[k].file # f
                      /\ imports[stack[k].file] \in Seq(FileSet)
    OBVIOUS
  <2>1. k \in 1 .. Len(stack) /\ n \in 1 .. Len(stack) /\ k # n
    BY <1>1, <1>2
  <2>2. stack[k] \in Frames
    BY <2>1 DEF LintInv, LintTypes
  <2> QED
    BY <1>2, <2>1, <2>2 DEF LintInv, LintTypes, Chain, Frames
<1>9. Chain'
  <2>1. \A k \in 1 .. Len(stack') : stack'[k].next >= 1 /\ stack'[k].file \in entered'
                                    /\ reach'[stack'[k].file] = "unknown"
    BY <1>1, <1>3, <1>4, <1>5, <1>8 DEF LintInv, Chain
  <2>2. /\ \A k, l \in 1 .. Len(stack') : k < l => stack'[l].file \in Reaching'[stack'[k].file]
        /\ \A k, l \in 1 .. Len(stack') : k # l => stack'[k].file # stack'[l].file
    BY <1>1, <1>3, <1>5, <1>7 DEF LintInv, Chain
  <2>3. \A g \in entered' : reach'[g] = "unknown" => \E k \in 1 .. Len(stack') : stack'[k].file = g
    <3> SUFFICES ASSUME NEW g \in entered, reach'[g] = "unknown"
                 PROVE  \E k \in 1 .. Len(stack') : stack'[k].file = g
      BY <1>5
    <3>1. g # f /\ reach[g] = "unknown"
      BY <1>4, <1>5
    <3>2. PICK k \in 1 .. n : stack[k].file = g
      BY <1>1, <3>1 DEF LintInv, Chain
    <3>3. k \in 1 .. n - 1
      BY <1>2, <3>1, <3>2
    <3> QED
      BY <1>3, <3>2, <3>3
  <2> QED
    BY <2>1, <2>2, <2>3 DEF Chain
<1>10. Passed'
  <2> SUFFICES ASSUME NEW k \in 1 .. n - 1, NEW j \in 1 .. Len(imports[stack[k].file]),
                      j < stack[k].next
               PROVE  reach'[imports[stack[k].file][j]] = "no" \/ stack[k].file \in CyclicFiles
    BY <1>3, <1>7 DEF Passed
  <2>1. reach[imports[stack[k].file][j]] = "no" \/ stack[k].file \in CyclicFiles
    BY <1>1, <1>5 DEF LintInv, Passed
  <2>2. imports[stack[k].file][j] \in FileSet
    BY <1>8
  <2>3. reach[f] = "unknown"
    BY <1>1, <1>2 DEF LintInv, Chain
  <2> QED
    BY <1>4, <2>1, <2>2, <2>3
<1>11. Exact'
  BY <1>1, <1>4, <1>7 DEF LintInv, Exact
<1> QED
  BY <1>6, <1>9, <1>10, <1>11 DEF LintInv

\* An import that is passed over: it reaches no model, or it is in progress and the
\* imports lead around.
LEMMA PassKeeps ==
  ASSUME LintInv, stack # <<>>, Top.next <= Len(imports[Top.file]),
         stack' = [stack EXCEPT ![Len(stack)].next = Top.next + 1],
         UNCHANGED <<imports, calls, started, entered, reach>>,
         \/ reach[imports[Top.file][Top.next]] = "no"
         \/ Top.file \in CyclicFiles
  PROVE  LintInv'
<1>1. PICK n, t : n = Len(stack) /\ t = Top
  OBVIOUS
<1>2. n \in Nat \ {0} /\ t = stack[n] /\ t \in Frames
  BY <1>1, TopFrame DEF LintInv
<1>3. PICK u : u = [t EXCEPT !.next = t.next + 1]
  OBVIOUS
<1>4. u \in Frames /\ u.file = t.file /\ u.next = t.next + 1
  BY <1>2, <1>3 DEF Frames
<1>5. stack' = [stack EXCEPT ![n] = u]
  BY <1>1, <1>2, <1>3
<1>6. /\ stack' \in Seq(Frames) /\ Len(stack') = n
      /\ \A k \in 1 .. n : stack'[k] = IF k = n THEN u ELSE stack[k]
  <2>1. stack \in Seq(Frames) /\ n \in 1 .. Len(stack)
    BY <1>1, <1>2 DEF LintInv, LintTypes
  <2> QED
    BY <1>1, <1>4, <1>5, <2>1, ExceptSeq
<1>7. \A k \in 1 .. n : stack'[k].file = stack[k].file
  BY <1>2, <1>4, <1>6
<1>8. Reaching' = Reaching /\ CyclicFiles' = CyclicFiles /\ ModelFiles' = ModelFiles
  BY GraphStays
<1>9. LintTypes'
  BY <1>6 DEF LintInv, LintTypes
<1>10. Chain'
  <2>1. \A k \in 1 .. n : stack'[k].next >= 1
    BY <1>1, <1>2, <1>4, <1>6 DEF LintInv, Chain, Frames
  <2> QED
    BY <1>1, <1>6, <1>7, <1>8, <2>1 DEF LintInv, Chain
<1>11. Passed'
  <2> SUFFICES ASSUME NEW k \in 1 .. n, NEW j \in 1 .. Len(imports[stack[k].file]),
                      j < stack'[k].next
               PROVE  reach[imports[stack[k].file][j]] = "no" \/ stack[k].file \in CyclicFiles
    BY <1>6, <1>7, <1>8 DEF Passed
  <2>1. CASE j < stack[k].next
    BY <1>1, <2>1 DEF LintInv, Passed
  <2>2. CASE ~(j < stack[k].next)
    <3>1. k = n
      BY <1>6, <2>2
    <3>2. j = t.next
      BY <1>2, <1>4, <1>6, <2>2, <3>1 DEF Frames
    <3> QED
      BY <1>1, <1>2, <3>1, <3>2
  <2> QED
    BY <2>1, <2>2
<1>12. Exact'
  BY <1>8 DEF LintInv, Exact
<1> QED
  BY <1>9, <1>10, <1>11, <1>12 DEF LintInv

\* An import without an answer, not entered since the start, is entered.
LEMMA EnterKeeps ==
  ASSUME LintInv, stack # <<>>, NEW g \in Imported(Top.file), g \in FileSet, g \notin entered,
         reach[g] = "unknown", stack' = Append(stack, Frame(g)), entered' = entered \union {g},
         UNCHANGED <<imports, calls, started, reach>>
  PROVE  LintInv'
<1>1. PICK n, t, u : n = Len(stack) /\ t = Top /\ u = Frame(g)
  OBVIOUS
<1>2. n \in Nat \ {0} /\ t = stack[n] /\ t \in Frames /\ t.file \in FileSet
  BY <1>1, TopFrame DEF LintInv
<1>3. u \in Frames /\ u.file = g /\ u.next = 1
  BY <1>1 DEF Frame, Frames
<1>4. /\ stack' \in Seq(Frames) /\ Len(stack') = n + 1 /\ stack'[n + 1] = u
      /\ \A k \in 1 .. n : stack'[k] = stack[k]
  BY <1>1, <1>2, <1>3 DEF LintInv, LintTypes
<1>5. Reaching' = Reaching /\ CyclicFiles' = CyclicFiles /\ ModelFiles' = ModelFiles
  BY GraphStays
<1>6. LintTypes'
  BY <1>4 DEF LintInv, LintTypes
<1>7. \A k \in 1 .. n : stack[k].file \in FileSet
  <2>1. \A k \in 1 .. n : stack[k] \in Frames
    BY <1>1 DEF LintInv, LintTypes
  <2> QED
    BY <2>1 DEF Frames
<1>8. \A k \in 1 .. n : g \in Reaching[stack[k].file]
  <2> SUFFICES ASSUME NEW k \in 1 .. n
               PROVE  g \in ReachedFrom(stack[k].file)
    BY <1>7 DEF Reaching
  <2>1. g \in ReachedFrom(t.file)
    BY <1>1, <1>2, ReachedIsClosed DEF LintInv
  <2>2. CASE k = n
    BY <1>2, <2>1, <2>2
  <2>3. CASE k # n
    <3>1. stack[n].file \in Reaching[stack[k].file]
      BY <1>1, <1>2, <2>3 DEF LintInv, Chain
    <3>2. t.file \in ReachedFrom(stack[k].file)
      BY <1>2, <1>7, <3>1 DEF Reaching
    <3>3. ReachedFrom(t.file) \subseteq ReachedFrom(stack[k].file)
      BY <1>7, <3>2, ReachedGoesOn DEF LintInv
    <3> QED
      BY <2>1, <3>3
  <2> QED
    BY <2>2, <2>3
<1>9. \A k \in 1 .. n : stack[k].file # g
  BY <1>1 DEF LintInv, Chain
<1>10. \A k \in 1 .. n + 1 : k \in 1 .. n \/ k = n + 1
  BY <1>2
<1>11. Chain'
  <2>1. \A k \in 1 .. n + 1 : stack'[k].next >= 1 /\ stack'[k].file \in entered'
                              /\ reach[stack'[k].file] = "unknown"
    BY <1>1, <1>3, <1>4, <1>10 DEF LintInv, Chain
  <2>2. \A k, l \in 1 .. n + 1 : k < l => stack'[l].file \in Reaching[stack'[k].file]
    <3> SUFFICES ASSUME NEW k \in 1 .. n + 1, NEW l \in 1 .. n + 1, k < l
                 PROVE  stack'[l].file \in Reaching[stack'[k].file]
      OBVIOUS
    <3>1. k \in 1 .. n
      BY <1>2
    <3>2. CASE l = n + 1
      BY <1>3, <1>4, <1>8, <3>1, <3>2
    <3>3. CASE l \in 1 .. n
      BY <1>1, <1>4, <3>1, <3>3 DEF LintInv, Chain
    <3> QED
      BY <1>10, <3>2, <3>3
  <2>3. \A k, l \in 1 .. n + 1 : k # l => stack'[k].file # stack'[l].file
    BY <1>1, <1>3, <1>4, <1>9, <1>10 DEF LintInv, Chain
  <2>4. \A h \in entered' : reach[h] = "unknown" => \E k \in 1 .. n + 1 : stack'[k].file = h
    <3> SUFFICES ASSUME NEW h \in entered', reach[h] = "unknown"
                 PROVE  \E k \in 1 .. n + 1 : stack'[k].file = h
      OBVIOUS
    <3>1. CASE h = g
      BY <1>2, <1>3, <1>4, <3>1
    <3>2. CASE h # g
      <4>1. PICK k \in 1 .. n : stack[k].file = h
        BY <1>1, <3>2 DEF LintInv, Chain
      <4>2. k \in 1 .. n + 1
        BY <1>2, <4>1
      <4> QED
        BY <1>4, <4>1, <4>2
    <3> QED
      BY <3>1, <3>2
  <2> QED
    BY <1>4, <1>5, <2>1, <2>2, <2>3, <2>4 DEF Chain
<1>12. Passed'
  <2> SUFFICES ASSUME NEW k \in 1 .. n + 1, NEW j \in 1 .. Len(imports[stack'[k].file]),
                      j < stack'[k].next
               PROVE  reach[imports[stack'[k].file][j]] = "no" \/ stack'[k].file \in CyclicFiles
    BY <1>4, <1>5 DEF Passed
  <2>1. k \in 1 .. n
    BY <1>3, <1>4, <1>10
  <2> QED
    BY <1>1, <1>4, <2>1 DEF LintInv, Passed
<1>13. Exact'
  BY <1>5 DEF LintInv, Exact
<1> QED
  BY <1>6, <1>11, <1>12, <1>13 DEF LintInv

LEMMA StartKeeps ==
  ASSUME LintInv, LintAssumption, Start
  PROVE  LintInv'
<1>1. PICK f : f = Files[started + 1]
  OBVIOUS
<1>2. f \in FileSet
  BY <1>1 DEF Start, LintAssumption, LintInv, LintTypes
<1>3. UNCHANGED <<imports, calls, reach>> /\ started' = started + 1
  BY DEF Start, projectVars
<1>4. Reaching' = Reaching /\ CyclicFiles' = CyclicFiles /\ ModelFiles' = ModelFiles
  BY <1>3, GraphStays
<1>5. Exact'
  BY <1>3, <1>4 DEF LintInv, Exact
<1>6. CASE reach[f] # "unknown"
  <2>1. UNCHANGED <<stack, entered>>
    BY <1>1, <1>6 DEF Start
  <2>2. LintTypes'
    BY <1>3, <2>1 DEF LintInv, LintTypes
  <2>3. Chain' /\ Passed'
    BY <1>3, <1>4, <2>1 DEF LintInv, Chain, Passed
  <2> QED
    BY <1>5, <2>2, <2>3 DEF LintInv
<1>7. CASE reach[f] = "unknown"
  <2>1. PICK u : u = Frame(f)
    OBVIOUS
  <2>2. u \in Frames /\ u.file = f /\ u.next = 1
    BY <1>2, <2>1 DEF Frame, Frames
  <2>3. stack' = <<u>> /\ entered' = {f}
    BY <1>1, <1>7, <2>1 DEF Start
  <2>4. stack' \in Seq(Frames) /\ Len(stack') = 1 /\ stack'[1] = u
    BY <2>2, <2>3
  <2>5. \A k \in 1 .. Len(stack') : k = 1 /\ stack'[k] = u
    BY <2>4
  <2>6. LintTypes'
    BY <1>2, <1>3, <2>3, <2>4 DEF LintInv, LintTypes
  <2>7. Chain'
    BY <1>3, <1>4, <1>7, <2>2, <2>3, <2>4, <2>5 DEF Chain
  <2>8. Passed'
    BY <2>2, <2>5 DEF Passed
  <2> QED
    BY <1>5, <2>6, <2>7, <2>8 DEF LintInv
<1> QED
  BY <1>6, <1>7

LEMMA SearchKeeps ==
  ASSUME LintInv, Search
  PROVE  LintInv'
<1>1. PICK f, i : f = Top.file /\ i = Top.next
  OBVIOUS
<1>2. stack # <<>> /\ UNCHANGED <<imports, calls, started>>
  BY DEF Search, projectVars
<1>3. /\ f \in FileSet /\ i \in Nat /\ imports[f] \in Seq(FileSet) /\ Top.file = f
      /\ Len(stack) \in Nat \ {0} /\ Top = stack[Len(stack)]
  BY <1>1, <1>2, TopFrame DEF LintInv
<1>4. i >= 1
  BY <1>1, <1>3 DEF LintInv, Chain
<1>5. CASE f \in calls
  <2>1. Settle("yes")
    BY <1>1, <1>5 DEF Search
  <2>2. f \in ModelFiles
    BY <1>3, <1>5 DEF ModelFiles, ReachesModel
  <2> QED
    BY <1>2, <1>3, <2>1, <2>2, SettleKeeps
<1>6. CASE f \notin calls /\ i > Len(imports[f])
  <2>1. Settle("no")
    BY <1>1, <1>6 DEF Search
  <2>2. f \notin CyclicFiles => f \notin ModelFiles
    <3> SUFFICES ASSUME f \notin CyclicFiles
                 PROVE  f \notin ModelFiles
      OBVIOUS
    <3>1. \A j \in 1 .. Len(imports[f]) : reach[imports[f][j]] = "no"
      <4>1. Len(stack) \in 1 .. Len(stack) /\ stack[Len(stack)].file = f /\ stack[Len(stack)].next = i
        BY <1>1, <1>3
      <4>2. \A j \in 1 .. Len(imports[f]) : j < i
        BY <1>3, <1>6
      <4> QED
        BY <4>1, <4>2 DEF LintInv, Passed
    <3> QED
      BY <1>3, <1>6, <3>1, NoIsRight DEF LintInv
  <2> QED
    BY <1>2, <1>3, <2>1, <2>2, SettleKeeps
<1>7. CASE f \notin calls /\ ~(i > Len(imports[f]))
  <2>1. PICK g : g = imports[f][i]
    OBVIOUS
  <2>2. i \in 1 .. Len(imports[f]) /\ g \in FileSet /\ g \in Imported(f)
    BY <1>3, <1>4, <1>7, <2>1 DEF Imported, ToSet
  <2>3. CASE ImportReaches(g)
    <3>1. Settle("yes")
      BY <1>1, <1>7, <2>1, <2>3 DEF Search
    <3>2. ReachesModel(g)
      <4>1. g \in ModelFiles
        BY <2>2, <2>3 DEF LintInv, Exact, ImportReaches
      <4> QED
        BY <4>1 DEF ModelFiles
    <3>3. f \in ModelFiles
      BY <1>3, <2>2, <3>2, ReachesThrough DEF LintInv, ModelFiles
    <3> QED
      BY <1>2, <1>3, <3>1, <3>3, SettleKeeps
  <2>4. CASE ~ImportReaches(g) /\ (reach[g] = "no" \/ g \in entered)
    <3>1. stack' = [stack EXCEPT ![Len(stack)].next = i + 1] /\ UNCHANGED <<reach, entered>>
      BY <1>1, <1>7, <2>1, <2>4 DEF Search
    <3>2. reach[g] = "no" \/ f \in CyclicFiles
      <4> SUFFICES ASSUME reach[g] # "no"
                   PROVE  f \in CyclicFiles
        OBVIOUS
      <4>1. reach[g] = "unknown" /\ g \in entered
        BY <2>2, <2>4 DEF ImportReaches, LintInv, LintTypes, Answers
      <4>2. PICK k \in 1 .. Len(stack) : stack[k].file = g
        BY <4>1 DEF LintInv, Chain
      <4>3. g \in ReachedFrom(f) /\ ReachedFrom(g) \subseteq ReachedFrom(f)
        BY <1>3, <2>2, ReachedIsClosed, ReachedGoesOn DEF LintInv
      <4>4. f = g \/ f \in ReachedFrom(g)
        <5>1. CASE k = Len(stack)
          BY <1>1, <1>3, <4>2, <5>1
        <5>2. CASE k # Len(stack)
          <6>1. Len(stack) \in 1 .. Len(stack) /\ k < Len(stack)
            BY <1>3, <5>2
          <6>2. stack[Len(stack)].file \in Reaching[stack[k].file]
            BY <6>1 DEF LintInv, Chain
          <6> QED
            BY <1>3, <2>2, <4>2, <6>2 DEF Reaching
        <5> QED
          BY <5>1, <5>2
      <4>5. f \in ReachedFrom(f)
        BY <4>3, <4>4
      <4> QED
        BY <1>3, <4>5 DEF CyclicFiles, Cyclic
    <3>3. Top.next <= Len(imports[Top.file])
      BY <1>1, <1>3, <1>7
    <3> QED
      BY <1>1, <1>2, <2>1, <3>1, <3>2, <3>3, PassKeeps
  <2>5. CASE ~ImportReaches(g) /\ ~(reach[g] = "no" \/ g \in entered)
    <3>1. stack' = Append(stack, Frame(g)) /\ entered' = entered \union {g} /\ UNCHANGED reach
      BY <1>1, <1>7, <2>1, <2>5 DEF Search
    <3>2. reach[g] = "unknown"
      BY <2>2, <2>5 DEF ImportReaches, LintInv, LintTypes, Answers
    <3> QED
      BY <1>1, <1>2, <2>2, <2>5, <3>1, <3>2, EnterKeeps
  <2> QED
    BY <2>3, <2>4, <2>5
<1> QED
  BY <1>5, <1>6, <1>7

LEMMA LintRests ==
  ASSUME LintInv, UNCHANGED <<imports, calls, started, stack, entered, reach>>
  PROVE  LintInv'
<1>1. Reaching' = Reaching /\ CyclicFiles' = CyclicFiles /\ ModelFiles' = ModelFiles
  BY GraphStays
<1>2. LintTypes'
  BY DEF LintInv, LintTypes
<1>3. Chain' /\ Passed' /\ Exact'
  BY <1>1 DEF LintInv, Chain, Passed, Exact
<1> QED
  BY <1>2, <1>3 DEF LintInv

LEMMA LintStarts ==
  ASSUME LintInit, LintAssumption
  PROVE  LintInv
<1>1. imports \in [FileSet -> Seq(FileSet)]
  <2>1. \A s \in ImportLists : s \in Seq(FileSet)
    BY DEF ImportLists, LintAssumption
  <2> QED
    BY <2>1 DEF LintInit
<1>2. LintTypes
  <2>1. reach \in [FileSet -> Answers] /\ started \in Nat
    BY DEF LintInit, Answers
  <2>2. stack \in Seq(Frames)
    <3>1. stack = <<>>
      BY DEF LintInit
    <3> QED
      BY <3>1
  <2>3. calls \subseteq FileSet /\ entered \subseteq FileSet
    BY DEF LintInit
  <2> QED
    BY <1>1, <2>1, <2>2, <2>3 DEF LintTypes
<1>3. Chain /\ Passed
  <2>1. Len(stack) = 0 /\ entered = {}
    BY DEF LintInit
  <2>2. 1 .. Len(stack) = {}
    BY <2>1
  <2> QED
    BY <2>1, <2>2 DEF Chain, Passed
<1>4. Exact
  BY DEF LintInit, Exact
<1> QED
  BY <1>2, <1>3, <1>4 DEF LintInv

\* buildModel: whatever was searched before it, a file is said to reach a model only
\* when it does, and always when it does unless it leads into a cycle of imports.
THEOREM SearchIsExact ==
  ASSUME LintAssumption
  PROVE  LintSpec => []SearchIsExactButForCycles
<1>1. LintInit => LintInv
  BY LintStarts, LintAssumption
<1>2. LintInv /\ [LintNext]_lintVars => LintInv'
  <2> SUFFICES ASSUME LintInv, [LintNext]_lintVars
               PROVE  LintInv'
    OBVIOUS
  <2>1. CASE Start
    BY <2>1, StartKeeps, LintAssumption
  <2>2. CASE Search
    BY <2>2, SearchKeeps
  <2>3. CASE LintProject \/ Linted \/ UNCHANGED lintVars
    BY <2>3, LintRests DEF LintProject, Linted, lintVars, projectVars
  <2> QED
    BY <2>1, <2>2, <2>3 DEF LintNext
<1>3. LintInv => SearchIsExactButForCycles
  <2>1. \A f \in FileSet : (f \in ModelFiles <=> ReachesModel(f)) /\ (f \in CyclicFiles <=> Cyclic(f))
    BY DEF ModelFiles, CyclicFiles
  <2> QED
    BY <2>1 DEF LintInv, Exact, SearchIsExactButForCycles
<1> QED
  BY <1>1, <1>2, <1>3, PTL DEF LintSpec

-----------------------------------------------------------------------------
(***************************************************************************)
(* That the power precheck costs no candidate its promotion (Gates), for   *)
(* bundles of any size.  A scenario whose baseline passed is never won, so *)
(* there are at most as many wins as scenarios that can be won.  Of the    *)
(* 2^n courses of n trials, one in 2^w begins with w wins: a sign test     *)
(* that w wins pass needs 60 <= 2^w, and then as many wins and no loss     *)
(* pass it too.                                                            *)
(***************************************************************************)

LEMMA PairsAreCounted ==
  ASSUME GatesAssumption, NEW pairs \in [PairKinds -> Nat], NEW kinds \in SUBSET PairKinds,
         NEW fewer \in SUBSET kinds
  PROVE  Count(pairs, fewer) \in Nat /\ Count(pairs, kinds) \in Nat
         /\ Count(pairs, fewer) <= Count(pairs, kinds)
<1>1. IsFiniteSet(kinds)
  BY FS_Subset DEF GatesAssumption
<1>2. PICK numbered : numbered = [k \in kinds |-> {k} \X (1..pairs[k])]
  OBVIOUS
<1>3. PICK groups : groups = {{k} \X (1..pairs[k]) : k \in kinds}
  OBVIOUS
<1>4. numbered \in Surjection(kinds, groups)
  BY <1>2, <1>3 DEF Surjection
<1>5. IsFiniteSet(groups)
  BY <1>1, <1>4, FS_Surjection
<1>6. \A group \in groups : IsFiniteSet(group)
  <2> SUFFICES ASSUME NEW k \in kinds
               PROVE  IsFiniteSet({k} \X (1..pairs[k]))
    BY <1>3
  <2>1. IsFiniteSet({k})
    BY FS_Singleton
  <2>2. pairs[k] \in Nat
    OBVIOUS
  <2>3. IsFiniteSet(1..pairs[k])
    BY <2>2, FS_Interval
  <2> QED
    BY <2>1, <2>3, FS_Product
<1>7. IsFiniteSet(OfKinds(pairs, kinds))
  BY <1>3, <1>5, <1>6, FS_UNION DEF OfKinds
<1>8. OfKinds(pairs, fewer) \in SUBSET OfKinds(pairs, kinds)
  BY DEF OfKinds
<1>9. IsFiniteSet(OfKinds(pairs, fewer))
      /\ Cardinality(OfKinds(pairs, fewer)) <= Cardinality(OfKinds(pairs, kinds))
  BY <1>7, <1>8, FS_Subset
<1> QED
  BY <1>7, <1>9, FS_CardinalityType DEF Count

\* Repetitions do not touch a baseline that passed.
LEMMA PassedStaysPassed ==
  ASSUME GatesAssumption, NEW k \in PairKinds, k.base = "ok_pass"
  PROVE  ResolvePair(k) # "win"
<1> DEFINE PairRecords == [cand : Results \cup {NoRetry}, base : Results \cup {NoRetry},
                           candRetry : Results \cup {NoRetry}, baseRetry : Results \cup {NoRetry}]
<1>1. ASSUME NEW p \in PairRecords, p.base = "ok_pass"
      PROVE  Repeated(p) \in PairRecords /\ Repeated(p).base = "ok_pass"
  <2>1. ClassifyDiscordance(p.cand, p.base) \notin {"baseline_infra", "both_infra"}
    BY <1>1 DEF ClassifyDiscordance, Ok
  <2>2. Repeated(p) = p \/ Repeated(p) = [p EXCEPT !.cand = p.candRetry, !.candRetry = NoRetry]
    BY <2>1 DEF Repeated
  <2>3. [p EXCEPT !.cand = p.candRetry, !.candRetry = NoRetry] \in PairRecords
        /\ [p EXCEPT !.cand = p.candRetry, !.candRetry = NoRetry].base = p.base
    OBVIOUS
  <2> QED
    BY <1>1, <2>2, <2>3
<1>2. k \in PairRecords
  BY DEF GatesAssumption
<1>3. PICK p \in PairRecords : p = Retried(k) /\ p.base = "ok_pass"
  BY <1>1, <1>2 DEF Retried
<1>4. ResolvePair(k) = "win" => p.cand = "ok_pass" /\ p.cand # p.base
  BY <1>3 DEF ResolvePair
<1> QED
  BY <1>3, <1>4

LEMMA WinsAreAttainable ==
  ASSUME GatesAssumption, NEW pairs \in [PairKinds -> Nat]
  PROVE  /\ Outcomes(pairs, "win") \in Nat /\ Outcomes(pairs, "loss") \in Nat
         /\ Attainable(pairs) \in Nat /\ Outcomes(pairs, "win") <= Attainable(pairs)
<1>1. PICK winnable : winnable = {k \in PairKinds : k.base # "ok_pass"}
  OBVIOUS
<1>2. winnable \in SUBSET PairKinds /\ Resolved("win") \in SUBSET winnable
  BY <1>1, PassedStaysPassed DEF Resolved
<1>3. Resolved("loss") \in SUBSET PairKinds
  BY DEF Resolved
<1> QED
  BY <1>1, <1>2, <1>3, PairsAreCounted DEF Outcomes, Attainable

LEMMA WaysAreNat ==
  ASSUME NEW n \in Nat, NEW wins \in Nat
  PROVE  Ways(n, wins) \in Nat /\ 2 ^ n = Cardinality(SUBSET (1..n)) /\ 2 ^ n \in Nat
         /\ IsFiniteSet({won \in SUBSET (1..n) : Cardinality(won) >= wins})
<1>1. IsFiniteSet(1..n) /\ Cardinality(1..n) = n
  BY FS_Interval
<1>2. IsFiniteSet(SUBSET (1..n)) /\ 2 ^ n = Cardinality(SUBSET (1..n))
  BY <1>1, FS_SUBSET
<1>3. PICK courses : courses = {won \in SUBSET (1..n) : Cardinality(won) >= wins}
  OBVIOUS
<1>4. courses \in SUBSET SUBSET (1..n)
  BY <1>3
<1>5. IsFiniteSet(courses)
  BY <1>2, <1>4, FS_Subset
<1> QED
  BY <1>2, <1>3, <1>5, FS_CardinalityType DEF Ways

\* The courses that begin with w wins are enough of those with w wins or more.
LEMMA SixtyWays ==
  ASSUME NEW n \in Nat, NEW w \in 0..n, Significant(n, w)
  PROVE  60 <= 2 ^ w
<1>1. PICK first, rest : first = SUBSET (1..w) /\ rest = SUBSET (w + 1..n)
  OBVIOUS
<1>2. PICK courses : courses = {won \in SUBSET (1..n) : Cardinality(won) >= w}
  OBVIOUS
<1>3. /\ IsFiniteSet(1..w) /\ Cardinality(1..w) = w /\ IsFiniteSet(1..n) /\ IsFiniteSet(w + 1..n)
  BY FS_Interval
<1>4. /\ w \in Nat /\ IsFiniteSet(courses) /\ Cardinality(courses) = Ways(n, w) /\ Ways(n, w) \in Nat
      /\ 2 ^ n = Cardinality(SUBSET (1..n)) /\ 2 ^ n \in Nat
      /\ 2 ^ w = Cardinality(first) /\ 2 ^ w \in Nat
  <2>1. w \in Nat
    OBVIOUS
  <2>2. IsFiniteSet(courses) /\ Ways(n, w) \in Nat /\ 2 ^ n = Cardinality(SUBSET (1..n)) /\ 2 ^ n \in Nat
    BY <1>2, <2>1, WaysAreNat
  <2>3. 2 ^ w = Cardinality(first) /\ 2 ^ w \in Nat
    BY <1>1, <2>1, WaysAreNat
  <2>4. Cardinality(courses) = Ways(n, w)
    BY <1>2 DEF Ways
  <2> QED
    BY <2>1, <2>2, <2>3, <2>4
<1>5. IsFiniteSet(first) /\ IsFiniteSet(rest)
  BY <1>1, <1>3, FS_SUBSET
<1>6. PICK a \in Nat, b \in Nat : a = Cardinality(first) /\ b = Cardinality(rest)
  BY <1>5, FS_CardinalityType
<1>7. b >= 1
  <2>1. rest # {}
    BY <1>1
  <2> QED
    BY <1>5, <1>6, <2>1, FS_EmptySet
<1>8. 2 ^ n <= a * b
  <2>1. IsFiniteSet(first \X rest) /\ Cardinality(first \X rest) = a * b
    BY <1>5, <1>6, FS_Product
  <2>2. PICK split : split = [won \in SUBSET (1..n) |-> <<won \cap (1..w), won \cap (w + 1..n)>>]
    OBVIOUS
  <2>3. split \in [SUBSET (1..n) -> first \X rest]
    BY <1>1, <2>2
  <2>4. ASSUME NEW s \in SUBSET (1..n), NEW t \in SUBSET (1..n), split[s] = split[t]
        PROVE  s = t
    <3>1. s \cap (1..w) = t \cap (1..w) /\ s \cap (w + 1..n) = t \cap (w + 1..n)
      BY <2>2, <2>4
    <3>2. 1..n = (1..w) \cup (w + 1..n)
      OBVIOUS
    <3> QED
      BY <3>1, <3>2
  <2>5. split \in Injection(SUBSET (1..n), first \X rest)
    BY <2>3, <2>4 DEF Injection, IsInjective
  <2> QED
    BY <1>4, <2>1, <2>5, FS_Injection
<1>9. b <= Ways(n, w)
  <2>1. PICK begin : begin = [s \in rest |-> s \cup (1..w)]
    OBVIOUS
  <2>2. ASSUME NEW s \in rest
        PROVE  begin[s] \in courses
    <3>1. begin[s] \in SUBSET (1..n)
      BY <1>1, <2>1
    <3>2. IsFiniteSet(begin[s])
      BY <1>3, <3>1, FS_Subset
    <3>3. 1..w \in SUBSET begin[s]
      BY <2>1
    <3>4. Cardinality(1..w) <= Cardinality(begin[s]) /\ Cardinality(begin[s]) \in Nat
      BY <3>2, <3>3, FS_Subset, FS_CardinalityType
    <3> QED
      BY <1>2, <1>3, <1>4, <3>1, <3>4
  <2>3. ASSUME NEW s \in rest, NEW t \in rest, begin[s] = begin[t]
        PROVE  s = t
    <3>1. s \cup (1..w) = t \cup (1..w)
      BY <2>1, <2>3
    <3>2. \A i \in s \cup t : i \notin 1..w
      BY <1>1, <1>4
    <3> QED
      BY <3>1, <3>2
  <2>4. begin \in Injection(rest, courses)
    BY <2>1, <2>2, <2>3 DEF Injection, IsInjective
  <2> QED
    BY <1>4, <1>6, <2>4, FS_Injection
<1>10. PICK ways \in Nat, all \in Nat : ways = Ways(n, w) /\ all = 2 ^ n
  BY <1>4
<1>11. 60 * ways <= all /\ all <= a * b /\ b <= ways
  BY <1>8, <1>9, <1>10 DEF Significant
<1>12. 60 * b <= a * b
  <2>1. a * b \in Nat
    OBVIOUS
  <2> QED
    BY <1>11, <2>1
<1>13. a >= 60
  <2> SUFFICES ASSUME a <= 59
               PROVE  FALSE
    OBVIOUS
  <2>1. a * b <= 59 * b
    <3>1. PICK c \in Nat : 59 = a + c
      <4>1. 59 - a \in Nat /\ 59 = a + (59 - a)
        OBVIOUS
      <4> QED
        BY <4>1
    <3>2. 59 * b = a * b + c * b /\ c * b \in Nat /\ a * b \in Nat
      BY <3>1
    <3> QED
      BY <3>2
  <2>2. 59 * b < 60 * b
    BY <1>7
  <2>3. a * b \in Nat /\ 59 * b \in Nat /\ 60 * b \in Nat
    OBVIOUS
  <2> QED
    BY <1>12, <2>1, <2>2, <2>3
<1> QED
  BY <1>4, <1>6, <1>13

\* All of the trials won pass the test when there are six or more.
LEMMA AllWonIsSignificant ==
  ASSUME NEW n \in Nat, 60 <= 2 ^ n
  PROVE  Significant(n, n)
<1>1. PICK courses : courses = {won \in SUBSET (1..n) : Cardinality(won) >= n}
  OBVIOUS
<1>2. IsFiniteSet(1..n) /\ Cardinality(1..n) = n
  BY FS_Interval
<1>3. courses \in SUBSET {1..n}
  <2> SUFFICES ASSUME NEW won \in SUBSET (1..n), Cardinality(won) >= n
               PROVE  won = 1..n
    BY <1>1
  <2>1. IsFiniteSet(won)
    BY <1>2, FS_Subset
  <2>2. Cardinality(won) \in Nat /\ Cardinality(won) <= n
    BY <1>2, <2>1, FS_Subset, FS_CardinalityType
  <2>3. Cardinality(1..n) = Cardinality(won)
    BY <1>2, <2>2
  <2> QED
    BY <1>2, <2>3, FS_Subset
<1>4. IsFiniteSet({1..n}) /\ Cardinality({1..n}) = 1
  BY FS_Singleton
<1>5. Cardinality(courses) <= 1
  BY <1>3, <1>4, FS_Subset
<1>6. Ways(n, n) <= 1 /\ Ways(n, n) \in Nat /\ 2 ^ n \in Nat
  BY <1>1, <1>5, WaysAreNat DEF Ways
<1> QED
  BY <1>6 DEF Significant

LEMMA PowersGrow ==
  ASSUME NEW n \in Nat, NEW w \in 0..n
  PROVE  2 ^ w <= 2 ^ n
<1>1. SUBSET (1..w) \in SUBSET SUBSET (1..n)
  OBVIOUS
<1>2. IsFiniteSet(1..n) /\ w \in Nat
  BY FS_Interval
<1>3. IsFiniteSet(SUBSET (1..n))
  BY <1>2, FS_SUBSET
<1>4. Cardinality(SUBSET (1..w)) <= Cardinality(SUBSET (1..n))
  BY <1>1, <1>3, FS_Subset
<1> QED
  BY <1>2, <1>4, WaysAreNat

LEMMA MinWinsIsLeast ==
  ASSUME NEW n \in Nat, Significant(n, n)
  PROVE  MinWinsRequired(n) \in 0..n
<1>1. PICK enough : enough = {w \in 0..n : Significant(n, w)}
  OBVIOUS
<1>2. enough \in SUBSET Nat /\ n \in enough
  BY <1>1
<1>3. PICK least \in enough : \A w \in enough : least <= w
  BY <1>2, LeastExists
<1>4. least \in 0..n /\ Significant(n, least) /\ \A v \in 0..least - 1 : ~Significant(n, v)
  <2>1. least \in 0..n /\ Significant(n, least)
    BY <1>1, <1>3
  <2>2. ASSUME NEW v \in 0..least - 1, Significant(n, v)
        PROVE  FALSE
    <3>1. v \in 0..n /\ v < least
      BY <2>1
    <3> QED
      BY <1>1, <1>3, <2>1, <2>2, <3>1
  <2> QED
    BY <2>1, <2>2
<1> QED
  BY <1>4 DEF MinWinsRequired

LEMMA PowerIsNeeded ==
  ASSUME GatesAssumption, NEW pairs \in [PairKinds -> Nat],
         Attainable(pairs) < MinWinsRequired(Attainable(pairs))
  PROVE  ~Promotes(Outcomes(pairs, "win"), Outcomes(pairs, "loss"))
<1>1. PICK wins \in Nat, lost \in Nat, most \in Nat :
        /\ wins = Outcomes(pairs, "win") /\ lost = Outcomes(pairs, "loss")
        /\ most = Attainable(pairs) /\ wins <= most
  BY WinsAreAttainable
<1> SUFFICES ASSUME Promotes(wins, lost)
             PROVE  FALSE
  BY <1>1
<1>2. PICK n \in Nat : n = wins + lost
  BY <1>1
<1>3. wins \in 0..n /\ wins \in 0..most /\ Significant(n, wins)
  BY <1>1, <1>2 DEF Promotes
<1>4. 60 <= 2 ^ wins /\ 2 ^ wins <= 2 ^ most
  BY <1>3, SixtyWays, PowersGrow
<1>5. 2 ^ wins \in Nat /\ 2 ^ most \in Nat
  BY WaysAreNat
<1>6. Significant(most, most)
  BY <1>4, <1>5, AllWonIsSignificant
<1>7. MinWinsRequired(most) \in 0..most /\ most < MinWinsRequired(most)
  BY <1>1, <1>6, MinWinsIsLeast
<1> QED
  BY <1>7

GatesInv ==
  /\ evidenceBundle \in Bundles
  /\ ruling = "inconclusive_underpowered" => Underpowered

\* The power precheck of the behavioural gate stops no candidate that the confirmation
\* results would have promoted.
THEOREM PrecheckCostsNothing ==
  ASSUME GatesAssumption
  PROVE  GateSpec => []PrecheckIsSound
<1>1. GateInit => GatesInv
  BY DEF GateInit, GatesInv
<1>2. GatesInv /\ [GateNext]_gateVars => GatesInv'
  <2> SUFFICES ASSUME GatesInv, [GateNext]_gateVars
               PROVE  GatesInv'
    OBVIOUS
  <2>1. evidenceBundle' = evidenceBundle
    BY DEF GateNext, gateVars, Gate1Static, HardInvariants, CriticalSlices, CheckBundle, PowerPrecheck, Confirm,
           Gate3Prepare
  <2>2. Underpowered' <=> Underpowered
    BY <2>1 DEF Underpowered
  <2>3. ruling' = "inconclusive_underpowered" => Underpowered
    BY DEF GatesInv, GateNext, gateVars, Gate1Static, HardInvariants, CriticalSlices, CheckBundle,
           PowerPrecheck, Confirm, Gate3Prepare, Stop, Pass
  <2> QED
    BY <2>1, <2>2, <2>3 DEF GatesInv
<1>3. GatesInv => PrecheckIsSound
  <2> SUFFICES ASSUME GatesInv, ruling = "inconclusive_underpowered"
               PROVE  ~Promotes(Outcomes(evidenceBundle.confirmation, "win"),
                                Outcomes(evidenceBundle.confirmation, "loss"))
    BY DEF PrecheckIsSound
  <2>1. PICK pairs : pairs = evidenceBundle.confirmation
    OBVIOUS
  <2>2. pairs \in [PairKinds -> Nat]
    BY <2>1 DEF GatesInv, GatesAssumption
  <2>3. Attainable(pairs) < MinWinsRequired(Attainable(pairs))
    BY <2>1 DEF GatesInv, Underpowered
  <2> QED
    BY <2>1, <2>2, <2>3, PowerIsNeeded
<1> QED
  BY <1>1, <1>2, <1>3, PTL DEF GateSpec
================================================================================
