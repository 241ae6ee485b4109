--------------------------- MODULE RecoveryProofs ------------------------------
(***************************************************************************)
(* What six parts promise when things go on beside them, for every value   *)
(* of their constants: the clock of the leases, the rollback of a repair,  *)
(* the watchdog, the chaos harness, the readers of the active tree and the *)
(* calls that place managed blocks.                                        *)
(***************************************************************************)
EXTENDS LeaseClock, HealRepair, Watchdog, ChaosHarness, ActiveTree, Reconcile, TLAPS

-----------------------------------------------------------------------------
(* LeaseClock.                                                              *)

\* What a process measured is what the clock does; no record of a clock that moves calls
\* it a chosen one; and there is a record for whatever was built or refused.
ClockInv ==
  /\ DOMAIN measured = Processes /\ lostAppends \in Nat
  /\ \A p \in Processes : \A m \in measured[p] :
       \E c \in Clocks : m = [name |-> c.name, saw |-> c.nature]
  /\ \A r \in audit : \E c \in Clocks \cup {Omitted} :
       r.clock = c.name /\ (r.kind = "manual" => c.nature # "moves")
  /\ \A built \in stores \cup refused :
       /\ built.clock \in Clocks \cup {Omitted}
       /\ \E r \in audit : r.process = built.process /\ r.clock = built.clock.name

\* The kind that is written down is that of the clock, whatever its tag.
LEMMA KindIsHonest ==
  ASSUME ClockAssumption, ClockInv, NEW p \in Processes, NEW clock \in Clocks \cup {Omitted}
  PROVE  /\ \A m \in Measure(p, clock)[p] :
              \E c \in Clocks : m = [name |-> c.name, saw |-> c.nature]
         /\ Kind(p, clock) = "manual" => clock.nature # "moves"
<1>1. \A m \in Measure(p, clock)[p] : \E c \in Clocks : m = [name |-> c.name, saw |-> c.nature]
  BY DEF ClockInv, Measure
<1>2. ASSUME clock # Omitted, Callable(clock)
      PROVE  Saw(p, clock) = clock.nature
  <2> DEFINE Its == {m \in Measure(p, clock)[p] : m.name = clock.name}
  <2>1. Its # {}
    <3>1. CASE \E m \in measured[p] : m.name = clock.name
      BY <1>2, <3>1 DEF Measure
    <3>2. CASE ~ \E m \in measured[p] : m.name = clock.name
      <4>1. [name |-> clock.name, saw |-> clock.nature] \in Measure(p, clock)[p]
        BY <1>2, <3>2 DEF ClockInv, Measure
      <4> QED
        BY <4>1
    <3> QED
      BY <3>1, <3>2
  <2>2. \A m \in Its : m.saw = clock.nature
    BY <1>1 DEF ClockAssumption
  <2>3. Saw(p, clock) \in {m.saw : m \in Its}
    BY <2>1 DEF Saw
  <2> QED
    BY <2>2, <2>3
<1>3. Kind(p, clock) = "manual" => clock.nature # "moves"
  BY <1>2 DEF Kind, Omitted
<1> QED
  BY <1>1, <1>3

LEMMA ClockInvHolds ==
  ASSUME ClockAssumption
  PROVE  ClockSpec => []ClockInv
<1>1. ClockInit => ClockInv
  BY DEF ClockInit, ClockInv
<1>2. ASSUME ClockInv, [ClockNext]_clockVars
      PROVE  ClockInv'
  <2>1. ASSUME NEW p \in Processes, NEW clock \in Clocks \cup {Omitted}, NEW required \in BOOLEAN,
               Construct(p, clock, required)
        PROVE  ClockInv'
    <3> DEFINE record == [process |-> p, clock |-> clock.name, kind |-> Kind(p, clock)]
    <3>1. /\ DOMAIN measured' = Processes
          /\ \A q \in Processes : \A m \in measured'[q] :
               \E c \in Clocks : m = [name |-> c.name, saw |-> c.nature]
      <4>1. /\ measured' = Measure(p, clock)
            /\ \A q \in Processes : q # p => Measure(p, clock)[q] = measured[q]
            /\ DOMAIN Measure(p, clock) = Processes
        BY <1>2, <2>1 DEF Construct, RecordLeaseClockConstruction, Measure, ClockInv
      <4> QED
        BY <1>2, <4>1, KindIsHonest DEF ClockInv
    <3>2. \/ audit' = audit \cup {record} /\ lostAppends' = lostAppends
          \/ /\ lostAppends' = lostAppends + 1 /\ audit' = audit
             /\ stores' = stores /\ refused' = refused
      BY <1>2, <2>1 DEF Construct, RecordLeaseClockConstruction, ClockInv
    <3>3. stores' \cup refused' \subseteq
            stores \cup refused \cup {[process |-> p, clock |-> clock]}
      BY <2>1 DEF Construct
    <3>4. record.process = p /\ record.clock = clock.name /\ record.kind = Kind(p, clock)
      OBVIOUS
    <3>5. \A r \in audit' : \E c \in Clocks \cup {Omitted} :
            r.clock = c.name /\ (r.kind = "manual" => c.nature # "moves")
      BY <1>2, <3>2, <3>4, KindIsHonest DEF ClockInv
    <3>6. \A built \in stores' \cup refused' :
            /\ built.clock \in Clocks \cup {Omitted}
            /\ \E r \in audit' : r.process = built.process /\ r.clock = built.clock.name
      <4>1. \A built \in stores \cup refused :
              /\ built.clock \in Clocks \cup {Omitted}
              /\ \E r \in audit' : r.process = built.process /\ r.clock = built.clock.name
        BY <1>2, <3>2 DEF ClockInv
      <4>2. CASE audit' = audit \cup {record}
        <5>1. record \in audit'
          BY <4>2
        <5> QED
          BY <3>3, <3>4, <4>1, <5>1
      <4>3. CASE stores' = stores /\ refused' = refused
        BY <4>1, <4>3
      <4> QED
        BY <3>2, <4>2, <4>3
    <3> QED
      BY <1>2, <3>1, <3>2, <3>5, <3>6 DEF ClockInv
  <2>2. ASSUME NEW store \in stores, RegisterRun(store)
        PROVE  ClockInv'
    BY <1>2, <2>2 DEF RegisterRun, ClockInv
  <2>3. CASE UNCHANGED clockVars
    BY <1>2, <2>3 DEF clockVars, ClockInv
  <2> QED
    BY <1>2, <2>1, <2>2, <2>3 DEF ClockNext
<1> QED
  BY <1>1, <1>2, PTL DEF ClockSpec

\* RacingClocksAreNamed: a store that was built or refused with a clock that races real
\* time has its record, and no record calls such a clock a chosen one.
THEOREM RacesAreOnRecord ==
  ASSUME ClockAssumption
  PROVE  ClockSpec => []RacingClocksAreNamed
<1>1. ClockInv => RacingClocksAreNamed
  BY DEF ClockInv, RacingClocksAreNamed, ClockAssumption
<1> QED
  BY <1>1, ClockInvHolds, PTL

-----------------------------------------------------------------------------
(* HealRepair.                                                              *)

HealerPlaces == {"look", "restore", "verify", "identify", "record", "undo"}

\* A process rests, or carries out the rollback of a record on file.
WellFormed(h) ==
  \/ healer[h] = HealerResting
  \/ \E place \in HealerPlaces, record \in staged :
       healer[h] = [at |-> place, record |-> record]

\* What a process that nobody disturbed knows of the target it works on.
KnowsItsTarget(h) ==
  h \notin touched =>
    /\ At(h, "restore") => content[Image(h).target] = Image(h).after
    /\ At(h, "identify") \/ At(h, "record") => content[Image(h).target] = Image(h).before
    /\ ~At(h, "undo")

\* The inductive invariant.
HealInv ==
  /\ DOMAIN healer = Healers /\ DOMAIN content = Targets
  /\ \A record \in staged : record.target \in Targets
  /\ \A h \in Healers : WellFormed(h) /\ KnowsItsTarget(h)

\* A process that does nothing is as undisturbed as it was, or touched by what is written.
LEMMA BystandersStay ==
  ASSUME HealInv, NEW g \in Healers, healer'[g] = healer[g], staged \subseteq staged',
         \/ content' = content
         \/ \E file, text : /\ content' = [content EXCEPT ![file] = text]
                            /\ g \in AtWorkOn(file) => g \in touched',
         g \in touched => g \in touched'
  PROVE  WellFormed(g)' /\ KnowsItsTarget(g)'
<1>1. WellFormed(g)'
  <2>1. WellFormed(g)
    BY DEF HealInv
  <2>2. CASE healer[g] = HealerResting
    BY <2>2 DEF WellFormed
  <2>3. CASE \E place \in HealerPlaces, record \in staged :
               healer[g] = [at |-> place, record |-> record]
    BY <2>3 DEF WellFormed
  <2>4. QED
    BY <2>1, <2>2, <2>3 DEF WellFormed
<1>2. ASSUME content' = content
      PROVE  KnowsItsTarget(g)'
  <2>1. /\ At(g, "restore")' <=> At(g, "restore")
        /\ At(g, "identify")' <=> At(g, "identify")
        /\ At(g, "record")' <=> At(g, "record")
        /\ At(g, "undo")' <=> At(g, "undo")
        /\ Image(g)' = Image(g)
    BY DEF At, Image
  <2>2. KnowsItsTarget(g)
    BY DEF HealInv
  <2>3. QED
    BY <1>2, <2>1, <2>2 DEF KnowsItsTarget
<1>3. ASSUME NEW file, NEW text, content' = [content EXCEPT ![file] = text],
             g \in AtWorkOn(file) => g \in touched'
      PROVE  KnowsItsTarget(g)'
  <2>1. CASE At(g, "idle")
    BY <2>1 DEF KnowsItsTarget, At
  <2>2. CASE ~At(g, "idle") /\ Image(g).target = file
    BY <1>3, <2>2 DEF AtWorkOn, KnowsItsTarget
  <2>3. CASE ~At(g, "idle") /\ Image(g).target # file
    <3>1. PICK place \in HealerPlaces, record \in staged :
            healer[g] = [at |-> place, record |-> record]
      BY <2>3 DEF HealInv, WellFormed, HealerResting, At
    <3>2. Image(g) = record /\ record.target \in Targets
      BY <3>1 DEF HealInv, Image
    <3>3. content'[Image(g).target] = content[Image(g).target]
      BY <1>3, <2>3, <3>2 DEF HealInv
    <3>4. QED
      BY <3>3 DEF HealInv, KnowsItsTarget, At, Image
  <2>4. QED
    BY <2>1, <2>2, <2>3
<1>4. CASE content' = content
  BY <1>1, <1>2, <1>4
<1>5. CASE content' # content
  <2>1. PICK file, text : /\ content' = [content EXCEPT ![file] = text]
                          /\ g \in AtWorkOn(file) => g \in touched'
    BY <1>5
  <2>2. KnowsItsTarget(g)'
    BY <1>3, <2>1
  <2>3. QED
    BY <1>1, <2>2
<1>6. QED
  BY <1>4, <1>5

\* A step of one process is right when it is right for that process.
LEMMA HealerStep ==
  ASSUME HealInv, NEW h \in Healers, staged' = staged,
         DOMAIN healer' = Healers, \A g \in Healers : g # h => healer'[g] = healer[g],
         \/ content' = content /\ touched \ {h} \subseteq touched'
         \/ \E text : WriteImage(h, text),
         WellFormed(h)', KnowsItsTarget(h)'
  PROVE  HealInv'
<1>1. DOMAIN content' = Targets
  BY DEF HealInv, WriteImage
<1>2. ASSUME NEW g \in Healers, g # h
      PROVE  WellFormed(g)' /\ KnowsItsTarget(g)'
  <2>1. CASE content' = content /\ touched \ {h} \subseteq touched'
    BY <1>2, <2>1, BystandersStay
  <2>2. ASSUME NEW text, WriteImage(h, text)
        PROVE  WellFormed(g)' /\ KnowsItsTarget(g)'
    <3>1. PICK file : file = Image(h).target
      OBVIOUS
    <3>2. /\ content' = [content EXCEPT ![file] = text]
          /\ touched' = touched \cup (AtWorkOn(file) \ {h})
      BY <2>2, <3>1 DEF WriteImage
    <3>3. g \in AtWorkOn(file) => g \in touched'
      BY <1>2, <3>2
    <3>4. g \in touched => g \in touched'
      BY <3>2
    <3>5. healer'[g] = healer[g] /\ staged \subseteq staged'
      BY <1>2
    <3>6. QED
      BY <3>2, <3>3, <3>4, <3>5, BystandersStay
  <2>3. QED
    BY <2>1, <2>2
<1>3. QED
  BY <1>1, <1>2 DEF HealInv

\* What a process that goes on, or that comes to rest, does next.
LEMMA HealerMoves ==
  ASSUME HealInv, NEW h \in Healers, staged' = staged,
         NEW place \in HealerPlaces, HealerGoto(h, place), ~At(h, "idle")
  PROVE  /\ DOMAIN healer' = Healers /\ \A g \in Healers : g # h => healer'[g] = healer[g]
         /\ WellFormed(h)' /\ healer'[h].at = place /\ healer'[h].record = healer[h].record
<1>1. PICK old \in HealerPlaces, record \in staged : healer[h] = [at |-> old, record |-> record]
  BY DEF HealInv, WellFormed, HealerResting, At
<1>2. /\ DOMAIN healer' = Healers /\ \A g \in Healers : g # h => healer'[g] = healer[g]
      /\ healer'[h] = [at |-> place, record |-> record]
  BY <1>1 DEF HealInv, HealerGoto
<1>3. QED
  BY <1>1, <1>2 DEF WellFormed

LEMMA HealerRests ==
  ASSUME HealInv, NEW h \in Healers, HealerRest(h)
  PROVE  /\ DOMAIN healer' = Healers /\ \A g \in Healers : g # h => healer'[g] = healer[g]
         /\ WellFormed(h)' /\ KnowsItsTarget(h)'
<1>1. /\ DOMAIN healer' = Healers /\ \A g \in Healers : g # h => healer'[g] = healer[g]
      /\ healer'[h] = HealerResting
  BY DEF HealInv, HealerRest
<1>2. QED
  BY <1>1 DEF WellFormed, KnowsItsTarget, At, HealerResting

\* What comes to rest leaves the rest undisturbed, whatever it writes on the way.
LEMMA RestStep ==
  ASSUME HealInv, NEW h \in Healers, staged' = staged, HealerRest(h),
         \/ content' = content /\ touched \ {h} \subseteq touched'
         \/ \E text : WriteImage(h, text)
  PROVE  HealInv'
BY HealerRests, HealerStep

LEMMA RollbackSteps ==
  ASSUME HealInv, NEW h \in Healers,
         \/ \E record \in staged : Rollback(h, record)
         \/ LookAtTarget(h) \/ Restore(h) \/ VerifyImage(h) \/ Identify(h) \/ Undo(h)
         \/ RecordRollback(h) \/ HealerDies(h)
  PROVE  HealInv'
<1>1. ASSUME NEW record \in staged, Rollback(h, record)
      PROVE  HealInv'
  <2>1. /\ DOMAIN healer' = Healers /\ \A g \in Healers : g # h => healer'[g] = healer[g]
        /\ healer'[h] = [at |-> "look", record |-> record]
        /\ staged' = staged /\ content' = content /\ touched' = touched
    BY <1>1 DEF Rollback, HealInv
  <2>2. WellFormed(h)' /\ KnowsItsTarget(h)'
    BY <2>1 DEF WellFormed, KnowsItsTarget, At, HealerPlaces
  <2>3. QED
    BY <2>1, <2>2, HealerStep
<1>2. CASE LookAtTarget(h)
  <2>1. staged' = staged /\ content' = content /\ touched' = touched \ {h} /\ ~At(h, "idle")
    BY <1>2 DEF LookAtTarget, At
  <2>2. CASE HealerRest(h)
    BY <2>1, <2>2, RestStep
  <2>3. CASE Restorable(Image(h), content[Image(h).target]) /\ HealerGoto(h, "restore")
    <3>1. /\ DOMAIN healer' = Healers /\ \A g \in Healers : g # h => healer'[g] = healer[g]
          /\ WellFormed(h)' /\ healer'[h].at = "restore" /\ healer'[h].record = healer[h].record
      BY <2>1, <2>3, HealerMoves DEF HealerPlaces
    <3>2. KnowsItsTarget(h)'
      BY <2>1, <2>3, <3>1 DEF KnowsItsTarget, At, Image, Restorable
    <3>3. QED
      BY <2>1, <3>1, <3>2, HealerStep
  <2>4. QED
    BY <1>2, <2>2, <2>3 DEF LookAtTarget
<1>3. CASE Restore(h)
  <2>1. staged' = staged /\ WriteImage(h, Image(h).before) /\ ~At(h, "idle") /\ HealerGoto(h, "verify")
    BY <1>3 DEF Restore, At
  <2>2. /\ DOMAIN healer' = Healers /\ \A g \in Healers : g # h => healer'[g] = healer[g]
        /\ WellFormed(h)' /\ healer'[h].at = "verify"
    BY <2>1, HealerMoves DEF HealerPlaces
  <2>3. KnowsItsTarget(h)'
    BY <2>2 DEF KnowsItsTarget, At
  <2>4. QED
    BY <2>1, <2>2, <2>3, HealerStep
<1>4. CASE VerifyImage(h)
  <2>1. staged' = staged /\ content' = content /\ touched' = touched \ {h} /\ ~At(h, "idle")
    BY <1>4 DEF VerifyImage, At
  <2>2. CASE HealerRest(h)
    BY <2>1, <2>2, RestStep
  <2>3. CASE content[Image(h).target] = Image(h).before /\ HealerGoto(h, "identify")
    <3>1. /\ DOMAIN healer' = Healers /\ \A g \in Healers : g # h => healer'[g] = healer[g]
          /\ WellFormed(h)' /\ healer'[h].at = "identify" /\ healer'[h].record = healer[h].record
      BY <2>1, <2>3, HealerMoves DEF HealerPlaces
    <3>2. KnowsItsTarget(h)'
      BY <2>1, <2>3, <3>1 DEF KnowsItsTarget, At, Image
    <3>3. QED
      BY <2>1, <3>1, <3>2, HealerStep
  <2>4. QED
    BY <1>4, <2>2, <2>3 DEF VerifyImage
<1>5. CASE Identify(h)
  <2>1. /\ staged' = staged /\ content' = content /\ touched' = touched
        /\ At(h, "identify") /\ ~At(h, "idle") /\ KnowsItsTarget(h)
    BY <1>5 DEF Identify, At, HealInv
  <2>2. PICK place \in {"record", "undo"} :
          /\ HealerGoto(h, place)
          /\ place = "record" <=> content[Image(h).target] = Image(h).before
    BY <1>5 DEF Identify
  <2>3. /\ DOMAIN healer' = Healers /\ \A g \in Healers : g # h => healer'[g] = healer[g]
        /\ WellFormed(h)' /\ healer'[h].at = place /\ healer'[h].record = healer[h].record
    BY <2>1, <2>2, HealerMoves DEF HealerPlaces
  <2>4. KnowsItsTarget(h)'
    BY <2>1, <2>2, <2>3 DEF KnowsItsTarget, At, Image
  <2>5. QED
    BY <2>1, <2>3, <2>4, HealerStep
<1>6. CASE Undo(h)
  BY <1>6, RestStep DEF Undo
<1>7. CASE RecordRollback(h)
  BY <1>7, RestStep DEF RecordRollback
<1>8. CASE HealerDies(h)
  <2>1. staged' = staged /\ HealerRest(h)
    BY <1>8 DEF HealerDies
  <2>2. (content' = content /\ touched' = touched) \/ WriteImage(h, Torn)
    BY <1>8 DEF HealerDies
  <2>3. QED
    BY <2>1, <2>2, RestStep
<1>9. QED
  BY <1>1, <1>2, <1>3, <1>4, <1>5, <1>6, <1>7, <1>8

\* What people stage, write and acknowledge touches the rollbacks under way.
LEMMA PeopleStep ==
  ASSUME HealInv,
         \/ \E file \in Targets, text \in Texts : StageRepair(file, text)
         \/ \E file \in Targets, text \in Texts \cup {Gone} : Write(file, text)
         \/ \E record \in staged : AckRollback(record)
         \/ UNCHANGED healVars
  PROVE  HealInv'
<1>1. ASSUME NEW file \in Targets, NEW text \in Texts, StageRepair(file, text)
      PROVE  HealInv'
  <2>1. /\ staged' = staged \cup {RepairRecord(file, text)}
        /\ content' = content /\ healer' = healer /\ touched' = touched
    BY <1>1 DEF StageRepair
  <2>2. \A record \in staged' : record.target \in Targets
    BY <2>1 DEF RepairRecord, HealInv
  <2>3. \A g \in Healers : WellFormed(g)' /\ KnowsItsTarget(g)'
    BY <2>1, BystandersStay
  <2>4. QED
    BY <2>1, <2>2, <2>3 DEF HealInv
<1>2. ASSUME NEW file \in Targets, NEW text \in Texts \cup {Gone}, Write(file, text)
      PROVE  HealInv'
  <2>1. /\ content' = [content EXCEPT ![file] = text] /\ staged' = staged /\ healer' = healer
        /\ touched' = touched \cup AtWorkOn(file)
    BY <1>2 DEF Write
  <2>2. DOMAIN content' = Targets
    BY <2>1 DEF HealInv
  <2>3. \A g \in Healers : WellFormed(g)' /\ KnowsItsTarget(g)'
    BY <2>1, BystandersStay
  <2>4. QED
    BY <2>1, <2>2, <2>3 DEF HealInv
<1>3. CASE (\E record \in staged : AckRollback(record)) \/ UNCHANGED healVars
  <2>1. content' = content /\ staged' = staged /\ healer' = healer /\ touched' = touched
    BY <1>3 DEF AckRollback, healVars
  <2>2. \A g \in Healers : WellFormed(g)' /\ KnowsItsTarget(g)'
    BY <2>1, BystandersStay
  <2>3. QED
    BY <2>1, <2>2 DEF HealInv
<1>4. QED
  BY <1>1, <1>2, <1>3

\* RollbackKeepsEdits: whoever edits, applies and dies in between, and however many roll
\* back at once, a rollback whose target nobody else wrote since it compared it last
\* replaces only the text of the repair and records itself only over the text before it.
THEOREM EditsAreKept == HealSpec => RollbackKeepsEdits
<1>1. HealInit => HealInv
  BY DEF HealInit, HealInv, WellFormed, KnowsItsTarget, At, HealerResting
<1>2. HealInv /\ [HealNext]_healVars => HealInv'
  BY RollbackSteps, PeopleStep DEF HealNext
<1>3. HealInv /\ [HealNext]_healVars =>
        [\A h \in Healers :
           healer'[h] # healer[h] /\ h \notin touched =>
             /\ content' # content =>
                  At(h, "restore") /\ content[Image(h).target] = Image(h).after
             /\ families' # families =>
                  content[Image(h).target] = Image(h).before]_healVars
  <2> SUFFICES ASSUME HealInv, HealNext, NEW h \in Healers, healer'[h] # healer[h],
                      h \notin touched
               PROVE  /\ content' # content =>
                           At(h, "restore") /\ content[Image(h).target] = Image(h).after
                      /\ families' # families => content[Image(h).target] = Image(h).before
    OBVIOUS
  <2>1. KnowsItsTarget(h) /\ DOMAIN healer = Healers
    BY DEF HealInv
  <2>2. ASSUME NEW g \in Healers, g # h
        PROVE  ~(\E place : HealerGoto(g, place)) /\ ~HealerRest(g)
               /\ ~(\E record \in staged : Rollback(g, record))
    BY <2>1, <2>2 DEF HealerGoto, HealerRest, Rollback
  <2>3. healer' # healer
    OBVIOUS
  <2>4. PICK g \in Healers :
          \/ \E record \in staged : Rollback(g, record)
          \/ LookAtTarget(g) \/ Restore(g) \/ VerifyImage(g) \/ Identify(g) \/ Undo(g)
          \/ RecordRollback(g) \/ HealerDies(g)
    BY <2>3 DEF HealNext, StageRepair, Write, AckRollback
  <2>5. g = h
    BY <2>2, <2>4
    DEF LookAtTarget, Restore, VerifyImage, Identify, Undo, RecordRollback, HealerDies
  <2>6. CASE (\E record \in staged : Rollback(h, record)) \/ LookAtTarget(h) \/ VerifyImage(h)
             \/ Identify(h)
    BY <2>6 DEF Rollback, LookAtTarget, VerifyImage, Identify
  <2>7. CASE Restore(h) \/ Undo(h)
    BY <2>1, <2>7 DEF Restore, Undo, KnowsItsTarget
  <2>8. CASE RecordRollback(h)
    BY <2>1, <2>8 DEF RecordRollback, KnowsItsTarget
  <2>9. CASE HealerDies(h)
    BY <2>1, <2>9 DEF HealerDies, KnowsItsTarget
  <2>10. QED
    BY <2>4, <2>5, <2>6, <2>7, <2>8, <2>9
<1> QED
  BY <1>1, <1>2, <1>3, PTL DEF HealSpec, RollbackKeepsEdits

-----------------------------------------------------------------------------
(* Watchdog.                                                                *)

\* Between two polls the manager beats no more often than the jump that a poll accepts: so
\* it is for the shipped settings, a poll every 3 s and a beat every 5 s, and not for every
\* setting in range (a budget of 600 s makes that twelve beats, two more than are accepted).
BeatsArePlausible == Rate <= MaxFirst /\ Rate <= MaxIncrement

Messages == {"none", "unknown", "nothing in flight", "resume", "reconcile"}
GuardShape ==
  guard \in [at : {"watching", "capability", "list", "root", "tree", "gone"}, accepted : Int,
            quiet : Nat, since : 0..Rate, message : Messages, listed : SUBSET Workers]

\* The heartbeat file is where the guard's last look and the beats since then put it, so
\* that a poll refuses it only when there was no beat.
BeatInv ==
  /\ GuardShape /\ beats \in Nat /\ missed \in Nat
  /\ Killing => missed > BudgetPolls
  /\ guard.at = "watching" =>
       /\ IF guard.accepted = None THEN beats = guard.since /\ guard.quiet = 0
          ELSE guard.accepted \in Nat /\ beats = guard.accepted + guard.since
       /\ guard.quiet <= BudgetPolls
       /\ guard.since = 0 => guard.quiet <= missed

\* An effect in flight is one that the capability file names.
EffectInv ==
  /\ effect = "none" \/ (effect = cap.names /\ effect # "null")
  /\ ~slow /\ guard.at \in {"list", "root"} /\ guard.message = "nothing in flight" =>
       cap.names \in {"null", "read-only"}

\* What the operator was told is what the file says, until a worker is called.
Heard == operator.at = "told" /\ operator.message = "nothing in flight" /\ operator.calls = calls
OperatorInv ==
  /\ calls \in Nat /\ operator.calls \in 0..calls
  /\ Heard => cap.names \in {"null", "read-only"}

\* Who runs has a parent that runs, up to the manager or up to init, in no circle; and
\* when the guard is not outrun, all that still runs stands on its list.
ProcessInv ==
  /\ DOMAIN under = Workers
  /\ managerState \in {"running", "blocked", "dead"}
  /\ managerState # "dead" => \A w \in Workers :
       under[w] \in {"none", "root"} \/ \E p \in Workers : under[w] = p /\ Alive(p)
  /\ managerState # "dead" => \A ws \in SUBSET Workers :
       ws # {} => \E w \in ws : under[w] \notin ws
  /\ ~slow /\ guard.at \in {"capability", "list", "root"} => managerState = "blocked"
  /\ guard.at \in {"watching", "capability", "list", "root"} => haltfile \in {"none", "deadman"}
  /\ guard.at = "tree" => managerState = "dead" /\ haltfile \in {"none", "deadman"}
  /\ guard.at = "gone" => managerState = "dead"
  /\ ~slow /\ guard.at = "root" => \A w \in Workers : Alive(w) => w \in guard.listed
  /\ ~slow /\ guard.at = "tree" => \A w \in Workers : Alive(w) => w \in guard.listed
  /\ ~slow /\ haltfile \notin {"none", "deadman"} => \A w \in Workers : ~Alive(w)

\* What the guard lists, when it lists it, is all that runs.
LEMMA AllAreListed ==
  ASSUME WatchdogAssumption, ProcessInv, managerState # "dead"
  PROVE  \A w \in Workers : Alive(w) => w \in Descendants
<1> SUFFICES ASSUME NEW w \in Workers, Alive(w), NEW ws \in SUBSET Workers, Closed(ws), w \notin ws
             PROVE  FALSE
  BY DEF Descendants
<1> DEFINE left == {x \in Workers \ ws : Alive(x)}
<1>1. PICK x \in left : under[x] \notin left
  BY DEF ProcessInv
<1>2. under[x] \in Workers \cup {"root"} /\ Alive(under[x])
  BY <1>1 DEF ProcessInv, Alive, WatchdogAssumption
<1>3. under[x] \notin ws /\ under[x] # "root"
  BY <1>1 DEF Closed, Kids
<1> QED
  BY <1>1, <1>2, <1>3

\* Only silence is refused.
LEMMA BeatsAreAccepted ==
  ASSUME WatchdogAssumption, BeatsArePlausible, BeatInv, guard.at = "watching"
  PROVE  /\ Accepted \/ guard.since = 0
         /\ guard.accepted = None => Accepted
BY DEF WatchdogAssumption, Accepted, BeatInv, GuardShape, BeatsArePlausible, None

LEMMA BeatsAreSeen ==
  ASSUME WatchdogAssumption, BeatsArePlausible, BeatInv, [WatchNext]_watchVars
  PROVE  BeatInv'
<1> USE DEF WatchdogAssumption
<1>1. CASE Beat
  BY <1>1 DEF Beat, BeatInv, GuardShape, Killing, processes, None
<1>2. CASE Poll
  <2> DEFINE quiet == IF Accepted THEN 0 ELSE guard.quiet + 1
  <2>1. guard.at = "watching" /\ ~Killing
    BY <1>2 DEF Poll, Killing
  <2>2. /\ guard' = [guard EXCEPT !.accepted = IF Accepted THEN beats ELSE @, !.quiet = quiet,
                       !.since = 0, !.at = IF quiet > BudgetPolls THEN "capability" ELSE @]
        /\ missed' = IF guard.since = 0 /\ missed <= BudgetPolls THEN missed + 1 ELSE missed
        /\ beats' = beats
    BY <1>2 DEF Poll
  <2>3. /\ guard'.accepted = IF Accepted THEN beats ELSE guard.accepted
        /\ guard'.quiet = quiet /\ guard'.since = 0
        /\ guard'.at = IF quiet > BudgetPolls THEN "capability" ELSE "watching"
    BY <2>1, <2>2 DEF BeatInv, GuardShape
  <2>4. Accepted \/ guard.since = 0
    BY <2>1, BeatsAreAccepted
  <2>5. guard.accepted = None => Accepted
    BY <2>1, BeatsAreAccepted
  <2>6. quiet \in Nat
    BY DEF BeatInv, GuardShape
  <2>7. GuardShape'
    <3>1. beats \in Int /\ 0 \in 0..Rate
      BY DEF BeatInv
    <3> HIDE DEF quiet
    <3> QED
      BY <2>2, <2>6, <3>1 DEF BeatInv, GuardShape
  <2>8. CASE Accepted
    BY <2>1, <2>2, <2>3, <2>6, <2>7, <2>8 DEF BeatInv, GuardShape, Killing, None
  <2>9. CASE ~Accepted
    BY <2>1, <2>2, <2>3, <2>4, <2>5, <2>6, <2>7, <2>9 DEF BeatInv, GuardShape, Killing, None
  <2> QED
    BY <2>8, <2>9
<1>3. ASSUME UNCHANGED <<beats, missed, guard>>
      PROVE  BeatInv'
  BY <1>3 DEF BeatInv, GuardShape, Killing
<1>4. CASE CleanupOrphan
  BY <1>4 DEF CleanupOrphan, BeatInv, GuardShape, Killing
<1>5. CASE ReadCapability
  <2>1. KillMessage \in Messages
    BY DEF KillMessage, Advice, Messages
  <2> QED
    BY <1>5, <2>1 DEF ReadCapability, BeatInv, GuardShape, Killing
<1>6. CASE ListDescendants
  <2>1. Descendants \subseteq Workers
    BY DEF Descendants
  <2> QED
    BY <1>6, <2>1 DEF ListDescendants, BeatInv, GuardShape, Killing
<1>7. CASE KillRoot
  BY <1>7 DEF KillRoot, BeatInv, GuardShape, Killing
<1>8. CASE WriteEvidence
  BY <1>8 DEF WriteEvidence, BeatInv, GuardShape, Killing
<1>9. ASSUME NEW w \in Workers, KillDescendant(w)
      PROVE  BeatInv'
  BY <1>9 DEF KillDescendant, BeatInv, GuardShape, Killing
<1> QED
  BY <1>1, <1>2, <1>3, <1>4, <1>5, <1>9, <1>6, <1>7, <1>8
  DEF WatchNext, Block, Wake, Perform, Settle, ManagerDies, Declare, Fork, OperatorReads,
      OperatorKills, watchVars

LEMMA EffectsAreNamed ==
  ASSUME WatchdogAssumption, BeatInv, EffectInv, ProcessInv, [WatchNext]_watchVars
  PROVE  EffectInv'
<1>1. ASSUME Perform \/ Settle \/ \E c \in Declared \ {"null"} : Declare(c)
      PROVE  EffectInv'
  BY <1>1 DEF Declare, Perform, Settle, EffectInv, ProcessInv, processes
<1>2. CASE ReadCapability
  BY <1>2 DEF ReadCapability, KillMessage, Advice, BeatInv, GuardShape, EffectInv, processes
<1>3. CASE ListDescendants
  <2>1. guard'.at = "root" /\ guard'.message = guard.message /\ guard.at = "list"
    BY <1>3 DEF ListDescendants, BeatInv, GuardShape
  <2> QED
    BY <1>3, <2>1 DEF ListDescendants, EffectInv, processes
<1>4. CASE Poll
  <2>1. guard'.at \notin {"list", "root"} /\ cap'.names = cap.names
    BY <1>4 DEF Poll, BeatInv, GuardShape, EffectInv
  <2> QED
    BY <1>4, <2>1 DEF Poll, EffectInv, processes
<1>5. CASE Beat
  BY <1>5 DEF Beat, BeatInv, GuardShape, EffectInv, processes
<1>6. ASSUME KillRoot \/ WriteEvidence \/ CleanupOrphan \/ \E w \in Workers : KillDescendant(w)
      PROVE  EffectInv'
  <2>1. guard'.at \notin {"list", "root"}
    BY <1>6 DEF KillRoot, WriteEvidence, CleanupOrphan, KillDescendant, BeatInv, GuardShape
  <2> QED
    BY <1>6, <2>1 DEF KillRoot, KillGroup, WriteEvidence, CleanupOrphan, KillDescendant,
       EffectInv, processes
<1>7. ASSUME \/ Block \/ Wake \/ ManagerDies \/ UNCHANGED watchVars
             \/ \E w \in Workers, p \in Workers \cup {"root"} : Fork(p, w)
      PROVE  EffectInv'
  BY <1>7 DEF Block, Wake, ManagerDies, Fork, processes, watchVars, EffectInv
<1>8. CASE OperatorReads
  BY <1>8 DEF OperatorReads, processes, EffectInv
<1>9. CASE OperatorKills
  <2>1. effect' = effect \/ effect' = "none"
    BY <1>9 DEF OperatorKills, KillGroup
  <2> QED
    BY <1>9, <2>1 DEF OperatorKills, EffectInv
<1> QED
  BY <1>1, <1>2, <1>3, <1>4, <1>5, <1>6, <1>7, <1>8, <1>9 DEF WatchNext

LEMMA OperatorHears ==
  ASSUME OperatorInv, BeatInv, EffectInv, [WatchNext]_watchVars
  PROVE  OperatorInv'
<1>1. PICK n \in Nat, m \in Nat : n = calls /\ m = operator.calls /\ m \in 0..n
  BY DEF OperatorInv
<1>2. CASE OperatorReads
  <2>1. calls' = n /\ operator'.calls = n
    BY <1>1, <1>2 DEF OperatorReads
  <2>2. operator'.message = Advice /\ cap' = cap
    BY <1>2 DEF OperatorReads
  <2>3. Advice = "nothing in flight" => cap.names \in {"null", "read-only"}
    BY DEF Advice
  <2>4. Heard' => cap'.names \in {"null", "read-only"}
    BY <2>2, <2>3 DEF Heard
  <2>5. n \in Nat /\ n \in 0..n
    BY <1>1
  <2> QED
    BY <2>1, <2>4, <2>5 DEF OperatorInv
<1>3. CASE OperatorKills
  <2>1. operator'.at = "done" /\ operator'.calls = 0 /\ calls' = n
    BY <1>1, <1>3 DEF OperatorKills
  <2>2. ~Heard'
    BY <2>1 DEF Heard
  <2>3. n \in Nat /\ 0 \in 0..n
    BY <1>1
  <2> QED
    BY <2>1, <2>2, <2>3 DEF OperatorInv
<1>4. ASSUME NEW c \in Declared \ {"null"}, Declare(c)
      PROVE  OperatorInv'
  <2>1. calls' = n + 1 /\ operator'.calls = m
    BY <1>1, <1>4 DEF Declare
  <2>2. n + 1 \in Nat /\ m \in 0..(n + 1) /\ m # n + 1
    BY <1>1
  <2>3. ~Heard'
    BY <2>1, <2>2 DEF Heard
  <2> QED
    BY <2>1, <2>2, <2>3 DEF OperatorInv
<1>5. ASSUME UNCHANGED <<calls, operator>>, cap'.names \in {cap.names, "null"}
      PROVE  OperatorInv'
  BY <1>5 DEF OperatorInv, Heard
<1>6. CASE Settle
  <2>1. UNCHANGED <<calls, operator>> /\ cap'.names = "null"
    BY <1>6 DEF Settle
  <2> QED
    BY <1>5, <2>1
<1>7. CASE Poll
  <2>1. UNCHANGED <<calls, operator>> /\ cap'.names = cap.names
    BY <1>7 DEF Poll, BeatInv, GuardShape, EffectInv
  <2> QED
    BY <1>5, <2>1
<1>8. ASSUME \/ Beat \/ Block \/ Wake \/ Perform \/ ManagerDies \/ UNCHANGED watchVars
             \/ \E w \in Workers : KillDescendant(w) \/ \E p \in Workers \cup {"root"} : Fork(p, w)
             \/ CleanupOrphan \/ ReadCapability \/ ListDescendants \/ KillRoot \/ WriteEvidence
      PROVE  UNCHANGED <<calls, operator, cap>>
  BY <1>8 DEF Beat, Block, Wake, Perform, ManagerDies, KillDescendant, Fork, CleanupOrphan,
     ReadCapability, ListDescendants, KillRoot, WriteEvidence, watchVars
<1> QED
  BY <1>2, <1>3, <1>4, <1>5, <1>6, <1>7, <1>8 DEF WatchNext

LEMMA NothingIsLeft ==
  ASSUME WatchdogAssumption, BeatsArePlausible, BeatInv, ProcessInv, [WatchNext]_watchVars
  PROVE  ProcessInv'
<1> USE DEF WatchdogAssumption
<1>1. ASSUME NEW w \in Workers, NEW p \in Workers \cup {"root"}, Fork(p, w)
      PROVE  ProcessInv'
  <2>1. /\ under' = [under EXCEPT ![w] = p] /\ under[w] = "none" /\ Alive(p)
        /\ UNCHANGED <<slow, managerState, guard, haltfile>>
        /\ p = "root" => managerState = "running"
    BY <1>1 DEF Fork
  <2>2. \A q \in Workers \cup {"root"} : Alive(q) => Alive(q)'
    BY <2>1 DEF Alive, ProcessInv
  <2>3. managerState # "dead" => \A x \in Workers :
          under'[x] \in {"none", "root"} \/ \E q \in Workers : under'[x] = q /\ Alive(q)'
    BY <2>1, <2>2 DEF ProcessInv
  <2>4. ASSUME managerState # "dead", NEW ws \in SUBSET Workers, ws # {}
        PROVE  \E x \in ws : under'[x] \notin ws
    <3>1. CASE ws = {w}
      BY <2>1, <3>1 DEF Alive, ProcessInv
    <3>2. CASE ws # {w}
      <4>1. PICK x \in ws \ {w} : under[x] \notin ws \ {w}
        <5>1. ws \ {w} # {} /\ ws \ {w} \in SUBSET Workers
          BY <2>4, <3>2
        <5> QED
          BY <2>4, <5>1 DEF ProcessInv
      <4>2. under[x] # w
        BY <2>1, <2>4, <4>1 DEF Alive, ProcessInv
      <4> QED
        BY <2>1, <4>1, <4>2 DEF ProcessInv
    <3> QED
      BY <3>1, <3>2
  <2>5. ~slow => ~Killing
    BY <1>1 DEF Fork
  <2>6. slow \/ haltfile \in {"none", "deadman"}
    BY <2>1 DEF ProcessInv, Alive, BeatInv, GuardShape
  <2> QED
    BY <2>1, <2>3, <2>4, <2>5, <2>6 DEF ProcessInv, Killing
<1>2. ASSUME \/ Block \/ Beat \/ Perform \/ Settle \/ Wake \/ UNCHANGED watchVars
             \/ OperatorReads \/ \E c \in Declared \ {"null"} : Declare(c)
      PROVE  ProcessInv'
  <2>1. /\ UNCHANGED <<slow, under, haltfile>>
        /\ guard'.at = guard.at /\ guard'.listed = guard.listed
        /\ managerState' \in {"running", "blocked", "dead"}
        /\ managerState' = "dead" <=> managerState = "dead"
        /\ ~slow /\ guard.at \in {"capability", "list", "root"} => managerState' = "blocked"
    BY <1>2 DEF Block, Beat, Perform, Settle, Wake, Declare, OperatorReads, Killing, processes,
       watchVars,
       ProcessInv, BeatInv, GuardShape
  <2>2. \A q \in Workers : Alive(q)' <=> Alive(q)
    BY <2>1 DEF Alive
  <2> QED
    BY <2>1, <2>2 DEF ProcessInv
<1>3. ASSUME NEW dead \in SUBSET (Workers \cup {"root"}), under' = Reaped(dead)
      PROVE  DOMAIN under' = Workers /\ \A w \in Workers : Alive(w)' => Alive(w) /\ w \notin dead
  BY <1>3 DEF Reaped, Alive
<1>4. CASE ManagerDies
  <2>1. under' = Reaped({"root"}) /\ guard.at = "watching" /\ managerState' = "dead"
        /\ UNCHANGED <<slow, guard, haltfile>>
    BY <1>4 DEF ManagerDies, Killing, ProcessInv
  <2> QED
    BY <1>3, <2>1 DEF ProcessInv
<1>5. CASE CleanupOrphan
  <2>1. guard'.at = "gone" /\ haltfile' = "none" /\ UNCHANGED processes /\ managerState = "dead"
    BY <1>5 DEF CleanupOrphan, BeatInv, GuardShape
  <2>2. \A q \in Workers : Alive(q)' <=> Alive(q)
    BY <2>1 DEF Alive, processes
  <2> QED
    BY <2>1, <2>2 DEF ProcessInv, processes
<1>6. CASE Poll
  <2>1. /\ guard.at = "watching" /\ managerState # "dead"
        /\ UNCHANGED <<slow, managerState, under, haltfile>>
        /\ guard'.at = "watching" \/ (guard'.at = "capability" /\ ~Accepted)
    BY <1>6 DEF Poll, processes, BeatInv, GuardShape
  <2>2. ~slow /\ guard'.at = "capability" => managerState = "blocked"
    BY <1>6, <2>1, BeatsAreAccepted DEF Poll, BeatInv, GuardShape
  <2>3. \A q \in Workers : Alive(q)' <=> Alive(q)
    BY <2>1 DEF Alive
  <2> QED
    BY <2>1, <2>2, <2>3 DEF ProcessInv
<1>7. CASE ReadCapability \/ ListDescendants
  <2>1. /\ UNCHANGED <<slow, managerState, under, haltfile>>
        /\ \/ guard.at = "capability" /\ guard'.at = "list"
           \/ guard.at = "list" /\ guard'.at = "root" /\ guard'.listed = Descendants
    BY <1>7 DEF ReadCapability, ListDescendants, processes, BeatInv, GuardShape
  <2>2. \A q \in Workers : Alive(q)' <=> Alive(q)
    BY <2>1 DEF Alive
  <2>3. ~slow => managerState = "blocked" /\ \A w \in Workers : Alive(w) => w \in Descendants
    BY <2>1, AllAreListed DEF ProcessInv
  <2> QED
    BY <2>1, <2>2, <2>3 DEF ProcessInv
<1>11. ASSUME KillGroup
       PROVE  /\ managerState' = "dead" /\ DOMAIN under' = Workers
              /\ \A w \in Workers : Alive(w)' => Alive(w)
  <2>1. {"root"} \cup (IF Leads THEN Descendants ELSE {}) \in SUBSET (Workers \cup {"root"})
    BY DEF Descendants
  <2> QED
    BY <1>3, <1>11, <2>1 DEF KillGroup
<1>8. CASE KillRoot
  <2>1. /\ KillGroup /\ guard.at = "root" /\ guard'.at = "tree"
        /\ guard'.listed = guard.listed /\ UNCHANGED <<slow, haltfile>>
    BY <1>8 DEF KillRoot, BeatInv, GuardShape
  <2> QED
    BY <1>11, <2>1 DEF ProcessInv
<1>12. CASE OperatorKills
  <2>1. /\ UNCHANGED <<slow, guard, haltfile>>
        /\ ~slow => guard.at \in {"watching", "gone"}
    BY <1>12 DEF OperatorKills, Killing
  <2>2. CASE managerState = "dead"
    <3>1. UNCHANGED <<managerState, under>>
      BY <1>12, <2>2 DEF OperatorKills
    <3>2. \A q \in Workers : Alive(q)' <=> Alive(q)
      BY <3>1 DEF Alive
    <3> QED
      BY <2>1, <2>2, <3>1, <3>2 DEF ProcessInv
  <2>3. CASE managerState # "dead"
    <3>1. KillGroup
      BY <1>12, <2>3 DEF OperatorKills
    <3> QED
      BY <1>11, <2>1, <3>1 DEF ProcessInv
  <2> QED
    BY <2>2, <2>3
<1>9. ASSUME NEW w \in Workers, KillDescendant(w)
      PROVE  ProcessInv'
  <2>1. /\ guard.at = "tree" /\ guard'.at = "tree" /\ guard'.listed = guard.listed \ {w}
        /\ UNCHANGED <<slow, managerState, haltfile>>
    BY <1>9 DEF KillDescendant, BeatInv, GuardShape
  <2>2. DOMAIN under' = Workers /\ \A x \in Workers : Alive(x)' => Alive(x) /\ x # w
    <3>1. CASE Alive(w)
      BY <1>3, <1>9, <3>1 DEF KillDescendant
    <3>2. CASE ~Alive(w)
      BY <1>9, <3>2 DEF KillDescendant, Alive, ProcessInv
    <3> QED
      BY <3>1, <3>2
  <2> QED
    BY <2>1, <2>2 DEF ProcessInv
<1>10. CASE WriteEvidence
  <2>1. /\ guard.at = "tree" /\ guard.listed = {} /\ guard'.at = "gone"
        /\ UNCHANGED <<slow, managerState, under>>
    BY <1>10 DEF WriteEvidence, processes, BeatInv, GuardShape
  <2>2. \A q \in Workers : Alive(q)' <=> Alive(q)
    BY <2>1 DEF Alive
  <2> QED
    BY <2>1, <2>2 DEF ProcessInv
<1> QED
  BY <1>1, <1>2, <1>4, <1>5, <1>6, <1>7, <1>8, <1>9, <1>10, <1>12 DEF WatchNext

\* KillsAreHonest, for any workers and limits where the manager's beats pass for beats: a
\* manager that beats is spared by the guard; the evidence, when the guard is not outrun,
\* and the operator's message, unless a worker is called meanwhile, name the effect that is
\* cut short; and nothing of a run that was declared halted is left unless it was outrun.
THEOREM KillsAreAccountedFor ==
  ASSUME WatchdogAssumption, BeatsArePlausible
  PROVE  WatchSpec => []KillsAreHonest
<1> DEFINE Inv == BeatInv /\ EffectInv /\ ProcessInv /\ OperatorInv
<1>1. WatchInit => Inv
  <2> SUFFICES ASSUME WatchInit PROVE Inv
    OBVIOUS
  <2>1. BeatInv
    BY DEF WatchInit, BeatInv, GuardShape, Messages, None, Killing, WatchdogAssumption
  <2>2. EffectInv
    BY DEF WatchInit, EffectInv
  <2>3. ProcessInv
    BY DEF WatchInit, ProcessInv, Alive, WatchdogAssumption
  <2>4. OperatorInv
    BY DEF WatchInit, OperatorInv, Heard
  <2> QED
    BY <2>1, <2>2, <2>3, <2>4
<1>2. Inv /\ [WatchNext]_watchVars => Inv'
  BY BeatsAreSeen, EffectsAreNamed, NothingIsLeft, OperatorHears
<1>3. Inv => KillsAreHonest
  BY DEF BeatInv, EffectInv, ProcessInv, OperatorInv, Heard, KillsAreHonest, BeatingManagerIsSpared,
     CutEffectIsReported, OperatorIsTold, HaltedTreeIsSilent
<1> QED
  BY <1>1, <1>2, <1>3, PTL DEF WatchSpec

-----------------------------------------------------------------------------
(* ChaosHarness.                                                            *)

\* Where the manager is, and the steps that this start of it has come past the look of.
Places ==
  /\ step \in 1..(Steps + 1) /\ at \in {"look", "act", "record", "save"}
  /\ at # "look" => step <= Steps
  /\ DOMAIN sent = 1..Steps /\ DOMAIN recorded = 1..Steps
  /\ \A k \in 1..Steps : sent[k] \in Nat /\ recorded[k] \in Nat

Entered(k) == k < step \/ (k = step /\ at # "look")
Worked(k) == k < step \/ (k = step /\ at \in {"record", "save"})

Killable == {"start", "poll", "kill", "guard", "refusal", "restart"}

\* The first start takes every step once, in order.
FirstInv ==
  \A k \in 1..Steps :
    /\ sent[k] = IF Worked(k) THEN 1 ELSE 0
    /\ recorded[k] > 0 => Worked(k)
    /\ k \in intents => Entered(k)
    /\ k \in saved => k < step

\* The second start works again on a step that survived, or reports it as skipped.
SecondInv ==
  /\ skipped \subseteq Int /\ \A k \in skipped : k < step
  /\ \A k \in survived : sent[k] = 1 \/ (Entered(k) /\ k \notin skipped)

ChaosInv ==
  /\ Places
  /\ survived \subseteq 1..Steps /\ saved \subseteq 1..Steps
  /\ stage \in Killable => FirstInv /\ survived \subseteq saved
  /\ stage = "start" => victim = "off" /\ step = 1 /\ at = "look"
  /\ stage = "resumed" => SecondInv
  /\ stage = "probes" => victim = "done" /\ NoDuplicates /\ \A k \in survived : sent[k] = 1
  /\ stage # "over" => verdict = "none"
  /\ verdict = "pass" => victim = "done" /\ NoDuplicates /\ \A k \in survived : sent[k] = 1
  /\ verdict = "halt" => victim = "unresolved" /\ NoDuplicates
  /\ stage \in Killable \cup {"resumed", "probes", "over"}

LEMMA ManagerKeeps ==
  ASSUME ChaosAssumption, ChaosInv, Manager
  PROVE  ChaosInv'
<1> USE DEF ChaosAssumption
<1>1. /\ stage' = stage /\ survived' = survived /\ verdict' = verdict
      /\ Running
  BY DEF Manager, LookStep, ActStep, RecordStep, SaveStep, Finish, Break
<1>2. Places' /\ saved' \subseteq 1..Steps
  <2>1. CASE LookStep
    BY <2>1 DEF LookStep, StepTo, ChaosInv, Places
  <2>2. CASE ActStep
    BY <2>2 DEF ActStep, StepTo, ChaosInv, Places
  <2>3. CASE RecordStep
    BY <2>3 DEF RecordStep, StepTo, ChaosInv, Places
  <2>4. CASE SaveStep
    BY <2>4 DEF SaveStep, StepTo, ChaosInv, Places
  <2>5. CASE Finish \/ Break
    BY <2>5 DEF Finish, Break, managerVars, ChaosInv, Places
  <2> QED
    BY <2>1, <2>2, <2>3, <2>4, <2>5 DEF Manager
<1>3. stage \in Killable => FirstInv' /\ saved \subseteq saved'
  <2> SUFFICES ASSUME stage \in Killable PROVE FirstInv' /\ saved \subseteq saved'
    OBVIOUS
  <2> USE DEF Entered, Worked
  <2>1. CASE LookStep
    <3>1. step \notin saved /\ recorded[step] = 0 /\ step \notin intents
      BY <2>1 DEF LookStep, ChaosInv, Places, FirstInv
    <3>2. at = "look" /\ at' = "act" /\ step' = step /\ intents' \subseteq intents \cup {step}
      BY <2>1, <3>1 DEF LookStep, StepTo
    <3> QED
      BY <2>1, <3>1, <3>2 DEF LookStep, ChaosInv, Places, FirstInv
  <2>2. CASE ActStep
    BY <2>2 DEF ActStep, StepTo, ChaosInv, Places, FirstInv
  <2>3. CASE RecordStep
    BY <2>3 DEF RecordStep, StepTo, ChaosInv, Places, FirstInv
  <2>4. CASE SaveStep
    BY <2>4 DEF SaveStep, StepTo, ChaosInv, Places, FirstInv
  <2>5. CASE Finish \/ Break
    BY <2>5 DEF Finish, Break, managerVars, ChaosInv, Places, FirstInv
  <2> QED
    BY <2>1, <2>2, <2>3, <2>4, <2>5 DEF Manager
<1>4. stage = "resumed" => SecondInv'
  <2> SUFFICES ASSUME stage = "resumed" PROVE SecondInv'
    OBVIOUS
  <2> USE DEF Entered
  <2> step \in Int /\ survived \subseteq Int /\ skipped \subseteq Int /\ \A k \in skipped : k < step
    BY DEF ChaosInv, Places, SecondInv
  <2>1. CASE LookStep
    <3>1. \A k \in survived : k # step \/ sent[k] = 1
      BY <2>1 DEF LookStep, ChaosInv, SecondInv
    <3>2. sent' = sent /\ at = "look"
      BY <2>1 DEF LookStep
    <3>3. CASE skipped' = skipped \cup {step} /\ step' = step + 1 /\ at' = "look"
      BY <1>1, <3>1, <3>2, <3>3 DEF ChaosInv, SecondInv
    <3>4. CASE skipped' = skipped /\ step' = step
      BY <1>1, <3>1, <3>2, <3>4 DEF ChaosInv, SecondInv
    <3> QED
      BY <2>1, <3>3, <3>4 DEF LookStep, StepTo
  <2>2. CASE ActStep
    <3>1. /\ \A k \in survived : k = step \/ sent'[k] = sent[k]
          /\ at' = "record" /\ step' = step /\ skipped' = skipped
      BY <2>2 DEF ActStep, StepTo, ChaosInv, Places
    <3> QED
      BY <1>1, <3>1 DEF ChaosInv, SecondInv
  <2>3. CASE RecordStep
    BY <1>1, <2>3 DEF RecordStep, StepTo, ChaosInv, Places, SecondInv
  <2>4. CASE SaveStep
    <3>1. sent' = sent /\ at' = "look" /\ step' = step + 1 /\ skipped' = skipped
      BY <2>4 DEF SaveStep, StepTo
    <3> QED
      BY <1>1, <3>1 DEF ChaosInv, SecondInv
  <2>5. CASE Finish \/ Break
    BY <1>1, <2>5 DEF Finish, Break, managerVars, ChaosInv, Places, SecondInv
  <2> QED
    BY <2>1, <2>2, <2>3, <2>4, <2>5 DEF Manager
<1> QED
  BY <1>1, <1>2, <1>3, <1>4 DEF ChaosInv, Running

LEMMA HarnessKeeps ==
  ASSUME ChaosAssumption, ChaosInv, Harness
  PROVE  ChaosInv'
<1> USE DEF ChaosAssumption, Entered, Worked
<1>1. CASE FirstStart
  BY <1>1 DEF FirstStart, StartManager, StepTo, ChaosInv, Places, FirstInv, Killable
<1>2. CASE PollCheckpoints
  BY <1>2 DEF PollCheckpoints, Fails, managerVars, ChaosInv, Places, FirstInv, Killable
<1>3. CASE Kill
  BY <1>3 DEF Kill, Fails, managerVars, ChaosInv, Places, FirstInv, Killable
<1>4. CASE GuardDisposition \/ Refusal
  BY <1>4 DEF GuardDisposition, Refusal, Fails, managerVars, ChaosInv, Places, FirstInv, Killable
<1>5. CASE Restart
  BY <1>5 DEF Restart, StartManager, StepTo, ChaosInv, Places, FirstInv, SecondInv, Killable
<1>6. CASE JudgeHalt
  BY <1>6 DEF JudgeHalt, managerVars, ChaosInv, Places, NoDuplicates, Killable
<1>7. CASE JudgeResumed
  BY <1>7 DEF JudgeResumed, Fails, KillTest, DoubleRunTest, managerVars, ChaosInv, Places,
     SecondInv, NoDuplicates, Killable
<1>8. CASE Probes
  BY <1>8 DEF Probes, managerVars, ChaosInv, Places, NoDuplicates, Killable
<1> QED
  BY <1>1, <1>2, <1>3, <1>4, <1>5, <1>6, <1>7, <1>8 DEF Harness

\* RecoveryIsEarned, for any project and number of steps: what the harness certifies held.
THEOREM CertifiedRecoveries ==
  ASSUME ChaosAssumption
  PROVE  ChaosSpec => []RecoveryIsEarned
<1>1. ChaosInit => ChaosInv
  BY DEF ChaosAssumption, ChaosInit, ChaosInv, Places, FirstInv, Entered, Worked, Killable
<1>2. ChaosInv /\ [ChaosNext]_chaosVars => ChaosInv'
  <2> SUFFICES ASSUME ChaosInv, [ChaosNext]_chaosVars PROVE ChaosInv'
    OBVIOUS
  <2>1. CASE Guard \/ UNCHANGED chaosVars
    <3>1. UNCHANGED <<victim, managerVars, stage, survived, verdict>>
      BY <2>1 DEF Guard, chaosVars
    <3>2. Places' = Places /\ FirstInv' = FirstInv /\ SecondInv' = SecondInv
          /\ NoDuplicates' = NoDuplicates
      BY <3>1 DEF managerVars, Places, FirstInv, SecondInv, Entered, Worked, NoDuplicates
    <3> QED
      BY <3>1, <3>2 DEF managerVars, ChaosInv
  <2> QED
    BY <2>1, ManagerKeeps, HarnessKeeps DEF ChaosNext
<1>3. ChaosInv => RecoveryIsEarned
  BY DEF ChaosInv, RecoveryIsEarned
<1> QED
  BY <1>1, <1>2, <1>3, PTL DEF ChaosSpec

-----------------------------------------------------------------------------
(* ActiveTree.                                                              *)

FileNames == Paths \cup {"extra"}
Inventory(n) == DOMAIN n \subseteq FileNames /\ n = [p \in DOMAIN n |-> n[p]]

\* A directory was filled from the inventory it is named after, whatever became of it.
TreeShape ==
  \A n \in DOMAIN trees :
    /\ Inventory(n) /\ Inventory(trees[n].files)
    /\ trees[n].manifest \in {n, NoTree, Unreadable}
    /\ trees[n] = [manifest |-> trees[n].manifest, files |-> trees[n].files]

PromoterShape ==
  /\ promoter.at \in {"idle", "staged", "collecting"}
  /\ promoter.at # "idle" =>
       /\ promoter = [at |-> promoter.at, name |-> promoter.name, payload |-> promoter.payload,
                      garbage |-> promoter.garbage]
       /\ promoter.payload # NoTree => promoter.payload = promoter.name /\ Inventory(promoter.name)

ReaderShape ==
  /\ reader.at \in {"idle", "resolve", "inventory", "hash", "appendix", "prompts"}
  /\ reader.at \notin {"idle", "hash"} => reader = [at |-> reader.at, tree |-> reader.tree]
  /\ reader.at = "hash" =>
       reader = [at |-> "hash", tree |-> reader.tree, manifest |-> reader.manifest,
                 listed |-> reader.listed]

HistoryShape ==
  /\ \E S : history \in Seq(S)
  /\ damage \in Nat /\ concurrent \in Nat

Shapes == TreeShape /\ PromoterShape /\ ReaderShape /\ HistoryShape

LEMMA NamesAreInventories ==
  ASSUME NEW n, Inventory(n)
  PROVE  n # NoTree /\ n # Unreadable
<1>1. DOMAIN NoTree = {"none"} /\ DOMAIN Unreadable = {"unreadable"}
  BY DEF NoTree, Unreadable
<1>2. "none" \notin FileNames /\ "unreadable" \notin FileNames
  BY DEF FileNames, Paths, Appendix, Prompt
<1> QED
  BY <1>1, <1>2 DEF Inventory

LEMMA PartsOfInventories ==
  ASSUME NEW n, Inventory(n), NEW S, S \subseteq DOMAIN n
  PROVE  /\ Inventory(Restrict(n, S)) /\ DOMAIN Restrict(n, S) = S
         /\ \A p \in S : Restrict(n, S)[p] = n[p]
BY DEF Inventory, Restrict

\* What each step does to the directories.
LEMMA StageStep ==
  ASSUME Shapes, Stage
  PROVE  /\ promoter.at = "idle" /\ promoter'.at = "staged" /\ promoter'.garbage = {}
         /\ PromoterShape'
         /\ UNCHANGED <<active, trees, history, previous, reader, report, damage, concurrent>>
<1>1. CASE \E p \in DOMAIN trees[active].files, c \in Contents :
             LET payload == [trees[active].files EXCEPT ![p] = c] IN
             promoter' = [at |-> "staged", name |-> Generate(payload), payload |-> payload,
                          garbage |-> {}]
  <2>1. active \in DOMAIN trees
    BY DEF Stage
  <2>2. PICK p \in DOMAIN trees[active].files, c \in Contents :
          promoter' = [at |-> "staged", name |-> [trees[active].files EXCEPT ![p] = c],
                       payload |-> [trees[active].files EXCEPT ![p] = c], garbage |-> {}]
    BY <1>1 DEF Generate
  <2>3. Inventory([trees[active].files EXCEPT ![p] = c])
    BY <2>1 DEF Shapes, TreeShape, Inventory
  <2> QED
    BY <2>2, <2>3 DEF Stage, PromotionUnchanged, PromoterShape
<1>2. CASE \E n \in DOMAIN trees :
             promoter' = [at |-> "staged", name |-> trees[n].manifest, payload |-> NoTree,
                          garbage |-> {}]
  BY <1>2 DEF Stage, PromotionUnchanged, PromoterShape
<1> QED
  BY <1>1, <1>2 DEF Stage

LEMMA BeginStep ==
  ASSUME Shapes, Begin
  PROVE  /\ promoter.at = "staged" /\ promoter'.at = "collecting" /\ promoter'.garbage = Garbage
         /\ PromoterShape' /\ concurrent' = concurrent + 1
         /\ UNCHANGED <<active, trees, history, previous, reader, report, damage>>
<1>1. promoter' = [at |-> "collecting", name |-> promoter.name, payload |-> promoter.payload,
                   garbage |-> Garbage]
  BY DEF Begin, Shapes, PromoterShape
<1> QED
  BY <1>1 DEF Begin, Shapes, PromotionUnchanged, PromoterShape

\* A tree that is collected loses its manifest, files, or its directory.
LEMMA CollectStep ==
  ASSUME Shapes, Collect
  PROVE  \E n \in promoter.garbage \cap DOMAIN trees :
           /\ promoter.at = "collecting"
           /\ \A m \in DOMAIN trees : m # n => m \in DOMAIN trees' /\ trees'[m] = trees[m]
           /\ DOMAIN trees' \subseteq DOMAIN trees
           /\ n \in DOMAIN trees' =>
                /\ trees'[n] = [manifest |-> trees'[n].manifest, files |-> trees'[n].files]
                /\ trees'[n].manifest \in {trees[n].manifest, NoTree}
                /\ Inventory(trees'[n].files)
                /\ \A p \in DOMAIN trees'[n].files :
                     p \in DOMAIN trees[n].files /\ trees'[n].files[p] = trees[n].files[p]
           /\ UNCHANGED <<active, history, previous, promoter, reader, report, damage, concurrent>>
<1>1. PICK n \in promoter.garbage \cap DOMAIN trees :
        \/ trees' = [trees EXCEPT ![n].manifest = NoTree]
        \/ \E p \in DOMAIN trees[n].files :
             trees' = [trees EXCEPT ![n].files = Restrict(@, DOMAIN @ \ {p})]
        \/ trees' = Restrict(trees, DOMAIN trees \ {n})
  BY DEF Collect
<1>2. /\ promoter.at = "collecting"
      /\ UNCHANGED <<active, history, previous, promoter, reader, report, damage, concurrent>>
  BY DEF Collect, PromotionUnchanged
<1>3. /\ trees[n] = [manifest |-> trees[n].manifest, files |-> trees[n].files]
      /\ Inventory(trees[n].files)
  BY DEF Shapes, TreeShape
<1>4. CASE trees' = [trees EXCEPT ![n].manifest = NoTree]
  BY <1>2, <1>3, <1>4
<1>5. ASSUME NEW p \in DOMAIN trees[n].files,
             trees' = [trees EXCEPT ![n].files = Restrict(@, DOMAIN @ \ {p})]
      PROVE  /\ DOMAIN trees' = DOMAIN trees
             /\ \A m \in DOMAIN trees : m # n => trees'[m] = trees[m]
             /\ trees'[n] = [manifest |-> trees[n].manifest,
                             files |-> Restrict(trees[n].files, DOMAIN trees[n].files \ {p})]
  BY <1>3, <1>5
<1>6. CASE \E p \in DOMAIN trees[n].files :
             trees' = [trees EXCEPT ![n].files = Restrict(@, DOMAIN @ \ {p})]
  <2>1. PICK p \in DOMAIN trees[n].files :
          trees' = [trees EXCEPT ![n].files = Restrict(@, DOMAIN @ \ {p})]
    BY <1>6
  <2>2. PICK files : files = Restrict(trees[n].files, DOMAIN trees[n].files \ {p})
    OBVIOUS
  <2>3. /\ Inventory(files) /\ DOMAIN files \subseteq DOMAIN trees[n].files
        /\ \A q \in DOMAIN files : files[q] = trees[n].files[q]
    BY <1>3, <2>2, PartsOfInventories
  <2>4. trees'[n].manifest = trees[n].manifest /\ trees'[n].files = files
    BY <1>5, <2>1, <2>2
  <2>5. /\ DOMAIN trees' = DOMAIN trees /\ \A m \in DOMAIN trees : m # n => trees'[m] = trees[m]
        /\ trees'[n] = [manifest |-> trees'[n].manifest, files |-> trees'[n].files]
    BY <1>5, <2>1, <2>2
  <2>6. /\ trees'[n].manifest \in {trees[n].manifest, NoTree}
        /\ Inventory(trees'[n].files)
        /\ \A p1 \in DOMAIN trees'[n].files :
             p1 \in DOMAIN trees[n].files /\ trees'[n].files[p1] = trees[n].files[p1]
    BY <2>3, <2>4
  <2> QED
    BY <1>2, <2>5, <2>6
<1>7. CASE trees' = Restrict(trees, DOMAIN trees \ {n})
  BY <1>2, <1>7 DEF Restrict
<1> QED
  BY <1>1, <1>4, <1>6, <1>7

\* A promotion publishes a tree that is there, or its payload under its name, or halts.
LEMMA PublishStep ==
  ASSUME Shapes, NEW reversible \in BOOLEAN, Publish(reversible)
  PROVE  /\ promoter.at = "collecting" /\ promoter.garbage \cap DOMAIN trees = {}
         /\ promoter'.at = "idle" /\ PromoterShape'
         /\ UNCHANGED <<reader, report, damage, concurrent>>
         /\ \/ UNCHANGED <<active, trees, history, previous>>
            \/ /\ active' \in DOMAIN trees'
               /\ \A m \in DOMAIN trees : m \in DOMAIN trees' /\ trees'[m] = trees[m]
               /\ \A m \in DOMAIN trees' : m \notin DOMAIN trees =>
                    m = active' /\ Inventory(m) /\ trees'[m] = [manifest |-> m, files |-> m]
               /\ LET h == IF history = << >> THEN <<active>> ELSE history
                  IN history' = IF Last(h) = active' THEN h ELSE Append(h, active')
<1> DEFINE n == promoter.name
           there == n \in DOMAIN trees
           fails == \/ active = Unreadable
                    \/ there /\ ~(/\ trees[n].manifest = n
                                /\ VerifyTree(trees[n].manifest, trees[n].files))
                    \/ ~there /\ promoter.payload = NoTree
<1>1. /\ promoter.at = "collecting" /\ promoter.garbage \cap DOMAIN trees = {}
      /\ promoter' = [at |-> "idle"]
      /\ UNCHANGED <<reader, report, damage, concurrent>>
  BY DEF Publish, PromotionUnchanged
<1>2. PromoterShape'
  BY <1>1 DEF PromoterShape
<1>3. CASE fails
  BY <1>1, <1>2, <1>3 DEF Publish
<1>4. CASE ~fails
  <2>1. /\ active' = n
        /\ trees' = IF there THEN trees
                    ELSE [m \in DOMAIN trees \cup {n} |->
                            IF m = n THEN [manifest |-> n, files |-> promoter.payload]
                            ELSE trees[m]]
        /\ history' = LET h == IF history = << >> THEN <<active>> ELSE history
                      IN IF Last(h) = n THEN h ELSE Append(h, n)
    BY <1>4 DEF Publish
  <2>2. there \/ (promoter.payload = n /\ Inventory(n))
    BY <1>1, <1>4 DEF Shapes, PromoterShape
  <2> QED
    BY <1>1, <1>2, <2>1, <2>2
<1> QED
  BY <1>3, <1>4

LEMMA ShapesHold ==
  ASSUME ActiveTreeAssumption, Shapes, TreeNext
  PROVE  Shapes'
<1>1. ASSUME Stage \/ Begin
      PROVE  Shapes'
  BY <1>1, StageStep, BeginStep DEF Shapes, TreeShape, ReaderShape, HistoryShape
<1>2. CASE Collect
  <2>1. TreeShape'
    BY <1>2, CollectStep DEF Shapes, TreeShape
  <2> QED
    BY <1>2, <2>1, CollectStep DEF Shapes, PromoterShape, ReaderShape, HistoryShape
<1>3. ASSUME NEW reversible \in BOOLEAN, Publish(reversible)
      PROVE  Shapes'
  <2>1. TreeShape'
    BY <1>3, PublishStep DEF Shapes, TreeShape
  <2>2. \E S : history' \in Seq(S)
    <3>1. PICK S : history \in Seq(S)
      BY DEF Shapes, HistoryShape
    <3>2. /\ history \in Seq(S \cup {active, active'})
          /\ <<active>> \in Seq(S \cup {active, active'})
      BY <3>1
    <3>3. \A h \in Seq(S \cup {active, active'}) :
            Append(h, active') \in Seq(S \cup {active, active'})
      OBVIOUS
    <3>4. \E h \in {history, <<active>>} : history' \in {history, h, Append(h, active')}
      BY <1>3, PublishStep
    <3> QED
      BY <3>2, <3>3, <3>4
  <2> QED
    BY <1>3, <2>1, <2>2, PublishStep DEF Shapes, ReaderShape, HistoryShape
<1>4. ASSUME \/ ReadActive \/ ResolveActive \/ ReadInventory
             \/ HashFiles \/ LoadAppendix \/ LoadPrompts
      PROVE  Shapes'
  <2>1. UNCHANGED <<trees, promoter, history, damage>> /\ concurrent' \in Nat
    <3>1. CASE ReadActive
      BY <3>1 DEF ReadActive, Shapes, HistoryShape
    <3>2. CASE ResolveActive \/ ReadInventory \/ HashFiles \/ LoadAppendix \/ LoadPrompts
      <4>1. ReaderUnchanged
        BY <3>2 DEF ResolveActive, ReadInventory, HashFiles, LoadAppendix, LoadPrompts
      <4> QED
        BY <4>1 DEF ReaderUnchanged, Shapes, HistoryShape
    <3> QED
      BY <1>4, <3>1, <3>2
  <2>2. ReaderShape'
    <3>1. CASE ReadActive
      BY <3>1 DEF ReadActive, ReaderShape
    <3>2. CASE ReadInventory
      BY <3>2 DEF ReadInventory, ReaderGoto, Shapes, ReaderShape
    <3>3. CASE ResolveActive \/ LoadAppendix
      BY <3>3 DEF ResolveActive, LoadAppendix, ReaderGoto, Shapes, ReaderShape
    <3>4. CASE HashFiles \/ LoadPrompts
      <4>1. reader' = [at |-> "appendix", tree |-> reader.tree] \/ reader' = [at |-> "idle"]
        BY <3>4 DEF HashFiles, LoadPrompts
      <4> QED
        BY <4>1 DEF ReaderShape
    <3> QED
      BY <1>4, <3>1, <3>2, <3>3, <3>4
  <2> QED
    BY <2>1, <2>2 DEF Shapes, TreeShape, PromoterShape, HistoryShape
<1>5. CASE Damage
  <2>1. /\ UNCHANGED <<promoter, reader, history, concurrent>>
        /\ damage' = damage + 1
    BY <1>5 DEF Damage
  <2>2. CASE UNCHANGED trees
    BY <2>1, <2>2 DEF Shapes, TreeShape, PromoterShape, ReaderShape, HistoryShape
  <2>3. ASSUME NEW n \in DOMAIN trees, trees' = [trees EXCEPT ![n].manifest = Unreadable]
        PROVE  TreeShape'
    BY <2>3 DEF Shapes, TreeShape
  <2>4. ASSUME NEW n \in DOMAIN trees, NEW files, Inventory(files),
               trees' = [trees EXCEPT ![n].files = files]
        PROVE  TreeShape'
    BY <2>4 DEF Shapes, TreeShape
  <2>5. ASSUME NEW n \in DOMAIN trees, NEW p \in Paths \cup {"extra"}, NEW c \in Contents,
               trees' = [trees EXCEPT ![n].files =
                           [q \in DOMAIN trees[n].files \cup {p} |->
                              IF q = p THEN c ELSE trees[n].files[q]]]
        PROVE  TreeShape'
    <3>1. PICK files : files = [q \in DOMAIN trees[n].files \cup {p} |->
                                  IF q = p THEN c ELSE trees[n].files[q]]
      OBVIOUS
    <3>2. Inventory(files)
      BY <3>1 DEF Shapes, TreeShape, Inventory, FileNames
    <3>3. trees' = [trees EXCEPT ![n].files = files]
      BY <2>5, <3>1
    <3> QED
      BY <2>4, <3>2, <3>3
  <2>6. ASSUME NEW n \in DOMAIN trees, NEW p \in DOMAIN trees[n].files,
               trees' = [trees EXCEPT ![n].files = Restrict(@, DOMAIN @ \ {p})]
        PROVE  TreeShape'
    <3>1. PICK files : files = Restrict(trees[n].files, DOMAIN trees[n].files \ {p})
      OBVIOUS
    <3>2. Inventory(files)
      BY <3>1, PartsOfInventories DEF Shapes, TreeShape
    <3>3. trees' = [trees EXCEPT ![n].files = files]
      BY <2>6, <3>1
    <3> QED
      BY <2>4, <3>2, <3>3
  <2>7. TreeShape'
    <3>1. CASE UNCHANGED trees
      BY <2>2, <3>1 DEF Shapes
    <3>2. CASE ~UNCHANGED trees
      <4>1. PICK n \in DOMAIN trees :
              \/ trees' = [trees EXCEPT ![n].manifest = Unreadable]
              \/ \E p \in Paths \cup {"extra"}, c \in Contents :
                   trees' = [trees EXCEPT ![n].files =
                     [q \in DOMAIN trees[n].files \cup {p} |->
                         IF q = p THEN c ELSE trees[n].files[q]]]
              \/ \E p \in DOMAIN trees[n].files :
                   trees' = [trees EXCEPT ![n].files = Restrict(@, DOMAIN @ \ {p})]
        BY <1>5, <3>2 DEF Damage
      <4>2. CASE trees' = [trees EXCEPT ![n].manifest = Unreadable]
        BY <2>3, <4>2
      <4>3. CASE \E p \in Paths \cup {"extra"}, c \in Contents :
                   trees' = [trees EXCEPT ![n].files =
                     [q \in DOMAIN trees[n].files \cup {p} |->
                         IF q = p THEN c ELSE trees[n].files[q]]]
        BY <2>5, <4>3
      <4>4. CASE \E p \in DOMAIN trees[n].files :
                   trees' = [trees EXCEPT ![n].files = Restrict(@, DOMAIN @ \ {p})]
        BY <2>6, <4>4
      <4> QED
        BY <4>1, <4>2, <4>3, <4>4
    <3> QED
      BY <3>1, <3>2
  <2> QED
    BY <2>1, <2>7 DEF Shapes, PromoterShape, ReaderShape, HistoryShape
<1> QED
  BY <1>1, <1>2, <1>3, <1>4, <1>5 DEF TreeNext

-----------------------------------------------------------------------------
(* One report is of one tree.                                               *)

\* Since the inventory was read the files were at most collected, or published again.
OkInv ==
  /\ reader.at = "hash" =>
       /\ reader.manifest = reader.tree
       /\ reader.tree \in DOMAIN trees =>
            DOMAIN trees[reader.tree].files \subseteq reader.listed \cup DOMAIN reader.tree
  /\ reader.at \in {"appendix", "prompts"} /\ report.tree = "ok" =>
       /\ report.name = reader.tree
       /\ reader.tree \in DOMAIN trees =>
            \A p \in DOMAIN trees[reader.tree].files : trees[reader.tree].files[p] = reader.tree[p]
  /\ reader.at = "prompts" /\ report.tree = "ok" /\ report.appendix.status = "ok" =>
       report.appendix.sha = report.name[Appendix]
  /\ OkReportIsOneTree

LEMMA ReportsAreOfOneTree ==
  ASSUME ActiveTreeAssumption, Shapes, OkInv, [TreeNext]_treeVars
  PROVE  OkInv'
<1>1. ASSUME UNCHANGED <<trees, reader, report>>
      PROVE  OkInv'
  BY <1>1 DEF OkInv, OkReportIsOneTree
<1>2. CASE Collect
  <2>1. /\ UNCHANGED <<reader, report>> /\ DOMAIN trees' \subseteq DOMAIN trees
        /\ \A m \in DOMAIN trees' : \A p \in DOMAIN trees'[m].files :
             p \in DOMAIN trees[m].files /\ trees'[m].files[p] = trees[m].files[p]
    BY <1>2, CollectStep
  <2> QED
    BY <2>1 DEF OkInv, OkReportIsOneTree
<1>3. ASSUME NEW reversible \in BOOLEAN, Publish(reversible)
      PROVE  OkInv'
  <2>1. /\ UNCHANGED <<reader, report>>
        /\ \A m \in DOMAIN trees' :
             (m \in DOMAIN trees /\ trees'[m] = trees[m]) \/ trees'[m].files = m
    BY <1>3, PublishStep
  <2> QED
    BY <2>1 DEF OkInv, OkReportIsOneTree
<1>4. CASE ReadActive
  BY <1>4 DEF ReadActive, OkInv, OkReportIsOneTree
<1>5. CASE ResolveActive
  BY <1>5 DEF ResolveActive, ReaderGoto, Shapes, ReaderShape, OkInv, OkReportIsOneTree
<1>6. CASE ReadInventory
  <2>1. UNCHANGED trees /\ reader.at = "inventory"
    BY <1>6 DEF ReadInventory, ReaderUnchanged
  <2>2. CASE reader.tree \in DOMAIN trees /\ trees[reader.tree].manifest \notin {NoTree, Unreadable}
    BY <1>6, <2>1, <2>2 DEF ReadInventory, Shapes, TreeShape, OkInv, OkReportIsOneTree
  <2>3. CASE ~(/\ reader.tree \in DOMAIN trees
               /\ trees[reader.tree].manifest \notin {NoTree, Unreadable})
    BY <1>6, <2>1, <2>3 DEF ReadInventory, ReaderGoto, Shapes, ReaderShape, OkInv, OkReportIsOneTree
  <2> QED
    BY <2>2, <2>3
<1>7. CASE HashFiles
  <2> DEFINE files == IF reader.tree \in DOMAIN trees THEN trees[reader.tree].files ELSE NoTree
             found == [p \in reader.listed |-> IF p \in DOMAIN files THEN files[p] ELSE "not read"]
  <2>1. /\ reader.at = "hash" /\ UNCHANGED trees
        /\ reader' = [at |-> "appendix", tree |-> reader.tree]
        /\ report'.tree = "ok" => report'.name = reader.tree /\ reader.manifest = found
    BY <1>7 DEF HashFiles, ReaderUnchanged, VerifyTree
  <2>2. ASSUME report'.tree = "ok", reader.tree \in DOMAIN trees,
               NEW p \in DOMAIN trees[reader.tree].files
        PROVE  trees[reader.tree].files[p] = reader.tree[p]
    <3>1. reader.tree = found
      BY <2>1, <2>2 DEF OkInv
    <3>2. DOMAIN reader.tree = reader.listed
      BY <3>1
    <3>3. p \in reader.listed
      BY <2>1, <2>2, <3>2 DEF OkInv
    <3>4. found[p] = trees[reader.tree].files[p]
      BY <2>2, <3>3
    <3> QED
      BY <3>1, <3>4
  <2> QED
    BY <2>1, <2>2 DEF OkInv, OkReportIsOneTree
<1>8. ASSUME ReaderShape, NEW p, NEW missing \in {"quarantined", "unavailable"}, report.tree = "ok",
             reader.at \in {"appendix", "prompts"}, Load(p, missing).status = "ok"
      PROVE  Load(p, missing).sha = reader.tree[p]
  BY <1>8 DEF Load, ContextTree, OkInv
<1>9. CASE LoadAppendix
  BY <1>8, <1>9 DEF LoadAppendix, ReaderGoto, ReaderUnchanged, Shapes, ReaderShape, OkInv,
     OkReportIsOneTree
<1>10. CASE LoadPrompts
  BY <1>8, <1>10 DEF LoadPrompts, ReaderUnchanged, Shapes, OkInv, OkReportIsOneTree
<1>11. CASE Damage
  BY <1>11 DEF Damage, OkInv, OkReportIsOneTree
<1> QED
  BY <1>1, <1>2, <1>3, <1>4, <1>5, <1>6, <1>7, <1>9, <1>10, <1>11, StageStep, BeginStep
  DEF TreeNext, treeVars

-----------------------------------------------------------------------------
(* An intact project is not reported as damaged.                            *)

Collecting == promoter.at = "collecting"
Whole(n) == n \in DOMAIN trees /\ trees[n].manifest = n /\ trees[n].files = n

\* As long as the report of the reader must not fail.
Undisturbed == damage = 0 /\ (concurrent = 0 \/ (concurrent = 1 /\ IsInjective(history)))

\* Without damage only garbage is not whole, and what is active is no garbage.
IntactInv ==
  damage = 0 =>
    /\ Whole(active)
    /\ \A n \in DOMAIN trees : Whole(n) \/ (Collecting /\ n \in promoter.garbage)
    /\ Collecting => active \notin promoter.garbage
    /\ history # <<>> => Last(history) = active

\* The tree of the reader is the active one, or the one that was replaced last.
ReaderInv ==
  /\ Undisturbed => report.tree # "fail"
  /\ Undisturbed /\ reader.at # "idle" =>
       /\ Whole(reader.tree)
       /\ Collecting => reader.tree \notin promoter.garbage
       /\ concurrent = 0 =>
            \/ reader.tree = active
            \/ ~Collecting /\ Len(history) >= 2 /\ history[Len(history) - 1] = reader.tree
  /\ Undisturbed /\ reader.at = "hash" =>
       reader.manifest = reader.tree /\ reader.listed = DOMAIN reader.tree

LEMMA HistoryGrows ==
  ASSUME NEW S, NEW h \in Seq(S), NEW n
  PROVE  /\ Append(h, n) # <<>> /\ Last(Append(h, n)) = n /\ Len(Append(h, n)) = Len(h) + 1
         /\ h # <<>> => Len(h) >= 1 /\ Append(h, n)[Len(h)] = Last(h)
         /\ IsInjective(Append(h, n)) => IsInjective(h)
<1>1. h \in Seq(S \cup {n}) /\ n \in S \cup {n}
  OBVIOUS
<1>2. /\ DOMAIN Append(h, n) = 1..(Len(h) + 1) /\ Len(Append(h, n)) = Len(h) + 1
      /\ Append(h, n)[Len(h) + 1] = n /\ \A i \in 1..Len(h) : Append(h, n)[i] = h[i]
      /\ DOMAIN h = 1..Len(h) /\ Len(h) \in Nat
  BY <1>1
<1>3. h # <<>> => Len(h) # 0
  OBVIOUS
<1>4. Append(h, n) # <<>>
  BY <1>2
<1>5. h # <<>> => Len(h) >= 1 /\ Append(h, n)[Len(h)] = Last(h)
  <2>1. h # <<>> => Len(h) \in 1..Len(h)
    BY <1>2, <1>3
  <2> QED
    BY <1>2, <2>1 DEF Last
<1>6. IsInjective(Append(h, n)) => IsInjective(h)
  <2> SUFFICES ASSUME IsInjective(Append(h, n)),
                      NEW i \in 1..Len(h), NEW j \in 1..Len(h), h[i] = h[j]
               PROVE  i = j
    BY <1>2 DEF IsInjective
  <2>1. i \in DOMAIN Append(h, n) /\ j \in DOMAIN Append(h, n) /\ Append(h, n)[i] = Append(h, n)[j]
    BY <1>2
  <2> QED
    BY <2>1 DEF IsInjective
<1> QED
  BY <1>2, <1>4, <1>5, <1>6 DEF Last

\* What a promotion that publishes makes of the history.
LEMMA PublishedHistory ==
  ASSUME Shapes, NEW n, history # <<>> => Last(history) = active,
         LET h == IF history = << >> THEN <<active>> ELSE history
         IN history' = IF Last(h) = n THEN h ELSE Append(h, n)
  PROVE  /\ history' # <<>> /\ Last(history') = n
         /\ n # active => Len(history') >= 2 /\ history'[Len(history') - 1] = active
         /\ IsInjective(history') => IsInjective(history)
<1> DEFINE h == IF history = << >> THEN <<active>> ELSE history
<1>1. PICK S : history \in Seq(S)
  BY DEF Shapes, HistoryShape
<1>2. PICK T : h \in Seq(T)
  <2>1. <<active>> \in Seq({active})
    OBVIOUS
  <2> QED
    BY <1>1, <2>1
<1>3. h # <<>> /\ Last(h) = active /\ Len(h) \in Nat
  BY <1>2 DEF Last
<1>4. IsInjective(h) => IsInjective(history)
  <2>1. IsInjective(<<>>)
    BY DEF IsInjective
  <2> QED
    BY <2>1
<1>5. history' = IF active = n THEN h ELSE Append(h, n)
  BY <1>3
<1> HIDE DEF h
<1>6. CASE active = n
  BY <1>3, <1>4, <1>5, <1>6
<1>7. CASE active # n
  <2>1. /\ Append(h, n) # <<>> /\ Last(Append(h, n)) = n /\ Len(Append(h, n)) = Len(h) + 1
        /\ Len(h) >= 1 /\ Append(h, n)[Len(h)] = Last(h)
        /\ IsInjective(Append(h, n)) => IsInjective(h)
    BY <1>2, <1>3, HistoryGrows
  <2>2. Len(h) + 1 - 1 = Len(h)
    BY <1>3
  <2>3. history' = Append(h, n)
    BY <1>5, <1>7
  <2>4. Len(history') >= 2 /\ history'[Len(history') - 1] = active
    BY <1>3, <2>1, <2>2, <2>3
  <2>5. IsInjective(history') => IsInjective(h)
    BY <2>1, <2>3
  <2> QED
    BY <1>4, <2>1, <2>3, <2>4, <2>5
<1> QED
  BY <1>6, <1>7

LEMMA TreesStayIntact ==
  ASSUME ActiveTreeAssumption, Shapes, IntactInv, [TreeNext]_treeVars
  PROVE  IntactInv'
<1> SUFFICES ASSUME damage' = 0
             PROVE  IntactInv'
  BY DEF IntactInv
<1>1. ASSUME UNCHANGED <<active, trees, history, damage, promoter>>
      PROVE  IntactInv'
  BY <1>1 DEF IntactInv, Whole, Collecting
<1>2. CASE Stage
  BY <1>2, StageStep DEF IntactInv, Whole, Collecting
<1>3. CASE Begin
  BY <1>3, BeginStep DEF IntactInv, Whole, Collecting, Garbage
<1>4. CASE Collect
  BY <1>4, CollectStep DEF IntactInv, Whole, Collecting
<1>5. ASSUME NEW reversible \in BOOLEAN, Publish(reversible)
      PROVE  IntactInv'
  <2>1. damage = 0 /\ \A n \in DOMAIN trees : Whole(n)
    BY <1>5, PublishStep DEF IntactInv
  <2>2. CASE UNCHANGED <<active, trees, history, previous>>
    BY <1>5, <2>1, <2>2, PublishStep DEF IntactInv, Whole, Collecting
  <2>3. CASE ~UNCHANGED <<active, trees, history, previous>>
    <3>1. active' \in DOMAIN trees' /\ \A n \in DOMAIN trees' : Whole(n)'
      BY <1>5, <2>1, <2>3, PublishStep DEF Whole
    <3>2. history' # <<>> /\ Last(history') = active'
      BY <1>5, <2>1, <2>3, PublishStep, PublishedHistory DEF IntactInv
    <3>3. ~Collecting'
      BY <1>5, PublishStep DEF Collecting
    <3> QED
      BY <3>1, <3>2, <3>3 DEF IntactInv
  <2> QED
    BY <2>2, <2>3
<1>6. CASE Damage
  BY <1>6 DEF Damage, Shapes, HistoryShape
<1> QED
  BY <1>1, <1>2, <1>3, <1>4, <1>5, <1>6
  DEF TreeNext, treeVars, ReadActive, ResolveActive, ReadInventory, HashFiles, LoadAppendix,
      LoadPrompts, ReaderUnchanged

LEMMA ReadersAreUndisturbed ==
  ASSUME ActiveTreeAssumption, Shapes, IntactInv, ReaderInv, [TreeNext]_treeVars
  PROVE  ReaderInv'
<1> SUFFICES ASSUME Undisturbed'
             PROVE  ReaderInv'
  BY DEF ReaderInv
<1>1. ASSUME UNCHANGED treeVars
      PROVE  ReaderInv'
  BY <1>1 DEF treeVars, ReaderInv, Undisturbed, Whole, Collecting
<1>2. CASE Stage
  BY <1>2, StageStep DEF ReaderInv, Undisturbed, Whole, Collecting
<1>3. CASE Begin
  <2>1. /\ concurrent = 0 /\ concurrent' = 1 /\ Undisturbed /\ IsInjective(history)
        /\ promoter'.garbage = Garbage /\ ~Collecting
        /\ UNCHANGED <<active, trees, history, reader, report>>
    BY <1>3, BeginStep DEF Undisturbed, Shapes, HistoryShape, Collecting
  <2>2. ASSUME reader.at # "idle"
        PROVE  reader.tree \notin Garbage
    <3>1. CASE reader.tree = active
      BY <3>1 DEF Garbage
    <3>2. CASE Len(history) >= 2 /\ history[Len(history) - 1] = reader.tree
      <4>1. DOMAIN history = 1..Len(history) /\ Len(history) \in Nat
        BY DEF Shapes, HistoryShape
      <4>2. \A i \in DOMAIN history : i + 2 <= Len(history) => history[i] # reader.tree
        BY <2>1, <3>2, <4>1 DEF IsInjective
      <4> QED
        BY <4>2 DEF Garbage
    <3> QED
      BY <2>1, <2>2, <3>1, <3>2 DEF ReaderInv
  <2> QED
    BY <2>1, <2>2 DEF ReaderInv, Whole, Collecting
<1>4. CASE Collect
  BY <1>4, CollectStep DEF ReaderInv, Undisturbed, Whole, Collecting
<1>5. ASSUME NEW reversible \in BOOLEAN, Publish(reversible)
      PROVE  ReaderInv'
  <2>1. /\ Collecting /\ ~Collecting' /\ UNCHANGED <<reader, report, damage, concurrent>>
        /\ \A n : Whole(n) => Whole(n)'
    BY <1>5, PublishStep DEF Collecting, Whole
  <2>2. \/ UNCHANGED <<active, history>>
        \/ /\ history' # <<>> /\ (IsInjective(history') => IsInjective(history))
           /\ active' # active => Len(history') >= 2 /\ history'[Len(history') - 1] = active
    BY <1>5, PublishStep, PublishedHistory DEF IntactInv, Undisturbed
  <2>3. Undisturbed
    <3>1. damage' = 0 /\ (concurrent' = 0 \/ (concurrent' = 1 /\ IsInjective(history')))
      BY DEF Undisturbed
    <3>2. IsInjective(history') => IsInjective(history)
      <4>1. CASE UNCHANGED history
        BY <4>1 DEF IsInjective
      <4>2. CASE history' # <<>> /\ (IsInjective(history') => IsInjective(history))
        BY <4>2
      <4> QED
        BY <2>2, <4>1, <4>2
    <3> QED
      BY <2>1, <3>1, <3>2 DEF Undisturbed
  <2> QED
    BY <2>1, <2>2, <2>3 DEF ReaderInv
<1>6. CASE ReadActive
  <2>1. damage = 0 /\ concurrent' = 0 /\ UNCHANGED <<active, trees, history, promoter>>
    BY <1>6 DEF ReadActive, Undisturbed
  <2>2. active # Unreadable
    BY <2>1, NamesAreInventories DEF IntactInv, Whole, Shapes, TreeShape
  <2>3. reader' = [at |-> "resolve", tree |-> active] /\ report' = NoReport
    BY <1>6, <2>2 DEF ReadActive
  <2> QED
    BY <2>1, <2>3 DEF ReaderInv, IntactInv, NoReport, Whole, Collecting
<1>7. ASSUME ReaderUnchanged, Undisturbed => report'.tree # "fail",
             reader'.at # "idle" => reader.at # "idle" /\ reader'.tree = reader.tree,
             reader'.at = "hash" /\ Undisturbed =>
               reader'.manifest = reader'.tree /\ reader'.listed = DOMAIN reader'.tree
      PROVE  ReaderInv'
  <2>1. Undisturbed /\ UNCHANGED <<active, trees, history, promoter, concurrent>>
    BY <1>7 DEF ReaderUnchanged, Undisturbed
  <2> QED
    BY <1>7, <2>1 DEF ReaderInv, Whole, Collecting
<1>8. ASSUME NEW place \in {"inventory", "appendix", "prompts"},
             reader.at \notin {"idle", "hash"}, ReaderGoto(place)
      PROVE  reader'.at = place /\ reader'.tree = reader.tree
  BY <1>8 DEF ReaderGoto, Shapes, ReaderShape
<1>9. CASE ResolveActive
  <2>1. Undisturbed => Bound(reader.tree, trees)
    BY <1>9 DEF ResolveActive, ReaderInv, Whole, Bound
  <2> QED
    <3>1. ReaderUnchanged /\ reader.at = "resolve"
      BY <1>9 DEF ResolveActive
    <3>2. CASE ReaderGoto("inventory") /\ UNCHANGED report
      <4>1. reader'.at = "inventory" /\ reader'.tree = reader.tree
        BY <1>8, <3>1, <3>2
      <4>2. Undisturbed => report'.tree # "fail"
        BY <3>2 DEF ReaderInv
      <4> QED
        BY <1>7, <3>1, <4>1, <4>2
    <3>3. CASE reader' = [at |-> "idle"] /\ ~Bound(reader.tree, trees)
      BY <1>7, <2>1, <3>1, <3>3
    <3> QED
      BY <1>9, <3>2, <3>3 DEF ResolveActive
<1>10. CASE ReadInventory
  <2>1. Undisturbed => /\ reader.tree \in DOMAIN trees
                       /\ trees[reader.tree].manifest = reader.tree
                       /\ trees[reader.tree].files = reader.tree
                       /\ reader.tree \notin {NoTree, Unreadable}
    BY <1>10, NamesAreInventories DEF ReadInventory, ReaderInv, Whole, Shapes, TreeShape
  <2> QED
    <3>1. ReaderUnchanged /\ reader.at = "inventory"
      BY <1>10 DEF ReadInventory
    <3>2. CASE /\ reader' = [at |-> "hash", tree |-> reader.tree,
                             manifest |-> trees[reader.tree].manifest,
                             listed |-> DOMAIN trees[reader.tree].files]
               /\ UNCHANGED report
      BY <1>7, <2>1, <3>1, <3>2 DEF ReaderInv
    <3>3. CASE /\ ~(/\ reader.tree \in DOMAIN trees
                    /\ trees[reader.tree].manifest \notin {NoTree, Unreadable})
               /\ ReaderGoto("appendix")
      <4>1. reader'.at = "appendix" /\ reader'.tree = reader.tree
        BY <1>8, <3>1, <3>3
      <4>2. ~Undisturbed
        BY <2>1, <3>3
      <4> QED
        BY <1>7, <3>1, <4>1, <4>2
    <3> QED
      BY <1>10, <3>2, <3>3 DEF ReadInventory
<1>11. CASE HashFiles
  <2> DEFINE files == IF reader.tree \in DOMAIN trees THEN trees[reader.tree].files ELSE NoTree
             found == [p \in reader.listed |-> IF p \in DOMAIN files THEN files[p] ELSE "not read"]
  <2>1. Undisturbed => reader.listed \cap DOMAIN reader.manifest \subseteq DOMAIN files
                       /\ found = reader.manifest
    BY <1>11 DEF HashFiles, ReaderInv, Whole, Shapes, TreeShape, Inventory
  <2>2. Undisturbed => report'.tree # "fail"
    BY <1>11, <2>1 DEF HashFiles, VerifyTree
  <2> QED
    BY <1>7, <1>11, <2>2 DEF HashFiles
<1>12. CASE LoadAppendix \/ LoadPrompts
  <2>1. ReaderUnchanged /\ report'.tree = report.tree
    BY <1>12 DEF LoadAppendix, LoadPrompts
  <2>2. CASE LoadAppendix
    <3>1. reader.at = "appendix" /\ ReaderGoto("prompts")
      BY <2>2 DEF LoadAppendix
    <3>2. reader'.at = "prompts" /\ reader'.tree = reader.tree
      BY <1>8, <3>1
    <3>3. Undisturbed => report'.tree # "fail"
      BY <2>1 DEF ReaderInv
    <3> QED
      BY <1>7, <2>1, <3>1, <3>2, <3>3
  <2>3. CASE LoadPrompts
    BY <1>7, <2>1, <2>3 DEF LoadPrompts, ReaderInv
  <2> QED
    BY <1>12, <2>2, <2>3
<1>13. CASE Damage
  BY <1>13 DEF Damage, Undisturbed, Shapes, HistoryShape
<1> QED
  BY <1>1, <1>2, <1>3, <1>4, <1>5, <1>6, <1>9, <1>10, <1>11, <1>12, <1>13 DEF TreeNext

\* ReportTellsTheTree, for any contents, promotions and damage: a good report is of one
\* tree, and without damage no report fails for what one promotion does beside it.
THEOREM ReportsTellTheTree ==
  ASSUME ActiveTreeAssumption
  PROVE  TreeSpec => []ReportTellsTheTree
<1> DEFINE Inv == Shapes /\ OkInv /\ IntactInv /\ ReaderInv
<1>1. TreeInit => Inv
  <2> SUFFICES ASSUME TreeInit
               PROVE  Inv
    OBVIOUS
  <2>1. Inventory(First)
    BY DEF First, Inventory, FileNames
  <2>2. trees[First] = [manifest |-> First, files |-> First] /\ DOMAIN trees = {First}
    BY DEF TreeInit
  <2>3. Shapes
    BY <2>1, <2>2 DEF TreeInit, Shapes, TreeShape, PromoterShape, ReaderShape, HistoryShape
  <2>4. OkInv /\ IntactInv /\ ReaderInv
    BY <2>2
    DEF TreeInit, OkInv, OkReportIsOneTree, IntactInv, ReaderInv, Whole, Collecting, NoReport
  <2> QED
    BY <2>3, <2>4
<1>2. Inv /\ [TreeNext]_treeVars => Inv'
  <2>1. ASSUME Shapes, UNCHANGED treeVars
        PROVE  Shapes'
    BY <2>1 DEF treeVars, Shapes, TreeShape, PromoterShape, ReaderShape, HistoryShape
  <2> QED
    BY <2>1, ShapesHold, ReportsAreOfOneTree, TreesStayIntact, ReadersAreUndisturbed
<1>3. Inv => ReportTellsTheTree
  BY DEF OkInv, ReaderInv, Undisturbed, ReportTellsTheTree, IntactTreeReportsOk
<1> QED
  BY <1>1, <1>2, <1>3, PTL DEF TreeSpec

-----------------------------------------------------------------------------
(***************************************************************************)
(* That a block which a call reported as placed stays (Reconcile), for any *)
(* callers, blocks and releases, in every behaviour that leaves the locks  *)
(* of callers at work alone.  Then the lock names whoever works on the     *)
(* file; one caller at a time passes from its check of the target to the   *)
(* install; and what it installs carries every placed block at its version *)
(* or a later one.  The hypothesis is what run reconcile_reclaim violates: *)
(* the second of two takeovers is the only way to lose a block.            *)
(***************************************************************************)

\* The places between taking the lock and removing it.
WorkPlaces ==
  {"acquired", "read", "check_lock", "check_target", "install", "release", "unlink"}
CallerPlaces == {"lock", "reclaim"} \cup WorkPlaces
Works(c) == caller[c].at \in WorkPlaces

\* No takeover renames its lock over that of a caller at work.
LeavesLiveLocks == \A c, d \in Callers : ReclaimLock(c) => ~(Works(d) /\ mutex.by = d)
LiveLocksAreLeft == [][LeavesLiveLocks]_reconcileVars

BlockStates == [version : Nat, drifted : BOOLEAN, twice : BOOLEAN]
FilesThere == [text : Nat, blocks : [Blocks -> BlockStates]]
CallStates == [at : CallerPlaces, block : Blocks, version : Schemas, reclaimed : BOOLEAN,
               tried : Nat, seen : FilesThere \cup {NoFile}]

PlaceTypes ==
  /\ target \in FilesThere \cup {NoFile}
  /\ mutex \in [by : Callers \cup {"none"}, stale : BOOLEAN]
  /\ caller \in [Callers -> CallStates \cup {Away}]
  /\ placed \in [Blocks -> Nat]
  /\ userEdits \in Nat

\* Whoever works holds the lock.
WorkersHoldTheLock == \A c \in Callers : Works(c) => mutex.by = c

\* A call past its reading saw no later version of its block; at the install it saw
\* every block that was placed and that the user has not touched since.
SawNoLater(state) ==
  state.at \in {"check_lock", "check_target", "install"} /\ state.seen # NoFile =>
    state.seen.blocks[state.block].version <= state.version
SawPlaced(state, versions) ==
  state.at = "install" /\ state.seen # NoFile =>
    \A b \in Blocks : versions[b] # 0 => state.seen.blocks[b].version >= versions[b]
SplicesKeep == \A c \in Callers : SawNoLater(caller[c]) /\ SawPlaced(caller[c], placed)

PlaceInv == PlaceTypes /\ WorkersHoldTheLock /\ SplicesKeep /\ PlacedBlocksStay

\* A file that is there is not the absent one, as soon as there is a block.
LEMMA FileThereIsAFile ==
  ASSUME NEW f \in FilesThere, NEW b \in Blocks
  PROVE  f # NoFile
<1>1. b \in DOMAIN f.blocks
  BY DEF FilesThere
<1>2. DOMAIN NoFile.blocks = {}
  BY DEF NoFile
<1> QED
  BY <1>1, <1>2

LEMMA CallerState ==
  ASSUME PlaceTypes, NEW c \in Callers, caller[c].at # "idle"
  PROVE  caller[c] \in CallStates
BY DEF PlaceTypes, Away

\* A step of one caller that leaves the lock, the file and the placed versions, to a
\* place that the invariant allows it.
LEMMA CallerMoves ==
  ASSUME PlaceInv, NEW c \in Callers, NEW s \in CallStates \cup {Away},
         caller' = [caller EXCEPT ![c] = s], UNCHANGED <<target, mutex, placed, userEdits>>,
         s.at \in WorkPlaces => mutex.by = c, SawNoLater(s), SawPlaced(s, placed)
  PROVE  PlaceInv'
<1> USE DEF PlaceInv
<1>1. \A d \in Callers : caller'[d] = IF d = c THEN s ELSE caller[d]
  BY DEF PlaceTypes
<1>2. PlaceTypes'
  BY DEF PlaceTypes
<1>3. WorkersHoldTheLock'
  BY <1>1 DEF WorkersHoldTheLock, Works
<1>4. SplicesKeep'
  BY <1>1 DEF SplicesKeep
<1>5. PlacedBlocksStay'
  BY DEF PlacedBlocksStay
<1> QED
  BY <1>2, <1>3, <1>4, <1>5

\* The same with a lock that becomes the caller's, when nobody else works.
LEMMA CallerTakesLock ==
  ASSUME PlaceInv, NEW c \in Callers, caller[c].at \in {"lock", "reclaim"},
         \A d \in Callers : Works(d) => FALSE,
         caller' = [caller EXCEPT ![c].at = "acquired"], mutex' = [by |-> c, stale |-> FALSE],
         UNCHANGED <<target, placed, userEdits>>
  PROVE  PlaceInv'
<1> USE DEF PlaceInv
<1>1. PICK s : s = [caller[c] EXCEPT !.at = "acquired"]
  OBVIOUS
<1>2. caller[c] \in CallStates
  BY CallerState
<1>3. s \in CallStates /\ s.at = "acquired"
  BY <1>1, <1>2 DEF CallStates, CallerPlaces, WorkPlaces
<1>4. caller' = [caller EXCEPT ![c] = s]
  BY <1>1
<1>5. \A d \in Callers : caller'[d] = IF d = c THEN s ELSE caller[d]
  BY <1>4 DEF PlaceTypes
<1>6. PlaceTypes'
  BY <1>3, <1>4 DEF PlaceTypes
<1>7. WorkersHoldTheLock'
  BY <1>5 DEF Works, WorkersHoldTheLock
<1>8. SplicesKeep'
  BY <1>3, <1>5 DEF SplicesKeep, SawNoLater, SawPlaced
<1>9. PlacedBlocksStay'
  BY DEF PlacedBlocksStay
<1> QED
  BY <1>6, <1>7, <1>8, <1>9

\* Nobody works when the lock is free, or its holder does not.
LEMMA FreeLock ==
  ASSUME PlaceInv, ReconcileAssumption, mutex = NoMutex
  PROVE  \A d \in Callers : Works(d) => FALSE
BY DEF PlaceInv, WorkersHoldTheLock, NoMutex, ReconcileAssumption

LEMMA ReclaimKeeps ==
  ASSUME PlaceInv, NEW c \in Callers, ReclaimLock(c), LeavesLiveLocks
  PROVE  PlaceInv'
<1>1. \A d \in Callers : Works(d) => FALSE
  BY DEF LeavesLiveLocks, PlaceInv, WorkersHoldTheLock
<1> QED
  BY <1>1, CallerTakesLock DEF ReclaimLock, CallerAt, CallerGoto, counters

LEMMA CreateKeeps ==
  ASSUME PlaceInv, ReconcileAssumption, NEW c \in Callers, CreateLock(c)
  PROVE  PlaceInv'
<1>1. \A d \in Callers : Works(d) => FALSE
  BY FreeLock DEF CreateLock
<1> QED
  BY <1>1, CallerTakesLock DEF CreateLock, CallerAt, CallerGoto, counters

\* A caller that moves on from one place to another, and remembers no other file.
LEMMA CallerGoes ==
  ASSUME PlaceInv, NEW c \in Callers, NEW place \in CallerPlaces, caller[c].at # "idle",
         CallerGoto(c, place), UNCHANGED <<target, mutex, placed, userEdits>>,
         place \in WorkPlaces => Works(c),
         place = "check_target" => caller[c].at = "check_lock",
         place = "install" => \/ caller[c].at = "check_lock" /\ Absent(c)
                              \/ caller[c].at = "check_target" /\ target = caller[c].seen,
         place # "check_lock"
  PROVE  PlaceInv'
<1>1. PICK s : s = [caller[c] EXCEPT !.at = place]
  OBVIOUS
<1>2. caller[c] \in CallStates
  BY CallerState DEF PlaceInv
<1>3. /\ s \in CallStates /\ s.at = place /\ s.seen = caller[c].seen
      /\ s.block = caller[c].block /\ s.version = caller[c].version
  BY <1>1, <1>2 DEF CallStates
<1>4. caller' = [caller EXCEPT ![c] = s]
  BY <1>1 DEF CallerGoto
<1>5. s.at \in WorkPlaces => mutex.by = c
  BY <1>3 DEF PlaceInv, WorkersHoldTheLock
<1>6. SawNoLater(s)
  BY <1>3 DEF PlaceInv, SplicesKeep, SawNoLater, Absent
<1>7. SawPlaced(s, placed)
  BY <1>3 DEF PlaceInv, PlacedBlocksStay, SawPlaced, Absent
<1> QED
  BY <1>3, <1>4, <1>5, <1>6, <1>7, CallerMoves

LEMMA RetryKeeps ==
  ASSUME PlaceInv, NEW c \in Callers, Works(c), Retry(c),
         UNCHANGED <<target, mutex, placed, userEdits>>
  PROVE  PlaceInv'
<1>1. PICK place : place = IF caller[c].tried + 1 = MaxConcurrent THEN "release" ELSE "read"
  OBVIOUS
<1>2. PICK s : s = [caller[c] EXCEPT !.tried = caller[c].tried + 1, !.at = place]
  OBVIOUS
<1>3. caller[c].at # "idle"
  BY DEF Works, WorkPlaces
<1>4. caller[c] \in CallStates
  BY <1>3, CallerState DEF PlaceInv
<1>5. place \in {"release", "read"}
  BY <1>1
<1>6. s \in CallStates /\ s.at = place
  <2>1. place \in CallerPlaces
    BY <1>5 DEF CallerPlaces, WorkPlaces
  <2>2. PICK n \in Nat : n = caller[c].tried + 1
    BY <1>4 DEF CallStates
  <2>3. s = [caller[c] EXCEPT !.tried = n, !.at = place]
    BY <1>2, <2>2
  <2> QED
    BY <1>4, <2>1, <2>3 DEF CallStates
<1>7. caller' = [caller EXCEPT ![c] = s]
  BY <1>1, <1>2 DEF Retry
<1>8. mutex.by = c
  BY DEF PlaceInv, WorkersHoldTheLock
<1>9. SawNoLater(s) /\ SawPlaced(s, placed)
  BY <1>5, <1>6 DEF SawNoLater, SawPlaced
<1> QED
  BY <1>6, <1>7, <1>8, <1>9, CallerMoves

LEMMA LeaveKeeps ==
  ASSUME PlaceInv, NEW c \in Callers, caller' = [caller EXCEPT ![c] = Away],
         UNCHANGED <<target, mutex, placed, userEdits>>
  PROVE  PlaceInv'
<1>1. /\ ~(Away.at \in WorkPlaces) /\ SawNoLater(Away) /\ SawPlaced(Away, placed)
  BY DEF Away, WorkPlaces, SawNoLater, SawPlaced
<1> QED
  BY <1>1, CallerMoves

LEMMA CallKeeps ==
  ASSUME PlaceInv, NEW c \in Callers, NEW b \in Blocks, NEW version \in Schemas,
         Call(c, b, version)
  PROVE  PlaceInv'
<1>1. PICK s : s = [at |-> "lock", block |-> b, version |-> version,
                    reclaimed |-> FALSE, tried |-> 0, seen |-> NoFile]
  OBVIOUS
<1>2. s \in CallStates
  BY <1>1 DEF CallStates, CallerPlaces
<1>3. s.at = "lock"
  BY <1>1
<1>4. s.at \notin WorkPlaces /\ SawNoLater(s) /\ SawPlaced(s, placed)
  BY <1>3 DEF WorkPlaces, SawNoLater, SawPlaced
<1>5. caller' = [caller EXCEPT ![c] = s]
  BY <1>1 DEF Call
<1> QED
  BY <1>2, <1>4, <1>5, CallerMoves DEF Call

LEMMA SightKeeps ==
  ASSUME PlaceInv, NEW c \in Callers, SightStaleLock(c)
  PROVE  PlaceInv'
<1>1. PICK s : s = [caller[c] EXCEPT !.at = "reclaim", !.reclaimed = TRUE]
  OBVIOUS
<1>2. caller[c] \in CallStates
  BY CallerState DEF PlaceInv, SightStaleLock, CallerAt
<1>3. s \in CallStates
  BY <1>1, <1>2 DEF CallStates, CallerPlaces
<1>4. s.at = "reclaim"
  BY <1>1, <1>2 DEF CallStates
<1>5. s.at \notin WorkPlaces /\ SawNoLater(s) /\ SawPlaced(s, placed)
  BY <1>4 DEF WorkPlaces, SawNoLater, SawPlaced
<1>6. caller' = [caller EXCEPT ![c] = s]
  BY <1>1 DEF SightStaleLock
<1> QED
  BY <1>3, <1>5, <1>6, CallerMoves DEF SightStaleLock, counters

\* What is not refused is no later version than the call's.
LEMMA ReadKeeps ==
  ASSUME PlaceInv, ReconcileAssumption, NEW c \in Callers, ReadTarget(c)
  PROVE  PlaceInv'
<1>1. PICK place : place =
        IF Refuses(target, caller[c].block, caller[c].version) THEN "release"
        ELSE IF target # NoFile /\ target.blocks[caller[c].block] = Clean(caller[c].version)
               THEN "release" ELSE "check_lock"
  OBVIOUS
<1>2. PICK s : s = [caller[c] EXCEPT !.seen = target, !.at = place]
  OBVIOUS
<1>3. caller[c] \in CallStates
  BY CallerState DEF PlaceInv, ReadTarget, CallerAt
<1>4. place \in {"release", "check_lock"}
  BY <1>1
<1>5. s \in CallStates
  BY <1>2, <1>3, <1>4 DEF CallStates, CallerPlaces, WorkPlaces, PlaceInv, PlaceTypes
<1>6. /\ s.at = place /\ s.seen = target
      /\ s.block = caller[c].block /\ s.version = caller[c].version
  BY <1>2, <1>3 DEF CallStates
<1>7. caller' = [caller EXCEPT ![c] = s]
  BY <1>1, <1>2 DEF ReadTarget
<1>8. mutex.by = c
  BY DEF PlaceInv, WorkersHoldTheLock, Works, WorkPlaces, ReadTarget, CallerAt
<1>9. SawPlaced(s, placed)
  BY <1>4, <1>6 DEF SawPlaced
<1>10. SawNoLater(s)
  <2> SUFFICES ASSUME place = "check_lock", target # NoFile
               PROVE  target.blocks[caller[c].block].version <= caller[c].version
    BY <1>4, <1>6 DEF SawNoLater
  <2>1. ~Refuses(target, caller[c].block, caller[c].version)
    BY <1>1
  <2>2. target \in FilesThere
    BY DEF PlaceInv, PlaceTypes
  <2>3. target.blocks[caller[c].block].version \in Nat /\ caller[c].version \in Nat
    BY <1>3, <2>2 DEF FilesThere, BlockStates, CallStates, ReconcileAssumption
  <2> QED
    BY <2>1, <2>3 DEF Refuses
<1> QED
  BY <1>5, <1>7, <1>8, <1>9, <1>10, CallerMoves DEF ReadTarget, counters

LEMMA CheckLockKeeps ==
  ASSUME PlaceInv, NEW c \in Callers, CheckLock(c)
  PROVE  PlaceInv'
<1>1. mutex.by = c /\ caller[c].at = "check_lock" /\ Works(c)
  BY DEF PlaceInv, WorkersHoldTheLock, Works, WorkPlaces, CheckLock, CallerAt
<1>2. CASE Absent(c)
  BY <1>1, <1>2, CallerGoes DEF CheckLock, CallerPlaces, WorkPlaces, counters
<1>3. CASE ~Absent(c)
  BY <1>1, <1>3, CallerGoes DEF CheckLock, CallerPlaces, WorkPlaces, counters
<1> QED
  BY <1>2, <1>3

LEMMA CheckTargetKeeps ==
  ASSUME PlaceInv, NEW c \in Callers, CheckTarget(c)
  PROVE  PlaceInv'
<1>1. caller[c].at = "check_target" /\ Works(c)
  BY DEF Works, WorkPlaces, CheckTarget, CallerAt
<1>2. CASE target = caller[c].seen
  BY <1>1, <1>2, CallerGoes DEF CheckTarget, CallerPlaces, WorkPlaces, counters
<1>3. CASE target # caller[c].seen
  BY <1>1, <1>3, RetryKeeps DEF CheckTarget, counters
<1> QED
  BY <1>2, <1>3

\* The base is what was seen, or an empty file when there was none and there is none.
LEMMA InstallKeeps ==
  ASSUME PlaceInv, ReconcileAssumption, NEW c \in Callers, Install(c)
  PROVE  PlaceInv'
<1>1. caller[c].at = "install" /\ Works(c)
  BY DEF Works, WorkPlaces, Install, CallerAt
<1>2. CASE Absent(c) /\ target # NoFile
  BY <1>1, <1>2, RetryKeeps DEF Install, counters
<1>3. CASE ~(Absent(c) /\ target # NoFile)
  <2>1. PICK k : k = caller[c]
    OBVIOUS
  <2>2. k \in CallStates /\ k.at = "install"
    BY <1>1, <2>1, CallerState DEF PlaceInv
  <2>3. k.block \in Blocks /\ k.version \in Nat /\ k.version # 0
    BY <2>2 DEF CallStates, ReconcileAssumption
  <2>4. PICK base : base = IF k.seen = NoFile THEN EmptyTarget ELSE k.seen
    OBVIOUS
  <2>5. base \in FilesThere
    <3>1. EmptyTarget \in FilesThere
      BY DEF EmptyTarget, NoBlock, FilesThere, BlockStates
    <3>2. k.seen # NoFile => k.seen \in FilesThere
      BY <2>2 DEF CallStates
    <3> QED
      BY <2>4, <3>1, <3>2
  <2>6. PICK now : now = [base EXCEPT !.blocks = [base.blocks EXCEPT ![k.block] = Clean(k.version)]]
    OBVIOUS
  <2>7. PICK later : later = IF placed[k.block] > k.version THEN placed[k.block] ELSE k.version
    OBVIOUS
  <2>8. target' = now /\ placed' = [placed EXCEPT ![k.block] = later]
    BY <1>3, <2>1, <2>4, <2>6, <2>7 DEF Install, Absent
  <2>9. CallerGoto(c, "release") /\ UNCHANGED <<mutex, userEdits>>
    BY <1>3, <1>1 DEF Install, counters
  <2>10. PICK s : s = [k EXCEPT !.at = "release"]
    OBVIOUS
  <2>11. s \in CallStates /\ s.at = "release"
    BY <2>2, <2>10 DEF CallStates, CallerPlaces, WorkPlaces
  <2>12. \A d \in Callers : caller'[d] = IF d = c THEN s ELSE caller[d]
    BY <2>1, <2>9, <2>10 DEF CallerGoto, PlaceInv, PlaceTypes
  <2>13. caller' \in [Callers -> CallStates \cup {Away}]
    BY <2>1, <2>9, <2>10, <2>11 DEF CallerGoto, PlaceInv, PlaceTypes
  <2>14. placed \in [Blocks -> Nat] /\ placed' \in [Blocks -> Nat] /\ later \in Nat
    BY <2>3, <2>7, <2>8 DEF PlaceInv, PlaceTypes
  <2>15. now \in FilesThere
    BY <2>3, <2>5, <2>6 DEF FilesThere, BlockStates, Clean
  <2>16. PlaceTypes'
    BY <2>8, <2>9, <2>13, <2>14, <2>15 DEF PlaceInv, PlaceTypes
  <2>17. WorkersHoldTheLock'
    BY <1>1, <2>9, <2>12 DEF PlaceInv, WorkersHoldTheLock, Works
  <2>18. \A d \in Callers : d # c => ~Works(d)
    BY <1>1 DEF PlaceInv, WorkersHoldTheLock
  <2>19. SplicesKeep'
    <3> SUFFICES ASSUME NEW d \in Callers
                 PROVE  SawNoLater(caller'[d]) /\ SawPlaced(caller'[d], placed')
      BY DEF SplicesKeep
    <3>1. caller'[d].at \notin {"check_lock", "check_target", "install"}
      BY <2>11, <2>12, <2>18 DEF Works, WorkPlaces
    <3> QED
      BY <3>1 DEF SawNoLater, SawPlaced
  <2>20. PlacedBlocksStay'
    <3> SUFFICES ASSUME NEW b \in Blocks, placed'[b] # 0
                 PROVE  now # NoFile /\ now.blocks[b].version >= placed'[b]
      BY <2>8 DEF PlacedBlocksStay
    <3>1. now # NoFile
      BY <2>15, FileThereIsAFile
    <3>2. \A x \in Blocks : placed[x] # 0 => k.seen # NoFile /\ k.seen.blocks[x].version >= placed[x]
      BY <1>3, <2>1, <2>2 DEF PlaceInv, PlacedBlocksStay, SplicesKeep, SawPlaced, Absent
    <3>3. CASE b = k.block
      <4>1. now.blocks[b] = Clean(k.version) /\ placed'[b] = later
        BY <2>3, <2>5, <2>6, <2>8, <2>14, <3>3 DEF FilesThere
      <4>2. k.seen # NoFile => k.seen.blocks[b].version <= k.version
        BY <2>1, <2>2, <3>3 DEF PlaceInv, SplicesKeep, SawNoLater
      <4>3. k.seen # NoFile => k.seen.blocks[b].version \in Nat
        BY <2>2 DEF CallStates, FilesThere, BlockStates
      <4>4. placed[b] <= k.version
        <5>1. placed[b] \in Nat
          BY <2>14
        <5>2. placed[b] = 0 => placed[b] <= k.version
          BY <2>3
        <5> QED
          BY <2>3, <3>2, <4>2, <4>3, <5>1, <5>2
      <4>5. later = k.version
        BY <2>3, <2>7, <2>14, <3>3, <4>4
      <4> QED
        BY <2>3, <3>1, <4>1, <4>5 DEF Clean
    <3>4. CASE b # k.block
      <4>1. now.blocks[b] = base.blocks[b] /\ placed'[b] = placed[b]
        BY <2>3, <2>5, <2>6, <2>8, <2>14, <3>4 DEF FilesThere
      <4> QED
        BY <2>4, <3>1, <3>2, <4>1
    <3> QED
      BY <3>3, <3>4
  <2> QED
    BY <2>16, <2>17, <2>19, <2>20 DEF PlaceInv
<1> QED
  BY <1>2, <1>3

LEMMA UnlinkKeeps ==
  ASSUME PlaceInv, NEW c \in Callers, UnlinkLock(c)
  PROVE  PlaceInv'
<1>1. Works(c)
  BY DEF Works, WorkPlaces, UnlinkLock, CallerAt
<1>2. \A d \in Callers : d # c => ~Works(d)
  BY <1>1 DEF PlaceInv, WorkersHoldTheLock
<1>3. \A d \in Callers : caller'[d] = IF d = c THEN Away ELSE caller[d]
  BY DEF UnlinkLock, PlaceInv, PlaceTypes
<1>4. PlaceTypes'
  BY DEF UnlinkLock, PlaceInv, PlaceTypes, NoMutex, counters
<1>5. WorkersHoldTheLock'
  BY <1>2, <1>3 DEF WorkersHoldTheLock, Works, WorkPlaces, Away
<1>6. SplicesKeep'
  BY <1>3 DEF UnlinkLock, PlaceInv, SplicesKeep, SawNoLater, SawPlaced, Away
<1>7. PlacedBlocksStay'
  BY DEF UnlinkLock, PlaceInv, PlacedBlocksStay
<1> QED
  BY <1>4, <1>5, <1>6, <1>7 DEF PlaceInv

LEMMA StaleKeeps ==
  ASSUME PlaceInv, LockGoesStale
  PROVE  PlaceInv'
<1>1. PlaceTypes'
  BY DEF LockGoesStale, PlaceInv, PlaceTypes, counters
<1>2. mutex'.by = mutex.by
  BY DEF LockGoesStale, PlaceInv, PlaceTypes
<1>3. WorkersHoldTheLock'
  BY <1>2 DEF LockGoesStale, PlaceInv, WorkersHoldTheLock, Works
<1>4. SplicesKeep' /\ PlacedBlocksStay'
  BY DEF LockGoesStale, PlaceInv, SplicesKeep, PlacedBlocksStay
<1> QED
  BY <1>1, <1>3, <1>4 DEF PlaceInv

\* The user's edit of the file, with the versions it leaves placed.
LEMMA EditKeeps ==
  ASSUME PlaceInv, NEW file \in FilesThere \cup {NoFile}, NEW versions \in [Blocks -> Nat],
         target' = file, placed' = versions,
         UNCHANGED <<mutex, caller>>, userEdits' = userEdits + 1,
         \A b \in Blocks : versions[b] \in {0, placed[b]},
         \A b \in Blocks : versions[b] # 0 =>
           file # NoFile /\ file.blocks[b].version >= versions[b]
  PROVE  PlaceInv'
<1>1. PlaceTypes'
  BY DEF PlaceInv, PlaceTypes
<1>2. WorkersHoldTheLock'
  BY DEF PlaceInv, WorkersHoldTheLock, Works
<1>3. SplicesKeep'
  BY DEF PlaceInv, SplicesKeep, SawNoLater, SawPlaced
<1>4. PlacedBlocksStay'
  BY DEF PlacedBlocksStay
<1> QED
  BY <1>1, <1>2, <1>3, <1>4 DEF PlaceInv

LEMMA UserKeeps ==
  ASSUME PlaceInv, UserEdits
  PROVE  PlaceInv'
<1>1. /\ target \in FilesThere \cup {NoFile} /\ placed \in [Blocks -> Nat] /\ userEdits \in Nat
      /\ UNCHANGED <<mutex, caller>> /\ userEdits' = userEdits + 1
  BY DEF UserEdits, PlaceInv, PlaceTypes
<1>2. \A b \in Blocks : placed[b] # 0 => target # NoFile /\ target.blocks[b].version >= placed[b]
  BY DEF PlaceInv, PlacedBlocksStay
<1>3. PICK n \in Nat : n = userEdits + 1
  BY <1>1
<1>4. CASE target = NoFile /\ target' = [EmptyTarget EXCEPT !.text = userEdits + 1] /\ placed' = placed
  <2>1. PICK file : file = [EmptyTarget EXCEPT !.text = n]
    OBVIOUS
  <2>2. file \in FilesThere
    BY <2>1 DEF EmptyTarget, NoBlock, FilesThere, BlockStates
  <2>3. \A b \in Blocks : placed[b] = 0
    BY <1>2, <1>4
  <2> QED
    BY <1>1, <1>3, <1>4, <2>1, <2>2, <2>3, EditKeeps
<1>5. CASE target # NoFile /\ target' = [target EXCEPT !.text = userEdits + 1] /\ placed' = placed
  <2>1. PICK file : file = [target EXCEPT !.text = n]
    OBVIOUS
  <2>2. file \in FilesThere /\ file.blocks = target.blocks
    BY <1>1, <1>5, <2>1 DEF FilesThere
  <2>3. \A b \in Blocks : placed[b] # 0 => file # NoFile /\ file.blocks[b].version >= placed[b]
    BY <1>2, <2>2, FileThereIsAFile
  <2> QED
    BY <1>1, <1>3, <1>5, <2>1, <2>2, <2>3, EditKeeps
<1>6. ASSUME NEW b \in Blocks, target # NoFile,
             NEW edited \in {[target.blocks[b] EXCEPT !.drifted = TRUE],
                             [target.blocks[b] EXCEPT !.twice = TRUE], NoBlock},
             target' = [target EXCEPT !.blocks[b] = edited], placed' = [placed EXCEPT ![b] = 0]
      PROVE  PlaceInv'
  <2>1. target \in FilesThere
    BY <1>1, <1>6
  <2>2. edited \in BlockStates
    <3>1. PICK old \in BlockStates : old = target.blocks[b]
      BY <2>1 DEF FilesThere
    <3>2. edited \in {[old EXCEPT !.drifted = TRUE], [old EXCEPT !.twice = TRUE], NoBlock}
      BY <1>6, <3>1
    <3>3. /\ [old EXCEPT !.drifted = TRUE] \in BlockStates
          /\ [old EXCEPT !.twice = TRUE] \in BlockStates /\ NoBlock \in BlockStates
      BY <3>1 DEF BlockStates, NoBlock
    <3> QED
      BY <3>2, <3>3
  <2>3. PICK file : file = [target EXCEPT !.blocks = [target.blocks EXCEPT ![b] = edited]]
    OBVIOUS
  <2>4. file \in FilesThere /\ \A x \in Blocks : x # b => file.blocks[x] = target.blocks[x]
    BY <2>1, <2>2, <2>3 DEF FilesThere
  <2>5. PICK versions : versions = [placed EXCEPT ![b] = 0]
    OBVIOUS
  <2>6. /\ versions \in [Blocks -> Nat] /\ versions[b] = 0
        /\ \A x \in Blocks : x # b => versions[x] = placed[x]
    BY <1>1, <2>5
  <2>7. \A x \in Blocks : versions[x] # 0 => file # NoFile /\ file.blocks[x].version >= versions[x]
    BY <1>2, <2>4, <2>6, FileThereIsAFile
  <2>8. target' = file /\ placed' = versions
    BY <1>6, <2>3, <2>5
  <2>9. \A x \in Blocks : versions[x] \in {0, placed[x]}
    BY <2>6
  <2> QED
    BY <1>1, <2>4, <2>6, <2>7, <2>8, <2>9, EditKeeps
<1>7. CASE target' = NoFile /\ placed' = [b \in Blocks |-> 0]
  <2>1. PICK versions : versions = [b \in Blocks |-> 0]
    OBVIOUS
  <2>2. versions \in [Blocks -> Nat] /\ \A b \in Blocks : versions[b] = 0
    BY <2>1
  <2> QED
    BY <1>1, <1>7, <2>1, <2>2, EditKeeps
<1> QED
  BY <1>4, <1>5, <1>6, <1>7 DEF UserEdits

LEMMA PlaceStepKeeps ==
  ASSUME PlaceInv, ReconcileAssumption, PlaceNext, LeavesLiveLocks
  PROVE  PlaceInv'
<1>1. ASSUME NEW c \in Callers, NEW b \in Blocks, NEW version \in Schemas, Call(c, b, version)
      PROVE  PlaceInv'
  BY <1>1, CallKeeps
<1>2. ASSUME NEW c \in Callers, VerifyAcquired(c)
      PROVE  PlaceInv'
  <2>1. caller[c].at = "acquired" /\ Works(c) /\ mutex.by = c
    BY <1>2 DEF VerifyAcquired, CallerAt, Works, WorkPlaces, PlaceInv, WorkersHoldTheLock
  <2> QED
    BY <1>2, <2>1, CallerGoes DEF VerifyAcquired, CallerPlaces, WorkPlaces, counters
<1>3. ASSUME NEW c \in Callers, GiveUp(c) \/ CallerDies(c)
      PROVE  PlaceInv'
  BY <1>3, LeaveKeeps DEF GiveUp, CallerDies, counters
<1>4. ASSUME NEW c \in Callers, ReleaseLock(c)
      PROVE  PlaceInv'
  <2>1. caller[c].at = "release" /\ Works(c) /\ mutex.by = c
    BY <1>4 DEF ReleaseLock, CallerAt, Works, WorkPlaces, PlaceInv, WorkersHoldTheLock
  <2> QED
    BY <1>4, <2>1, CallerGoes DEF ReleaseLock, CallerPlaces, WorkPlaces, counters
<1>5. ASSUME NEW c \in Callers, CreateLock(c) \/ SightStaleLock(c) \/ ReclaimLock(c)
      PROVE  PlaceInv'
  BY <1>5, CreateKeeps, SightKeeps, ReclaimKeeps
<1>6. ASSUME NEW c \in Callers, ReadTarget(c) \/ CheckLock(c) \/ CheckTarget(c) \/ Install(c)
      PROVE  PlaceInv'
  BY <1>6, ReadKeeps, CheckLockKeeps, CheckTargetKeeps, InstallKeeps
<1> QED
  BY <1>1, <1>2, <1>3, <1>4, <1>5, <1>6, UnlinkKeeps, StaleKeeps, UserKeeps DEF PlaceNext

LEMMA PlaceStart ==
  ASSUME PlaceInit
  PROVE  PlaceInv
<1>1. PlaceTypes
  BY DEF PlaceInit, PlaceTypes, NoMutex
<1>2. WorkersHoldTheLock /\ SplicesKeep
  BY DEF PlaceInit, WorkersHoldTheLock, Works, WorkPlaces, SplicesKeep, SawNoLater, SawPlaced, Away
<1>3. PlacedBlocksStay
  BY DEF PlaceInit, PlacedBlocksStay
<1> QED
  BY <1>1, <1>2, <1>3 DEF PlaceInv

\* reconcile: a block that a call reported as placed stays in the file at its version
\* or a later one until the user touches it, as long as no caller's lock is taken over
\* while it works.
THEOREM BlocksStayPlaced ==
  ASSUME ReconcileAssumption
  PROVE  PlaceSpec /\ LiveLocksAreLeft => []PlacedBlocksStay
<1>1. PlaceInit => PlaceInv
  BY PlaceStart
<1>2. PlaceInv /\ [PlaceNext]_reconcileVars /\ [LeavesLiveLocks]_reconcileVars => PlaceInv'
  <2> SUFFICES ASSUME PlaceInv, [PlaceNext]_reconcileVars, [LeavesLiveLocks]_reconcileVars
               PROVE  PlaceInv'
    OBVIOUS
  <2>1. CASE UNCHANGED reconcileVars
    BY <2>1 DEF PlaceInv, PlaceTypes, WorkersHoldTheLock, Works, SplicesKeep, PlacedBlocksStay,
      reconcileVars
  <2>2. CASE PlaceNext /\ LeavesLiveLocks
    BY <2>2, PlaceStepKeeps, ReconcileAssumption
  <2> QED
    BY <2>1, <2>2
<1>3. PlaceInv => PlacedBlocksStay
  BY DEF PlaceInv
<1> QED
  BY <1>1, <1>2, <1>3, PTL DEF PlaceSpec, LiveLocksAreLeft

================================================================================
