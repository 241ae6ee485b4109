------------------------------ MODULE HealRepair -------------------------------
(***************************************************************************)
(* Staged repairs of scripts/heal.js.  Staging classifies a target, scans  *)
(* the text for outside calls and files a record; nothing is applied.      *)
(* People apply repairs and edit the same files.  A rollback looks at the  *)
(* target, writes the image from before the repair, reads it twice again   *)
(* and records the rollback in the state store, in processes without a     *)
(* lock that die between any two of these steps and within a write.        *)
(***************************************************************************)
EXTENDS Integers, Sequences, FiniteSets

CONSTANTS
  Healers,                    \* processes that carry out rollbacks
  Typed, Tunables, Code, Managers,   \* the targets, by what classifyTarget makes of them
  Texts,                      \* what a target may hold
  Suspect,                    \* texts in which the policy scan sees an outside call
  Unbounded,                  \* tunables beyond the frozen bounds
  Frozen,                     \* whether a manifest carries tunables_bounds
  MaxStaged, MaxWrites, MaxRollbacks, MaxHealerDeaths   \* bounds

HealAssumption ==
  /\ Suspect \cup Unbounded \subseteq Texts /\ Frozen \in BOOLEAN
  /\ {MaxStaged, MaxWrites, MaxRollbacks, MaxHealerDeaths} \subseteq Nat

VARIABLES
  content,    \* what each target holds; a torn write is no text of its own
  staged,     \* the records under .graphsmith/heal/stages, by their identity
  healer,     \* what each process is doing
  families,   \* rollback-families.jsonl: rollbacks and acknowledgements
  touched,    \* the processes whose target another wrote since they compared it last
  writes, rollbacks, healerDeaths

healVars == <<content, staged, healer, families, touched, writes, rollbacks, healerDeaths>>

Targets == Typed \cup Tunables \cup Code \cup Managers
Gone == "gone"
Torn == "torn"
HealerResting == [at |-> "idle"]

-----------------------------------------------------------------------------
(* Staging.                                                                 *)

\* Anything that the policy cannot prove free of outside calls counts as one.
NoExternalCalls(texts) == texts \cap Suspect = {}

WithinBounds(target, proposed) ==
  target \in Tunables /\ Frozen => proposed \notin Unbounded

\* Bounds end a staging with an error, and a manager's code is refused.
MayStage(target, proposed) ==
  /\ target \notin Managers /\ content[target] \in Texts
  /\ WithinBounds(target, proposed)

\* The identity is a hash of class, target and both images: a second staging of
\* the same change writes the same record.
RepairRecord(target, proposed) ==
  [target |-> target, before |-> content[target], after |-> proposed,
   class |-> IF target \in Code THEN "code" ELSE "typed",
   eligible |-> target \notin Code /\ NoExternalCalls({content[target], proposed})]

StageRepair(target, proposed) ==
  /\ MayStage(target, proposed)
  /\ staged' = staged \cup {RepairRecord(target, proposed)}
  /\ UNCHANGED <<content, healer, families, touched, writes, rollbacks, healerDeaths>>

-----------------------------------------------------------------------------
(* What people do, by other means.                                          *)

At(h, place) == healer[h].at = place
Image(h) == healer[h].record

\* Who has this target under way, and may have compared it already.
AtWorkOn(target) == {h \in Healers : ~At(h, "idle") /\ Image(h).target = target}

Write(target, text) ==
  /\ writes < MaxWrites /\ text # content[target]
  /\ writes' = writes + 1
  /\ content' = [content EXCEPT ![target] = text]
  /\ touched' = touched \cup AtWorkOn(target)
  /\ UNCHANGED <<staged, healer, families, rollbacks, healerDeaths>>

Listed(fingerprint) ==
  /\ <<"rolled_back", fingerprint>> \in {families[i] : i \in DOMAIN families}
  /\ <<"ack", fingerprint>> \notin {families[i] : i \in DOMAIN families}

AckRollback(fingerprint) ==
  /\ Listed(fingerprint)
  /\ families' = Append(families, <<"ack", fingerprint>>)
  /\ UNCHANGED <<content, staged, healer, touched, writes, rollbacks, healerDeaths>>

-----------------------------------------------------------------------------
(* Rollback.                                                                *)

HealerGoto(h, place) == healer' = [healer EXCEPT ![h].at = place]
HealerRest(h) == healer' = [healer EXCEPT ![h] = HealerResting]

\* Code is recovered forward, by people; an empty before image cannot be restored.
Rollback(h, record) ==
  /\ At(h, "idle") /\ rollbacks < MaxRollbacks /\ record.class = "typed"
  /\ rollbacks' = rollbacks + 1
  /\ healer' = [healer EXCEPT ![h] = [at |-> "look", record |-> record]]
  /\ UNCHANGED <<content, staged, families, touched, writes, healerDeaths>>

\* Mutant of Restorable: any text but the before image is replaced.
RestorableAlways(record, text) == text \notin {record.before, Gone}

\* Only the image that the repair left behind is replaced.
Restorable(record, text) == text = record.after /\ text # record.before

\* ALREADY_ROLLED_BACK, or a refusal, ends the call here.
LookAtTarget(h) ==
  /\ At(h, "look")
  /\ IF Restorable(Image(h), content[Image(h).target])
       THEN HealerGoto(h, "restore") ELSE HealerRest(h)
  /\ touched' = touched \ {h}
  /\ UNCHANGED <<content, staged, families, writes, rollbacks, healerDeaths>>

WriteImage(h, text) ==
  /\ content' = [content EXCEPT ![Image(h).target] = text]
  /\ touched' = touched \cup (AtWorkOn(Image(h).target) \ {h})

Restore(h) ==
  /\ At(h, "restore")
  /\ WriteImage(h, Image(h).before)
  /\ HealerGoto(h, "verify")
  /\ UNCHANGED <<staged, families, writes, rollbacks, healerDeaths>>

VerifyImage(h) ==
  /\ At(h, "verify")
  /\ IF content[Image(h).target] = Image(h).before THEN HealerGoto(h, "identify") ELSE HealerRest(h)
  /\ touched' = touched \ {h}
  /\ UNCHANGED <<content, staged, families, writes, rollbacks, healerDeaths>>

\* The tree identity reads the file a second time.
Identify(h) ==
  /\ At(h, "identify")
  /\ HealerGoto(h, IF content[Image(h).target] = Image(h).before THEN "record" ELSE "undo")
  /\ UNCHANGED <<content, staged, families, touched, writes, rollbacks, healerDeaths>>

\* The after image goes back over whatever is there by now.
Undo(h) ==
  /\ At(h, "undo")
  /\ WriteImage(h, Image(h).after)
  /\ HealerRest(h)
  /\ UNCHANGED <<staged, families, writes, rollbacks, healerDeaths>>

\* An error of the store is swallowed.
RecordRollback(h) ==
  /\ At(h, "record")
  /\ families' \in {families, Append(families, <<"rolled_back", Image(h)>>)}
  /\ HealerRest(h)
  /\ UNCHANGED <<content, staged, touched, writes, rollbacks, healerDeaths>>

\* A death within a write leaves the target empty or cut short.
HealerDies(h) ==
  /\ ~At(h, "idle") /\ healerDeaths < MaxHealerDeaths
  /\ healerDeaths' = healerDeaths + 1
  /\ \/ UNCHANGED <<content, touched>>
     \/ At(h, "restore") /\ WriteImage(h, Torn)
     \/ At(h, "undo") /\ WriteImage(h, Torn)
  /\ HealerRest(h)
  /\ UNCHANGED <<staged, families, writes, rollbacks>>

HealInit ==
  /\ content \in [Targets -> Texts]
  /\ staged = {} /\ families = <<>>
  /\ healer = [h \in Healers |-> HealerResting]
  /\ touched = {} /\ writes = 0 /\ rollbacks = 0 /\ healerDeaths = 0

HealNext ==
  \/ \E target \in Targets, text \in Texts :
       Cardinality(staged) < MaxStaged /\ StageRepair(target, text)
  \/ \E target \in Targets, text \in Texts \cup {Gone} : Write(target, text)
  \/ \E record \in staged : AckRollback(record)
  \/ \E h \in Healers :
       \/ \E record \in staged : Rollback(h, record)
       \/ LookAtTarget(h) \/ Restore(h) \/ VerifyImage(h) \/ Identify(h) \/ Undo(h)
       \/ RecordRollback(h) \/ HealerDies(h)

HealSpec == HealInit /\ [][HealNext]_healVars

-----------------------------------------------------------------------------
\* Unless another wrote the target since a rollback compared it last (at its look, and
\* when it reads its own write back), the rollback, whether it dies or not, replaces
\* nothing but the image that the repair left, and records itself only while the image
\* from before the repair stands.  So an edit is lost only between the look and the
\* restore, or between the check of the restore and an undo, which puts the repair back
\* over an edit that the tree identity has just read; an edit that comes while the
\* restore is not yet checked is kept.
RollbackKeepsEdits ==
  [][\A h \in Healers :
       healer'[h] # healer[h] /\ h \notin touched =>
         /\ content' # content =>
              At(h, "restore") /\ content[Image(h).target] = Image(h).after
         /\ families' # families => content[Image(h).target] = Image(h).before]_healVars
=============================================================================
