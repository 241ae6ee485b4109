-------------------------- MODULE StateJournalProofs --------------------------
(***************************************************************************)
(* That the lock and the journal of StateJournal implement AtomicStore,    *)
(* for any processes, files and numbers of mutations and crashes, with     *)
(* locks stolen from live owners and with torn appends.                    *)
(*                                                                         *)
(* The invariant JInv says why a stolen lock does no harm.  The one owner  *)
(* knows what is pending (OwnerKnows).  Whoever lost the lock in the       *)
(* middle of a recovery goes on writing, but only intents that are still   *)
(* pending or whose effects are all in the files (Rolled), so its writes   *)
(* change nothing that the next operation can see; and whoever lost it in  *)
(* a commit fails its ownership check.                                     *)
(***************************************************************************)
EXTENDS StateJournal, TLAPS

USE JournalAssumption DEF JournalAssumption, NoToken

-----------------------------------------------------------------------------
(* The inductive invariant.                                                 *)

\* The intents p still has to roll forward, the current one included.
Rolling(p) == replay[p] \cup (IF pc[p] = "redo" THEN {intent[p]} ELSE {})
Building(p) == pc[p] \in {"intent", "apply"}

\* An intent as a builder makes it: it adds its own number to some files.
Whole(i) ==
  /\ DOMAIN i.effect # {} /\ DOMAIN i.effect \subseteq Files
  /\ \A f \in DOMAIN i.effect :
       /\ i.id \notin i.effect[f].before
       /\ i.effect[f].after = i.effect[f].before \cup {i.id}

\* Every effect of the intent is in the files.
Done(i) == \A f \in DOMAIN i.effect : i.id \in disk[f]

\* What a process remembers fits where it is in the operation, and no two
\* processes hold one token.
Memory ==
  \A p \in Procs :
    /\ mine[p] = NoToken <=> pc[p] \in {"idle", "judge", "unlink"}
    /\ \A q \in Procs : mine[p] = mine[q] /\ p # q => mine[p] = NoToken
    /\ replay[p] # {} => pc[p] \in {"replay", "redo"}
    /\ pc[p] \in {"intent", "apply", "redo"} =>
         /\ intent[p] \in Intents /\ Whole(intent[p])
         /\ todo[p] \subseteq DOMAIN intent[p].effect
    /\ pc[p] = "intent" => todo[p] = DOMAIN intent[p].effect

\* What is pending or still to be rolled forward was made by a builder.
WholeIntents ==
  /\ \A i \in pending : Whole(i)
  /\ \A p \in Procs : \A i \in replay[p] : Whole(i)

\* One intent is pending at most, and a file it names holds its before-image or
\* its after-image: recovery is never ambiguous about it.
OnePending ==
  /\ \A i, j \in pending : i = j
  /\ \A i \in pending : \A f \in DOMAIN i.effect :
       disk[f] \in {i.effect[f].before, i.effect[f].after}

\* An intent that a process still rolls forward, its lock lost or not, is pending
\* or done.
Rolled ==
  \A p \in Procs :
    /\ \A i \in Rolling(p) : i \in pending \/ Done(i)
    /\ pc[p] = "redo" =>
         \A f \in DOMAIN intent[p].effect \ todo[p] : intent[p].id \in disk[f]

\* A number is given once, and until its intent is logged it is nowhere else.
Numbered ==
  /\ \A f \in Files : \A m \in disk[f] : m <= begun
  /\ \A i \in pending : i.id <= begun
  /\ \A p \in Procs :
       /\ \A i \in Rolling(p) : i.id <= begun
       /\ Building(p) => intent[p].id <= begun
       /\ \A q \in Procs : Building(p) /\ Building(q) /\ p # q => intent[p].id # intent[q].id
       /\ pc[p] = "intent" =>
            /\ \A f \in Files : intent[p].id \notin disk[f]
            /\ \A i \in pending : i.id # intent[p].id
            /\ \A q \in Procs : \A i \in Rolling(q) : i.id # intent[p].id

\* What is pending is known to the process whose token is in the lock.
OwnerKnows ==
  \A p \in Procs :
    lock = mine[p] =>
      /\ pc[p] \in {"replay", "redo"} => pending \subseteq Rolling(p)
      /\ pc[p] \in {"mutate", "intent"} => pending = {}
      /\ pc[p] = "intent" =>
           \A f \in DOMAIN intent[p].effect : disk[f] = intent[p].effect[f].before
      /\ pc[p] = "apply" =>
           /\ pending = {intent[p]}
           /\ \A q \in Procs : intent[p] \notin Rolling(q)
           /\ \A f \in DOMAIN intent[p].effect \ todo[p] : intent[p].id \in disk[f]

\* The inductive invariant: no part of it is inductive without the others.
JInv == TypeOK /\ Memory /\ WholeIntents /\ OnePending /\ Rolled /\ Numbered /\ OwnerKnows

-----------------------------------------------------------------------------
(* Lemmas.                                                                  *)

\* A new token is a token, and in use nowhere.
LEMMA FreshToken ==
  ASSUME \E t \in Tokens : Fresh(t)
  PROVE  NewToken \in Tokens /\ Fresh(NewToken)
  BY DEF NewToken

\* The fields of an intent have their types.
LEMMA IntentFields ==
  ASSUME NEW i \in Intents
  PROVE  /\ i.id \in Mutations
         /\ DOMAIN i.effect \subseteq Files
         /\ \A f \in DOMAIN i.effect : i.effect[f] \in Effect
  <1>1. PICK touched \in SUBSET Files : i.effect \in [touched -> Effect]
    BY DEF Intents
  <1>2. QED
    BY <1>1 DEF Intents

\* An effect that passes the comparison of a recovery, or the ownership check of
\* a commit, adds the number of its intent to the file, and no more.
LEMMA WriteAddsId ==
  ASSUME JInv, NEW p \in Procs, NEW f \in todo[p],
         \/ pc[p] = "redo" /\ disk[f] \in {intent[p].effect[f].before, intent[p].effect[f].after}
         \/ pc[p] = "apply" /\ StillOwned(p)
  PROVE  /\ intent[p].effect[f].after = disk[f] \cup {intent[p].id}
         /\ intent[p] \in pending \/ intent[p].id \in disk[f]
         /\ intent[p] \in Intents /\ Whole(intent[p])
         /\ intent[p].id \in Mutations
         /\ f \in Files /\ f \in DOMAIN intent[p].effect
  <1>1. /\ intent[p] \in Intents /\ Whole(intent[p]) /\ f \in DOMAIN intent[p].effect
        /\ pc[p] = "redo" => intent[p] \in pending \/ Done(intent[p])
        /\ pc[p] = "apply" => intent[p] \in pending
    BY DEF JInv, Memory, Rolled, Rolling, OwnerKnows, StillOwned
  <1>2. intent[p].id \in Mutations /\ f \in Files
    BY <1>1, IntentFields
  <1>3. disk[f] \in {intent[p].effect[f].before, intent[p].effect[f].after}
    BY <1>1 DEF JInv, OnePending
  <1>4. QED
    BY <1>1, <1>2, <1>3 DEF Whole, Done
-----------------------------------------------------------------------------
(* Every step preserves the invariant.                                      *)

\* A new lock has a token nobody holds, so nobody else becomes its owner.
LEMMA CreateLockStep == ASSUME JInv, NEW p \in Procs, CreateLock(p) PROVE JInv'
  <1>1. NewToken \in Tokens /\ Fresh(NewToken)
    BY FreshToken DEF CreateLock
  <1> USE DEF CreateLock, Goto
  <1>2. TypeOK'
    BY <1>1 DEF JInv, TypeOK
  <1>3. Memory'
    BY <1>1 DEF JInv, TypeOK, Memory, Fresh
  <1>4. WholeIntents' /\ OnePending'
    BY DEF JInv, WholeIntents, OnePending, Whole
  <1>5. Rolled' /\ Numbered'
    BY DEF JInv, TypeOK, Memory, Rolled, Numbered, Rolling, Building, Done
  <1>6. OwnerKnows'
    BY <1>1 DEF JInv, TypeOK, Memory, OwnerKnows, Fresh
  <1>7. QED
    BY <1>2, <1>3, <1>4, <1>5, <1>6 DEF JInv

\* Observing a lock changes no file.
LEMMA ObserveLockStep == ASSUME JInv, NEW p \in Procs, ObserveLock(p) PROVE JInv'
  <1> USE DEF ObserveLock, Goto
  <1>1. TypeOK' /\ Memory'
    BY DEF JInv, TypeOK, Memory, Whole
  <1>2. WholeIntents' /\ OnePending'
    BY DEF JInv, WholeIntents, OnePending, Whole
  <1>3. Rolled' /\ Numbered'
    BY DEF JInv, TypeOK, Memory, Rolled, Numbered, Rolling, Building, Done
  <1>4. OwnerKnows'
    BY SMTT(20) DEF JInv, TypeOK, Memory, OwnerKnows, Rolling
  <1>5. QED
    BY <1>1, <1>2, <1>3, <1>4 DEF JInv

\* Whoever unlinks whichever lock, the files stay as they are.
LEMMA JudgeStep ==
  ASSUME JInv, NEW p \in Procs, Refuse(p) \/ Steal(p) \/ UnlinkStale(p)
  PROVE  JInv'
  <1> USE DEF Refuse, Steal, UnlinkStale, Goto
  <1>1. TypeOK'
    BY DEF JInv, TypeOK
  <1>2. Memory'
    BY DEF JInv, TypeOK, Memory, Whole
  <1>3. WholeIntents' /\ OnePending'
    BY DEF JInv, WholeIntents, OnePending, Whole
  <1>4. Rolled' /\ Numbered'
    BY DEF JInv, TypeOK, Memory, Rolled, Numbered, Rolling, Building, Done
  <1>5. OwnerKnows'
    BY DEF JInv, TypeOK, Memory, OwnerKnows, Rolling
  <1>6. QED
    BY <1>1, <1>2, <1>3, <1>4, <1>5 DEF JInv

\* The owner takes on what is pending.
LEMMA ReadJournalStep == ASSUME JInv, NEW p \in Procs, ReadJournal(p) PROVE JInv'
  <1> USE DEF ReadJournal, Goto, Leave
  <1>1. TypeOK'
    BY DEF JInv, TypeOK
  <1>2. Memory'
    BY DEF JInv, TypeOK, Memory, Whole
  <1>3. WholeIntents' /\ OnePending'
    BY DEF JInv, TypeOK, WholeIntents, OnePending, Whole
  <1>4. Rolled'
    BY DEF JInv, TypeOK, Memory, Rolled, Rolling, Done
  <1>5. Numbered'
    BY DEF JInv, TypeOK, Memory, Numbered, Rolling, Building, OwnerKnows, StillOwned
  <1>6. OwnerKnows'
    BY SMTT(20) DEF JInv, TypeOK, Memory, OwnerKnows, Rolling, StillOwned
  <1>7. QED
    BY <1>1, <1>2, <1>3, <1>4, <1>5, <1>6 DEF JInv

\* The intent that is picked is still one to roll forward.
LEMMA PickIntentStep == ASSUME JInv, NEW p \in Procs, PickIntent(p) PROVE JInv'
  <1>i. PICK i \in replay[p] :
          /\ intent' = [intent EXCEPT ![p] = i]
          /\ todo' = [todo EXCEPT ![p] = DOMAIN i.effect]
          /\ replay' = [replay EXCEPT ![p] = @ \ {i}]
          /\ pc' = [pc EXCEPT ![p] = "redo"]
    BY DEF PickIntent, Goto
  <1>w. i \in Intents /\ Whole(i) /\ DOMAIN i.effect \subseteq Files
    BY IntentFields DEF JInv, TypeOK, WholeIntents
  <1>u. pc[p] = "replay" /\ UNCHANGED <<lock, disk, pending, tail, mine, seen, begun, crashes>>
    BY DEF PickIntent
  <1>1. TypeOK'
    BY <1>i, <1>w, <1>u DEF JInv, TypeOK
  <1>2. Memory'
    BY <1>i, <1>w, <1>u DEF JInv, TypeOK, Memory, Whole
  <1>3. WholeIntents' /\ OnePending'
    BY <1>i, <1>u DEF JInv, TypeOK, WholeIntents, OnePending, Whole
  <1>r. \A q \in Procs : Rolling(q)' = Rolling(q)
    BY <1>i, <1>u DEF JInv, TypeOK, Rolling
  <1>4. Rolled'
    BY <1>i, <1>u, <1>r DEF JInv, TypeOK, Rolled, Done
  <1>5. Numbered'
    BY <1>i, <1>u, <1>r DEF JInv, TypeOK, Numbered, Building
  <1>6. OwnerKnows'
    BY <1>i, <1>u, <1>r DEF JInv, TypeOK, OwnerKnows
  <1>7. QED
    BY <1>1, <1>2, <1>3, <1>4, <1>5, <1>6 DEF JInv

\* What leaves the journal at the end of a redo is done.
LEMMA RedoDoneStep == ASSUME JInv, NEW p \in Procs, RedoDone(p) PROVE JInv'
  <1> USE DEF RedoDone, Goto
  <1>d. Done(intent[p])
    BY DEF JInv, Rolled, Done
  <1>1. TypeOK'
    BY DEF JInv, TypeOK, AppendsTo
  <1>2. Memory'
    BY SMTT(20) DEF JInv, TypeOK, Memory, Whole
  <1>3. WholeIntents' /\ OnePending'
    BY DEF JInv, TypeOK, WholeIntents, OnePending, Whole
  <1>4. Rolled'
    BY <1>d DEF JInv, TypeOK, Memory, Rolled, Rolling, Done
  <1>5. Numbered'
    BY SMTT(20) DEF JInv, TypeOK, Memory, Numbered, Rolling, Building
  <1>6. OwnerKnows'
    BY SMTT(20) DEF JInv, TypeOK, Memory, OwnerKnows, Rolling
  <1>7. QED
    BY <1>1, <1>2, <1>3, <1>4, <1>5, <1>6 DEF JInv

\* An operation that ends early forgets what it had to do.
LEMMA LeaveStep ==
  ASSUME JInv, NEW p \in Procs, pc[p] \notin {"idle", "judge", "unlink"}, Leave(p),
         UNCHANGED <<lock, disk, pending, tail, begun, crashes>>
  PROVE  JInv'
  <1> USE DEF Leave, Goto
  <1>1. TypeOK'
    BY DEF JInv, TypeOK
  <1>2. Memory'
    BY DEF JInv, TypeOK, Memory, Whole
  <1>3. WholeIntents' /\ OnePending'
    BY DEF JInv, TypeOK, WholeIntents, OnePending, Whole
  <1>4. Rolled' /\ Numbered'
    BY DEF JInv, TypeOK, Memory, Rolled, Numbered, Rolling, Building, Done
  <1>5. OwnerKnows'
    BY SMTT(20) DEF JInv, TypeOK, Memory, OwnerKnows, Rolling
  <1>6. QED
    BY <1>1, <1>2, <1>3, <1>4, <1>5 DEF JInv

\* Writing one effect, in a recovery or in a commit.
LEMMA WriteStep ==
  ASSUME JInv, NEW p \in Procs, NEW f \in todo[p],
         \/ pc[p] = "redo" /\ disk[f] \in {intent[p].effect[f].before, intent[p].effect[f].after}
         \/ pc[p] = "apply" /\ StillOwned(p),
         disk' = [disk EXCEPT ![f] = intent[p].effect[f].after],
         todo' = [todo EXCEPT ![p] = @ \ {f}],
         UNCHANGED <<lock, pending, tail, pc, mine, seen, replay, intent, begun, crashes>>
  PROVE  JInv'
  <1> DEFINE i == intent[p]
  <1>i. /\ i.effect[f].after = disk[f] \cup {i.id}
        /\ i \in pending \/ i.id \in disk[f]
        /\ i \in Intents /\ Whole(i) /\ i.id \in Mutations
        /\ f \in Files /\ f \in DOMAIN i.effect
    BY WriteAddsId
  <1>d. /\ disk' = [disk EXCEPT ![f] = @ \cup {i.id}]
        /\ disk \in [Files -> Contents]
    BY <1>i DEF JInv, TypeOK
  <1>m. \A g \in Files : disk'[g] = IF g = f THEN disk[g] \cup {i.id} ELSE disk[g]
    BY <1>d, <1>i
  <1>g. \A g \in Files : \A m : m \in disk'[g] <=> m \in disk[g] \/ (g = f /\ m = i.id)
    <2> HIDE DEF i
    <2>1. QED
      BY ONLY <1>m
  <1>n. /\ i.id <= begun
        /\ \A q \in Procs : pc[q] = "intent" => intent[q].id # i.id
    BY DEF JInv, Numbered, Rolling, Building
  <1>r. \A q \in Procs : Rolling(q)' = Rolling(q)
    BY DEF Rolling
  <1>b. \A q \in Procs : Building(q)' = Building(q)
    BY DEF Building
  <1>w. /\ \A j \in pending : DOMAIN j.effect \subseteq Files
        /\ \A q \in Procs : \A j \in Rolling(q) : DOMAIN j.effect \subseteq Files
        /\ \A q \in Procs : pc[q] \in {"intent", "apply", "redo"} =>
             DOMAIN intent[q].effect \subseteq Files
    BY DEF JInv, WholeIntents, Memory, Rolling, Whole
  <1>1. TypeOK'
    BY <1>d, <1>i DEF JInv, TypeOK, Contents
  <1>2. Memory'
    BY DEF JInv, TypeOK, Memory, Whole
  <1>3. WholeIntents'
    BY DEF JInv, WholeIntents, Whole
  <1>4. OnePending'
    BY <1>m, <1>i, <1>w DEF JInv, OnePending
  <1>5. Rolled'
    BY <1>m, <1>i, <1>r, <1>w DEF JInv, TypeOK, Rolled, Done
  <1>6. Numbered'
    <2>1. \A g \in Files : \A m \in disk'[g] : m <= begun
      BY <1>g, <1>n DEF JInv, Numbered
    <2>2. \A q \in Procs : pc[q] = "intent" => \A g \in Files : intent[q].id \notin disk'[g]
      BY <1>g, <1>n DEF JInv, Numbered
    <2>3. QED
      BY <2>1, <2>2, <1>r, <1>b DEF JInv, Numbered
  <1>7. OwnerKnows'
    <2> SUFFICES ASSUME NEW q \in Procs, lock = mine[q]
                 PROVE  /\ pc[q] \in {"replay", "redo"} => pending \subseteq Rolling(q)
                        /\ pc[q] \in {"mutate", "intent"} => pending = {}
                        /\ pc[q] = "intent" =>
                             \A g \in DOMAIN intent[q].effect :
                               disk'[g] = intent[q].effect[g].before
                        /\ pc[q] = "apply" =>
                             /\ pending = {intent[q]}
                             /\ \A r \in Procs : intent[q] \notin Rolling(r)
                             /\ \A g \in DOMAIN intent[q].effect \ todo'[q] :
                                  intent[q].id \in disk'[g]
      BY <1>r DEF OwnerKnows
    <2>1. pc[q] = "intent" => disk' = disk
      BY <1>d, <1>i DEF JInv, OwnerKnows, TypeOK
    <2>2. ASSUME pc[q] = "apply", NEW g \in DOMAIN intent[q].effect \ todo'[q]
          PROVE  intent[q].id \in disk'[g]
      <3>1. CASE g \in todo[q]
        BY <2>2, <3>1, <1>m, <1>i DEF JInv, TypeOK
      <3>2. CASE g \notin todo[q]
        BY <2>2, <3>2, <1>g, <1>w DEF JInv, TypeOK, OwnerKnows
      <3>3. QED
        BY <3>1, <3>2
    <2>3. QED
      BY <2>1, <2>2 DEF JInv, OwnerKnows
  <1>8. QED
    BY <1>1, <1>2, <1>3, <1>4, <1>5, <1>6, <1>7 DEF JInv

\* A recovery rolls an effect forward or gives up.
LEMMA RedoEffectStep == ASSUME JInv, NEW p \in Procs, RedoEffect(p) PROVE JInv'
  <1>1. PICK f \in todo[p] :
          LET effect == intent[p].effect[f]
          IN IF disk[f] \in {effect.before, effect.after}
             THEN /\ disk' = [disk EXCEPT ![f] = effect.after]
                  /\ todo' = [todo EXCEPT ![p] = @ \ {f}]
                  /\ UNCHANGED <<pc, mine, seen, replay, intent>>
             ELSE Leave(p) /\ UNCHANGED disk
    BY DEF RedoEffect
  <1>2. pc[p] = "redo" /\ UNCHANGED <<lock, pending, tail, begun, crashes>>
    BY DEF RedoEffect
  <1>3. QED
    BY <1>1, <1>2, WriteStep, LeaveStep

\* A commit applies an effect or finds its lock gone.
LEMMA ApplyEffectStep == ASSUME JInv, NEW p \in Procs, ApplyEffect(p) PROVE JInv'
  <1>1. PICK f \in todo[p] :
          IF StillOwned(p)
          THEN /\ disk' = [disk EXCEPT ![f] = intent[p].effect[f].after]
               /\ todo' = [todo EXCEPT ![p] = @ \ {f}]
               /\ UNCHANGED <<pc, mine, seen, replay, intent>>
          ELSE Leave(p) /\ UNCHANGED disk
    BY DEF ApplyEffect
  <1>2. pc[p] = "apply" /\ UNCHANGED <<lock, pending, tail, begun, crashes>>
    BY DEF ApplyEffect
  <1>3. QED
    BY <1>1, <1>2, WriteStep, LeaveStep

\* Nothing is pending when the owner logs its intent.
LEMMA LogIntentStep == ASSUME JInv, NEW p \in Procs, LogIntent(p) PROVE JInv'
  <1>a. CASE ~StillOwned(p)
    BY <1>a, LeaveStep DEF LogIntent
  <1>b. CASE StillOwned(p)
    <2> USE <1>b DEF LogIntent, Goto
    <2>1. pending = {} /\ intent[p] \in Intents
      BY DEF JInv, Memory, OwnerKnows, StillOwned
    <2>2. TypeOK'
      BY <2>1 DEF JInv, TypeOK, AppendsTo
    <2>3. Memory'
      BY DEF JInv, TypeOK, Memory, Whole
    <2>4. WholeIntents' /\ OnePending'
      BY <2>1 DEF JInv, TypeOK, WholeIntents, OnePending, Memory, OwnerKnows, StillOwned, Whole
    <2>5. Rolled'
      BY DEF JInv, TypeOK, Rolled, Rolling, Done
    <2>6. Numbered'
      BY DEF JInv, TypeOK, Memory, Numbered, Rolling, Building
    <2>7. OwnerKnows'
      BY <2>1 DEF JInv, TypeOK, Memory, OwnerKnows, Numbered, Rolling, StillOwned
    <2>8. QED
      BY <2>2, <2>3, <2>4, <2>5, <2>6, <2>7 DEF JInv
  <1>c. QED
    BY <1>a, <1>b

\* The one pending intent is done when its owner logs that.
LEMMA LogDoneStep == ASSUME JInv, NEW p \in Procs, LogDone(p) PROVE JInv'
  <1>a. CASE ~StillOwned(p)
    BY <1>a, LeaveStep DEF LogDone
  <1>b. CASE StillOwned(p)
    <2> USE <1>b DEF LogDone, Goto
    <2>1. pending = {intent[p]} /\ \A q \in Procs : intent[p] \notin Rolling(q)
      BY DEF JInv, OwnerKnows, StillOwned
    <2>2. TypeOK'
      BY DEF JInv, TypeOK, AppendsTo
    <2>3. Memory'
      BY DEF JInv, TypeOK, Memory, Whole
    <2>4. WholeIntents' /\ OnePending'
      BY <2>1 DEF JInv, TypeOK, WholeIntents, OnePending, Whole
    <2>5. Rolled'
      BY <2>1 DEF JInv, TypeOK, Rolled, Rolling, Done
    <2>6. Numbered'
      BY DEF JInv, TypeOK, Memory, Numbered, Rolling, Building
    <2>7. OwnerKnows'
      BY <2>1 DEF JInv, TypeOK, Memory, OwnerKnows, Rolling, StillOwned
    <2>8. QED
      BY <2>2, <2>3, <2>4, <2>5, <2>6, <2>7 DEF JInv
  <1>c. QED
    BY <1>a, <1>b

\* A builder starts from what the files hold and takes a new number.
LEMMA BuildMutationStep == ASSUME JInv, NEW p \in Procs, BuildMutation(p) PROVE JInv'
  <1>t. PICK touched \in (SUBSET Files) \ {{}} :
          /\ intent' = [intent EXCEPT ![p] =
                         [id |-> begun + 1,
                          effect |-> [f \in touched |->
                            [before |-> disk[f], after |-> disk[f] \cup {begun + 1}]]]]
          /\ todo' = [todo EXCEPT ![p] = touched]
    BY DEF BuildMutation
  <1>u. /\ pc[p] = "mutate" /\ begun < MaxMutations
        /\ begun' = begun + 1 /\ pc' = [pc EXCEPT ![p] = "intent"]
        /\ UNCHANGED <<lock, disk, pending, tail, mine, seen, replay, crashes>>
    BY DEF BuildMutation, Goto
  <1>n. \A f \in Files : disk[f] \in Contents /\ begun + 1 \notin disk[f]
    BY DEF JInv, TypeOK, Numbered, Contents, Mutations
  <1>b. begun \in Nat /\ begun + 1 \in Mutations /\ begun + 1 <= MaxMutations
    BY <1>u DEF JInv, TypeOK, Mutations
  <1> DEFINE effect == [f \in touched |->
                          [before |-> disk[f], after |-> disk[f] \cup {begun + 1}]]
             i == [id |-> begun + 1, effect |-> effect]
  <1>e. effect \in [touched -> Effect]
    BY <1>n, <1>b DEF Effect, Contents
  <1>i. i \in Intents
    BY <1>e, <1>b DEF Intents
  <1>f. /\ i.id = begun + 1 /\ DOMAIN i.effect = touched
        /\ \A f \in touched : /\ i.effect[f].before = disk[f]
                             /\ i.effect[f].after = disk[f] \cup {begun + 1}
    OBVIOUS
  <1>p. intent' = [intent EXCEPT ![p] = i] /\ todo' = [todo EXCEPT ![p] = touched]
    BY <1>t
  <1> HIDE DEF i, effect
  <1>w. Whole(i)
    <2>1. touched # {} /\ touched \subseteq Files
      BY <1>t
    <2>2. ASSUME NEW f \in touched
          PROVE  /\ i.id \notin i.effect[f].before
                 /\ i.effect[f].after = i.effect[f].before \cup {i.id}
      <3>1. /\ f \in Files /\ i.effect[f].before = disk[f]
            /\ i.effect[f].after = disk[f] \cup {begun + 1}
        BY <2>1, <1>f
      <3>2. QED
        BY <3>1, <1>f, <1>n
    <2>3. QED
      BY <2>1, <2>2, <1>f DEF Whole
  <1>1. TypeOK'
    BY <1>p, <1>u, <1>i, <1>b DEF JInv, TypeOK
  <1>2. Memory'
    BY <1>p, <1>u, <1>i, <1>w, <1>f DEF JInv, TypeOK, Memory, Whole
  <1>3. WholeIntents' /\ OnePending'
    BY <1>u DEF JInv, WholeIntents, OnePending, Whole
  <1>r. \A q \in Procs : Rolling(q)' = Rolling(q)
    BY <1>u, <1>p DEF JInv, TypeOK, Rolling
  <1>4. Rolled'
    BY <1>u, <1>p, <1>r DEF JInv, TypeOK, Rolled, Done
  <1>5. Numbered'
    <2>1. /\ \A j \in pending : j.id \in Nat /\ j.id <= begun
          /\ \A q \in Procs : \A j \in Rolling(q) : j.id \in Nat /\ j.id <= begun
          /\ \A q \in Procs : Building(q) => intent[q].id \in Nat /\ intent[q].id <= begun
          /\ \A f \in Files : \A m \in disk[f] : m \in Nat /\ m <= begun
      BY IntentFields DEF JInv, TypeOK, Memory, Numbered, Rolling, Building, Mutations, Contents
    <2>2. \A q \in Procs : /\ Building(q)' <=> Building(q) \/ q = p
                           /\ intent'[q] = IF q = p THEN i ELSE intent[q]
                           /\ pc'[q] = IF q = p THEN "intent" ELSE pc[q]
      BY <1>u, <1>p DEF JInv, TypeOK, Building
    <2>3. QED
      BY <2>1, <2>2, <1>u, <1>r, <1>f, <1>b DEF JInv, Numbered
  <1>6. OwnerKnows'
    BY <1>p, <1>u, <1>r, <1>f DEF JInv, TypeOK, OwnerKnows
  <1>7. QED
    BY <1>1, <1>2, <1>3, <1>4, <1>5, <1>6 DEF JInv

\* A release gives up the token, and perhaps the lock of somebody else.
LEMMA ReleaseStep ==
  ASSUME JInv, NEW p \in Procs, ReleaseCompare(p) \/ ReleaseUnlink(p)
  PROVE  JInv'
  <1> USE DEF ReleaseCompare, ReleaseUnlink, Goto
  <1>1. TypeOK'
    BY DEF JInv, TypeOK
  <1>2. Memory'
    BY DEF JInv, TypeOK, Memory, Whole
  <1>3. WholeIntents' /\ OnePending'
    BY DEF JInv, WholeIntents, OnePending, Whole
  <1>4. Rolled' /\ Numbered'
    BY DEF JInv, TypeOK, Memory, Rolled, Numbered, Rolling, Building, Done
  <1>5. OwnerKnows'
    BY DEF JInv, TypeOK, Memory, OwnerKnows, Rolling, StillOwned
  <1>6. QED
    BY <1>1, <1>2, <1>3, <1>4, <1>5 DEF JInv

\* With no effect left to apply an intent is done.
LEMMA DoneWhenApplied ==
  ASSUME JInv, NEW p \in Procs, todo[p] = {},
         pc[p] = "redo" \/ (pc[p] = "apply" /\ StillOwned(p))
  PROVE  Done(intent[p])
  BY DEF JInv, Rolled, OwnerKnows, StillOwned, Done

\* A process dies between two steps, or with its append written in part.
LEMMA DieStep ==
  ASSUME JInv, NEW p \in Procs, Die(p), tail' \in {"whole", "torn", "glued"},
         \/ pending' = pending
         \/ /\ pc[p] = "intent" /\ StillOwned(p)
            /\ pending' = pending \cup {intent[p]}
         \/ /\ todo[p] = {} /\ (pc[p] = "redo" \/ (pc[p] = "apply" /\ StillOwned(p)))
            /\ pending' = pending \ {intent[p]}
  PROVE  JInv'
  <1> USE DEF Die, Goto
  <1>d. todo[p] = {} /\ (pc[p] = "redo" \/ (pc[p] = "apply" /\ StillOwned(p))) => Done(intent[p])
    BY DoneWhenApplied
  <1>i. pc[p] = "intent" => /\ intent[p] \in Intents /\ Whole(intent[p])
                            /\ intent[p].id <= begun
                            /\ \A q \in Procs : q # p /\ pc[q] = "intent" =>
                                 intent[q].id # intent[p].id
    BY DEF JInv, Memory, Numbered, Building
  <1>o. pc[p] = "intent" /\ StillOwned(p) =>
          /\ pending = {}
          /\ \A f \in DOMAIN intent[p].effect : disk[f] = intent[p].effect[f].before
    BY DEF JInv, OwnerKnows, StillOwned
  <1>r. \A q \in Procs : Rolling(q)' = IF q = p THEN {} ELSE Rolling(q)
    BY DEF JInv, TypeOK, Rolling
  <1>1. TypeOK'
    BY <1>i DEF JInv, TypeOK
  <1>2. Memory'
    BY DEF JInv, TypeOK, Memory, Whole
  <1>3. WholeIntents' /\ OnePending'
    BY <1>i, <1>o DEF JInv, TypeOK, WholeIntents, OnePending, Whole
  <1>4. Rolled'
    BY <1>r, <1>d DEF JInv, TypeOK, Rolled, Done
  <1>5. Numbered'
    BY <1>r, <1>i DEF JInv, TypeOK, Numbered, Building
  <1>6. OwnerKnows'
    <2>1. ASSUME NEW q \in Procs, lock = mine'[q], pc'[q] \notin {"idle", "judge", "unlink"}
          PROVE  /\ q # p /\ lock = mine[q] /\ ~StillOwned(p)
                 /\ pc'[q] = pc[q] /\ intent'[q] = intent[q] /\ todo'[q] = todo[q]
                 /\ \/ pending' = pending
                    \/ pc[p] = "redo" /\ pending' = pending \ {intent[p]}
      BY <2>1 DEF JInv, TypeOK, Memory, StillOwned
    <2>2. ASSUME NEW q \in Procs, lock = mine'[q], pc'[q] = "apply"
          PROVE  pending' = pending
      <3>1. /\ pc[q] = "apply" /\ lock = mine[q]
            /\ pending' = pending \/ (pc[p] = "redo" /\ pending' = pending \ {intent[p]})
        BY <2>1, <2>2
      <3>2. pending = {intent[q]} /\ intent[q] \notin Rolling(p)
        BY <3>1 DEF JInv, OwnerKnows
      <3>3. QED
        BY <3>1, <3>2 DEF Rolling
    <2>3. QED
      BY <2>1, <2>2, <1>r DEF JInv, OwnerKnows
  <1>7. QED
    BY <1>1, <1>2, <1>3, <1>4, <1>5, <1>6 DEF JInv

\* A crash between two steps.
LEMMA CrashStep == ASSUME JInv, NEW p \in Procs, Crash(p) PROVE JInv'
  BY DieStep DEF Crash, JInv, TypeOK

\* A crash in the middle of an append.
LEMMA TearAppendStep == ASSUME JInv, NEW p \in Procs, TearAppend(p) PROVE JInv'
  BY DieStep DEF TearAppend

\* The end of an operation.
LEMMA FinishStep == ASSUME JInv, NEW p \in Procs, Finish(p) PROVE JInv'
  BY LeaveStep DEF Finish

\* The invariant holds before anything has happened.
LEMMA JInvInit == Init => JInv
  <1> SUFFICES ASSUME Init PROVE JInv
    OBVIOUS
  <1>1. TypeOK
    BY DEF Init, TypeOK, Contents
  <1>2. QED
    BY <1>1 DEF Init, JInv, Memory, WholeIntents, OnePending, Rolled, Numbered, OwnerKnows,
                Rolling, Building

\* Every step preserves it.
LEMMA JInvStep == JInv /\ [Next]_vars => JInv'
  <1> SUFFICES ASSUME JInv, [Next]_vars PROVE JInv'
    OBVIOUS
  <1>1. CASE UNCHANGED vars
    BY <1>1 DEF vars, proc, JInv, TypeOK, Memory, WholeIntents, OnePending, Rolled, Numbered,
                OwnerKnows, Rolling, Building, Whole, Done
  <1>2. ASSUME NEW p \in Procs,
               Acquire(p) \/ Recover(p) \/ Commit(p) \/ Release(p) \/ Crash(p) \/ TearAppend(p)
        PROVE  JInv'
    BY <1>2, CreateLockStep, ObserveLockStep, JudgeStep, ReadJournalStep, PickIntentStep,
       RedoEffectStep, RedoDoneStep, BuildMutationStep, LogIntentStep, ApplyEffectStep,
       LogDoneStep, FinishStep, ReleaseStep, CrashStep, TearAppendStep
       DEF Acquire, Recover, Commit, Release
  <1>3. QED
    BY <1>1, <1>2 DEF Next

\* The invariant of the lock and the journal, whoever crashes or loses its lock.
THEOREM StoreInvariant == Spec => []JInv
  BY JInvInit, JInvStep, PTL DEF Spec

-----------------------------------------------------------------------------
(* The refinement.                                                          *)

\* Recovered, as a function of the journal and the files.
View(unfinished, files) ==
  [f \in Files |->
    LET rolling == {i \in unfinished : f \in DOMAIN i.effect}
    IN IF rolling = {} THEN files[f]
       ELSE (CHOOSE i \in rolling : TRUE).effect[f].after]

\* Recovered is the view of this state's journal and files.
LEMMA RecoveredIsView ==
  /\ Recovered = View(pending, disk)
  /\ Recovered' = View(pending', disk')
  BY DEF Recovered, View

\* With nothing pending the view is the files.
LEMMA ViewOfNone ==
  ASSUME NEW files
  PROVE  View({}, files) = [f \in Files |-> files[f]]
  BY DEF View

\* With one intent pending the view has its after-images.
LEMMA ViewOfOne ==
  ASSUME NEW i, NEW files
  PROVE  View({i}, files) =
           [f \in Files |-> IF f \in DOMAIN i.effect THEN i.effect[f].after ELSE files[f]]
  <1>1. ASSUME NEW f \in Files
        PROVE  View({i}, files)[f] = IF f \in DOMAIN i.effect THEN i.effect[f].after ELSE files[f]
    <2> DEFINE rolling == {j \in {i} : f \in DOMAIN j.effect}
    <2>1. CASE f \in DOMAIN i.effect
      <3>1. rolling = {i}
        BY <2>1
      <3>2. (CHOOSE j \in rolling : TRUE) = i
        BY <3>1
      <3>3. QED
        BY <2>1, <3>1, <3>2 DEF View
    <2>2. CASE f \notin DOMAIN i.effect
      <3>1. rolling = {}
        BY <2>2
      <3>2. QED
        BY <2>2, <3>1 DEF View
    <2>3. QED
      BY <2>1, <2>2
  <1>2. QED
    BY <1>1 DEF View

\* Writing an effect does not change what the next operation will find.
LEMMA WriteIsInvisible ==
  ASSUME JInv, NEW p \in Procs, NEW f \in todo[p],
         \/ pc[p] = "redo" /\ disk[f] \in {intent[p].effect[f].before, intent[p].effect[f].after}
         \/ pc[p] = "apply" /\ StillOwned(p),
         disk' = [disk EXCEPT ![f] = intent[p].effect[f].after],
         pending' = pending
  PROVE  Recovered' = Recovered
  <1> DEFINE i == intent[p]
  <1>1. /\ i.effect[f].after = disk[f] \cup {i.id}
        /\ i \in pending \/ i.id \in disk[f]
        /\ f \in Files /\ f \in DOMAIN i.effect
    BY WriteAddsId
  <1>t. disk \in [Files -> Contents]
    BY DEF JInv, TypeOK
  <1>2. CASE i.id \in disk[f]
    <2>1. disk' = disk
      BY <1>1, <1>2, <1>t
    <2>2. QED
      BY <2>1, RecoveredIsView
  <1>3. CASE i \in pending
    <2>1. pending = {i}
      BY <1>3 DEF JInv, OnePending
    <2>2. \A g \in Files : g \notin DOMAIN i.effect => disk'[g] = disk[g]
      BY <1>1, <1>t
    <2> HIDE DEF i
    <2>3. View({i}, disk') = View({i}, disk)
      <3>1. /\ View({i}, disk') = [g \in Files |-> IF g \in DOMAIN i.effect
                                                  THEN i.effect[g].after ELSE disk'[g]]
            /\ View({i}, disk) = [g \in Files |-> IF g \in DOMAIN i.effect
                                                 THEN i.effect[g].after ELSE disk[g]]
        <4>1. ASSUME NEW files
              PROVE  View({i}, files) = [g \in Files |-> IF g \in DOMAIN i.effect
                                                    THEN i.effect[g].after ELSE files[g]]
          BY ONLY ViewOfOne
        <4>2. QED
          BY ONLY <4>1
      <3>2. QED
        BY ONLY <2>2, <3>1
    <2>4. QED
      BY <2>1, <2>3, RecoveredIsView
  <1>4. QED
    BY <1>1, <1>2, <1>3

\* Neither does the record that a mutation is done.
LEMMA CloseIsInvisible ==
  ASSUME JInv, NEW i, Done(i), pending' = pending \ {i}, disk' = disk
  PROVE  Recovered' = Recovered
  <1>1. CASE i \notin pending
    <2>1. pending' = pending
      BY <1>1
    <2>2. QED
      BY <2>1, RecoveredIsView
  <1>2. CASE i \in pending
    <2>1. pending = {i} /\ pending' = {}
      BY <1>2 DEF JInv, OnePending
    <2>2. \A f \in DOMAIN i.effect : i.effect[f].after = disk[f]
      BY <1>2 DEF JInv, OnePending, WholeIntents, Whole, Done
    <2>3. View({i}, disk) = View({}, disk)
      <3>1. /\ View({i}, disk) = [f \in Files |-> IF f \in DOMAIN i.effect
                                                 THEN i.effect[f].after ELSE disk[f]]
            /\ View({}, disk) = [f \in Files |-> disk[f]]
        BY ViewOfOne, ViewOfNone
      <3>2. QED
        BY ONLY <2>2, <3>1
    <2>4. QED
      BY <2>1, <2>3, RecoveredIsView
  <1>3. QED
    BY <1>1, <1>2

\* The record of the intent is where the mutation happens.
LEMMA LoggingMutates ==
  ASSUME JInv, NEW p \in Procs, pc[p] = "intent", StillOwned(p),
         pending' = pending \cup {intent[p]}, disk' = disk
  PROVE  Store!Next
  <1> DEFINE i == intent[p]
  <1>1. /\ i \in Intents /\ Whole(i)
        /\ pending = {}
        /\ \A f \in DOMAIN i.effect : disk[f] = i.effect[f].before
        /\ \A f \in Files : i.id \notin disk[f]
    BY DEF JInv, Memory, OwnerKnows, Numbered, StillOwned
  <1>t. disk \in [Files -> Contents] /\ i.id \in Mutations
    BY <1>1, IntentFields DEF JInv, TypeOK
  <1>2. pending' = {i}
    BY <1>1
  <1>3. Recovered = disk
    BY <1>1, <1>t, RecoveredIsView, ViewOfNone
  <1> HIDE DEF i
  <1>4. Recovered' = [f \in Files |-> IF f \in DOMAIN i.effect
                                      THEN i.effect[f].after ELSE disk[f]]
    BY <1>2, RecoveredIsView, ViewOfOne
  <1>5. \A f \in DOMAIN i.effect : i.effect[f].after = disk[f] \cup {i.id}
    BY <1>1 DEF Whole
  <1>6. Recovered' = [f \in Files |-> IF f \in DOMAIN i.effect
                                      THEN Recovered[f] \cup {i.id} ELSE Recovered[f]]
    BY <1>3, <1>4, <1>5
  <1>7. DOMAIN i.effect \in (SUBSET Files) \ {{}}
    BY <1>1 DEF Whole
  <1>8. Store!Mutate(i.id, DOMAIN i.effect)
    BY <1>1, <1>3, <1>6 DEF Store!Mutate
  <1>9. QED
    BY <1>t, <1>7, <1>8 DEF Store!Next

\* Every step is a whole mutation of the store, or invisible.
LEMMA StepRefines == JInv /\ [Next]_vars => Store!Next \/ Recovered' = Recovered
  <1> SUFFICES ASSUME JInv, [Next]_vars
               PROVE  Store!Next \/ Recovered' = Recovered
    OBVIOUS
  <1>q. ASSUME UNCHANGED <<disk, pending>>
        PROVE  Recovered' = Recovered
    BY <1>q, RecoveredIsView
  <1>1. CASE UNCHANGED vars
    BY <1>1, <1>q DEF vars
  <1>2. ASSUME NEW p \in Procs, Acquire(p) \/ Release(p) \/ Crash(p) \/ Finish(p)
                  \/ ReadJournal(p) \/ PickIntent(p) \/ BuildMutation(p)
        PROVE  Recovered' = Recovered
    BY <1>2, <1>q DEF Acquire, CreateLock, ObserveLock, Refuse, Steal, UnlinkStale, Release,
       ReleaseCompare, ReleaseUnlink, Crash, Die, Finish, ReadJournal, PickIntent, BuildMutation
  <1>3. ASSUME NEW p \in Procs, RedoEffect(p) \/ ApplyEffect(p)
        PROVE  Recovered' = Recovered
    <2>1. PICK f \in todo[p] :
            \/ UNCHANGED disk
            \/ /\ \/ pc[p] = "redo" /\ disk[f] \in {intent[p].effect[f].before,
                                                    intent[p].effect[f].after}
                  \/ pc[p] = "apply" /\ StillOwned(p)
               /\ disk' = [disk EXCEPT ![f] = intent[p].effect[f].after]
      BY <1>3 DEF RedoEffect, ApplyEffect
    <2>2. pending' = pending
      BY <1>3 DEF RedoEffect, ApplyEffect
    <2>3. QED
      BY <2>1, <2>2, <1>q, WriteIsInvisible
  <1>4. ASSUME NEW p \in Procs, RedoDone(p) \/ LogDone(p)
        PROVE  Recovered' = Recovered
    <2>1. /\ disk' = disk
          /\ \/ pending' = pending
             \/ /\ pending' = pending \ {intent[p]} /\ todo[p] = {}
                /\ pc[p] = "redo" \/ (pc[p] = "apply" /\ StillOwned(p))
      BY <1>4 DEF RedoDone, LogDone
    <2>2. QED
      BY <2>1, <1>q, CloseIsInvisible, DoneWhenApplied
  <1>5. ASSUME NEW p \in Procs, LogIntent(p)
        PROVE  Store!Next \/ Recovered' = Recovered
    BY <1>5, <1>q, LoggingMutates DEF LogIntent
  <1>6. ASSUME NEW p \in Procs, TearAppend(p)
        PROVE  Store!Next \/ Recovered' = Recovered
    <2>1. /\ disk' = disk
          /\ \/ pending' = pending
             \/ /\ pc[p] = "intent" /\ StillOwned(p)
                /\ pending' = pending \cup {intent[p]}
             \/ /\ pending' = pending \ {intent[p]} /\ todo[p] = {}
                /\ pc[p] = "redo" \/ (pc[p] = "apply" /\ StillOwned(p))
      BY <1>6 DEF TearAppend, Die
    <2>2. QED
      BY <2>1, <1>q, CloseIsInvisible, DoneWhenApplied, LoggingMutates
  <1>7. QED
    BY <1>1, <1>2, <1>3, <1>4, <1>5, <1>6 DEF Next, Recover, Commit

\* _operation implements the atomic store its callers count on: the files change by
\* whole mutations, each at most once and none lost, whoever crashes or is robbed.
THEOREM Atomicity == Spec => ImplementsAtomicStore
  <1>1. Init => Store!Init
    <2> SUFFICES ASSUME Init PROVE Recovered = [f \in Files |-> {}]
      BY DEF Store!Init
    <2>1. QED
      BY RecoveredIsView, ViewOfNone DEF Init
  <1>2. JInv /\ [Next]_vars => [Store!Next]_Recovered
    BY StepRefines
  <1>3. QED
    BY <1>1, <1>2, StoreInvariant, PTL DEF Spec, ImplementsAtomicStore, Store!Spec

\* The owner of the lock that has recovered the journal reads whole mutations.
THEOREM ReadsAreWhole == Spec => []ReadsWholeMutations
  <1>1. JInv => ReadsWholeMutations
    BY DEF JInv, OwnerKnows, ReadsWholeMutations, StillOwned
  <1>2. QED
    BY <1>1, StoreInvariant, PTL

\* Lock, journal, files and the memory of every process are of their types.
THEOREM TypeCorrect == Spec => []TypeOK
  <1>1. JInv => TypeOK
    BY DEF JInv
  <1>2. QED
    BY <1>1, StoreInvariant, PTL
===============================================================================
