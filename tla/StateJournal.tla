----------------------------- MODULE StateJournal -----------------------------
(***************************************************************************)
(* The owner-token lock and the mutation journal under every operation of  *)
(* scripts/state-store.js: _acquireLock, _recoverJournal, _commit and      *)
(* _releaseLock, run by several processes that crash, stall, and steal the *)
(* lock of one another.                                                    *)
(*                                                                         *)
(* A step is one file operation together with the check that immediately   *)
(* precedes it: _assertStillOwned and the write it guards, or the compare  *)
(* of a recovery and its replacement.  A process that stalls, stalls       *)
(* between two steps.  The lock is compared and unlinked in two steps,     *)
(* because there two processes race without either of them stalling.       *)
(***************************************************************************)
EXTENDS Naturals, FiniteSets

CONSTANTS
  Procs,          \* processes that open the store
  Files,          \* the files of the state directory
  Tokens,         \* owner tokens, as numbers from 1
  MaxMutations,   \* bound on the mutations that are begun
  MaxCrashes,     \* bound on the crashes
  StealFromLive,  \* whether a live owner can leave its lock unrenewed for longer
                  \* than the lease
  TornAppends     \* whether a crash can leave half a record behind

ASSUME JournalAssumption ==
  /\ Tokens \subseteq Nat \ {0}
  /\ MaxMutations \in Nat
  /\ MaxCrashes \in Nat
  /\ StealFromLive \in BOOLEAN
  /\ TornAppends \in BOOLEAN

VARIABLES
  lock,     \* state.lock: the owner token in it
  disk,     \* the state files
  pending,  \* the MUTATION_INTENT records of state-journal.jsonl that have no
            \* MUTATION_DONE record, the unreadable ones of a glued line included
  tail,     \* how the journal ends: "whole", "torn", or "glued" once a record
            \* was appended to half of another one
  pc,       \* where in _operation each process is
  mine,     \* _heldOwnerToken
  seen,     \* the owner token of the lock a process tries to steal
  replay,   \* the intents a recovery has still to roll forward
  todo,     \* the effects of the current intent still to be applied
  intent,   \* the intent being rolled forward or committed
  begun,    \* number of mutations begun
  crashes   \* number of crashes

proc == <<pc, mine, seen, replay, todo, intent>>
vars == <<lock, disk, pending, tail, proc, begun, crashes>>

Mutations == 1..MaxMutations
Contents == SUBSET Mutations
Effect == [before: Contents, after: Contents]
NoIntent == [id |-> 0, effect |-> [f \in {} |-> {}]]
Intents == [id : Mutations, effect : UNION {[touched -> Effect] : touched \in SUBSET Files}]

NoToken == 0

\* A token is random, so a new one is in no file and no memory already; which of
\* those it is makes no difference.
Fresh(t) == t # lock /\ \A p \in Procs : t \notin {mine[p], seen[p]}
NewToken == CHOOSE t \in Tokens : Fresh(t)

OwnerAlive(t) == \E p \in Procs : mine[p] = t

\* _assertStillOwned
StillOwned(p) == lock = mine[p]

Goto(p, label) == pc' = [pc EXCEPT ![p] = label]

\* An exception, or the end of the operation: _operation's finally clause.
Leave(p) ==
  /\ Goto(p, "release")
  /\ replay' = [replay EXCEPT ![p] = {}]
  /\ todo' = [todo EXCEPT ![p] = {}]
  /\ intent' = [intent EXCEPT ![p] = NoIntent]
  /\ UNCHANGED <<mine, seen>>

\* _appendDurable writes its line at the end of whatever the file holds.
AppendsTo(t) == IF t = "whole" THEN "whole" ELSE "glued"

-----------------------------------------------------------------------------
(* _acquireLock.                                                            *)

\* _createLockFile links a complete lock file into place, or finds one there.
CreateLock(p) ==
  /\ pc[p] = "idle"
  /\ lock = NoToken
  /\ \E t \in Tokens : Fresh(t)
  /\ lock' = NewToken
  /\ mine' = [mine EXCEPT ![p] = NewToken]
  /\ Goto(p, "recover")
  /\ UNCHANGED <<disk, pending, tail, seen, replay, todo, intent, begun,
                 crashes>>

ObserveLock(p) ==
  /\ pc[p] = "idle"
  /\ lock # NoToken
  /\ seen' = [seen EXCEPT ![p] = lock]
  /\ Goto(p, "judge")
  /\ UNCHANGED <<lock, disk, pending, tail, mine, replay, todo, intent,
                 begun, crashes>>

\* The lock was renewed within the lease: LOCKED.
Refuse(p) ==
  /\ pc[p] = "judge"
  /\ seen' = [seen EXCEPT ![p] = NoToken]
  /\ Goto(p, "idle")
  /\ UNCHANGED <<lock, disk, pending, tail, mine, replay, todo, intent,
                 begun, crashes>>

\* Mutant of Steal: an owner that is not observable is never judged stale.
StealUnlessDead(p) ==
  /\ pc[p] = "judge"
  /\ StealFromLive /\ OwnerAlive(seen[p])
  /\ IF lock = seen[p]
     THEN Goto(p, "unlink") /\ UNCHANGED seen
     ELSE Goto(p, "idle") /\ seen' = [seen EXCEPT ![p] = NoToken]
  /\ UNCHANGED <<lock, disk, pending, tail, mine, replay, todo, intent,
                 begun, crashes>>

\* The lock was not renewed for a lease: _unlinkLockIfOwner opens it and
\* compares its token with the one that was judged.
Steal(p) ==
  /\ pc[p] = "judge"
  /\ StealFromLive \/ ~OwnerAlive(seen[p])
  /\ IF lock = seen[p]
     THEN Goto(p, "unlink") /\ UNCHANGED seen
     ELSE Goto(p, "idle") /\ seen' = [seen EXCEPT ![p] = NoToken]
  /\ UNCHANGED <<lock, disk, pending, tail, mine, replay, todo, intent,
                 begun, crashes>>

\* It unlinks by name, whichever lock has that name by now.
UnlinkStale(p) ==
  /\ pc[p] = "unlink"
  /\ lock' = NoToken
  /\ seen' = [seen EXCEPT ![p] = NoToken]
  /\ Goto(p, "idle")
  /\ UNCHANGED <<disk, pending, tail, mine, replay, todo, intent, begun,
                 crashes>>

-----------------------------------------------------------------------------
(* _recoverJournal.                                                         *)

\* Ownership is asserted once, then the journal is read: a torn last line is
\* no record, a line glued to half of another one is CORRUPT_STATE.
ReadJournal(p) ==
  /\ pc[p] = "recover"
  /\ IF StillOwned(p) /\ tail # "glued"
     THEN /\ replay' = [replay EXCEPT ![p] = pending]
          /\ Goto(p, IF pending = {} THEN "mutate" ELSE "replay")
          /\ UNCHANGED <<mine, seen, todo, intent>>
     ELSE Leave(p)
  /\ UNCHANGED <<lock, disk, pending, tail, begun, crashes>>

PickIntent(p) ==
  /\ pc[p] = "replay"
  /\ \E i \in replay[p] :
       /\ \A j \in replay[p] : i.id <= j.id
       /\ intent' = [intent EXCEPT ![p] = i]
       /\ todo' = [todo EXCEPT ![p] = DOMAIN i.effect]
       /\ replay' = [replay EXCEPT ![p] = @ \ {i}]
       /\ Goto(p, "redo")
  /\ UNCHANGED <<lock, disk, pending, tail, mine, seen, begun, crashes>>

\* Roll one effect forward, unless the file is in neither state of the effect:
\* AMBIGUOUS_RECOVERY.
RedoEffect(p) ==
  /\ pc[p] = "redo"
  /\ \E f \in todo[p] :
       LET effect == intent[p].effect[f]
       IN IF disk[f] \in {effect.before, effect.after}
          THEN /\ disk' = [disk EXCEPT ![f] = effect.after]
               /\ todo' = [todo EXCEPT ![p] = @ \ {f}]
               /\ UNCHANGED <<pc, mine, seen, replay, intent>>
          ELSE Leave(p) /\ UNCHANGED disk
  /\ UNCHANGED <<lock, pending, tail, begun, crashes>>

RedoDone(p) ==
  /\ pc[p] = "redo"
  /\ todo[p] = {}
  /\ pending' = pending \ {intent[p]}
  /\ tail' = AppendsTo(tail)
  /\ intent' = [intent EXCEPT ![p] = NoIntent]
  /\ Goto(p, IF replay[p] = {} THEN "mutate" ELSE "replay")
  /\ UNCHANGED <<lock, disk, mine, seen, replay, todo, begun, crashes>>

-----------------------------------------------------------------------------
(* _commit, as often as the operation calls it, and reads.                  *)

\* The builders read the files and compute what is to replace them.
BuildMutation(p) ==
  /\ pc[p] = "mutate"
  /\ begun < MaxMutations
  /\ \E touched \in (SUBSET Files) \ {{}} :
       /\ intent' = [intent EXCEPT ![p] =
                      [id |-> begun + 1,
                       effect |-> [f \in touched |->
                         [before |-> disk[f], after |-> disk[f] \cup {begun + 1}]]]]
       /\ todo' = [todo EXCEPT ![p] = touched]
  /\ begun' = begun + 1
  /\ Goto(p, "intent")
  /\ UNCHANGED <<lock, disk, pending, tail, mine, seen, replay, crashes>>

\* Mutant of LogIntent: no ownership check before the intent is appended.
LogIntentUnchecked(p) ==
  /\ pc[p] = "intent"
  /\ pending' = pending \cup {intent[p]}
  /\ tail' = AppendsTo(tail)
  /\ Goto(p, "apply")
  /\ UNCHANGED <<lock, disk, mine, seen, replay, todo, intent, begun, crashes>>

LogIntent(p) ==
  /\ pc[p] = "intent"
  /\ IF StillOwned(p)
     THEN /\ pending' = pending \cup {intent[p]}
          /\ tail' = AppendsTo(tail)
          /\ Goto(p, "apply")
          /\ UNCHANGED <<mine, seen, replay, todo, intent>>
     ELSE Leave(p) /\ UNCHANGED <<pending, tail>>
  /\ UNCHANGED <<lock, disk, begun, crashes>>

\* Mutant of ApplyEffect: ownership is not asserted before every effect.
ApplyEffectUnchecked(p) ==
  /\ pc[p] = "apply"
  /\ \E f \in todo[p] :
       /\ disk' = [disk EXCEPT ![f] = intent[p].effect[f].after]
       /\ todo' = [todo EXCEPT ![p] = @ \ {f}]
  /\ UNCHANGED <<lock, pending, tail, pc, mine, seen, replay, intent, begun,
                 crashes>>

ApplyEffect(p) ==
  /\ pc[p] = "apply"
  /\ \E f \in todo[p] :
       IF StillOwned(p)
       THEN /\ disk' = [disk EXCEPT ![f] = intent[p].effect[f].after]
            /\ todo' = [todo EXCEPT ![p] = @ \ {f}]
            /\ UNCHANGED <<pc, mine, seen, replay, intent>>
       ELSE Leave(p) /\ UNCHANGED disk
  /\ UNCHANGED <<lock, pending, tail, begun, crashes>>

LogDone(p) ==
  /\ pc[p] = "apply"
  /\ todo[p] = {}
  /\ IF StillOwned(p)
     THEN /\ pending' = pending \ {intent[p]}
          /\ tail' = AppendsTo(tail)
          /\ intent' = [intent EXCEPT ![p] = NoIntent]
          /\ Goto(p, "mutate")
          /\ UNCHANGED <<mine, seen, replay, todo>>
     ELSE Leave(p) /\ UNCHANGED <<pending, tail>>
  /\ UNCHANGED <<lock, disk, begun, crashes>>

\* The operation has no more to change.
Finish(p) ==
  /\ pc[p] = "mutate"
  /\ Leave(p)
  /\ UNCHANGED <<lock, disk, pending, tail, begun, crashes>>

-----------------------------------------------------------------------------
(* _releaseLock, and the ways a process stops.                              *)

\* The lock is released by the same compare and unlink; one that is gone or
\* has another owner is left alone.
ReleaseCompare(p) ==
  /\ pc[p] = "release"
  /\ IF StillOwned(p)
     THEN Goto(p, "disown") /\ UNCHANGED mine
     ELSE Goto(p, "idle") /\ mine' = [mine EXCEPT ![p] = NoToken]
  /\ UNCHANGED <<lock, disk, pending, tail, seen, replay, todo, intent,
                 begun, crashes>>

ReleaseUnlink(p) ==
  /\ pc[p] = "disown"
  /\ lock' = NoToken
  /\ mine' = [mine EXCEPT ![p] = NoToken]
  /\ Goto(p, "idle")
  /\ UNCHANGED <<disk, pending, tail, seen, replay, todo, intent, begun,
                 crashes>>

\* What a process leaves when it dies is in the files; its memory is lost.
Die(p) ==
  /\ crashes < MaxCrashes
  /\ crashes' = crashes + 1
  /\ Goto(p, "idle")
  /\ mine' = [mine EXCEPT ![p] = NoToken]
  /\ seen' = [seen EXCEPT ![p] = NoToken]
  /\ replay' = [replay EXCEPT ![p] = {}]
  /\ todo' = [todo EXCEPT ![p] = {}]
  /\ intent' = [intent EXCEPT ![p] = NoIntent]
  /\ UNCHANGED <<lock, disk, begun>>

Crash(p) ==
  /\ pc[p] # "idle"
  /\ Die(p)
  /\ UNCHANGED <<pending, tail>>

\* A crash in the middle of an append leaves the first part of the record,
\* which is still a record when only the end of the line is missing.
TearAppend(p) ==
  /\ TornAppends
  /\ \/ /\ pc[p] = "intent" /\ StillOwned(p)
        /\ pending' \in {pending, pending \cup {intent[p]}}
     \/ /\ todo[p] = {}
        /\ \/ pc[p] = "redo"
           \/ pc[p] = "apply" /\ StillOwned(p)
        /\ pending' \in {pending, pending \ {intent[p]}}
  /\ Die(p)
  /\ tail' = IF tail = "whole" THEN "torn" ELSE "glued"

-----------------------------------------------------------------------------

Init ==
  /\ lock = NoToken
  /\ disk = [f \in Files |-> {}]
  /\ pending = {} /\ tail = "whole"
  /\ pc = [p \in Procs |-> "idle"]
  /\ mine = [p \in Procs |-> NoToken]
  /\ seen = [p \in Procs |-> NoToken]
  /\ replay = [p \in Procs |-> {}]
  /\ todo = [p \in Procs |-> {}]
  /\ intent = [p \in Procs |-> NoIntent]
  /\ begun = 0 /\ crashes = 0

Acquire(p) ==
  CreateLock(p) \/ ObserveLock(p) \/ Refuse(p) \/ Steal(p) \/ UnlinkStale(p)
Recover(p) == ReadJournal(p) \/ PickIntent(p) \/ RedoEffect(p) \/ RedoDone(p)
Commit(p) ==
  BuildMutation(p) \/ LogIntent(p) \/ ApplyEffect(p) \/ LogDone(p) \/ Finish(p)
Release(p) == ReleaseCompare(p) \/ ReleaseUnlink(p)

Next == \E p \in Procs :
  Acquire(p) \/ Recover(p) \/ Commit(p) \/ Release(p) \/ Crash(p) \/ TearAppend(p)

Spec == Init /\ [][Next]_vars

\* Processes keep using the store and do not stop in the middle of an
\* operation, except by crashing.  A lock whose owner is dead is not renewed, so
\* a process that meets it again and again finds it older than the lease.
Fairness == \A p \in Procs :
  /\ WF_vars(Acquire(p) \/ Recover(p) \/ Commit(p) \/ Release(p))
  /\ SF_vars(Steal(p))
  /\ SF_vars(CreateLock(p))

FairSpec == Spec /\ Fairness

-----------------------------------------------------------------------------

\* What the next operation will find once it has recovered the journal.
Recovered ==
  [f \in Files |->
    LET rolling == {i \in pending : f \in DOMAIN i.effect}
    IN IF rolling = {} THEN disk[f]
       ELSE (CHOOSE i \in rolling : TRUE).effect[f].after]

Store == INSTANCE AtomicStore WITH value <- Recovered

\* The store changes by whole mutations, each at most once and none lost,
\* whoever crashes in the middle of one, steals the lock or is stolen from.
ImplementsAtomicStore == Store!Spec

\* Every variable holds a value of its type.
TypeOK ==
  /\ lock \in Tokens \cup {NoToken}
  /\ disk \in [Files -> Contents]
  /\ pending \subseteq Intents
  /\ tail \in {"whole", "torn", "glued"}
  /\ pc \in [Procs -> {"idle", "judge", "unlink", "recover", "replay",
                       "redo", "mutate", "intent", "apply", "release", "disown"}]
  /\ mine \in [Procs -> Tokens \cup {NoToken}]
  /\ seen \in [Procs -> Tokens \cup {NoToken}]
  /\ replay \in [Procs -> SUBSET Intents]
  /\ todo \in [Procs -> SUBSET Files]
  /\ intent \in [Procs -> Intents \cup {NoIntent}]
  /\ begun \in 0..MaxMutations
  /\ crashes \in 0..MaxCrashes

\* An operation that owns the lock and has recovered the journal never reads
\* one file of a mutation without the others.
ReadsWholeMutations ==
  \A p \in Procs : pc[p] = "mutate" /\ StillOwned(p) => pending = {}

\* A mutation whose owner died half way through is completed by whoever uses
\* the store next, as long as the journal has no torn line.
OrphanIsCompleted ==
  (pending # {} /\ tail = "whole") ~> (pending = {} \/ tail # "whole")

\* contracts/01: a torn journal tail is an absent record, so the journal can
\* still be read.
JournalStaysReadable == tail # "glued"
=============================================================================
