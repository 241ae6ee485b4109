------------------------------- MODULE Reconcile -------------------------------
(***************************************************************************)
(* The reconciler of scripts/reconcile.js, which places a marked block of  *)
(* generated text in a file that a user owns.  A call takes a lock file    *)
(* next to the target, reads the target, decides between create, append,   *)
(* splice, no-op and refusal, and installs the whole new content by link   *)
(* or rename after it has checked its lock and the target once more.       *)
(* Calls for different blocks, or from different releases, run in          *)
(* processes of their own, which die anywhere; a lock that looks abandoned *)
(* is taken over by a rename.  The user edits the file without any lock.   *)
(*                                                                         *)
(* A target is the user's text (a number of edits) and, for each block,    *)
(* none or its schema version, whether its body drifted and whether it     *)
(* occurs twice.  A complete pair of markers is a block; anything less is  *)
(* the user's text.                                                        *)
(***************************************************************************)
EXTENDS Integers

CONSTANTS
  Callers, Blocks,
  Schemas,       \* schema versions the calls ask for
  MaxPlacings, MaxCallerDeaths, MaxUserEdits,   \* bounds on calls, deaths and the user's edits
  MaxConcurrent,    \* MAX_CONCURRENT_ATTEMPTS
  LiveLooksStale  \* whether a live holder may outlive LOCK_STALE_MS

ReconcileAssumption ==
  /\ Schemas \subseteq Nat \ {0} /\ LiveLooksStale \in BOOLEAN
  /\ "none" \notin Callers
  /\ {MaxPlacings, MaxCallerDeaths, MaxUserEdits, MaxConcurrent} \subseteq Nat

VARIABLES
  target,    \* the file, or NoFile
  mutex,     \* the lock file: by whom, and whether it is older than LOCK_STALE_MS
  caller,    \* what each caller is doing
  placed,    \* the latest version of each block that a call reported as placed, or 0
  placings, callerDeaths, userEdits

reconcileVars == <<target, mutex, caller, placed, placings, callerDeaths, userEdits>>
counters == <<placings, callerDeaths, userEdits>>

NoFile == [text |-> 0, blocks |-> <<>>]
NoMutex == [by |-> "none", stale |-> FALSE]
NoBlock == [version |-> 0, drifted |-> FALSE, twice |-> FALSE]
Clean(version) == [version |-> version, drifted |-> FALSE, twice |-> FALSE]
EmptyTarget == [text |-> 0, blocks |-> [b \in Blocks |-> NoBlock]]
Away == [at |-> "idle"]

CallerAt(c, place) == caller[c].at = place
CallerGoto(c, place) == caller' = [caller EXCEPT ![c].at = place]

-----------------------------------------------------------------------------
(* The lock.                                                                *)

Call(c, b, version) ==
  /\ CallerAt(c, "idle") /\ placings < MaxPlacings
  /\ placings' = placings + 1
  /\ caller' = [caller EXCEPT
       ![c] = [at |-> "lock", block |-> b, version |-> version,
               reclaimed |-> FALSE, tried |-> 0, seen |-> NoFile]]
  /\ UNCHANGED <<target, mutex, placed, callerDeaths, userEdits>>

CreateLock(c) ==
  /\ CallerAt(c, "lock") /\ mutex = NoMutex
  /\ mutex' = [by |-> c, stale |-> FALSE]
  /\ CallerGoto(c, "acquired")
  /\ UNCHANGED <<target, placed, counters>>

\* One reclaim for each call.
SightStaleLock(c) ==
  /\ CallerAt(c, "lock") /\ mutex # NoMutex /\ mutex.stale /\ ~caller[c].reclaimed
  /\ caller' = [caller EXCEPT ![c].at = "reclaim", ![c].reclaimed = TRUE]
  /\ UNCHANGED <<target, mutex, placed, counters>>

\* A rename puts this caller's lock in the place of whichever is there by now.
ReclaimLock(c) ==
  /\ CallerAt(c, "reclaim")
  /\ mutex' = [by |-> c, stale |-> FALSE]
  /\ CallerGoto(c, "acquired")
  /\ UNCHANGED <<target, placed, counters>>

VerifyAcquired(c) ==
  /\ CallerAt(c, "acquired")
  /\ CallerGoto(c, IF mutex.by = c THEN "read" ELSE "lock")
  /\ UNCHANGED <<target, mutex, placed, counters>>

\* LOCK_ACQUIRE_MAX_ATTEMPTS are used up.
GiveUp(c) ==
  /\ CallerAt(c, "lock") /\ mutex # NoMutex /\ (mutex.stale => caller[c].reclaimed)
  /\ caller' = [caller EXCEPT ![c] = Away]
  /\ UNCHANGED <<target, mutex, placed, counters>>

-----------------------------------------------------------------------------
(* The four-way state machine.                                              *)

Absent(c) == caller[c].seen = NoFile

\* Mutant of Refuses: the version that the file carries is not compared.
RefusesDoubles(content, b, version) ==
  content # NoFile /\ content.blocks[b].twice

\* A block that occurs twice, and one that a later release has written.
Refuses(content, b, version) ==
  /\ content # NoFile
  /\ content.blocks[b].twice \/ content.blocks[b].version > version

\* Symlinks and other non-files are refused like these.
ReadTarget(c) ==
  LET b == caller[c].block  version == caller[c].version IN
  /\ CallerAt(c, "read")
  /\ caller' = [caller EXCEPT ![c].seen = target,
       ![c].at = IF Refuses(target, b, version) THEN "release"
                 ELSE IF target # NoFile /\ target.blocks[b] = Clean(version) THEN "release"
                 ELSE "check_lock"]
  /\ UNCHANGED <<target, mutex, placed, counters>>

\* The complete new content lies in a scratch file.  A lock that is lost ends the call.
CheckLock(c) ==
  /\ CallerAt(c, "check_lock")
  /\ CallerGoto(c, IF mutex.by # c THEN "release" ELSE IF Absent(c) THEN "install" ELSE "check_target")
  /\ UNCHANGED <<target, mutex, placed, counters>>

Retry(c) ==
  caller' = [caller EXCEPT ![c].tried = @ + 1,
               ![c].at = IF caller[c].tried + 1 = MaxConcurrent THEN "release" ELSE "read"]

CheckTarget(c) ==
  /\ CallerAt(c, "check_target")
  /\ IF target = caller[c].seen THEN CallerGoto(c, "install") ELSE Retry(c)
  /\ UNCHANGED <<target, mutex, placed, counters>>

\* A link creates and never replaces; a rename replaces whatever is there.
Install(c) ==
  LET b == caller[c].block
      base == IF Absent(c) THEN EmptyTarget ELSE caller[c].seen IN
  /\ CallerAt(c, "install")
  /\ IF Absent(c) /\ target # NoFile
       THEN Retry(c) /\ UNCHANGED <<target, placed>>
       ELSE /\ target' = [base EXCEPT !.blocks[b] = Clean(caller[c].version)]
            /\ placed' = [placed EXCEPT ![b] = IF @ > caller[c].version THEN @ ELSE caller[c].version]
            /\ CallerGoto(c, "release")
  /\ UNCHANGED <<mutex, counters>>

\* Looked at first, then removed by its path.
ReleaseLock(c) ==
  /\ CallerAt(c, "release")
  /\ IF mutex.by = c THEN CallerGoto(c, "unlink") ELSE caller' = [caller EXCEPT ![c] = Away]
  /\ UNCHANGED <<target, mutex, placed, counters>>

UnlinkLock(c) ==
  /\ CallerAt(c, "unlink")
  /\ mutex' = NoMutex
  /\ caller' = [caller EXCEPT ![c] = Away]
  /\ UNCHANGED <<target, placed, counters>>

-----------------------------------------------------------------------------
(* What happens to the files from outside.                                  *)

CallerDies(c) ==
  /\ ~CallerAt(c, "idle") /\ callerDeaths < MaxCallerDeaths
  /\ callerDeaths' = callerDeaths + 1
  /\ caller' = [caller EXCEPT ![c] = Away]
  /\ UNCHANGED <<target, mutex, placed, placings, userEdits>>

\* A lock ages once its holder is gone, or stands still for longer than the limit.
LockGoesStale ==
  /\ mutex # NoMutex /\ ~mutex.stale
  /\ LiveLooksStale \/ caller[mutex.by].at = "idle"
  /\ mutex' = [mutex EXCEPT !.stale = TRUE]
  /\ UNCHANGED <<target, caller, placed, counters>>

\* The user writes around the blocks, in one, copies one, removes one or the file.
UserEdits ==
  /\ userEdits < MaxUserEdits
  /\ userEdits' = userEdits + 1
  /\ \/ /\ target' = IF target = NoFile THEN [EmptyTarget EXCEPT !.text = userEdits + 1]
                                        ELSE [target EXCEPT !.text = userEdits + 1]
        /\ UNCHANGED placed
     \/ /\ target # NoFile
        /\ \E b \in Blocks :
             /\ target.blocks[b] # NoBlock
             /\ \E edited \in {[target.blocks[b] EXCEPT !.drifted = TRUE],
                               [target.blocks[b] EXCEPT !.twice = TRUE], NoBlock} :
                  target' = [target EXCEPT !.blocks[b] = edited]
             /\ placed' = [placed EXCEPT ![b] = 0]
     \/ /\ target # NoFile
        /\ target' = NoFile
        /\ placed' = [b \in Blocks |-> 0]
  /\ UNCHANGED <<mutex, caller, placings, callerDeaths>>

PlaceInit ==
  /\ target = NoFile /\ mutex = NoMutex
  /\ caller = [c \in Callers |-> Away] /\ placed = [b \in Blocks |-> 0]
  /\ placings = 0 /\ callerDeaths = 0 /\ userEdits = 0

PlaceNext ==
  \/ \E c \in Callers :
       \/ \E b \in Blocks, version \in Schemas : Call(c, b, version)
       \/ CreateLock(c) \/ SightStaleLock(c) \/ ReclaimLock(c) \/ VerifyAcquired(c)
       \/ GiveUp(c) \/ ReadTarget(c) \/ CheckLock(c) \/ CheckTarget(c) \/ Install(c)
       \/ ReleaseLock(c) \/ UnlinkLock(c) \/ CallerDies(c)
  \/ LockGoesStale \/ UserEdits

PlaceSpec == PlaceInit /\ [][PlaceNext]_reconcileVars

-----------------------------------------------------------------------------
\* A block that a call reported as placed stays in the file, at that version or a
\* later one, until the user touches it: no other call discards or downgrades it.
PlacedBlocksStay ==
  \A b \in Blocks :
    placed[b] # 0 => target # NoFile /\ target.blocks[b].version >= placed[b]

=============================================================================
