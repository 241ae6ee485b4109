------------------------------ MODULE PromotionTx ------------------------------
(***************************************************************************)
(* The promotion transaction of scripts/promote.js: promote, rollback and  *)
(* recover, and the garbage collection of trees, by processes that crash   *)
(* between any two durable writes.                                         *)
(*                                                                         *)
(* A step is one durable write: a journal record that something reads back *)
(* later, an adoption-log entry, a pointer, a manifest, a window or a      *)
(* tree.  Journal records that decide nothing (VALIDATED, the _DONE of the *)
(* appends, SWAP_INTENT, RECOVERY_STEP and the like) are left out.  The    *)
(* lock is exclusive: StateJournal is about what happens when it is not.   *)
(*                                                                         *)
(* A hash is modelled by what it was computed from: a tree is the sequence *)
(* of the edits that made it, a txid is the pair of a packet's fingerprint *)
(* and the ACTIVE pointer it was based on, and the head of the adoption    *)
(* log is its length, because the log only grows.                          *)
(***************************************************************************)
EXTENDS Naturals, Sequences, FiniteSets

CONSTANTS
  Procs,        \* processes that run promote, rollback or recover
  NoProc,       \* nobody holds the lock
  Edits,        \* the changes that are proposed
  Reversible,   \* those that are doc or knob, reversible and auto-rollback eligible
  Retries,      \* whether a packet is promoted again on the ACTIVE it was begun on
  Rollbacks,    \* whether completed promotions are rolled back
  FailAt,       \* the steps that can fail, as an I/O error does
  TornAppends,  \* whether a crash can leave half a record behind
  MaxBegun,     \* bound on the transactions begun
  MaxCrashes,   \* bound on the crashes
  MaxFailures   \* bound on the failing steps

Steps ==
  {"begin", "install", "stage_done", "log_intent", "append", "admit",
   "window_pending", "swap", "outcome_intent", "effective", "manifest",
   "finalize", "window_final", "tx_done", "remove", "tx_abort",
   "abort_intent", "abort_entry", "abort_manifest", "append_done"}

ASSUME PromotionAssumption ==
  /\ NoProc \notin Procs
  /\ Reversible \subseteq Edits
  /\ Retries \in BOOLEAN
  /\ Rollbacks \in BOOLEAN
  /\ FailAt \subseteq Steps
  /\ TornAppends \in BOOLEAN
  /\ MaxBegun \in Nat /\ MaxCrashes \in Nat /\ MaxFailures \in Nat

VARIABLES
  active,    \* ACTIVE, the pointer to the adopted tree
  log,       \* adoption-log.jsonl
  manifest,  \* what the project manifest anchors: a log head and a pointer
  journal,   \* promotion/journal.jsonl
  tails,     \* how the journal and the log end: "whole", "torn", or "glued" once
             \* a record was appended after half of another one
  window,    \* window.json
  trees,     \* the tree directories under evolvable/
  pinned,    \* the trees that live runs are registered on
  lock,      \* who holds state.lock
  pc,        \* the next step of each process
  work,      \* what each process is promoting or recovering
  crashes, failures

durable == <<active, log, manifest, journal, tails, window, trees>>
vars == <<durable, pinned, lock, pc, work, crashes, failures>>

NoTx == <<>>
Seed == [tx |-> NoTx, tree |-> <<>>]
NoWork == [mode |-> "none", tx |-> NoTx, base |-> Seed, head |-> 0, tree |-> <<>>,
           packet |-> [fp |-> NoTx, rollback_of |-> NoTx]]

TxId(packet, pointer) == <<packet.fp, pointer>>
ToPointer(w) == [tx |-> w.tx, tree |-> w.tree]

-----------------------------------------------------------------------------
(* Reading the journal.                                                     *)

Places(kind, tx) ==
  {i \in DOMAIN journal : journal[i].kind = kind /\ journal[i].tx = tx}
Journaled(kind, tx) == Places(kind, tx) # {}
LastRecord(kind, tx) ==
  journal[CHOOSE i \in Places(kind, tx) : \A j \in Places(kind, tx) : j <= i]

Terminated(tx) == Journaled("TX_DONE", tx) \/ Journaled("TX_ABORT", tx)

\* unfinishedTransactions: begun, and without any terminal record.
Unfinished ==
  {journal[i].tx : i \in {j \in DOMAIN journal :
     journal[j].kind = "TX_BEGIN" /\ ~Terminated(journal[j].tx)}}

Begun == Cardinality({i \in DOMAIN journal : journal[i].kind = "TX_BEGIN"})

\* The trees of the completed transactions, in the order they were staged.
CompletedTreeHistory ==
  LET Completed(r) == r.kind = "STAGE_DONE" /\ Journaled("TX_DONE", r.tx)
      staged == SelectSeq(journal, Completed)
      all == [i \in 1..(Len(staged) + 1) |->
                IF i = 1 THEN staged[1].from ELSE staged[i - 1].tree]
      Moves(i) == i = 1 \/ all[i] # all[i - 1]
      kept == SelectSeq([i \in 1..Len(all) |-> i], Moves)
  IN IF staged = <<>> THEN <<>> ELSE [i \in 1..Len(kept) |-> all[kept[i]]]

IsReversible(packet) ==
  packet.rollback_of = NoTx /\ packet.fp[2] \in Reversible

\* The tree a rollback of the active transaction would go back to.
RollbackEligiblePrevious ==
  IF Journaled("TX_DONE", active.tx)
     /\ IsReversible(LastRecord("TX_BEGIN", active.tx).packet)
  THEN {LastRecord("STAGE_DONE", active.tx).from} ELSE {}

\* Mutant of Garbage: the registered runs are not asked.
GarbageUnderReaders ==
  LET history == CompletedTreeHistory
      older == {history[i] : i \in {j \in DOMAIN history : j + 2 <= Len(history)}}
  IN older \ ({active.tree} \cup RollbackEligiblePrevious)

\* What garbageCollect deletes.
Garbage ==
  LET history == CompletedTreeHistory
      older == {history[i] : i \in {j \in DOMAIN history : j + 2 <= Len(history)}}
  IN older \ ({active.tree} \cup RollbackEligiblePrevious \cup pinned)

-----------------------------------------------------------------------------
(* What the steps have in common.                                           *)

Admissible == {"NO_WINDOW", "CLOSED"}

\* appendDurable starts a new line, so that half a record is a line of its own
\* that nobody can read.
AppendTo(file) ==
  tails' = [tails EXCEPT ![file] = IF @ = "whole" THEN "whole" ELSE "glued"]

Write(record) == journal' = Append(journal, record) /\ AppendTo("journal")

Goto(p, step) == pc' = [pc EXCEPT ![p] = step]

\* The process is through, whatever the outcome, and lets the lock go.
Stop(p) ==
  /\ pc' = [pc EXCEPT ![p] = "idle"]
  /\ work' = [work EXCEPT ![p] = NoWork]
  /\ lock' = NoProc

\* appendEntry reads the log again after it appended; a log that cannot be read
\* is CORRUPT_STATE.
Enter(p, status, step) ==
  /\ AppendTo("log")
  /\ IF tails.log = "whole"
     THEN /\ log' = Append(log, [tx |-> work[p].tx, status |-> status])
          /\ Goto(p, step)
          /\ UNCHANGED <<lock, work>>
     ELSE Stop(p) /\ UNCHANGED log

Holds(p, step) == lock = p /\ pc[p] = step
Bounds == <<crashes, failures>>

\* Both files can be parsed.
Readable == tails.journal # "glued" /\ tails.log # "glued"

\* refuseEarly.
Refused(packet) ==
  \/ ~Readable
  \/ Unfinished # {}
  \/ manifest.head # Len(log)
  \/ packet.rollback_of = NoTx /\ window.state \notin Admissible

Expected(pointer, head) == active = pointer /\ Len(log) = head

\* expectedState: promote halts, and leaves the rest to recover, when ACTIVE or the
\* log are not as it left them.  recover looks at them once, in Classifiable.
Halts(p, pointer, head) == work[p].mode = "promote" /\ ~Expected(pointer, head)

\* The entry a transaction makes visible first, as its position in the log.
CommittingAt(p) == work[p].head + 1

-----------------------------------------------------------------------------
(* Before the lock: choose a packet and stage its tree.                     *)

Prepare(p, packet, tree) ==
  /\ pc[p] = "idle"
  /\ ~Refused(packet)
  /\ Begun < MaxBegun
  /\ work' = [work EXCEPT ![p] =
       [mode |-> "promote", tx |-> TxId(packet, active), base |-> active,
        head |-> Len(log), tree |-> tree, packet |-> packet]]
  /\ Goto(p, "staged")
  /\ UNCHANGED <<durable, pinned, lock, Bounds>>

Proposed(tx) ==
  Journaled("TX_BEGIN", tx) \/ \E p \in Procs : work[p].tx = tx

Stage(p, edit) ==
  LET packet == [fp |-> <<"edit", edit>>, rollback_of |-> NoTx]
  IN /\ Retries \/ ~Proposed(TxId(packet, active))
     /\ Prepare(p, packet, Append(active.tree, edit))

\* rollback: the source tree is verified, nothing is staged.
StageRollback(p, tx) ==
  LET packet == [fp |-> <<"rollback", tx>>, rollback_of |-> tx]
  IN /\ Rollbacks
     /\ Journaled("TX_DONE", tx)
     /\ IsReversible(LastRecord("TX_BEGIN", tx).packet)
     /\ LastRecord("STAGE_DONE", tx).from \in trees
     /\ Retries \/ ~Proposed(TxId(packet, active))
     /\ Prepare(p, packet, LastRecord("STAGE_DONE", tx).from)

\* Mutant of Lock: the base is not compared under the lock.
LockOnStaleBase(p) ==
  /\ pc[p] = "staged"
  /\ lock = NoProc
  /\ IF Refused(work[p].packet)
     THEN Stop(p) /\ UNCHANGED trees
     ELSE /\ trees' = trees \ Garbage
          /\ lock' = p /\ Goto(p, "begin")
          /\ work' = [work EXCEPT ![p].tx = TxId(work[p].packet, active),
                                  ![p].base = active, ![p].head = Len(log)]
  /\ UNCHANGED <<active, log, manifest, journal, tails, window, pinned, Bounds>>

\* acquire, the authoritative refuseEarly, garbageCollect, and the check that
\* what was staged was staged from what is still current (STALE_STAGING).
Lock(p) ==
  /\ pc[p] = "staged"
  /\ lock = NoProc
  /\ IF Refused(work[p].packet)
     THEN Stop(p) /\ UNCHANGED trees
     ELSE /\ trees' = trees \ Garbage
          /\ IF Expected(work[p].base, work[p].head)
             THEN lock' = p /\ Goto(p, "begin") /\ UNCHANGED work
             ELSE Stop(p)
  /\ UNCHANGED <<active, log, manifest, journal, tails, window, pinned, Bounds>>

-----------------------------------------------------------------------------
(* Under the lock.  A recovery takes up at the step that was not done yet.  *)

Begin(p) ==
  /\ Holds(p, "begin")
  /\ Write([kind |-> "TX_BEGIN", tx |-> work[p].tx, active |-> work[p].base,
            head |-> work[p].head, packet |-> work[p].packet])
  /\ Goto(p, "install")
  /\ UNCHANGED <<active, log, manifest, window, trees, pinned, lock, work, Bounds>>

\* installStaged; a rollback has nothing to install.
Install(p) ==
  /\ Holds(p, "install")
  /\ trees' = IF work[p].packet.rollback_of = NoTx
              THEN trees \cup {work[p].tree} ELSE trees
  /\ Goto(p, "stage_done")
  /\ UNCHANGED <<active, log, manifest, journal, tails, window, pinned, lock, work, Bounds>>

LogStage(p) ==
  /\ Holds(p, "stage_done")
  /\ Write([kind |-> "STAGE_DONE", tx |-> work[p].tx, tree |-> work[p].tree,
            from |-> work[p].base.tree])
  /\ Goto(p, "log_intent")
  /\ UNCHANGED <<active, log, manifest, window, trees, pinned, lock, work, Bounds>>

\* The published tree is verified (VALIDATION_FAILED aborts), then the intent
\* to append is recorded.
LogIntent(p) ==
  /\ Holds(p, "log_intent")
  /\ IF work[p].tree \in trees
     THEN /\ Write([kind |-> "LOG_APPEND_INTENT", tx |-> work[p].tx])
          /\ Goto(p, "append")
     ELSE Goto(p, "remove") /\ UNCHANGED <<journal, tails>>
  /\ UNCHANGED <<active, log, manifest, window, trees, pinned, lock, work, Bounds>>

AppendCommitting(p) ==
  /\ Holds(p, "append")
  /\ IF Halts(p, work[p].base, work[p].head)
     THEN Stop(p) /\ UNCHANGED <<log, tails>>
     ELSE Enter(p, "committing", "admit")
  /\ UNCHANGED <<active, manifest, journal, window, trees, pinned, Bounds>>

CanAdmit(packet) ==
  IF packet.rollback_of = NoTx
  THEN window.state \in Admissible
  ELSE /\ window.tx = packet.rollback_of
       /\ window.state \in {"OBSERVING", "ROLLING_BACK", "ADMITTED"}

\* admitWindow; when it refuses, promote compensates and recover gives up.
AdmitWindow(p) ==
  /\ Holds(p, "admit")
  /\ IF CanAdmit(work[p].packet)
     THEN /\ window' = IF work[p].packet.rollback_of = NoTx
                       THEN [state |-> "ADMITTED", tx |-> work[p].tx]
                       ELSE [window EXCEPT !.state = "ROLLING_BACK"]
          /\ Goto(p, "window_pending")
          /\ UNCHANGED <<lock, work>>
     ELSE /\ IF work[p].mode = "promote"
             THEN Goto(p, "abort_intent") /\ UNCHANGED <<lock, work>>
             ELSE Stop(p)
          /\ UNCHANGED window
  /\ UNCHANGED <<active, log, manifest, journal, tails, trees, pinned, Bounds>>

LogWindowPending(p) ==
  /\ Holds(p, "window_pending")
  /\ Write([kind |-> "WINDOW_PENDING", tx |-> work[p].tx])
  /\ Goto(p, "swap")
  /\ UNCHANGED <<active, log, manifest, window, trees, pinned, lock, work, Bounds>>

Swap(p) ==
  /\ Holds(p, "swap")
  /\ IF Halts(p, work[p].base, CommittingAt(p))
     THEN Stop(p) /\ UNCHANGED active
     ELSE /\ active' = ToPointer(work[p])
          /\ Goto(p, "outcome_intent")
          /\ UNCHANGED <<lock, work>>
  /\ UNCHANGED <<log, manifest, journal, tails, window, trees, pinned, Bounds>>

LogOutcome(p) ==
  /\ Holds(p, "outcome_intent")
  /\ Write([kind |-> "OUTCOME_APPEND_INTENT", tx |-> work[p].tx, status |-> "effective"])
  /\ Goto(p, "effective")
  /\ UNCHANGED <<active, log, manifest, window, trees, pinned, lock, work, Bounds>>

AppendEffective(p) ==
  /\ Holds(p, "effective")
  /\ IF Halts(p, ToPointer(work[p]), CommittingAt(p))
     THEN Stop(p) /\ UNCHANGED <<log, tails>>
     ELSE Enter(p, "effective", "manifest")
  /\ UNCHANGED <<active, manifest, journal, window, trees, pinned, Bounds>>

ReplaceManifest(p) ==
  /\ Holds(p, "manifest")
  /\ manifest' = [head |-> Len(log), pointer |-> ToPointer(work[p])]
  /\ Goto(p, "finalize")
  /\ UNCHANGED <<active, log, journal, tails, window, trees, pinned, lock, work, Bounds>>

\* finalizeWindow; it halts when the window is another one's by now.
FinalizeWindow(p) ==
  LET back == work[p].packet.rollback_of
  IN /\ Holds(p, "finalize")
     /\ IF window.tx = (IF back = NoTx THEN work[p].tx ELSE back)
        THEN /\ window' = [window EXCEPT
                            !.state = IF back = NoTx THEN "OBSERVING" ELSE "CLOSED"]
             /\ Goto(p, "window_final")
             /\ UNCHANGED <<lock, work>>
        ELSE Stop(p) /\ UNCHANGED window
     /\ UNCHANGED <<active, log, manifest, journal, tails, trees, pinned, Bounds>>

LogWindowFinal(p) ==
  /\ Holds(p, "window_final")
  /\ Write([kind |-> "WINDOW_FINAL", tx |-> work[p].tx])
  /\ Goto(p, "tx_done")
  /\ UNCHANGED <<active, log, manifest, window, trees, pinned, lock, work, Bounds>>

LogDone(p) ==
  /\ Holds(p, "tx_done")
  /\ Write([kind |-> "TX_DONE", tx |-> work[p].tx])
  /\ Stop(p)
  /\ UNCHANGED <<active, log, manifest, window, trees, pinned, Bounds>>

-----------------------------------------------------------------------------
(* Aborting: silently before the log was touched, visibly after.            *)

RemoveStaged(p) ==
  LET staged == IF Journaled("STAGE_DONE", work[p].tx)
                THEN {LastRecord("STAGE_DONE", work[p].tx).tree} ELSE {}
  IN /\ Holds(p, "remove")
     /\ trees' = trees \ (staged \ {active.tree})
     /\ Goto(p, "tx_abort")
     /\ UNCHANGED <<active, log, manifest, journal, tails, window, pinned, lock, work, Bounds>>

LogAbort(p) ==
  /\ Holds(p, "tx_abort")
  /\ Write([kind |-> "TX_ABORT", tx |-> work[p].tx])
  /\ Stop(p)
  /\ UNCHANGED <<active, log, manifest, window, trees, pinned, Bounds>>

LogAbortOutcome(p) ==
  /\ Holds(p, "abort_intent")
  /\ Write([kind |-> "OUTCOME_APPEND_INTENT", tx |-> work[p].tx, status |-> "aborted"])
  /\ Goto(p, "abort_entry")
  /\ UNCHANGED <<active, log, manifest, window, trees, pinned, lock, work, Bounds>>

AppendAborted(p) ==
  /\ Holds(p, "abort_entry")
  /\ Enter(p, "aborted", "abort_manifest")
  /\ UNCHANGED <<active, manifest, journal, window, trees, pinned, Bounds>>

\* Mutant of AnchorAbort: the manifest keeps the head it had.
AnchorAbortForgotten(p) ==
  /\ Holds(p, "abort_manifest")
  /\ Goto(p, "tx_abort")
  /\ UNCHANGED <<durable, pinned, lock, work, Bounds>>

AnchorAbort(p) ==
  /\ Holds(p, "abort_manifest")
  /\ manifest' = [head |-> Len(log), pointer |-> active]
  /\ Goto(p, "tx_abort")
  /\ UNCHANGED <<active, log, journal, tails, window, trees, pinned, lock, work, Bounds>>

\* The catch clause of promote: what a failing step leads to.
Handler(step) ==
  CASE step \in {"install", "stage_done", "log_intent", "append", "append_done"} -> "remove"
    [] step \in {"admit", "window_pending"} -> "abort_intent"
    [] OTHER -> "idle"

\* "append_done" is the record between the committing entry and the window: it
\* decides nothing, except that the phase is not LOGGED before it is written.
Fail(p, step) ==
  /\ failures < MaxFailures
  /\ lock = p
  /\ pc[p] = IF step = "append_done" THEN "admit" ELSE step
  /\ failures' = failures + 1
  /\ IF work[p].mode = "promote" /\ Handler(step) # "idle"
     THEN Goto(p, Handler(step)) /\ UNCHANGED <<lock, work>>
     ELSE Stop(p)
  /\ UNCHANGED <<durable, pinned, crashes>>

-----------------------------------------------------------------------------
(* recover.                                                                 *)

\* Mutant of Resume: a window that is not on record is not admitted.
ResumeUnadmitted(tx) ==
  LET begin == LastRecord("TX_BEGIN", tx)
  IN IF ~Journaled("STAGE_DONE", tx) \/ ~Journaled("LOG_APPEND_INTENT", tx) THEN "remove"
     ELSE IF Len(log) = begin.head THEN "append"
     ELSE IF active = begin.active THEN "swap"
     ELSE IF Len(log) = begin.head + 1 THEN "outcome_intent"
     ELSE IF manifest.head # Len(log) THEN "manifest"
     ELSE IF ~Journaled("WINDOW_FINAL", tx) THEN "finalize"
     ELSE "tx_done"

\* The first step of a transaction whose effect is not there yet.  The effects
\* are looked for in the files themselves; a window only in the journal.
Resume(tx) ==
  LET begin == LastRecord("TX_BEGIN", tx)
      aborts == /\ Journaled("OUTCOME_APPEND_INTENT", tx)
                /\ LastRecord("OUTCOME_APPEND_INTENT", tx).status = "aborted"
  IN IF ~Journaled("STAGE_DONE", tx) \/ ~Journaled("LOG_APPEND_INTENT", tx) THEN "remove"
     ELSE IF Len(log) = begin.head THEN "append"
     ELSE IF aborts /\ Len(log) = begin.head + 1 THEN "abort_entry"
     ELSE IF aborts /\ manifest.head # Len(log) THEN "abort_manifest"
     ELSE IF aborts THEN "tx_abort"
     ELSE IF ~Journaled("WINDOW_PENDING", tx) THEN "admit"
     ELSE IF active = begin.active THEN "swap"
     ELSE IF ~Journaled("OUTCOME_APPEND_INTENT", tx) THEN "outcome_intent"
     ELSE IF Len(log) = begin.head + 1 THEN "effective"
     ELSE IF manifest.head # Len(log) THEN "manifest"
     ELSE IF ~Journaled("WINDOW_FINAL", tx) THEN "finalize"
     ELSE "tx_done"

\* Mutant of Classifiable: the entry that ends a transaction is not expected.
ClassifiableBeforeOutcome(tx) ==
  LET begin == LastRecord("TX_BEGIN", tx)
      tree == LastRecord("STAGE_DONE", tx).tree
  IN /\ active \in {begin.active, [tx |-> tx, tree |-> tree]}
     /\ Len(log) - begin.head \in 0..1
     /\ manifest.head = begin.head
     /\ tree \in trees

\* What recover finds is one of the states the transaction can have left, and not
\* one that some other transaction made; otherwise it halts.
Classifiable(tx) ==
  LET begin == LastRecord("TX_BEGIN", tx)
      tree == LastRecord("STAGE_DONE", tx).tree
  IN /\ active \in {begin.active, [tx |-> tx, tree |-> tree]}
     /\ Len(log) - begin.head \in 0..2
     /\ \A i \in (begin.head + 1)..Len(log) : log[i].tx = tx
     /\ manifest.head \in {begin.head, begin.head + 2}
     /\ tree \in trees

\* repairTornJournal cuts half a record off the journal; nothing does so for the
\* log.
Repaired == [tails EXCEPT !.journal = IF @ = "torn" THEN "whole" ELSE @]

\* recover, one unfinished transaction at a time.
Recover(p) ==
  /\ pc[p] = "idle"
  /\ lock = NoProc
  /\ Readable
  /\ \E tx \in Unfinished :
       LET begin == LastRecord("TX_BEGIN", tx)
           tree == IF Journaled("STAGE_DONE", tx)
                   THEN LastRecord("STAGE_DONE", tx).tree ELSE <<>>
       IN /\ Resume(tx) # "remove" => Classifiable(tx)
          /\ lock' = p
          /\ Goto(p, Resume(tx))
          /\ work' = [work EXCEPT ![p] =
               [mode |-> "recover", tx |-> tx, base |-> begin.active,
                head |-> begin.head, tree |-> tree, packet |-> begin.packet]]
  /\ tails' = Repaired
  /\ UNCHANGED <<active, log, manifest, journal, window, trees, pinned, Bounds>>

RecoverNothing ==
  /\ lock = NoProc
  /\ Readable
  /\ Unfinished = {}
  /\ tails' = Repaired
  /\ UNCHANGED <<active, log, manifest, journal, window, trees, pinned, lock, pc, work, Bounds>>

\* The process dies: a step that was not taken is never taken, a lock that was
\* held is stolen by whoever needs it next.
Die(p) ==
  /\ crashes < MaxCrashes
  /\ crashes' = crashes + 1
  /\ pc' = [pc EXCEPT ![p] = "idle"]
  /\ work' = [work EXCEPT ![p] = NoWork]
  /\ lock' = IF lock = p THEN NoProc ELSE lock
  /\ UNCHANGED <<active, log, manifest, journal, window, trees, pinned, failures>>

Crash(p) ==
  /\ pc[p] # "idle"
  /\ Die(p)
  /\ UNCHANGED tails

JournalSteps ==
  {"begin", "stage_done", "log_intent", "window_pending", "outcome_intent",
   "window_final", "tx_done", "tx_abort", "abort_intent"}
LogSteps == {"append", "effective", "abort_entry"}

\* It dies in the middle of an append.  A record that only lacks the end of its
\* line is whole.
TearAppend(p) ==
  /\ TornAppends
  /\ lock = p
  /\ \/ pc[p] \in JournalSteps /\ tails.journal = "whole"
        /\ tails' = [tails EXCEPT !.journal = "torn"]
     \/ pc[p] \in LogSteps /\ tails.log = "whole"
        /\ tails' = [tails EXCEPT !.log = "torn"]
  /\ Die(p)

-----------------------------------------------------------------------------
(* What the rest of the system does between two holders of the lock.        *)

\* Gate 4 closes the window: by a decision, or when its time is over.
CloseWindow ==
  /\ lock = NoProc
  /\ window.state \in {"ADMITTED", "OBSERVING", "ROLLING_BACK"}
  /\ window' = [window EXCEPT !.state = "CLOSED"]
  /\ UNCHANGED <<active, log, manifest, journal, tails, trees, pinned, lock, pc, work, Bounds>>

\* A run fails hard.
TriggerRollback ==
  /\ lock = NoProc
  /\ window.state = "OBSERVING"
  /\ window' = [window EXCEPT !.state = "ROLLING_BACK"]
  /\ UNCHANGED <<active, log, manifest, journal, tails, trees, pinned, lock, pc, work, Bounds>>

\* A run reads ACTIVE and registers on its tree; it ends, or its lease does.
PinRun ==
  /\ lock = NoProc
  /\ pinned' = pinned \cup {active.tree}
  /\ UNCHANGED <<durable, lock, pc, work, Bounds>>

UnpinRun ==
  /\ lock = NoProc
  /\ \E t \in pinned : pinned' = pinned \ {t}
  /\ UNCHANGED <<durable, lock, pc, work, Bounds>>
-----------------------------------------------------------------------------

Init ==
  /\ active = Seed
  /\ log = <<>>
  /\ manifest = [head |-> 0, pointer |-> Seed]
  /\ journal = <<>>
  /\ tails = [journal |-> "whole", log |-> "whole"]
  /\ window = [state |-> "NO_WINDOW", tx |-> NoTx]
  /\ trees = {Seed.tree}
  /\ pinned = {}
  /\ lock = NoProc
  /\ pc = [p \in Procs |-> "idle"]
  /\ work = [p \in Procs |-> NoWork]
  /\ crashes = 0 /\ failures = 0

\* The transactions a rollback can name.
Completed == {journal[i].tx : i \in {j \in DOMAIN journal : journal[j].kind = "TX_DONE"}}

Propose(p) ==
  \/ \E edit \in Edits : Stage(p, edit)
  \/ \E tx \in Completed : StageRollback(p, tx)

Promote(p) ==
  \/ Lock(p) \/ Begin(p) \/ Install(p) \/ LogStage(p) \/ LogIntent(p)
  \/ AppendCommitting(p) \/ AdmitWindow(p) \/ LogWindowPending(p) \/ Swap(p)
  \/ LogOutcome(p) \/ AppendEffective(p) \/ ReplaceManifest(p)
  \/ FinalizeWindow(p) \/ LogWindowFinal(p) \/ LogDone(p)

Abort(p) ==
  \/ RemoveStaged(p) \/ LogAbort(p) \/ LogAbortOutcome(p) \/ AppendAborted(p)
  \/ AnchorAbort(p)

Environment == CloseWindow \/ TriggerRollback \/ PinRun \/ UnpinRun

Next ==
  \/ \E p \in Procs :
       \/ Propose(p) \/ Promote(p) \/ Abort(p) \/ Recover(p)
       \/ Crash(p) \/ TearAppend(p)
       \/ \E step \in FailAt : Fail(p, step)
  \/ RecoverNothing \/ Environment

Spec == Init /\ [][Next]_vars

\* A process that was started goes on unless it dies; recover is run again
\* until nothing is unfinished; and a window that was admitted and never finalized
\* is closed by its wall-clock cap in the sweep of some acquire, which comes before
\* anything the holder does (TimedWindowEnds of Gate4Window): hence SF.
Fairness ==
  /\ \A p \in Procs : WF_vars(Promote(p) \/ Abort(p)) /\ WF_vars(Recover(p))
  /\ SF_vars(CloseWindow /\ window.state = "ADMITTED")

FairSpec == Spec /\ Fairness

-----------------------------------------------------------------------------
(* Properties.                                                              *)

\* When no transaction is unfinished and nobody holds the lock, the log, the
\* manifest and ACTIVE agree: the anchored head is the tail of the log and a
\* terminal entry, the anchored pointer is ACTIVE, and the last effective entry
\* is ACTIVE's.  Otherwise every promotion is refused as CORRUPT_STATE.
QuiescentIsAnchored ==
  LET effective == {i \in DOMAIN log : log[i].status = "effective"}
  IN Unfinished = {} /\ lock = NoProc =>
       /\ manifest = [head |-> Len(log), pointer |-> active]
       /\ log # <<>> => log[Len(log)].status # "committing"
       /\ \A i \in effective :
            (\A j \in effective : j <= i) => log[i].tx = active.tx

\* ACTIVE never names a tree that is not there.
ActiveTreeExists == active.tree \in trees

\* Some transaction went back to an earlier tree, or tried to.
WentBack ==
  \E i \in DOMAIN journal :
    journal[i].kind = "TX_BEGIN" /\ journal[i].packet.rollback_of # NoTx

StagedInVain(tree) ==
  \E i \in DOMAIN journal :
    /\ journal[i].kind = "STAGE_DONE" /\ journal[i].tree = tree
    /\ ~Journaled("TX_DONE", journal[i].tx)

\* Neither does a live run: a tree is collected once nobody is registered on it.
\* Only an attempt to adopt an earlier tree once more, when it is aborted, removes
\* that tree without asking who reads it.
TreesExist ==
  ActiveTreeExists /\ \A t \in pinned : t \in trees \/ (WentBack /\ StagedInVain(t))

\* ACTIVE never changes before the decision to adopt is in the log.
SwapIsLogged ==
  [][ active' # active =>
        /\ log # <<>>
        /\ log[Len(log)] = [tx |-> active'.tx, status |-> "committing"]
    ]_vars

\* An adoption builds on the tree it replaces: what another process adopted
\* while this one was staging is never dropped.
NothingAdoptedIsLost ==
  [][ active' # active =>
        \/ \E edit \in Edits : active'.tree = Append(active.tree, edit)
        \/ active'.tx[1][1] = "rollback"
    ]_vars

\* A rollback undoes the adoption that is ACTIVE, and no other: it goes back to the
\* tree that adoption replaced.
RollbackUndoesActive ==
  [][ active' # active /\ active'.tx[1][1] = "rollback" =>
        active'.tx[1][2] = active.tx /\ active'.tree = active.tx[2].tree ]_vars

\* ACTIVE changes by a decision that is in the log, to a tree built on the one it
\* replaces or back to the one before it, in every interleaving of promotions.
ActiveChangesLawfully == SwapIsLogged /\ NothingAdoptedIsLost /\ RollbackUndoesActive

\* No tree is adopted and never observed: the window is the one that was admitted
\* for the adopted tree, or that of a transaction that builds on it.
AdoptionIsObserved ==
  active # Seed /\ active.tx[1][1] = "edit" =>
    window.tx # NoTx /\ (window.tx = active.tx \/ window.tx[2] = active)

\* Every transaction that was begun is finished, whoever dies on the way.
RecoveryCompletes == (Unfinished # {}) ~> (Unfinished = {})

=============================================================================
