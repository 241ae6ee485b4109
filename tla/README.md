# GraphSmith in TLA+

GraphSmith changes the prompts, knobs and documents of an agent project ("the evolvable tree")
through gates, and must be able to undo what it adopted; it generates projects whose runs are
supervised, and collects evidence about them that others rely on. This directory holds TLA+ models
of the parts that are hard to get right and hard to test: files that several processes share without
a server, what is left when one of them dies in the middle, and verdicts that are drawn from reports
which come late, twice or not at all.

## 1. The system

| Component | State | Operations | Modules |
|---|---|---|---|
| State store: lock and journal (`scripts/state-store.js`) | `state.lock`, `state-journal.jsonl`, the state files | acquire, recover, commit, release | `AtomicStore`, `StateJournal` |
| State store: Gate-4 window, run registry | `window.json`, `run-registry.jsonl` | register, heartbeat, deregister, sweep, admit, finalize, observe, dispose, close | `Gate4Window` |
| State store: ledgers | `alpha-ledger.jsonl`, `rejected-buffer.jsonl`, `rollback-families.jsonl`, `run-anchors.jsonl` | reserve, complete, push, acknowledge, anchor; the clock of the leases | `AlphaLedger`, `EvolutionLoop`, `HealRepair`, `EventCompiler`, `LeaseClock` |
| Promotion transaction (`scripts/promote.js`) | `ACTIVE`, `adoption-log.jsonl`, `project.manifest.json`, `promotion/journal.jsonl`, the tree directories | promote, rollback, recover, garbage collection | `PromotionTx`, `ActiveTree` |
| Adoption front end (`scripts/adopt.js`) | the proposal file | adopt, observe, close | `EvolutionLoop` |
| Writer claim (`scripts/writer-claim.js`) | the claim file | acquire, take over, renew, release | `WriterClaim` |
| Run manager, supervisor, workers (generated by `scripts/scaffold.js`) | run lock, checkpoints, `intents.log`, `effects.log`, `budget-state.json`, `WATCHDOG-HALT.json` | start, attempt, act, halt, resume, reconcile; charge | `RunManager`, `Supervisor`, `FrozenProject` |
| Watchdog, chaos harness (`scripts/watchdog.js`, `chaos.js`) | heartbeat, capability file, evidence | poll, kill the process tree; crash test | `Watchdog`, `ChaosHarness` |
| Gates, evolution loop (`gate.js`, `evolve.js`, `event-compiler.js`, `evalenv.js`) | reports, compiled events, evaluation copies | screen, judge, harvest, mine, stage | `Gates`, `EventCompiler`, `EvolutionLoop`, `ToolRun` |
| Heal, reconcile (`heal.js`, `reconcile.js`) | staged repairs, managed blocks in the user's files, their lock | stage, roll back; place a block | `HealRepair`, `Reconcile` |
| Verification and policies (`verify.js`, `manifest.js`, `loaders.js`, `graphlint.js`, `mode-selection.js`) | mode record, key, pre-authorization | verify, report, lint, set mode, start gateway | `Integrity`, `ActiveTree`, `CapabilityReports`, `Graphlint`, `GatewayMode` |
| GSA evidence tools (`gsa-*.js`, `checks/register-*.js`) | sealed bundles, retention log | produce, verify, replay, register | `AttestationBundle`, `RegulatedMode` |
| Scenario, test, red-team and tool runners (`scenario.js`, `test.js`, `redteam.js`, `matrix.js`, `ext-tool-runner.js`) | work directories | replay a pair, run a suite, run a tool | `ScenarioReplay`, `ToolRun`, `Assurance`, `CapabilityReports` |
| Post-mortem, reporting (`postmortem*.js`, `assure.js`, `badge.js`, ...) | none | parse, classify, summarize | `Postmortem`, `Assurance`, `CapabilityReports` |
| Command line, installer, CI helpers | none of their own | dispatch | in part in `GatewayMode`, `AttestationBundle` |
| Watch and watcher (`watch.js`, `watcher.js`) | none | kill a run; display, flag | `Watchdog` (the kill) |
| MCP server and hooks, lab and tests | none | serve text | not modelled |

The components share files, not memory. Every process links a lock file into place, reads what it
needs, writes ahead what it is going to change, and changes it; nothing else orders two processes.
What is hard follows from that:

* **locks are files** with a token, a pid and an age. An owner can be dead, or alive and slow, and
  every lock of the system is looked at and removed in two calls (`StateJournal`, `WriterClaim`,
  `RunManager`, `Reconcile`, each with rules of its own).
* **journals are read by others** than the process that wrote them, possibly while the writer still
  believes it owns the lock, and with a line that was cut short.
* **decisions lag behind reads**: a promotion is staged before the lock is taken, a tree is
  collected while somebody reads it, a report is judged days after it was made.
* **a run is killed anywhere** and must neither repeat an effect nor forget what it spent, and the
  halt it ended in must outlive the restart.
* **evidence is aggregated**: a green verdict must not rest on a stale or missing report, on a step
  that never ran, or on a verdict about another bundle.

PROJECT.json lists forty hazards at their lines, each with the properties that cover it or the
reason why none does.

## 2. Modules

An action is a handler with everything it changes, down to the granularity at which another process,
or a crash, can come in between: a durable write, a system call, a poll. Hashes are modelled by what
they are computed from, signatures by the signer and what was signed. Contents of files are members
of small sets.

### The store

`StateJournal` is `_operation` of the state store: create or judge and steal the lock, read the
journal, roll pending intents forward effect by effect, build a mutation, log the intent, apply the
effects, log the end, compare and unlink. Each is an action; between any two of them a process may
stall, crash, or have its lock stolen. A file's content is the set of the mutations it reflects, so
a write computed from an outdated read shows up as a mutation that disappears. `AtomicStore` is what
callers count on: files that change by whole mutations, each at most once. The refinement mapping
`Recovered` is what the next operation will find: the file, or the after-image of the pending intent
that names it. The age and liveness tests of `_acquireLock` are abstracted into who can be judged
stale: a dead owner always can, a live one if `StealFromLive`.

One assumption is made, and it is the one the code makes: an ownership check (`_assertStillOwned`)
and the write directly behind it are one step, and so are the hash comparison of a recovery and its
replacement. A process suspended between those two system calls for longer than the lease can
overwrite what the thief wrote. `UnlinkStale` and `ReleaseUnlink`, where the race needs no
suspension, are separate steps.

`Gate4Window`: an action is the sweep followed by one operation, since `_operation` sweeps first.
The slots are a function of the run, the registry is the fold of its records by `_registryState`.
`Sweep` also stands for every read and every refused call, because these leave their sweep behind.
`tx` remembers that a promotion admitted a window and has not journaled WINDOW_FINAL: until then its
recovery finalizes the window, whatever has become of it. `ObserveSlot` and `DisposeSlot` are
exported and tested but not called by the program; `DirectCalls` is the set of runs for which they
are called.

`AlphaLedger` (three confirmation slots, evaluations that die between look and record), `LeaseClock`
(where the clock of the leases comes from, and its audit), and the ledgers inside `EvolutionLoop`,
`HealRepair` and `EventCompiler` are operations of the same store. An operation on them is one step,
which is what `StateJournal` shows.

### Promotion and adoption

`PromotionTx`: every durable write of promote, rollback, abortVisible, the catch clause and recover
is an action, and a crash can come between any two. A recovery continues with the same actions at
the step `Resume` infers from the files; `Classifiable` is the set of checks that make recover halt.
A tree is the sequence of edits that made it, a txid the pair of packet and ACTIVE pointer, the head
of the log its length. The lock is exclusive here; what a stolen lock does is the subject of
`StateJournal`.

`ActiveTree` is the reader's side: resolveActive, verifyTree and the loaders, which take no lock,
beside promotions that stage, publish and collect. The collector goes by the places of the history,
so a tree that was active twice can be collected by the very promotion that replaces it;
`ReportTellsTheTree` says so. `EvolutionLoop` is what comes before: cycles that mine and stage
proposals, refusals in the rejected buffer, and adopt with its promotion (which commits, throws or
aborts visibly) and its tombstone. A cycle carries the sets of problems that are still before it,
the duplicates first; it takes them in the order of `mine` (`Before`, `FirstOf`), one push or append
at a time.

### Runs

`RunManager` is the generated manager: run lock, startup halts, budget, the pipeline, and each
worker's effect bracketed by an intent and a completion, beside its guard. Managers crash between
any two durable writes, block inside a worker, and are started again. `Supervisor` has the
arithmetic of the budgets that `RunManager` leaves open: the monotonic clock of a process, a wall
clock that anybody may set forward or back (`SetClock`), real time, kills, reboots, caps per
destination, type and time window. Its logs are sets of records with the number of their charge, and
A negative difference of clocks is charged as nothing (`Elapsed`, the clamp of the code). History
variables hold the real time of the processes, what the wall clock was set back by since a stamp,
and the money of the calls that were let through (`active`, `back`, `unseen`, `spent`).
`FrozenProject` is the check of the frozen files at a start, and what is read again afterwards.
`Watchdog` is the guard as a sequence of polls and system calls over a tree of processes, which an
operator may kill as well (`watch.js --kill-run`: read the capability, whatever its age, and kill
the group). What the guard lists are the descendants that the process table shows, as the least set
closed under parenthood. `ChaosHarness` is the crash test from outside.

### Files of the user

`Reconcile` places marked blocks in files that a user owns, with its lock, the takeover of an
abandoned one, and the two checks before a write. `HealRepair` stages and rolls back repairs, one
read or write of the target at a time, beside an editor that may come in between any two
(`touched`). `GatewayMode` is the confirmation of a mode, its key, its artifact, and the start that
recomputes the token. `WriterClaim` is the standing claim of a writer over hosts, with the gap
between the last look at a claim and its unlink, and a human who removes one by hand.

### Evidence

`Gates` (tiers and precheck of the behavioural gate; the p-value of the sign test is the share of
the courses of n trials that have enough wins), `EventCompiler` (harvest of run logs that grow and
get damaged; a run whose directory is there and its log is not makes the harvest invalid),
`ScenarioReplay` (replay with a timed kill, which also lands on a manager that has just exited),
`ToolRun` (tools in bounded copies of a live tree, and the audit of their isolation), `Assurance`
(suite, linter, battery and packet), `CapabilityReports` (profiles, badge, matrix), `Integrity`
(release, manifest, adoption log), `Postmortem` (results out of order), `Graphlint` (the memoized
search, against the least set of files that is closed under imports), `AttestationBundle` (seal,
verify, replay: the five controls, the extended ones that a manifest may declare, and a signer who
has a bundle claim more than its evidence, `Reseal`) and `RegulatedMode` (the four lanes and the
retention log; the policy that approvals are judged by comes with them, the one given to the
activation only selects what is required).

## 3. Runs

| Run | Question | Answer |
|---|---|---|
| `gate4_window` | do window, slots, leases and flag agree, is a disposition final and a pass earned? | yes |
| `store_atomic` | does the store implement `AtomicStore` although locks are stolen from live owners? | yes |
| `promotion` | do log, manifest, ACTIVE, window and trees agree, does ACTIVE only move by a logged decision, is no tree in use removed, and is everything finished? | yes, within the limits named below |
| `managed_run` | does a run neither repeat an effect, lose a halt, nor buy time or calls by being restarted? | yes |
| `liveness` | is an orphaned mutation completed, and does the cap end every timed window? | yes |
| `upkeep` | one property of each of eleven parts that keep a project running | yes |
| `evidence` | one property of each of eleven parts that collect and judge evidence | yes |
| `store_torn` | does the journal stay readable after a torn append? | **no** |
| `promotion_wedge` | is an interrupted rollback always recovered? | **no**: not once its window has closed |
| `managed_race` | does one manager write a run? | **no**: an empty lock file reads as stale |
| `reconcile_reclaim` | do placed blocks stay when two calls take over one dead lock? | **no** |
| `tool_exit` | does a tool pass only with exit code 0? | **no**: killed by a signal it has none |

Each negative answer is a finding in PROJECT.json, with the line of the contracts, comments or
reports that says otherwise.

What `upkeep` asks: `AlphaIsSpentOnce` (a corpus is looked at by three candidates at most),
`ClaimsCrossHostsByRemoval` (a writer removes the claim it checked, of its own host; only where that
one was removed by another in between does it hit a fresh claim of another host, and only so do
writers of two hosts hold at once), `RacingClocksAreNamed` (a clock that races real time is always
in the audit), `ModeIsConfirmed`, `ReportTellsTheTree` (a good report is of one tree; an intact
project is not called damaged for one promotion beside the reader), `ShippedFormGoverns` (edits
change neither a run's limits nor how an open effect is judged), `KillsAreHonest` (a beating manager
is spared, an effect that is cut short is named, a run declared halted does nothing more),
`RecoveryIsEarned` (what the chaos harness certifies held), `LoopRemembers` (refusals and unpromoted
proposals), `RollbackKeepsEdits` (a rollback replaces only what the repair left, but for an edit
that comes between its comparison and its write), `PlacedBlocksStay`.

What `evidence` asks: `PrecheckIsSound` (no candidate is stopped early that could have been
promoted), `HarvestIsAnchored` (whole finished runs only), `VerifyStoryIsHonest`,
`AlteredLogIsSeen`, `PassIsBackedByState` (a side passes on what is on disk),
`ToolsGetBoundedCopies`, `GreenPacketRanEveryStep`, `GreenProfileWasSeenEverywhere`,
`VerdictIsEarned` (what verifies was sealed by a trusted signer, manifest and listed contents, and
its claims and confirmed profiles are shown by them), `SealIsBacked` (approvals are of the sealed
head and enough by the policy they came with; one damage to the log of earlier packets shows),
`SearchIsExactButForCycles`.

`MCUpkeep`, `MCEvidence`, `MCManagedRun`, `MCPromotionTx` and `MCLiveness` put several small
instances into one run. `MCUpkeep` and `MCEvidence` extend the eleven modules of their parts, and
`MCManagedRun` extends `RunManager` and `Supervisor`: all of them are proved about, so TLC evaluates
their assumptions and checks the very definitions of the theorems. The parts of such a run share no
state: `part` or `half` is chosen initially, a behaviour is one of that part, and the variables of
the others stay as they began. It is a way to check many parts in few runs and asserts nothing about
their interaction; where components do interact (the promotion and the window, the gate and the
ledger, the loop and adopt, the reader and the promoter, the harness and the manager), the
interaction is inside one module.

### Bounds, and why they are enough

The bounds `Horizon`, `Max...` are guards of the actions that count.

* `gate4_window`: three runs and n = 2, so that there is a run that gets no slot, and one of the
  runs (`DirectCalls = {r3}`) is also observed and disposed of directly; two trees, so that a run
  can be on another tree than the window; a lease and a cap of one tick and a clock up to 2 that
  also steps back, so that a lease can expire before, with and after the cap.
* `store_atomic`: three processes (an owner, the thief of its lock, and one that steals from the
  thief), two files (a mutation can be half applied), two mutations (one can be lost to another),
  one crash. Seven tokens are more than processes and lock can hold at once.
* `promotion`: two processes; in the half `recovery` two edits that compete for one ACTIVE, one
  crash and one failing write, so that a recovery runs after a failed abort; in the half `rollback`
  one edit with torn appends and three transactions, so that an adoption, its rollback and a second
  adoption or rollback follow each other. Three limits: `FailAt` leaves out the two steps around the
  append of the committing entry (`append`, `append_done`), where the catch clause aborts silently
  what is visible in the log; `Retries = FALSE` proposes a packet once per ACTIVE, because a second
  attempt has the txid of the first; and `RecoveryEnds` is asked of the half without rollbacks
  (`promotion_wedge` is about the other).
* `managed_run`: two steps, so that one is behind the manager; four starts, two crashes and two
  failures, so that a retried step can fail in its second manager; the supervisor with caps of one
  and two, three calls and a horizon of two ticks, so that each cap is reached, and a wall clock
  that is set back by one in all, before, in or after the segment of a process that is killed. It is
  never ahead of real time in the instance (`MaxAhead = 0`); the theorem is for every clock.
* `liveness`: two processes and two crashes: the owner dies and so can the first recoverer.
* `upkeep`: two evaluators and three evaluations over two slots; three writers over every placement
  on two hosts; four promotions of a tree (so that one can be active twice), or two and a damage
  (`MaxEvents`); two edits and three starts of a project, so that the message of one run meets the
  start of the next; chaos projects over every combination of rules; two rollbacks by two healers;
  two calls that place two blocks, one of which may die. `PlacedBlocksStay` fails with a third call:
  two calls then take over one dead lock (`reconcile_reclaim`), which two calls cannot.
* `evidence`: counts of pairs up to the size at which the test can decide (six of six, nine of ten)
  and on both sides of it; two imports per file, so that a cycle can be entered from two sides; two
  runs of two lines with one damage; three calls of a session with every order of their results;
  three log entries with two damages; two bundles, altered in a list, a listed content (with or
  without its entry) or a claim, or sealed again with other claims; four polls' worth of steps per
  poll; and for the others two of everything that can differ from itself (reports, packets, seals,
  edits).

Deadlock checking is on for `gate4_window`, `store_atomic` and `store_torn`. It is off where a
system with its budgets of starts, crashes and transactions spent really stops.

### Fairness

* Window: the clock ticks and some process keeps calling the store (every run and `watch` do).
  Nobody has to close a window or finish a run.
* Store: processes keep using the store and stop only by crashing (weak fairness per process); a
  dead owner's lock is not renewed, so whoever meets it again and again eventually finds it stale,
  and a free lock is eventually won (strong fairness of `Steal` and `CreateLock`). It is checked
  with `StealFromLive = FALSE`: if live owners are robbed for ever nobody has to finish.
* Promotion: a started process goes on unless it dies, recover is run until nothing is unfinished,
  and an ADMITTED window is closed by its cap in the sweep that every acquire begins with. The last
  is strong fairness because recoveries that fail on that very window take the lock in between;
  `TimedWindowEnds` of the window justifies it.

`MCLiveness` and `MCPromotionTx` restate these for the part they are asked of. The other runs state
no fairness and check safety only.

## 4. Proofs

All theorems hold for every value of the constants, under the assumption the module names
(`WindowAssumption`, `JournalAssumption`, `RunAssumption`, ...), which TLC evaluates too.

**`Gate4WindowProofs`** (seven theorems, all safety properties of `gate4_window`). Every operation
is the sweep followed by one helper, so there is one lemma per helper and one step per action.
`TypeCorrect` is inductive by itself, `FlagIsKept` with it. `ActiveIsLeased` needs that both halves
of the sweep use the same set of expired runs. `SlotsAreCounted` is about cardinalities: `Counted`
is an invariant of any window record, and the sweep subtracts exactly the runs it abandons.
`PassesAreEarned` holds when callers do not dispose of a run as `superseded` themselves (the code
accepts that from any caller, and such a window would pass); its strengthening `Over` says that a
superseded slot shows: the window is flagged, carries a hard failure, or is closed with no promotion
left that could reopen it. `DispositionStays` and `LeaseGrows` go by cases on the actions.

**`StateJournalProofs`**: `Atomicity` is the refinement, `Spec => ImplementsAtomicStore`. Its
invariant `JInv` says why a stolen lock does no harm. The one owner knows what is pending. Whoever
lost the lock in the middle of a recovery goes on writing, but only intents that are still pending
or whose effects are all in the files, so its writes change nothing that the next operation can see;
whoever lost it in a commit fails its ownership check. Initial states map to the initial state, and
each step maps to one mutation (the append of the intent) or to a stutter. `ReadsAreWhole` and
`TypeCorrect` follow from the same invariant.

**`RunManagerProofs`**: `EffectsHappenOnce`, `HaltsStand`, `EvidenceIsRight` and `ManagersAreAlone`,
under `~Concurrent`: managers that are started one after the other. (Beside each other they do race:
that is `managed_race`.) The invariant: an effect is tried only after an intent that was not there
before (`Once`); the steps behind a manager are complete, so what is in doubt is never behind it
(`Order`); and a halt is on file where a manager looks before it goes on (`Halts`).

**`SupervisorProofs`**: `BudgetsOutlive`, all of `BudgetsOutliveRestarts`. For time: a running
process charges by the monotonic clock and stamps the wall clock, and a start charges what lies
behind the stamp by the wall clock, less by what that was set back in between (`back`, and `unseen`
for earlier starts). A clock that is set back before the stamp, or while the process still ticks,
costs nothing, and what is set forward is charged too much and never too little. For calls: the
state on file counts at least what was let through (`Covers`), in total, per destination, per type
and in cost. The rate is the hard one. Its log is in monotonic time, which a reboot sets back, so an
entry of before looks later than it was; it is therefore dropped too late and never too early, and
every granted call of the last window has an entry with its charge number (`Logged`): an injection
of the window's calls into the log, whose length was compared with the cap.

**`PromotionTxProofs`**: `AnchorsAgree`, `TreesInUseAreKept`, `AdoptedTreesAreObserved`,
`ActiveMovesLawfully`. They rest on one invariant, `InvariantHolds`: nothing is journaled twice, so
the journal can be read as a set of records (`JournalInv`); at most one transaction is unfinished,
and its records say which files it has written (`TransactionInv`); whoever is inside works on that
transaction, at a step that its records allow (`LockInv`, `StagingInv`, `HolderInv`); the window is
that of ACTIVE's adoption or of the unfinished one (`WindowInv`, `ActiveInv`); trees that are needed
exist (`TreeInv`). There is one lemma per step of the program; the steps of a recovery are those of
a promotion, entered where `Resume` finds it. The theorems ask for `Regular`, the two orders in
which the code does lose the thread: `~Retries`, because a second attempt at a packet on the same
ACTIVE has the txid of the first (listed as a hazard), and no failing write behind the committing
entry (`append_done`), where the catch clause aborts silently what the log shows.

**`UpkeepProofs`**. `SlotsAreSpentOnce`: reservations of a corpus differ in slot and in family, and
every candidate that was looked at has one, an injection into the slots. `CrossingTakesRemoval`:
claims are compared by token only, so the invariant carries along that every token a writer
remembers is that of a writer on its own host, and accounts for every token that was ever on the
path: it is there still, or a removal is on record, and of whom. A token that a writer checked is on
the path or was removed by another, so what its unlink hits is its own host's or follows such a
removal. `ModesAreConfirmed`: a token, wherever it is edited to, was made for a mode that was typed
back; and first commands that race end up with the key that is on file, as long as files can be
linked and nothing is lost. `ShippedFormStays`: only the bounds of a manifest can be edited and not
its self hash with them, so what passes the check is the shipped form; a message about an open
effect belongs to the run that ended with it. `LoopForgetsNothing`: a refusal is never rewritten,
only pushed again, and every push takes the oldest entry out of a full buffer. `Renewed` says how
deep a declined problem can lie: among the last `Room(faults)` entries between cycles; within one,
no deeper than it began and was pushed down since, until it is renewed among the entries of this
cycle. Only a cycle that dies before the last renewal lets a problem sink, by one push less than a
cycle makes, so `Room` counts `MAX_PROPOSALS_PER_CYCLE` and one less for every death.
`EvolutionAssumption` asks for a buffer with that room: three proposals and a hundred entries
(`evolve.js:32`, `state-store.js:1433`) are enough for forty-eight deaths and failed writes. That
mining yields no more than the limit, however occurrences change between the cycles, is a lemma of
its own (`FewAreMined`: the numbers of those before are an injection). `Consumed`: a record that
says adopted, and an adoption about to write it, follow a promotion that returned; a line that is
cut short or glued to another hides no earlier one.

**`RecoveryProofs`**, one invariant per part:

* `RacesAreOnRecord` (`ClockInv`): a kind is written down from what was measured, before a
  construction can be refused. Names tell clocks apart, which `ClockAssumption` says.
* `EditsAreKept` (`HealInv`): what an undisturbed process (`KnowsItsTarget`: nobody wrote the target
  since it compared) knows of its target at each step, from the look over the restore to its check,
  the tree identity and the undo; an edit that does come in between is the exception that the
  property names.
* `KillsAreAccountedFor`. `BeatInv`: the heartbeat file is the guard's last look plus the beats
  since, so only silence is refused. This needs `BeatsArePlausible`: between two polls a manager
  beats no more often than `MAX_FIRST_COUNTER` and `MAX_LEGACY_INCREMENT`. So it is for the shipped
  settings (a poll every 3 s, a beat every 5 s), and not for every setting in range (see section 5).
  `EffectInv` and `OperatorInv`: what is in flight is named by the file, and a message drawn from it
  stays true until a worker is called. `ProcessInv`: who runs has a parent that runs, in no circle,
  so the least set closed under parenthood holds everything alive (`AllAreListed`); what is killed
  leaves the list only.
* `CertifiedRecoveries` (`FirstInv`, `SecondInv`): what the first manager sent and saved up to the
  kill, and what the second can still do behind it.
* `ReportsTellTheTree` (`OkInv`, `IntactInv`, `ReaderInv`): inventories never change under their
  name; while one promotion runs beside the reader the tree it resolved stands in a place of the
  history that the collector spares, unless it has a second place.
* `BlocksStayPlaced` (`PlaceInv`): whoever works on the file holds the lock (`WorkersHoldTheLock`),
  so what it is about to install was spliced into a file with no later version of its own block and
  with every other block that was placed and that the user has not touched since (`SplicesKeep`).
  The theorem asks for `LiveLocksAreLeft`, that no takeover renames its lock over that of a caller
  at work: the race of `reconcile_reclaim` is the only way to lose a block. In the instance of
  `upkeep`, with two calls, the hypothesis always holds.

**`EvidenceProofs`**, likewise:

* `HarvestsAreAnchored` (`HarvestInv`): of each run the view holds nothing or all of it.
* `AlteredLogsAreSeen` (`ChainInv`, `OneChainPerHead`): the log passed, so each entry's digest is
  that of its content and the next one names it; walking back from the anchored head, the least
  distance at which it could differ from the written log is impossible, and the first entry ends
  both.
* `VerdictsAreEarned` (`AttestInv`): a signature is of a seal, however bundles are altered, replayed
  or sealed again, and the contents of a seal are what its manifest lists; so what passes has a
  sealed manifest, and artifacts that match it are the sealed contents. What a manifest claims is
  compared with controls that are computed from just these (`PassedClaimsAreShown`), and a profile
  is confirmed from its lists. `AttestationAssumption` says what a run leaves behind, and that its
  mode is one the code knows.
* `SealsAreBacked` (`RegisterInv`): approvals are kept with the policy they were judged by, and
  sealed with both. A log that passes its walk is numbered from one, and one damage to it either
  takes packets away or alters a head and never both. The theorem asks for `MaxLogDamage <= 1`, as
  the property itself speaks of one damage.
* `PassesAreBacked` (`PairIsJudged`), `StoriesAreHonest` (`StoryInv`: the parser's list of actions
  is that of the calls issued, up to results that are still missing), `GreenPacketsRanEveryStep`
  (`PacketInv`: only the last step of a pipeline marks a run done), `GreenProfilesWereSeen`
  (`BadgeInv`: a report says what was seen), `CopiesAreBounded` (`CopyInv`, `AuditInv`: every entry
  is counted before it is written).
* `SearchIsExact` (`LintInv`): the files of the search lie one behind the other along imports
  (`Chain`), an import that was passed over has the answer no, unless the file that passed it leads
  into a cycle (`Passed`), and so what is kept is right for every file that does not (`Exact`).
  Reachability is the least closed set, so no induction along paths is needed.
* `PrecheckCostsNothing`: a scenario whose baseline passed is never won, whatever is repeated, so
  there are at most as many wins as scenarios that can be won. Of the 2^n courses of n trials one in
  2^w begins with w wins (two injections, `SixtyWays`), so a test that w wins pass needs 60 <= 2^w;
  then as many wins and no loss pass as well. The arithmetic is exact; the code's doubles are, too,
  up to thirty trials.

The assumptions above are of two kinds. Those that TLC evaluates say what the constants are.
`Regular`, `~Concurrent`, `BeatsArePlausible`, `LiveLocksAreLeft` and `MaxLogDamage <= 1` restrict a
theorem to the orders in which the property is meant; what happens outside them is a run that
expects a violation, a hazard, or a case the property excludes by name.

Induction is available over natural numbers in the form of least elements (`LeastExists`,
`MaxIsGreatest`, by the well-ordering of Nat), and several proofs use it; induction over the
structure of a sequence is not, so nothing is proved about what a fold or `SelectSeq` returns for
every input unless a property of each element suffices.

Every safety invariant that a passing run checks is a theorem by now. Only model-checked are the
liveness properties (`TimedWindowEnds`, `RecoveryEnds` and the completion of an orphaned mutation;
the prover reasons neither about fairness nor about ENABLED) and the runs that expect a violation.

## 5. What is not modelled

* Staging directories with their claims and reclaim, disk preflight, packet normalisation, hash
  chaining and schema validation (a file is whole, torn or unreadable); a hostile process of the
  same user.
* The displays of `watch.js`, `watcher.js`, `shadow.js`: they read and print. `capability-policy.js`
  and `schema-validate.js`: tables. `migrate`, `generate`, `diagnostics`, `docs-lint`,
  `hygiene-scan`, `write-report`: one-shot text processing. The installer, the synchronisation and
  the CI helpers: argument dispatch and file copies. The MCP server and the hooks: no state. The lab
  and the suites.
* The text that `scaffold.js` generates, apart from what it does when it runs.

Met while modelling, and stated in the modules or hazards but not in a run:

* A second attempt at a packet on the same ACTIVE has the txid of the first, whose terminal record
  hides it from recovery. An adoption-log entry that is cut short is glued to the next one. A tree
  that a failed rollback attempt retired can be collected while a rollback to it is still possible.
* A family whose verdict was lost, or whose corpus changed, may confirm again
  (`contracts/03-statistical-appendix.md:20` reads as if it may not). A baseline with a fault in its
  retry is not treated as lines 25-28 of that contract say. The contradiction screen does not see
  two edits of one knob.
* `adopt` consumes a proposal whose promotion returns ABORTED like one that was adopted; half a
  proposal record stops both commands.
* The event compiler looks for `prev_hash` and `line_hash` in the adoption log, while promote writes
  `prev_sha256` and `entry_sha256`: that chain is never checked there.
* An absolute report path of a tool outlives its run. The linter's memoized search depends on the
  order of files within a cycle of imports. verifyTree reads a tree's manifest again without
  comparing its hash.
* `sync_execution_budget_ms` may be 600000 and `heartbeat_interval_ms` stay at 5000: a poll, every
  tenth of the budget, then sees a counter that is twelve beats on, `MAX_LEGACY_INCREMENT` is ten,
  and no beat of the manager carries the nonce. The watchdog kills a manager that beat all along.
* A pid that another process has by now makes a dead lock of a run look alive; writers that were
  given one instance id take over each other's claims, and both may adopt that of a dead one.
  Between the last look at a claim and its unlink (`writer-claim.js:332-335`) another may remove it
  and a third create one, which the unlink then removes. No entry point of the program acquires the
  writer claim yet.
* A rollback of a repair that dies between the restore and its record is not recorded. An edit that
  comes between its comparison and its write is lost, and so is one that the tree identity has just
  read, when that fails and the rollback is undone (`heal.js:882-895`).
* The comment that a killed segment can never be under-counted (`scaffold.js:862-863`) does not hold
  when the wall clock is set back between the last stamp and the next start: the clamp (`:871`)
  charges less, at worst nothing. `KilledTimeIsCharged` allows for exactly that much.
* The policy that a regulated bundle is activated with is not the one its approvals are judged by
  (`gsa-register.js:28`, `54-70`): a bundle that is activated under n keys rests on as many as the
  policy inside its inputs asks for.
* The kill of a manager that has exited since the look counts as one that landed
  (`scenario.js:417-420`).

## 6. Plan

Done: the store, the window, the promotion, the runs, the evidence, with one property or more for
every hazard but one, and a theorem for every safety invariant of the runs. What would add most
next:

1. `PromotionTx`: staging directories with claim and reclaim, and two attempts of one txid as a run
   of their own; then the theorems without `~Retries`.
2. `Watchdog` at a rate of beats beyond the limits, and `Reconcile` with a lock that is judged stale
   while its owner lives (`LiveLooksStale`), as runs that show what goes wrong.
3. `PromotionTx` over `Gate4Window` itself instead of the window reduced to its state, as a
   refinement.
