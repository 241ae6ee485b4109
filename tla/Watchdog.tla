------------------------------ MODULE Watchdog -------------------------------
(* scripts/watchdog.js beside the manager that scaffold.js generates: the      *)
(* heartbeat file, the poll that judges it, the capability file, and the       *)
(* kill, which is a sequence of system calls (read the capability, list the    *)
(* process table, kill the root, kill what was listed).  Time is counted in    *)
(* polls.  An operator may kill the run as well, with scripts/watch.js.        *)
EXTENDS Integers

CONSTANTS
  Workers,       \* processes that can run under the manager
  Declared,      \* capabilities a worker declares
  BudgetPolls,   \* sync_execution_budget_ms, in polls (10 in the code)
  StalePolls,    \* STALE_THRESHOLD_MS, in polls
  MaxFirst,      \* MAX_FIRST_COUNTER
  MaxIncrement,  \* MAX_LEGACY_INCREMENT
  Rate,          \* heartbeats the manager can write between two polls
  Leads,         \* the manager is the leader of its process group
  MaxBeats,      \* bound: heartbeats
  MaxCalls       \* bound: worker calls

WatchdogAssumption ==
  /\ {BudgetPolls, StalePolls, MaxFirst, MaxIncrement, Rate, MaxBeats, MaxCalls} \subseteq Nat
  /\ Leads \in BOOLEAN
  /\ "null" \in Declared
  /\ Workers \cap {"root", "none", "dead", "init"} = {}

VARIABLES
  slow,     \* a running manager may miss beats, and the kill is outrun
  managerState, \* "running", "blocked" or "dead"
  under,    \* worker -> its parent, "root", "none" (not running) or "init"
  beats,    \* the heartbeat file
  missed,   \* polls since the manager last wrote it, when the guard decides
  cap,      \* the capability file: what it names and how many polls ago
  effect,   \* what really is in flight
  calls,    \* worker calls made
  guard,    \* the watchdog: its step and what it remembers
  haltfile, \* WATCHDOG-HALT.json: "none", "deadman" or the kill message
  operator  \* watch.js --kill-run: its step, what it will say and the calls so far

processes == <<slow, managerState, under>>
watchVars == <<processes, beats, missed, cap, effect, calls, guard, haltfile, operator>>

None == -1
Alive(p) == IF p = "root" THEN managerState # "dead" ELSE under[p] \notin {"none", "dead"}
Killing == guard.at \notin {"watching", "gone"}
Kids(p) == {w \in Workers : under[w] = p}

-------------------------------------------------------------------------------
\* ---- the manager

Beat ==
  /\ managerState = "running" /\ beats < MaxBeats /\ guard.since < Rate
  /\ beats' = beats + 1 /\ guard' = [guard EXCEPT !.since = @ + 1]
  /\ missed' = IF Killing THEN missed ELSE 0
  /\ UNCHANGED <<processes, cap, effect, calls, haltfile, operator>>

Block == managerState = "running" /\ managerState' = "blocked"
         /\ UNCHANGED <<slow, under, beats, missed, cap, effect, calls, guard, haltfile, operator>>

Wake ==
  /\ managerState = "blocked" /\ (slow \/ ~Killing)
  /\ managerState' = "running"
  /\ UNCHANGED <<slow, under, beats, missed, cap, effect, calls, guard, haltfile, operator>>

\* The capability file is written before the worker is called.
Declare(c) ==
  /\ managerState = "running" /\ cap.names = "null" /\ effect = "none" /\ calls < MaxCalls
  /\ cap' = [names |-> c, age |-> 0] /\ calls' = calls + 1
  /\ UNCHANGED <<processes, beats, missed, effect, guard, haltfile, operator>>

Perform ==
  /\ managerState = "running" /\ cap.names # "null" /\ effect = "none"
  /\ effect' = cap.names
  /\ UNCHANGED <<processes, beats, missed, cap, calls, guard, haltfile, operator>>

Settle ==
  /\ managerState = "running" /\ effect # "none"
  /\ effect' = "none" /\ cap' = [names |-> "null", age |-> 0]
  /\ UNCHANGED <<processes, beats, missed, calls, guard, haltfile, operator>>

Fork(p, w) ==
  /\ under[w] = "none" /\ Alive(p) /\ (p = "root" => managerState = "running")
  /\ slow \/ ~Killing
  /\ under' = [under EXCEPT ![w] = p]
  /\ UNCHANGED <<slow, managerState, beats, missed, cap, effect, calls, guard, haltfile, operator>>

\* Killed processes leave their children to init.
Reaped(dead) ==
  [w \in Workers |-> IF w \in dead THEN "dead" ELSE IF under[w] \in dead THEN "init" ELSE under[w]]

ManagerDies ==
  /\ managerState # "dead" /\ ~Killing
  /\ managerState' = "dead" /\ effect' = "none" /\ under' = Reaped({"root"})
  /\ UNCHANGED <<slow, beats, missed, cap, calls, guard, haltfile, operator>>

-------------------------------------------------------------------------------
\* ---- the guard

\* No heartbeat of the manager carries the nonce, so each is judged by its size.
Accepted ==
  IF guard.accepted = None THEN beats <= MaxFirst
  ELSE beats > guard.accepted /\ beats - guard.accepted <= MaxIncrement

CleanupOrphan ==
  /\ guard.at = "watching" /\ managerState = "dead"
  /\ guard' = [guard EXCEPT !.at = "gone"] /\ haltfile' = "none"
  /\ UNCHANGED <<processes, beats, missed, cap, effect, calls, operator>>

Poll ==
  /\ guard.at = "watching" /\ managerState # "dead"
  /\ slow \/ managerState = "blocked" \/ guard.since > 0
  /\ LET quiet == IF Accepted THEN 0 ELSE guard.quiet + 1 IN
     guard' = [guard EXCEPT !.accepted = IF Accepted THEN beats ELSE @, !.quiet = quiet,
                            !.since = 0, !.at = IF quiet > BudgetPolls THEN "capability" ELSE @]
  /\ missed' = IF guard.since = 0 /\ missed <= BudgetPolls THEN missed + 1 ELSE missed
  /\ cap' = [cap EXCEPT !.age = IF @ > StalePolls THEN @ ELSE @ + 1]
  /\ UNCHANGED <<processes, beats, effect, calls, haltfile, operator>>

\* deriveKillMessage, down to what the operator is told to do.
Advice ==
  IF cap.names \in {"null", "read-only"} THEN "nothing in flight"
  ELSE IF cap.names \in {"local-transactional", "idempotent-by-key"} THEN "resume"
  ELSE "reconcile"

\* The guard does not rely on a file that was written long ago.
KillMessage == IF cap.age > StalePolls THEN "unknown" ELSE Advice

ReadCapability ==
  /\ guard.at = "capability"
  /\ guard' = [guard EXCEPT !.at = "list", !.message = KillMessage]
  /\ UNCHANGED <<processes, beats, missed, cap, effect, calls, haltfile, operator>>

\* What is reached from the manager along the parents that the process table names.
Closed(ws) == Kids("root") \subseteq ws /\ \A p \in ws : Kids(p) \subseteq ws
Descendants == {w \in Workers : \A ws \in SUBSET Workers : Closed(ws) => w \in ws}

\* Mutant of ListDescendants: only the manager's own children are listed.
ListChildren ==
  /\ guard.at = "list"
  /\ guard' = [guard EXCEPT !.at = "root", !.listed = Kids("root")]
  /\ UNCHANGED <<processes, beats, missed, cap, effect, calls, haltfile, operator>>

ListDescendants ==
  /\ guard.at = "list"
  /\ guard' = [guard EXCEPT !.at = "root", !.listed = Descendants]
  /\ UNCHANGED <<processes, beats, missed, cap, effect, calls, haltfile, operator>>

\* kill(-pid) reaches the whole group of a leader, kill(pid) the manager alone.
KillGroup ==
  /\ managerState' = "dead" /\ effect' = "none"
  /\ under' = Reaped({"root"} \cup IF Leads THEN Descendants ELSE {})

KillRoot ==
  /\ guard.at = "root" /\ KillGroup
  /\ guard' = [guard EXCEPT !.at = "tree"]
  /\ UNCHANGED <<slow, beats, missed, cap, calls, haltfile, operator>>

\* Deepest first: one of the listed that has none of the listed under it.
KillDescendant(w) ==
  /\ guard.at = "tree" /\ w \in guard.listed /\ Kids(w) \cap guard.listed = {}
  /\ under' = IF Alive(w) THEN Reaped({w}) ELSE under
  /\ guard' = [guard EXCEPT !.listed = @ \ {w}]
  /\ UNCHANGED <<slow, managerState, beats, missed, cap, effect, calls, haltfile, operator>>

WriteEvidence ==
  /\ guard.at = "tree" /\ guard.listed = {}
  /\ haltfile' = guard.message /\ guard' = [guard EXCEPT !.at = "gone"]
  /\ UNCHANGED <<processes, beats, missed, cap, effect, calls, operator>>

-------------------------------------------------------------------------------
\* ---- the operator

\* However old the file is, and whether or not a manager is left to be killed.
OperatorReads ==
  /\ operator.at = "idle"
  /\ operator' = [at |-> "told", message |-> Advice, calls |-> calls]
  /\ UNCHANGED <<processes, beats, missed, cap, effect, calls, guard, haltfile>>

\* The pid is that of the run lock; a dead one cannot be signalled.
OperatorKills ==
  /\ operator.at = "told" /\ (slow \/ ~Killing)
  /\ IF managerState # "dead" THEN KillGroup ELSE UNCHANGED <<managerState, effect, under>>
  /\ operator' = [at |-> "done", message |-> "none", calls |-> 0]
  /\ UNCHANGED <<slow, beats, missed, cap, calls, guard, haltfile>>

-------------------------------------------------------------------------------
WatchInit ==
  /\ slow \in BOOLEAN
  /\ managerState = "running" /\ under = [w \in Workers |-> "none"]
  /\ beats = 0 /\ missed = 0 /\ cap = [names |-> "null", age |-> 0]
  /\ effect = "none" /\ calls = 0 /\ haltfile = "deadman"
  /\ guard = [at |-> "watching", accepted |-> None, quiet |-> 0, since |-> 0,
              message |-> "none", listed |-> {}]
  /\ operator = [at |-> "idle", message |-> "none", calls |-> 0]

WatchNext ==
  \/ Beat \/ Block \/ Wake \/ Perform \/ Settle \/ ManagerDies
  \/ \E c \in Declared \ {"null"} : Declare(c)
  \/ \E w \in Workers : KillDescendant(w) \/ \E p \in Workers \cup {"root"} : Fork(p, w)
  \/ CleanupOrphan \/ Poll \/ ReadCapability \/ ListDescendants \/ KillRoot
  \/ WriteEvidence \/ OperatorReads \/ OperatorKills

WatchSpec == WatchInit /\ [][WatchNext]_watchVars

-------------------------------------------------------------------------------
\* A manager is only killed when it has written no heartbeat for the whole
\* budget: the limit on the size of a jump, meant for forgers, does not starve
\* a manager that beats no faster than Rate, where Rate is within the limits.
BeatingManagerIsSpared == Killing => missed > BudgetPolls

\* The guard never tells the operator that nothing was in flight when the kill
\* cut an effect short, unless it was outrun between reading and killing: the
\* file is written before the effect and reset after it.
CutEffectIsReported ==
  guard.at = "root" /\ guard.message = "nothing in flight" /\ ~slow
  => effect \in {"none", "read-only"}

\* Neither does watch.js, which "always emits the capability-specific safety message",
\* unless a worker was called between its look at the file and its kill.
OperatorIsTold ==
  operator.at = "told" /\ operator.message = "nothing in flight" /\ operator.calls = calls
  => effect \in {"none", "read-only"}

\* "Orphaned workers can keep firing external effects after the guard has
\* declared the run halted, which is exactly what the tree kill exists to
\* prevent": once the evidence is written nothing of the run is alive, unless a
\* listed process forked before its turn came.
HaltedTreeIsSilent ==
  haltfile \notin {"none", "deadman"} /\ ~slow => \A w \in Workers : ~Alive(w)

\* What the operator may rely on: a manager that beats is spared, evidence and message
\* name an effect that is cut short, and a run that was declared halted does nothing more.
KillsAreHonest ==
  BeatingManagerIsSpared /\ CutEffectIsReported /\ OperatorIsTold /\ HaltedTreeIsSilent
=============================================================================
