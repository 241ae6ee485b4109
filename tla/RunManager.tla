------------------------------ MODULE RunManager -------------------------------
(***************************************************************************)
(* A run of a generated project: the manager, its supervisor, the worker   *)
(* stubs and the watchdog that scripts/scaffold.js writes out as text and  *)
(* scripts/watchdog.js.  A manager takes the run's lock file, honours the  *)
(* halts of earlier managers, spawns a guard and executes the pipeline:    *)
(* each step is checked against its checkpoint, attempted, and its         *)
(* external effect is bracketed by an intent and a completion record.      *)
(* Managers crash between any two durable writes, block their event loop   *)
(* inside a worker, and are started again with or without                  *)
(* --acknowledge-budget.                                                   *)
(*                                                                         *)
(* Clocks, byte counts and call counts are not kept: a budget they feed    *)
(* may be breached wherever the code checks it.  Supervisor is about them. *)
(***************************************************************************)
EXTENDS Integers, FiniteSets

CONSTANTS
  Managers,      \* processes started on one run
  Concurrent,    \* whether a manager is started while another one runs
  Steps,         \* the pipeline is 1 .. Steps
  MaxRetries,    \* max_retries_per_step
  MaxReentry,    \* max_step_reentry
  MaxSteps,      \* max_steps
  MaxStarts,     \* bound on the starts of managers
  MaxCrashes,    \* bound on crashes, blocked loops and killed guards
  MaxFailures    \* bound on throwing workers, breached budgets and lost checkpoints

ASSUME RunAssumption ==
  /\ Concurrent \in BOOLEAN
  /\ Steps \in Nat \ {0}
  /\ {MaxRetries, MaxReentry, MaxSteps, MaxStarts, MaxCrashes, MaxFailures} \subseteq Nat

VARIABLES
  lock,      \* the lock file: none, or whose it is, how its pid reads and its age
  haltfile,  \* WATCHDOG-HALT.json
  budget,    \* budget-state.json
  ckpt,      \* the checkpoint of each step
  intents, effects,   \* intents.log and effects.log, by step
  pc,        \* where each manager is
  mem,       \* each manager's copy of the budget state
  at,        \* the step each manager executes
  tries,     \* attempts of this manager: to lock, then at its step
  inflight,  \* the capability file: the step whose effect may be in flight, or 0
  guard,     \* each manager's watchdog
  orphans,   \* watchdogs whose manager is gone
  standing,  \* a halt nobody has acknowledged yet
  performed, \* how often each effect really happened
  ran,       \* how often each worker was run
  starts, crashes, failures

run == <<budget, ckpt, intents, effects>>
local == <<mem, at, tries>>
world == <<standing, performed, ran, starts, crashes, failures>>
vars == <<lock, haltfile, run, pc, local, inflight, guard, orphans, world>>

Pipeline == 1 .. Steps
NoLock == [by |-> "none", pid |-> "none", fresh |-> FALSE]
NoHalt == [kind |-> "none", effect |-> 0]
Fresh == [steps |-> 0, furthest |-> 0, halted |-> FALSE,
          attempts |-> [s \in Pipeline |-> 0], churn |-> [s \in Pipeline |-> 0]]

Stopped == {m \in Managers : pc[m] = "down"}
Startup == {"down", "lock", "steal", "write_pid", "honour", "supervise", "supervise_ack"}

-----------------------------------------------------------------------------
(* How a manager ends.                                                      *)

\* A process that is gone leaves a dead pid, or one that another process has by now.
DeadLocks(m) ==
  IF lock.by = m /\ lock.pid = "live"
    THEN {[lock EXCEPT !.pid = p] : p \in {"dead", "reused"}} ELSE {lock}

Forget(m) ==
  /\ pc' = [pc EXCEPT ![m] = "down"]
  /\ mem' = [mem EXCEPT ![m] = Fresh]
  /\ at' = [at EXCEPT ![m] = 1]
  /\ tries' = [tries EXCEPT ![m] = 0]

\* process.exit before the exit handler is installed: the lock file stays.
Quit(m) == Forget(m) /\ lock' \in DeadLocks(m) /\ UNCHANGED <<guard, orphans>>

\* process.exit after: the lock file is removed, whoever it belongs to by now, and
\* the guard is killed before it can remove its dead-man switch.
ReleaseLock(m) ==
  /\ Forget(m)
  /\ lock' = NoLock
  /\ guard' = [guard EXCEPT ![m] = "none"]
  /\ UNCHANGED orphans

Crash(m) ==
  /\ pc[m] # "down" /\ crashes < MaxCrashes
  /\ crashes' = crashes + 1
  /\ Forget(m)
  /\ lock' \in DeadLocks(m)
  /\ guard' = [guard EXCEPT ![m] = "none"]
  /\ orphans' = orphans + IF guard[m] \in {"starting", "watching"} THEN 1 ELSE 0
  /\ UNCHANGED <<haltfile, run, inflight, standing, performed, ran, starts, failures>>

-----------------------------------------------------------------------------
(* The lock file.                                                           *)

Start(m) ==
  /\ pc[m] = "down" /\ starts < MaxStarts
  /\ Concurrent \/ Stopped = Managers
  /\ starts' = starts + 1
  /\ pc' = [pc EXCEPT ![m] = "lock"]
  /\ UNCHANGED <<lock, haltfile, run, local, inflight, guard, orphans,
                 standing, performed, ran, crashes, failures>>

CreateLock(m) ==
  /\ pc[m] = "lock" /\ tries[m] < 2 /\ lock = NoLock
  /\ lock' = [by |-> m, pid |-> "empty", fresh |-> TRUE]
  /\ pc' = [pc EXCEPT ![m] = "write_pid"]
  /\ UNCHANGED <<haltfile, run, local, inflight, guard, orphans, world>>

\* Startup goes on to clear what the previous manager left for its watchdog.
WritePid(m) ==
  /\ pc[m] = "write_pid"
  /\ lock' = IF lock.by = m THEN [lock EXCEPT !.pid = "live"] ELSE lock
  /\ inflight' = 0
  /\ tries' = [tries EXCEPT ![m] = 0]
  /\ pc' = [pc EXCEPT ![m] = "honour"]
  /\ UNCHANGED <<haltfile, run, mem, at, guard, orphans, world>>

\* An empty lock file, a dead pid and an old heartbeat all make a lock stale.
JudgeStale(m) ==
  /\ pc[m] = "lock" /\ tries[m] < 2 /\ lock # NoLock
  /\ lock.pid \in {"empty", "dead"} \/ ~lock.fresh
  /\ pc' = [pc EXCEPT ![m] = "steal"]
  /\ UNCHANGED <<lock, haltfile, run, local, inflight, guard, orphans, world>>

Steal(m) ==
  /\ pc[m] = "steal"
  /\ lock' = NoLock
  /\ tries' = [tries EXCEPT ![m] = @ + 1]
  /\ pc' = [pc EXCEPT ![m] = "lock"]
  /\ UNCHANGED <<haltfile, run, mem, at, inflight, guard, orphans, world>>

Refused(m) ==
  /\ pc[m] = "lock"
  /\ tries[m] = 2 \/ (lock.pid \in {"live", "reused"} /\ lock.fresh)
  /\ Quit(m)
  /\ UNCHANGED <<haltfile, run, inflight, world>>

\* The lease of a dead manager runs out, and that of one whose event loop is blocked;
\* the next heartbeat touches the lock file, whoever it belongs to by now.
LeaseExpires ==
  /\ lock.pid \in {"live", "reused"} /\ lock.fresh
  /\ lock' = [lock EXCEPT !.fresh = FALSE]
  /\ UNCHANGED <<haltfile, run, pc, local, inflight, guard, orphans, world>>

Heartbeat(m) ==
  /\ pc[m] \notin Startup /\ lock # NoLock /\ ~lock.fresh
  /\ lock' = [lock EXCEPT !.fresh = TRUE]
  /\ UNCHANGED <<haltfile, run, pc, local, inflight, guard, orphans, world>>

-----------------------------------------------------------------------------
(* Halts: recorded in the budget state or, by a watchdog, in its own file.   *)

\* haltNow: the manager's whole copy is saved, and the halt ends the process.
HaltNow(m, state) ==
  /\ budget' = [state EXCEPT !.halted = TRUE]
  /\ standing' = TRUE
  /\ ReleaseLock(m)

\* Mutant of HonourHalt: the watchdog's file is taken for its dead-man switch.
HonourHaltOfNobody(m, ack) ==
  /\ pc[m] = "honour"
  /\ haltfile' = NoHalt
  /\ pc' = [pc EXCEPT ![m] = IF ack THEN "supervise_ack" ELSE "supervise"]
  /\ UNCHANGED <<lock, local, guard, orphans, run, inflight, world>>

HonourHalt(m, ack) ==
  /\ pc[m] = "honour"
  /\ \/ /\ haltfile # NoHalt /\ ~ack
        /\ Quit(m)
        /\ UNCHANGED <<haltfile, standing>>
     \/ /\ haltfile = NoHalt \/ ack
        /\ haltfile' = NoHalt
        /\ standing' = (standing /\ ~(ack /\ haltfile.kind = "killed"))
        /\ pc' = [pc EXCEPT ![m] = IF ack THEN "supervise_ack" ELSE "supervise"]
        /\ UNCHANGED <<lock, local, guard, orphans>>
  /\ UNCHANGED <<run, inflight, performed, ran, starts, crashes, failures>>

CreateSupervisor(m) ==
  /\ pc[m] \in {"supervise", "supervise_ack"}
  /\ \/ /\ budget.halted /\ pc[m] = "supervise"
        /\ Quit(m)
        /\ UNCHANGED <<budget, standing>>
     \/ /\ budget.halted => pc[m] = "supervise_ack"
        /\ budget' = [budget EXCEPT !.halted = FALSE]
        /\ mem' = [mem EXCEPT ![m] = budget']
        /\ standing' = (standing /\ ~budget.halted)
        /\ guard' = [guard EXCEPT ![m] = "starting"]
        /\ pc' = [pc EXCEPT ![m] = "begin"]
        /\ UNCHANGED <<lock, at, tries, orphans>>
  /\ UNCHANGED <<haltfile, ckpt, intents, effects, inflight,
                 performed, ran, starts, crashes, failures>>

-----------------------------------------------------------------------------
(* The watchdog.                                                            *)

GuardArms(m) ==
  /\ guard[m] = "starting"
  /\ guard' = [guard EXCEPT ![m] = "watching"]
  /\ haltfile' = [kind |-> "deadman", effect |-> 0]
  /\ UNCHANGED <<lock, run, pc, local, inflight, orphans, world>>

\* A worker blocks the event loop.  An orphaned watchdog notices within half a
\* second that its manager is gone, well within the shortest blocking budget.
GuardKills(m) ==
  /\ guard[m] = "watching" /\ pc[m] \in {"worker", "intend", "act", "complete"}
  /\ orphans = 0 /\ crashes < MaxCrashes
  /\ crashes' = crashes + 1
  /\ haltfile' = [kind |-> "killed", effect |-> inflight]
  /\ standing' = TRUE
  /\ Forget(m)
  /\ lock' \in DeadLocks(m)
  /\ guard' = [guard EXCEPT ![m] = "none"]
  /\ UNCHANGED <<run, inflight, orphans, performed, ran, starts, failures>>

OrphanCleansUp ==
  /\ orphans > 0
  /\ orphans' = orphans - 1
  /\ haltfile' = NoHalt
  /\ UNCHANGED <<lock, run, pc, local, inflight, guard, world>>

GuardDies(m) ==
  /\ guard[m] \in {"starting", "watching"} /\ crashes < MaxCrashes
  /\ crashes' = crashes + 1
  /\ guard' = [guard EXCEPT ![m] = "dead"]
  /\ UNCHANGED <<lock, haltfile, run, pc, local, inflight, orphans,
                 standing, performed, ran, starts, failures>>

HaltOnDeadWatchdog(m) ==
  /\ guard[m] = "dead" /\ pc[m] \notin Startup \cup {"leave"}
  /\ HaltNow(m, mem[m])
  /\ UNCHANGED <<haltfile, ckpt, intents, effects, inflight,
                 performed, ran, starts, crashes, failures>>

-----------------------------------------------------------------------------
(* The pipeline.                                                            *)

Save(m, state) == mem' = [mem EXCEPT ![m] = state] /\ budget' = state
Goto(m, place) == pc' = [pc EXCEPT ![m] = place]

BeginStep(m) ==
  LET churned == [mem[m] EXCEPT !.churn[at[m]] = @ + 1]
      begun   == [churned EXCEPT !.steps = @ + 1] IN
  /\ pc[m] = "begin"
  /\ \/ /\ churned.churn[at[m]] > MaxReentry
        /\ HaltNow(m, churned)
     \/ /\ churned.churn[at[m]] <= MaxReentry /\ begun.steps > MaxSteps
        /\ HaltNow(m, begun)
     \/ /\ churned.churn[at[m]] <= MaxReentry /\ begun.steps <= MaxSteps
        /\ Save(m, begun)
        /\ Goto(m, "check")
        /\ UNCHANGED <<lock, at, tries, guard, orphans, standing>>
  /\ UNCHANGED <<haltfile, ckpt, intents, effects, inflight,
                 performed, ran, starts, crashes, failures>>

\* A corrupt checkpoint is moved aside, and its step is run again.
ReadCheckpoint(m) ==
  /\ pc[m] = "check"
  /\ ckpt' = IF ckpt[at[m]] = "corrupt" THEN [ckpt EXCEPT ![at[m]] = "none"] ELSE ckpt
  /\ Goto(m, IF ckpt[at[m]] = "saved" THEN "advance" ELSE "attempt")
  /\ tries' = [tries EXCEPT ![m] = 0]
  /\ UNCHANGED <<lock, haltfile, budget, intents, effects, mem, at, inflight,
                 guard, orphans, world>>

\* Mutant of RecordAttempt: the capability file is not written before a retry.
RecordAttemptUndeclared(m) ==
  /\ pc[m] = "attempt" /\ mem[m].attempts[at[m]] <= MaxRetries
  /\ Save(m, [mem[m] EXCEPT !.attempts[at[m]] = @ + 1])
  /\ inflight' = IF tries[m] = 0 THEN at[m] ELSE inflight
  /\ tries' = [tries EXCEPT ![m] = @ + 1]
  /\ ran' = [ran EXCEPT ![at[m]] = @ + 1]
  /\ Goto(m, "worker")
  /\ UNCHANGED <<lock, haltfile, ckpt, intents, effects, at, guard, orphans,
                 standing, performed, starts, crashes, failures>>

RecordAttempt(m) ==
  LET attempted == [mem[m] EXCEPT !.attempts[at[m]] = @ + 1] IN
  /\ pc[m] = "attempt"
  /\ \/ /\ attempted.attempts[at[m]] > MaxRetries + 1
        /\ HaltNow(m, attempted)
        /\ UNCHANGED <<inflight, ran>>
     \/ /\ attempted.attempts[at[m]] <= MaxRetries + 1
        /\ Save(m, attempted)
        /\ inflight' = at[m]
        /\ tries' = [tries EXCEPT ![m] = @ + 1]
        /\ ran' = [ran EXCEPT ![at[m]] = @ + 1]
        /\ Goto(m, "worker")
        /\ UNCHANGED <<lock, at, guard, orphans, standing>>
  /\ UNCHANGED <<haltfile, ckpt, intents, effects, performed, starts, crashes, failures>>

\* An intent without a completion: nobody knows whether the effect happened.
Unresolved(s) == s \in intents \ effects

\* Mutant of ReadLogs: only the completions are looked up.
ReadLogsOfEffects(m) ==
  /\ pc[m] = "worker"
  /\ Goto(m, IF at[m] \in effects THEN "checkpoint" ELSE "intend")
  /\ UNCHANGED <<lock, haltfile, run, local, inflight, guard, orphans, world>>

ReadLogs(m) ==
  /\ pc[m] = "worker"
  /\ \/ /\ Unresolved(at[m])
        /\ ReleaseLock(m)
        /\ inflight' = 0
     \/ /\ ~Unresolved(at[m])
        /\ Goto(m, IF at[m] \in effects THEN "checkpoint" ELSE "intend")
        /\ UNCHANGED <<lock, local, inflight, guard, orphans>>
  /\ UNCHANGED <<haltfile, run, world>>

AppendIntent(m) ==
  /\ pc[m] = "intend"
  /\ intents' = intents \cup {at[m]}
  /\ Goto(m, "act")
  /\ UNCHANGED <<lock, haltfile, budget, ckpt, effects, local, inflight, guard, orphans, world>>

Act(m) ==
  /\ pc[m] = "act"
  /\ performed' = [performed EXCEPT ![at[m]] = @ + 1]
  /\ Goto(m, "complete")
  /\ UNCHANGED <<lock, haltfile, run, local, inflight, guard, orphans,
                 standing, ran, starts, crashes, failures>>

AppendCompletion(m) ==
  /\ pc[m] = "complete"
  /\ effects' = effects \cup {at[m]}
  /\ Goto(m, "checkpoint")
  /\ UNCHANGED <<lock, haltfile, budget, ckpt, intents, local, inflight, guard, orphans, world>>

\* A worker throws before, while or after it acts: the attempts of this manager are
\* counted apart from the persisted ones.
WorkerThrows(m) ==
  /\ pc[m] \in {"worker", "intend", "act", "complete"} /\ failures < MaxFailures
  /\ failures' = failures + 1
  /\ inflight' = 0
  /\ \/ /\ tries[m] = MaxRetries + 1
        /\ HaltNow(m, mem[m])
     \/ /\ tries[m] <= MaxRetries
        /\ Goto(m, "attempt")
        /\ UNCHANGED <<lock, local, guard, orphans, standing, budget>>
  /\ UNCHANGED <<haltfile, ckpt, intents, effects, performed, ran, starts, crashes>>

SaveCheckpoint(m) ==
  /\ pc[m] = "checkpoint"
  /\ inflight' = 0
  /\ ckpt' = [ckpt EXCEPT ![at[m]] = "saved"]
  /\ Goto(m, "advance")
  /\ UNCHANGED <<lock, haltfile, budget, intents, effects, local, guard, orphans, world>>

\* A budget is found breached where it is checked: an external call before it is
\* made, or the bytes of a checkpoint after it was saved.
Breach(m) ==
  /\ pc[m] \in {"act", "advance"} /\ failures < MaxFailures
  /\ failures' = failures + 1
  /\ inflight' = 0
  /\ HaltNow(m, mem[m])
  /\ UNCHANGED <<haltfile, ckpt, intents, effects, performed, ran, starts, crashes>>

Advance(m) ==
  LET state == IF at[m] > mem[m].furthest
                 THEN [mem[m] EXCEPT !.furthest = at[m], !.churn[at[m]] = 0] ELSE mem[m] IN
  /\ pc[m] = "advance"
  /\ Save(m, state)
  /\ at' = [at EXCEPT ![m] = IF @ = Steps THEN @ ELSE @ + 1]
  /\ Goto(m, IF at[m] = Steps THEN "finish" ELSE "begin")
  /\ UNCHANGED <<lock, haltfile, ckpt, intents, effects, tries, inflight, guard, orphans, world>>

\* The dead-man switch is removed only if the guard was still alive.
Finish(m) ==
  /\ pc[m] = "finish"
  /\ haltfile' = IF guard[m] = "dead" THEN haltfile ELSE NoHalt
  /\ guard' = [guard EXCEPT ![m] = IF @ = "dead" THEN @ ELSE "none"]
  /\ Goto(m, "leave")
  /\ UNCHANGED <<lock, run, local, inflight, orphans, world>>

Leave(m) ==
  /\ pc[m] = "leave"
  /\ ReleaseLock(m)
  /\ UNCHANGED <<haltfile, run, inflight, world>>

\* What the message of an unresolved effect tells its reader to do about the logs.
Reconcile(s) ==
  /\ Stopped = Managers /\ Unresolved(s)
  /\ IF performed[s] = 0 THEN intents' = intents \ {s} /\ UNCHANGED effects
                         ELSE effects' = effects \cup {s} /\ UNCHANGED intents
  /\ UNCHANGED <<lock, haltfile, budget, ckpt, pc, local, inflight, guard, orphans, world>>

CheckpointIsLost(s) ==
  /\ ckpt[s] = "saved" /\ failures < MaxFailures
  /\ failures' = failures + 1
  /\ ckpt' = [ckpt EXCEPT ![s] = "corrupt"]
  /\ UNCHANGED <<lock, haltfile, budget, intents, effects, pc, local, inflight,
                 guard, orphans, standing, performed, ran, starts, crashes>>

-----------------------------------------------------------------------------
Init ==
  /\ lock = NoLock /\ haltfile = NoHalt /\ budget = Fresh
  /\ ckpt = [s \in Pipeline |-> "none"] /\ intents = {} /\ effects = {}
  /\ pc = [m \in Managers |-> "down"] /\ mem = [m \in Managers |-> Fresh]
  /\ at = [m \in Managers |-> 1] /\ tries = [m \in Managers |-> 0]
  /\ inflight = 0 /\ guard = [m \in Managers |-> "none"] /\ orphans = 0
  /\ standing = FALSE /\ performed = [s \in Pipeline |-> 0] /\ ran = [s \in Pipeline |-> 0]
  /\ starts = 0 /\ crashes = 0 /\ failures = 0

Lock(m) == CreateLock(m) \/ WritePid(m) \/ JudgeStale(m) \/ Steal(m) \/ Refused(m)
Work(m) ==
  \/ (\E ack \in BOOLEAN : HonourHalt(m, ack)) \/ CreateSupervisor(m)
  \/ BeginStep(m) \/ ReadCheckpoint(m) \/ RecordAttempt(m) \/ ReadLogs(m)
  \/ AppendIntent(m) \/ Act(m) \/ AppendCompletion(m) \/ SaveCheckpoint(m)
  \/ Advance(m) \/ Finish(m) \/ Leave(m) \/ HaltOnDeadWatchdog(m)
Fault(m) == Crash(m) \/ GuardKills(m) \/ GuardDies(m) \/ WorkerThrows(m) \/ Breach(m)

Next ==
  \/ \E m \in Managers : \/ Start(m) \/ Lock(m) \/ Work(m) \/ Fault(m)
                         \/ GuardArms(m) \/ Heartbeat(m)
  \/ LeaseExpires \/ OrphanCleansUp
  \/ \E s \in Pipeline : CheckpointIsLost(s) \/ Reconcile(s)

Spec == Init /\ [][Next]_vars

-----------------------------------------------------------------------------
(* Properties, for one manager at a time.                                   *)

\* No crash, retry, lost checkpoint or blocked loop makes a worker repeat its effect
\* behind the back of a human: an effect that may have happened is not tried again.
EffectHappensOnce == \A s \in Pipeline : performed[s] <= 1

\* Once a budget, a tripwire or the watchdog has halted the run, no manager gets past
\* its startup until a human has acknowledged it, whatever crashed in between.
HaltStands == standing => \A m \in Managers : pc[m] \in Startup

\* The evidence of a watchdog never says that nothing is in flight, nor names a later
\* step, while an effect is in doubt: a resumed run meets that effect first.
EvidenceNamesTheDoubt ==
  haltfile.kind = "killed" =>
    \A s \in Pipeline : Unresolved(s) => haltfile.effect \in 1 .. s

\* One manager at a time works on a run directory.
OneWriter == Cardinality({m \in Managers : pc[m] \notin Startup}) <= 1

=============================================================================
