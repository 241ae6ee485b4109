---------------------------- MODULE RunManagerProofs ---------------------------
(***************************************************************************)
(* That a managed run keeps its promises across crashes, for any pipeline, *)
(* any limits and any number of starts, with one manager at a time: no     *)
(* effect happens twice, an unacknowledged halt stops every later manager, *)
(* and the watchdog's evidence names what is in doubt.                     *)
(*                                                                         *)
(* Once says why: an effect is only tried after an intent that was not     *)
(* there before.  Order says that the steps behind a manager are complete, *)
(* so that what is in doubt is never behind it; Halts, that a halt is on   *)
(* file where a manager looks before it goes on.                           *)
(***************************************************************************)
EXTENDS RunManager, TLAPS

USE RunAssumption DEF Pipeline

Working == {"worker", "intend", "act", "complete"}
Places == Startup \cup Working \cup
          {"begin", "check", "attempt", "checkpoint", "advance", "finish", "leave"}
Guards == {"none", "starting", "watching", "dead"}

\* The budget state, as far as halts go.
IsBudget(b) ==
  /\ b = [steps |-> b.steps, furthest |-> b.furthest, halted |-> b.halted,
          attempts |-> b.attempts, churn |-> b.churn]
  /\ b.halted \in BOOLEAN

RunTypeOK ==
  /\ pc \in [Managers -> Places] /\ at \in [Managers -> 1 .. Steps]
  /\ IsBudget(budget) /\ DOMAIN mem = Managers /\ \A m \in Managers : IsBudget(mem[m])
  /\ ckpt \in [1 .. Steps -> {"none", "saved", "corrupt"}]
  /\ performed \in [1 .. Steps -> Nat]
  /\ haltfile \in [kind : {"none", "deadman", "killed"}, effect : Nat]
  /\ guard \in [Managers -> Guards] /\ inflight \in Nat /\ orphans \in Nat
  /\ standing \in BOOLEAN

\* One manager is up at most.
Alone == \A m, n \in Managers : pc[m] # "down" /\ pc[n] # "down" => m = n

\* An effect is tried once for each intent, and an intent is only written when there
\* is none.
Once ==
  /\ \A s \in 1 .. Steps : performed[s] <= 1 /\ (s \notin intents => performed[s] = 0)
  /\ \A m \in Managers :
       /\ pc[m] = "intend" => at[m] \notin intents
       /\ pc[m] = "act" => at[m] \in intents /\ performed[at[m]] = 0

\* What a manager has behind it is complete, and while it works the capability file
\* names its step.
Order ==
  /\ \A s \in 1 .. Steps : ckpt[s] = "saved" => s \in effects
  /\ \A m \in Managers :
       /\ \A s \in 1 .. Steps : s < at[m] => s \in effects
       /\ pc[m] \in {"checkpoint", "advance"} => at[m] \in effects
       /\ pc[m] \in Working => inflight = at[m]

\* A watchdog's verdict waits for the next manager, and no orphan removes it.
Killed == haltfile.kind = "killed"
Waiting == {"down", "lock", "steal", "write_pid", "honour"}
Halts ==
  /\ \A m \in Managers : pc[m] \in Startup => guard[m] = "none"
  /\ standing => HaltStands /\ (budget.halted \/ Killed)
  /\ Killed => /\ orphans = 0
               /\ \A m \in Managers : pc[m] \in Waiting

RunInv == RunTypeOK /\ Alone /\ Once /\ Order /\ Halts /\ EvidenceNamesTheDoubt

-----------------------------------------------------------------------------
(* How a manager ends.                                                      *)

USE DEF Startup, Working, Places, Guards, Waiting, Killed, Unresolved

LEMMA FreshIsBudget == IsBudget(Fresh) /\ ~Fresh.halted
  BY DEF Fresh, IsBudget

\* With its one manager gone a run is at rest, whatever is on file.
LEMMA DownStep ==
  ASSUME RunInv, NEW m \in Managers, pc[m] # "down", Forget(m),
         guard' = [guard EXCEPT ![m] = "none"],
         performed' = performed, intents' = intents, effects' = effects, ckpt' = ckpt,
         inflight' \in Nat, orphans' \in Nat, IsBudget(budget'), standing' \in BOOLEAN,
         haltfile' \in [kind : {"none", "deadman", "killed"}, effect : Nat],
         standing' => budget'.halted \/ Killed',
         Killed' => orphans' = 0,
         EvidenceNamesTheDoubt'
  PROVE  RunInv'
  <1>1. \A n \in Managers : pc'[n] = "down"
    BY DEF Forget, RunInv, RunTypeOK, Alone
  <1>2. RunTypeOK'
    <2>1. DOMAIN mem' = Managers /\ \A n \in Managers : IsBudget(mem'[n])
      <3>1. \A n \in Managers : mem'[n] = IF n = m THEN Fresh ELSE mem[n]
        BY DEF Forget, RunInv, RunTypeOK
      <3>2. \A n \in Managers : IsBudget(IF n = m THEN Fresh ELSE mem[n])
        BY FreshIsBudget DEF RunInv, RunTypeOK, IsBudget
      <3>3. QED
        BY <3>1, <3>2 DEF Forget, RunInv, RunTypeOK, IsBudget
    <2>2. pc' \in [Managers -> Places] /\ at' \in [Managers -> 1 .. Steps]
          /\ guard' \in [Managers -> Guards]
      BY DEF Forget, RunInv, RunTypeOK
    <2>3. QED
      BY <2>1, <2>2 DEF RunInv, RunTypeOK
  <1>3. at'[m] = 1 /\ \A n \in Managers \ {m} : at'[n] = at[n]
    BY DEF Forget, RunInv, RunTypeOK
  <1>4. Alone' /\ Once' /\ HaltStands'
    BY <1>1 DEF Alone, Once, HaltStands, RunInv
  <1>5. Order'
    <2>1. ASSUME NEW n \in Managers, NEW s \in 1 .. Steps, s < at'[n] PROVE s \in effects'
      <3>1. CASE n = m
        BY <1>3, <2>1, <3>1
      <3>2. CASE n # m
        BY <1>3, <2>1, <3>2 DEF Order, RunInv
      <3>3. QED
        BY <3>1, <3>2
    <2>2. QED
      BY <1>1, <2>1 DEF Order, RunInv
  <1>6. Halts'
    BY <1>1, <1>4 DEF Halts, RunInv, RunTypeOK, Alone
  <1>7. QED
    BY <1>2, <1>4, <1>5, <1>6 DEF RunInv

\* Nobody else is up beside a manager.
LEMMA OthersAreDown ==
  ASSUME RunInv, NEW m \in Managers, pc[m] # "down", NEW n \in Managers, n # m
  PROVE  pc[n] = "down" /\ guard[n] = "none"
  BY DEF RunInv, Alone, Halts

\* A manager past its startup: nothing stands, and no verdict is on file.
LEMMA PastStartup ==
  ASSUME RunInv, NEW m \in Managers, pc[m] \notin Startup
  PROVE  ~standing /\ ~Killed
  BY DEF RunInv, Halts, HaltStands

\* A step of a manager that goes on past its startup, once it is clear what it does to
\* the effects and to the order of the pipeline.
LEMMA RunningStep ==
  ASSUME RunInv, NEW m \in Managers, pc[m] \notin Startup, NEW place \in Places \ Startup,
         pc' = [pc EXCEPT ![m] = place], RunTypeOK', Once', Order',
         standing' = standing, haltfile' \in {haltfile, NoHalt},
         \A n \in Managers \ {m} : guard'[n] = guard[n]
  PROVE  RunInv'
  <1>1. \A n \in Managers \ {m} : pc[n] = "down" /\ guard[n] = "none" /\ pc'[n] = "down"
    BY OthersAreDown DEF RunInv, RunTypeOK
  <1>2. pc'[m] = place
    BY DEF RunInv, RunTypeOK
  <1>3. ~standing' /\ ~Killed'
    BY PastStartup DEF NoHalt
  <1>4. Alone'
    BY <1>1, <1>2 DEF Alone
  <1>5. Halts'
    BY <1>1, <1>2, <1>3 DEF Halts
  <1>6. EvidenceNamesTheDoubt'
    BY <1>3 DEF EvidenceNamesTheDoubt
  <1>7. QED
    BY <1>4, <1>5, <1>6 DEF RunInv

\* A step of a manager that stays in its startup and touches nothing that lasts.
LEMMA StartupStep ==
  ASSUME RunInv, NEW m \in Managers, pc[m] \in Waiting,
         \A n \in Managers \ {m} : pc[n] = "down", NEW place \in Waiting,
         pc' = [pc EXCEPT ![m] = place], inflight' \in Nat,
         UNCHANGED <<budget, ckpt, intents, effects, haltfile, mem, at, guard, orphans,
                     standing, performed>>
  PROVE  RunInv'
  <1>1. \A n \in Managers \ {m} : pc'[n] = "down"
    BY DEF RunInv, RunTypeOK
  <1>2. pc'[m] = place
    BY DEF RunInv, RunTypeOK
  <1>3. RunTypeOK'
    BY DEF RunInv, RunTypeOK, IsBudget
  <1>4. Alone'
    BY <1>1 DEF Alone
  <1>5. Once'
    BY <1>1, <1>2 DEF RunInv, Once
  <1>6. Order'
    BY <1>1, <1>2 DEF RunInv, Order
  <1>7. Halts'
    BY <1>1, <1>2 DEF RunInv, Halts, HaltStands
  <1>8. EvidenceNamesTheDoubt'
    BY DEF RunInv, EvidenceNamesTheDoubt
  <1>9. QED
    BY <1>3, <1>4, <1>5, <1>6, <1>7, <1>8 DEF RunInv

-----------------------------------------------------------------------------
(* The actions.                                                             *)

\* A manager is started when no other one runs.
LEMMA LockStep ==
  ASSUME RunInv, ~Concurrent, NEW m \in Managers,
         Start(m) \/ CreateLock(m) \/ WritePid(m) \/ JudgeStale(m) \/ Steal(m)
  PROVE  RunInv'
  <1>1. CASE Start(m)
    <2>1. \A n \in Managers \ {m} : pc[n] = "down"
      BY <1>1 DEF Start, Stopped
    <2>2. QED
      BY <1>1, <2>1, StartupStep DEF Start, run, local, RunInv, RunTypeOK
  <1>2. CASE CreateLock(m) \/ WritePid(m) \/ JudgeStale(m) \/ Steal(m)
    <2>1. pc[m] # "down"
      BY <1>2 DEF CreateLock, WritePid, JudgeStale, Steal
    <2>2. \A n \in Managers \ {m} : pc[n] = "down"
      BY <2>1, OthersAreDown
    <2>3. PICK place \in Waiting : pc[m] \in Waiting /\ pc' = [pc EXCEPT ![m] = place]
      BY <1>2 DEF CreateLock, WritePid, JudgeStale, Steal
    <2>4. UNCHANGED <<budget, ckpt, intents, effects, haltfile, mem, at, guard, orphans,
                      standing, performed>>
      BY <1>2 DEF CreateLock, WritePid, JudgeStale, Steal, run, local, world
    <2>5. inflight' \in Nat
      BY <1>2 DEF CreateLock, WritePid, JudgeStale, Steal, RunInv, RunTypeOK
    <2>6. QED
      BY <2>2, <2>3, <2>4, <2>5, StartupStep
  <1>3. QED
    BY <1>1, <1>2

\* A manager that is turned away in its startup leaves everything but its lock as it was.
LEMMA QuitStep ==
  ASSUME RunInv, NEW m \in Managers, pc[m] \in Startup \ {"down"}, Quit(m),
         UNCHANGED <<budget, ckpt, intents, effects, haltfile, inflight, standing, performed>>
  PROVE  RunInv'
  <1>1. guard' = [guard EXCEPT ![m] = "none"]
    BY DEF Quit, RunInv, RunTypeOK, Halts
  <1>2. /\ Forget(m) /\ inflight' \in Nat /\ orphans' \in Nat /\ IsBudget(budget')
        /\ standing' \in BOOLEAN
        /\ haltfile' \in [kind : {"none", "deadman", "killed"}, effect : Nat]
    BY DEF Quit, RunInv, RunTypeOK
  <1>3. (standing' => budget'.halted \/ Killed') /\ (Killed' => orphans' = 0)
    BY DEF Quit, RunInv, Halts
  <1>4. EvidenceNamesTheDoubt'
    BY DEF RunInv, EvidenceNamesTheDoubt
  <1>5. QED
    BY <1>1, <1>2, <1>3, <1>4, DownStep

\* A halt is saved with the manager's copy of the budget.
LEMMA HaltStep ==
  ASSUME RunInv, NEW m \in Managers, pc[m] \notin Startup, NEW b, IsBudget(b), HaltNow(m, b),
         UNCHANGED <<ckpt, intents, effects, haltfile, performed>>, inflight' \in Nat
  PROVE  RunInv'
  <1>1. IsBudget(budget') /\ budget'.halted
    BY DEF HaltNow, IsBudget
  <1>2. Forget(m) /\ guard' = [guard EXCEPT ![m] = "none"] /\ orphans' = orphans /\ standing' = TRUE
    BY DEF HaltNow, ReleaseLock
  <1>3. /\ orphans' \in Nat /\ standing' \in BOOLEAN
        /\ haltfile' \in [kind : {"none", "deadman", "killed"}, effect : Nat]
    BY <1>2 DEF RunInv, RunTypeOK
  <1>4. ~Killed'
    BY PastStartup
  <1>5. EvidenceNamesTheDoubt'
    BY <1>4 DEF EvidenceNamesTheDoubt
  <1>6. QED
    BY <1>1, <1>2, <1>3, <1>4, <1>5, DownStep

LEMMA CrashStep ==
  ASSUME RunInv, NEW m \in Managers, Crash(m)
  PROVE  RunInv'
  <1>1. /\ pc[m] # "down" /\ Forget(m) /\ guard' = [guard EXCEPT ![m] = "none"]
        /\ orphans' = orphans + IF guard[m] \in {"starting", "watching"} THEN 1 ELSE 0
        /\ UNCHANGED <<haltfile, run, inflight, standing, performed>>
    BY DEF Crash
  <1>2. /\ inflight' \in Nat /\ orphans' \in Nat /\ IsBudget(budget') /\ standing' \in BOOLEAN
        /\ haltfile' \in [kind : {"none", "deadman", "killed"}, effect : Nat]
    BY <1>1 DEF run, RunInv, RunTypeOK
  <1>3. (standing' => budget'.halted \/ Killed') /\ (Killed' => orphans' = 0)
    BY <1>1 DEF run, RunInv, Halts
  <1>4. EvidenceNamesTheDoubt'
    BY <1>1 DEF run, RunInv, EvidenceNamesTheDoubt
  <1>5. QED
    BY <1>1, <1>2, <1>3, <1>4, DownStep DEF run

\* What is in doubt when the watchdog kills is the step of the manager or a later one.
LEMMA GuardKillsStep ==
  ASSUME RunInv, NEW m \in Managers, GuardKills(m)
  PROVE  RunInv'
  <1>1. /\ pc[m] \in Working /\ orphans = 0
        /\ haltfile' = [kind |-> "killed", effect |-> inflight] /\ standing' = TRUE
        /\ Forget(m) /\ guard' = [guard EXCEPT ![m] = "none"]
        /\ UNCHANGED <<run, inflight, orphans, performed>>
    BY DEF GuardKills
  <1>2. inflight = at[m] /\ at[m] \in 1 .. Steps
    BY <1>1 DEF RunInv, RunTypeOK, Order
  <1>3. ASSUME NEW s \in 1 .. Steps, Unresolved(s) PROVE inflight \in 1 .. s
    BY <1>2, <1>3 DEF RunInv, Order, RunAssumption
  <1>4. EvidenceNamesTheDoubt'
    BY <1>1, <1>3 DEF run, EvidenceNamesTheDoubt
  <1>5. /\ inflight' \in Nat /\ orphans' \in Nat /\ IsBudget(budget') /\ standing' \in BOOLEAN
        /\ haltfile' \in [kind : {"none", "deadman", "killed"}, effect : Nat]
    BY <1>1 DEF run, RunInv, RunTypeOK
  <1>6. QED
    BY <1>1, <1>4, <1>5, DownStep DEF run

\* A charge to the copy of the budget keeps what the proof knows of it.
LEMMA ChargeKeepsBudget ==
  ASSUME NEW b, IsBudget(b), NEW k
  PROVE  /\ IsBudget([b EXCEPT !.churn[k] = @ + 1])
         /\ IsBudget([b EXCEPT !.attempts[k] = @ + 1])
         /\ IsBudget([b EXCEPT !.steps = @ + 1])
         /\ IsBudget([b EXCEPT !.furthest = k])
         /\ IsBudget([b EXCEPT !.churn[k] = 0])
  <1>1. ASSUME NEW x
        PROVE  /\ IsBudget([b EXCEPT !.churn = x]) /\ IsBudget([b EXCEPT !.attempts = x])
               /\ IsBudget([b EXCEPT !.steps = x]) /\ IsBudget([b EXCEPT !.furthest = x])
    BY DEF IsBudget
  <1>2. /\ [b EXCEPT !.churn[k] = @ + 1] = [b EXCEPT !.churn = [b.churn EXCEPT ![k] = @ + 1]]
        /\ [b EXCEPT !.attempts[k] = @ + 1] =
             [b EXCEPT !.attempts = [b.attempts EXCEPT ![k] = @ + 1]]
        /\ [b EXCEPT !.churn[k] = 0] = [b EXCEPT !.churn = [b.churn EXCEPT ![k] = 0]]
    OBVIOUS
  <1>3. QED
    BY <1>1, <1>2

\* An acknowledgement removes the verdict, and the halt it stands for.
LEMMA HonourHaltStep ==
  ASSUME RunInv, NEW m \in Managers, NEW ack \in BOOLEAN, HonourHalt(m, ack)
  PROVE  RunInv'
  <1>1. pc[m] = "honour" /\ UNCHANGED <<run, inflight, performed>>
    BY DEF HonourHalt
  <1>2. CASE Quit(m) /\ UNCHANGED <<haltfile, standing>>
    BY <1>1, <1>2, QuitStep DEF run
  <1>3. CASE /\ haltfile = NoHalt \/ ack
             /\ haltfile' = NoHalt
             /\ standing' = (standing /\ ~(ack /\ haltfile.kind = "killed"))
             /\ pc' = [pc EXCEPT ![m] = IF ack THEN "supervise_ack" ELSE "supervise"]
             /\ UNCHANGED <<lock, local, guard, orphans>>
    <2>1. \A n \in Managers \ {m} : pc[n] = "down" /\ pc'[n] = "down"
      BY <1>1, <1>3, OthersAreDown DEF RunInv, RunTypeOK
    <2>2. pc'[m] \in {"supervise", "supervise_ack"}
      BY <1>3 DEF RunInv, RunTypeOK
    <2>3. RunTypeOK'
      BY <1>1, <1>3 DEF run, local, NoHalt, RunInv, RunTypeOK, IsBudget
    <2>4. Alone' /\ Once' /\ Order'
      BY <1>1, <1>3, <2>1, <2>2 DEF run, local, RunInv, Alone, Once, Order
    <2>5. standing' => budget'.halted
      <3>1. CASE Killed
        <4>1. haltfile # NoHalt
          BY <3>1 DEF NoHalt
        <4>2. QED
          BY <1>3, <3>1, <4>1
      <3>2. CASE ~Killed
        BY <1>1, <1>3, <3>2 DEF run, RunInv, Halts
      <3>3. QED
        BY <3>1, <3>2
    <2>6. ~Killed'
      BY <1>3 DEF NoHalt
    <2>7. Halts' /\ EvidenceNamesTheDoubt'
      BY <1>1, <1>3, <2>1, <2>2, <2>5, <2>6
         DEF RunInv, Halts, HaltStands, EvidenceNamesTheDoubt
    <2>8. QED
      BY <2>3, <2>4, <2>7 DEF RunInv
  <1>4. QED
    BY <1>2, <1>3 DEF HonourHalt

\* A halt in the budget stops a manager that does not acknowledge it.
LEMMA CreateSupervisorStep ==
  ASSUME RunInv, NEW m \in Managers, CreateSupervisor(m)
  PROVE  RunInv'
  <1>1. /\ pc[m] \in {"supervise", "supervise_ack"}
        /\ UNCHANGED <<haltfile, ckpt, intents, effects, inflight, performed>>
    BY DEF CreateSupervisor
  <1>2. CASE Quit(m) /\ UNCHANGED <<budget, standing>>
    BY <1>1, <1>2, QuitStep
  <1>3. CASE /\ budget' = [budget EXCEPT !.halted = FALSE]
             /\ mem' = [mem EXCEPT ![m] = budget']
             /\ standing' = (standing /\ ~budget.halted)
             /\ guard' = [guard EXCEPT ![m] = "starting"]
             /\ pc' = [pc EXCEPT ![m] = "begin"]
             /\ UNCHANGED <<lock, at, tries, orphans>>
    <2>1. \A n \in Managers \ {m} : pc[n] = "down" /\ guard[n] = "none"
                                    /\ pc'[n] = "down" /\ guard'[n] = "none"
      BY <1>1, <1>3, OthersAreDown DEF RunInv, RunTypeOK
    <2>2. pc'[m] = "begin"
      BY <1>3 DEF RunInv, RunTypeOK
    <2>3. IsBudget(budget')
      BY <1>3 DEF RunInv, RunTypeOK, IsBudget
    <2>4. DOMAIN mem' = Managers /\ \A n \in Managers : IsBudget(mem[n]) => IsBudget(mem'[n])
      BY <1>3, <2>3 DEF RunInv, RunTypeOK, IsBudget
    <2>5. standing' \in BOOLEAN /\ ~Killed /\ ~Killed'
      BY <1>1, <1>3 DEF RunInv, Halts
    <2>6. RunTypeOK'
      BY <1>1, <1>3, <2>3, <2>4, <2>5 DEF RunInv, RunTypeOK, IsBudget
    <2>7. Alone' /\ Once' /\ Order'
      BY <1>1, <1>3, <2>1, <2>2 DEF RunInv, Alone, Once, Order
    <2>8. ~standing'
      BY <1>3, <2>5 DEF RunInv, Halts
    <2>9. Halts' /\ EvidenceNamesTheDoubt'
      BY <2>1, <2>2, <2>5, <2>8 DEF Halts, EvidenceNamesTheDoubt
    <2>10. QED
      BY <2>6, <2>7, <2>9 DEF RunInv
  <1>4. QED
    BY <1>2, <1>3 DEF CreateSupervisor

\* A manager that saves its copy and goes on, to no place where an effect is in doubt.
LEMMA SaveStep ==
  ASSUME RunInv, NEW m \in Managers, pc[m] \notin Startup, NEW b, IsBudget(b), Save(m, b),
         NEW place \in {"begin", "check", "attempt", "worker", "finish"},
         pc' = [pc EXCEPT ![m] = place],
         UNCHANGED <<haltfile, ckpt, intents, effects, performed, guard, orphans, standing>>,
         at' \in [Managers -> 1 .. Steps], \A n \in Managers \ {m} : at'[n] = at[n],
         \A s \in 1 .. Steps : s < at'[m] => s \in effects,
         inflight' \in Nat, place = "worker" => inflight' = at'[m]
  PROVE  RunInv'
  <1>1. \A n \in Managers \ {m} : pc[n] = "down" /\ pc'[n] = "down"
    BY OthersAreDown DEF RunInv, RunTypeOK
  <1>2. pc'[m] = place
    BY DEF RunInv, RunTypeOK
  <1>3. DOMAIN mem' = Managers /\ \A n \in Managers : IsBudget(mem[n]) => IsBudget(mem'[n])
    BY DEF Save, RunInv, RunTypeOK, IsBudget
  <1>4. RunTypeOK'
    BY <1>3 DEF Save, RunInv, RunTypeOK, IsBudget
  <1>5. Once'
    BY <1>1, <1>2 DEF RunInv, Once
  <1>6. Order'
    BY <1>1, <1>2 DEF RunInv, Order
  <1>7. QED
    BY <1>4, <1>5, <1>6, RunningStep

LEMMA BeginStepStep ==
  ASSUME RunInv, NEW m \in Managers, BeginStep(m)
  PROVE  RunInv'
  <1> DEFINE churned == [mem[m] EXCEPT !.churn[at[m]] = @ + 1]
             begun == [churned EXCEPT !.steps = @ + 1]
  <1>1. IsBudget(churned) /\ IsBudget(begun)
    BY ChargeKeepsBudget DEF RunInv, RunTypeOK
  <1>2. /\ pc[m] = "begin"
        /\ UNCHANGED <<haltfile, ckpt, intents, effects, inflight, performed>>
    BY DEF BeginStep
  <1>3. \/ HaltNow(m, churned) \/ HaltNow(m, begun)
        \/ /\ Save(m, begun) /\ Goto(m, "check")
           /\ UNCHANGED <<at, guard, orphans, standing>>
    BY DEF BeginStep
  <1> HIDE DEF churned, begun
  <1>4. inflight' \in Nat
    BY <1>2 DEF RunInv, RunTypeOK
  <1>5. CASE HaltNow(m, churned) \/ HaltNow(m, begun)
    BY <1>1, <1>2, <1>4, <1>5, HaltStep
  <1>6. CASE Save(m, begun) /\ Goto(m, "check") /\ UNCHANGED <<at, guard, orphans, standing>>
    <2>1. at' \in [Managers -> 1 .. Steps] /\ \A s \in 1 .. Steps : s < at'[m] => s \in effects
      BY <1>6 DEF RunInv, RunTypeOK, Order
    <2>2. QED
      BY <1>1, <1>2, <1>4, <1>6, <2>1, SaveStep DEF Goto
  <1>7. QED
    BY <1>3, <1>5, <1>6

LEMMA RecordAttemptStep ==
  ASSUME RunInv, NEW m \in Managers, RecordAttempt(m)
  PROVE  RunInv'
  <1> DEFINE attempted == [mem[m] EXCEPT !.attempts[at[m]] = @ + 1]
  <1>1. IsBudget(attempted)
    BY ChargeKeepsBudget DEF RunInv, RunTypeOK
  <1>2. pc[m] = "attempt" /\ UNCHANGED <<haltfile, ckpt, intents, effects, performed>>
    BY DEF RecordAttempt
  <1>3. \/ HaltNow(m, attempted) /\ UNCHANGED inflight
        \/ /\ Save(m, attempted) /\ inflight' = at[m] /\ Goto(m, "worker")
           /\ UNCHANGED <<at, guard, orphans, standing>>
    BY DEF RecordAttempt
  <1> HIDE DEF attempted
  <1>4. CASE HaltNow(m, attempted) /\ UNCHANGED inflight
    <2>1. inflight' \in Nat
      BY <1>4 DEF RunInv, RunTypeOK
    <2>2. QED
      BY <1>1, <1>2, <1>4, <2>1, HaltStep
  <1>5. CASE /\ Save(m, attempted) /\ inflight' = at[m] /\ Goto(m, "worker")
             /\ UNCHANGED <<at, guard, orphans, standing>>
    <2>1. /\ at' \in [Managers -> 1 .. Steps] /\ inflight' \in Nat /\ inflight' = at'[m]
          /\ \A s \in 1 .. Steps : s < at'[m] => s \in effects
      BY <1>5 DEF RunInv, RunTypeOK, Order
    <2>2. QED
      BY <1>1, <1>2, <1>5, <2>1, SaveStep DEF Goto
  <1>6. QED
    BY <1>3, <1>4, <1>5

LEMMA AdvanceStep ==
  ASSUME RunInv, NEW m \in Managers, Advance(m)
  PROVE  RunInv'
  <1> DEFINE b == IF at[m] > mem[m].furthest
                    THEN [mem[m] EXCEPT !.furthest = at[m], !.churn[at[m]] = 0] ELSE mem[m]
             place == IF at[m] = Steps THEN "finish" ELSE "begin"
             next == IF at[m] = Steps THEN at[m] ELSE at[m] + 1
  <1>1. IsBudget(b)
    <2>1. IsBudget(mem[m])
      BY DEF RunInv, RunTypeOK
    <2>2. IsBudget([mem[m] EXCEPT !.furthest = at[m]])
      BY <2>1, ChargeKeepsBudget
    <2>3. IsBudget([[mem[m] EXCEPT !.furthest = at[m]] EXCEPT !.churn[at[m]] = 0])
      BY <2>2, ChargeKeepsBudget
    <2>4. QED
      BY <2>1, <2>3
  <1>2. /\ pc[m] = "advance" /\ Save(m, b) /\ pc' = [pc EXCEPT ![m] = place]
        /\ at' = [at EXCEPT ![m] = next]
        /\ UNCHANGED <<haltfile, ckpt, intents, effects, performed, inflight, guard, orphans,
                       standing>>
    BY DEF Advance, Goto, world
  <1> HIDE DEF b
  <1>3. Steps \in Nat /\ at[m] \in 1 .. Steps /\ at[m] \in effects
        /\ \A s \in 1 .. Steps : s < at[m] => s \in effects
    BY <1>2 DEF RunInv, RunTypeOK, Order, RunAssumption
  <1>4. next \in 1 .. Steps /\ \A s \in 1 .. Steps : s < next => s \in effects
    BY <1>3
  <1> HIDE DEF next
  <1>5. at' \in [Managers -> 1 .. Steps] /\ at'[m] = next /\ inflight' \in Nat
        /\ \A n \in Managers \ {m} : at'[n] = at[n]
    BY <1>2, <1>4 DEF RunInv, RunTypeOK
  <1>6. place \in {"begin", "check", "attempt", "worker", "finish"} /\ place # "worker"
    OBVIOUS
  <1> HIDE DEF place
  <1>7. QED
    BY <1>1, <1>2, <1>4, <1>5, <1>6, SaveStep

\* A manager that goes on and changes nothing but logs, checkpoints and its guard.
LEMMA LogStep ==
  ASSUME RunInv, NEW m \in Managers, pc[m] \notin Startup, NEW place \in Places \ Startup,
         pc' = [pc EXCEPT ![m] = place],
         UNCHANGED <<budget, mem, at, orphans, standing>>,
         haltfile' \in {haltfile, NoHalt},
         guard' \in [Managers -> Guards], \A n \in Managers \ {m} : guard'[n] = guard[n],
         ckpt' \in [1 .. Steps -> {"none", "saved", "corrupt"}],
         \A s \in 1 .. Steps : ckpt'[s] = "saved" => s \in effects',
         performed' \in [1 .. Steps -> Nat],
         \A s \in 1 .. Steps : performed'[s] <= 1 /\ (s \notin intents' => performed'[s] = 0),
         effects \subseteq effects', inflight' \in Nat,
         place = "intend" => at[m] \notin intents',
         place = "act" => at[m] \in intents' /\ performed'[at[m]] = 0,
         place \in {"checkpoint", "advance"} => at[m] \in effects',
         place \in Working => inflight' = at[m]
  PROVE  RunInv'
  <1>1. pc[m] # "down" /\ \A n \in Managers \ {m} : pc'[n] = pc[n]
    BY DEF RunInv, RunTypeOK
  <1>2. \A n \in Managers \ {m} : pc[n] = "down" /\ pc'[n] = "down"
    BY ONLY RunInv, m \in Managers, <1>1, OthersAreDown
  <1>3. pc'[m] = place
    BY DEF RunInv, RunTypeOK
  <1>4. RunTypeOK'
    <2>1. haltfile' \in [kind : {"none", "deadman", "killed"}, effect : Nat]
      BY DEF RunInv, RunTypeOK, NoHalt
    <2>2. pc' \in [Managers -> Places]
      BY DEF RunInv, RunTypeOK
    <2>3. IsBudget(budget') /\ DOMAIN mem' = Managers /\ \A n \in Managers : IsBudget(mem'[n])
      BY DEF RunInv, RunTypeOK, IsBudget
    <2>4. at' \in [Managers -> 1 .. Steps] /\ orphans' \in Nat /\ standing' \in BOOLEAN
      BY DEF RunInv, RunTypeOK
    <2>5. QED
      BY <2>1, <2>2, <2>3, <2>4 DEF RunTypeOK
  <1>5. Once'
    BY <1>2, <1>3 DEF Once
  <1>6. Order'
    BY <1>2, <1>3 DEF RunInv, Order
  <1>7. QED
    BY <1>4, <1>5, <1>6, RunningStep

\* What LogStep asks of a step that leaves logs, checkpoints and guard alone.
LEMMA LogsAreRight ==
  ASSUME RunInv
  PROVE  /\ guard \in [Managers -> Guards]
         /\ ckpt \in [1 .. Steps -> {"none", "saved", "corrupt"}]
         /\ \A s \in 1 .. Steps : ckpt[s] = "saved" => s \in effects
         /\ performed \in [1 .. Steps -> Nat]
         /\ \A s \in 1 .. Steps : performed[s] <= 1 /\ (s \notin intents => performed[s] = 0)
         /\ inflight \in Nat /\ at \in [Managers -> 1 .. Steps]
         /\ \A n \in Managers : pc[n] \in Working => inflight = at[n]
  BY DEF RunInv, RunTypeOK, Once, Order

LEMMA ReadCheckpointStep ==
  ASSUME RunInv, NEW m \in Managers, ReadCheckpoint(m)
  PROVE  RunInv'
  <1> DEFINE place == IF ckpt[at[m]] = "saved" THEN "advance" ELSE "attempt"
  <1>1. /\ pc[m] = "check" /\ pc' = [pc EXCEPT ![m] = place]
        /\ UNCHANGED <<budget, mem, at, orphans, standing, haltfile, guard, performed, intents,
                       effects, inflight>>
        /\ ckpt' = IF ckpt[at[m]] = "corrupt" THEN [ckpt EXCEPT ![at[m]] = "none"] ELSE ckpt
    BY DEF ReadCheckpoint, Goto, world
  <1>2. place \in {"advance", "attempt"} /\ (place = "advance" => at[m] \in effects)
    BY LogsAreRight
  <1> HIDE DEF place
  <1>3. ckpt' \in [1 .. Steps -> {"none", "saved", "corrupt"}]
        /\ \A s \in 1 .. Steps : ckpt'[s] = "saved" => s \in effects
    BY <1>1, LogsAreRight
  <1>4. QED
    BY <1>1, <1>2, <1>3, LogsAreRight, LogStep

LEMMA ReadLogsStep ==
  ASSUME RunInv, NEW m \in Managers, ReadLogs(m)
  PROVE  RunInv'
  <1>1. pc[m] = "worker" /\ UNCHANGED <<haltfile, run, standing, performed>>
    BY DEF ReadLogs, world
  <1>2. CASE ReleaseLock(m) /\ inflight' = 0
    <2>1. /\ Forget(m) /\ guard' = [guard EXCEPT ![m] = "none"] /\ UNCHANGED orphans
          /\ inflight' \in Nat /\ ~standing /\ ~Killed
      BY <1>1, <1>2, PastStartup DEF ReleaseLock
    <2>2. /\ IsBudget(budget') /\ orphans' \in Nat /\ standing' \in BOOLEAN /\ ~standing'
          /\ haltfile' \in [kind : {"none", "deadman", "killed"}, effect : Nat] /\ ~Killed'
      BY <1>1, <2>1 DEF run, RunInv, RunTypeOK
    <2>3. EvidenceNamesTheDoubt'
      BY <2>2 DEF EvidenceNamesTheDoubt
    <2>4. QED
      BY <1>1, <2>1, <2>2, <2>3, DownStep DEF run
  <1>3. CASE /\ ~Unresolved(at[m])
             /\ Goto(m, IF at[m] \in effects THEN "checkpoint" ELSE "intend")
             /\ UNCHANGED <<lock, local, inflight, guard, orphans>>
    <2> DEFINE place == IF at[m] \in effects THEN "checkpoint" ELSE "intend"
    <2>1. place \in {"checkpoint", "intend"} /\ (place = "checkpoint" => at[m] \in effects)
          /\ (place = "intend" => at[m] \notin intents) /\ inflight = at[m]
      BY <1>1, <1>3, LogsAreRight
    <2>2. pc' = [pc EXCEPT ![m] = place] /\ UNCHANGED <<run, mem, at, inflight, guard, orphans>>
      BY <1>1, <1>3 DEF Goto, local
    <2> HIDE DEF place
    <2>3. QED
      BY <1>1, <2>1, <2>2, LogsAreRight, LogStep DEF run
  <1>4. QED
    BY <1>2, <1>3 DEF ReadLogs

\* The intent, the effect and the completion, in this order.
LEMMA AppendIntentStep ==
  ASSUME RunInv, NEW m \in Managers, AppendIntent(m)
  PROVE  RunInv'
  <1>1. /\ pc[m] = "intend" /\ pc' = [pc EXCEPT ![m] = "act"] /\ intents' = intents \cup {at[m]}
        /\ UNCHANGED <<budget, mem, at, orphans, standing, haltfile, guard, ckpt, effects,
                       performed, inflight>>
    BY DEF AppendIntent, Goto, local, world
  <1>2. at[m] \notin intents /\ at[m] \in 1 .. Steps
    BY <1>1, LogsAreRight DEF RunInv, Once
  <1>3. performed[at[m]] = 0
    BY <1>2, LogsAreRight
  <1>4. QED
    BY <1>1, <1>2, <1>3, LogsAreRight, LogStep

LEMMA ActStep ==
  ASSUME RunInv, NEW m \in Managers, Act(m)
  PROVE  RunInv'
  <1>1. /\ pc[m] = "act" /\ pc' = [pc EXCEPT ![m] = "complete"]
        /\ performed' = [performed EXCEPT ![at[m]] = @ + 1]
        /\ UNCHANGED <<budget, mem, at, orphans, standing, haltfile, guard, ckpt, effects,
                       intents, inflight>>
    BY DEF Act, Goto, run, local
  <1>2. at[m] \in intents /\ performed[at[m]] = 0 /\ at[m] \in 1 .. Steps
    BY <1>1, LogsAreRight DEF RunInv, Once
  <1>3. /\ performed' \in [1 .. Steps -> Nat]
        /\ \A s \in 1 .. Steps : performed'[s] <= 1 /\ (s \notin intents => performed'[s] = 0)
    BY <1>1, <1>2, LogsAreRight
  <1>4. QED
    BY <1>1, <1>2, <1>3, LogsAreRight, LogStep

LEMMA AppendCompletionStep ==
  ASSUME RunInv, NEW m \in Managers, AppendCompletion(m)
  PROVE  RunInv'
  <1>1. /\ pc[m] = "complete" /\ pc' = [pc EXCEPT ![m] = "checkpoint"]
        /\ effects' = effects \cup {at[m]}
        /\ UNCHANGED <<budget, mem, at, orphans, standing, haltfile, guard, ckpt, performed,
                       intents, inflight>>
    BY DEF AppendCompletion, Goto, local, world
  <1>2. QED
    BY <1>1, LogsAreRight, LogStep

LEMMA SaveCheckpointStep ==
  ASSUME RunInv, NEW m \in Managers, SaveCheckpoint(m)
  PROVE  RunInv'
  <1>1. /\ pc[m] = "checkpoint" /\ pc' = [pc EXCEPT ![m] = "advance"] /\ inflight' = 0
        /\ ckpt' = [ckpt EXCEPT ![at[m]] = "saved"]
        /\ UNCHANGED <<budget, mem, at, orphans, standing, haltfile, guard, performed, intents,
                       effects>>
    BY DEF SaveCheckpoint, Goto, local, world
  <1>2. at[m] \in effects
    BY <1>1 DEF RunInv, Order
  <1>3. ckpt' \in [1 .. Steps -> {"none", "saved", "corrupt"}]
        /\ \A s \in 1 .. Steps : ckpt'[s] = "saved" => s \in effects
    BY <1>1, <1>2, LogsAreRight
  <1>4. QED
    BY <1>1, <1>2, <1>3, LogsAreRight, LogStep

LEMMA FinishStep ==
  ASSUME RunInv, NEW m \in Managers, Finish(m)
  PROVE  RunInv'
  <1>1. /\ pc[m] = "finish" /\ pc' = [pc EXCEPT ![m] = "leave"]
        /\ haltfile' \in {haltfile, NoHalt}
        /\ guard' = [guard EXCEPT ![m] = IF @ = "dead" THEN @ ELSE "none"]
        /\ UNCHANGED <<budget, mem, at, orphans, standing, ckpt, performed, intents, effects,
                       inflight>>
    BY DEF Finish, Goto, run, local, world
  <1>2. guard' \in [Managers -> Guards] /\ \A n \in Managers \ {m} : guard'[n] = guard[n]
    BY <1>1, LogsAreRight
  <1>3. QED
    BY <1>1, <1>2, LogsAreRight, LogStep

LEMMA WorkerThrowsStep ==
  ASSUME RunInv, NEW m \in Managers, WorkerThrows(m)
  PROVE  RunInv'
  <1>1. /\ pc[m] \in Working /\ inflight' = 0
        /\ UNCHANGED <<haltfile, ckpt, intents, effects, performed>>
        /\ \/ HaltNow(m, mem[m])
           \/ Goto(m, "attempt") /\ UNCHANGED <<lock, local, guard, orphans, standing, budget>>
    BY DEF WorkerThrows
  <1>2. CASE HaltNow(m, mem[m])
    <2>1. IsBudget(mem[m]) /\ inflight' \in Nat
      BY <1>1 DEF RunInv, RunTypeOK
    <2>2. QED
      BY <1>1, <1>2, <2>1, HaltStep
  <1>3. CASE Goto(m, "attempt") /\ UNCHANGED <<lock, local, guard, orphans, standing, budget>>
    <2>1. pc' = [pc EXCEPT ![m] = "attempt"]
          /\ UNCHANGED <<budget, mem, at, orphans, standing, guard>>
      BY <1>3 DEF Goto, local
    <2>2. QED
      BY <1>1, <2>1, LogsAreRight, LogStep
  <1>4. QED
    BY <1>1, <1>2, <1>3

LEMMA BreachStep ==
  ASSUME RunInv, NEW m \in Managers, Breach(m) \/ HaltOnDeadWatchdog(m)
  PROVE  RunInv'
  <1>1. /\ pc[m] \notin Startup /\ HaltNow(m, mem[m])
        /\ UNCHANGED <<haltfile, ckpt, intents, effects, performed>>
    BY DEF Breach, HaltOnDeadWatchdog
  <1>2. IsBudget(mem[m]) /\ inflight' \in Nat
    BY DEF Breach, HaltOnDeadWatchdog, RunInv, RunTypeOK
  <1>3. QED
    BY <1>1, <1>2, HaltStep

LEMMA LeaveStep ==
  ASSUME RunInv, NEW m \in Managers, Leave(m)
  PROVE  RunInv'
  <1>1. /\ pc[m] = "leave" /\ Forget(m) /\ guard' = [guard EXCEPT ![m] = "none"]
        /\ UNCHANGED <<haltfile, run, inflight, performed, standing, orphans>>
    BY DEF Leave, ReleaseLock, world
  <1>2. ~standing /\ ~Killed
    BY <1>1, PastStartup
  <1>3. /\ inflight' \in Nat /\ orphans' \in Nat /\ IsBudget(budget') /\ standing' \in BOOLEAN
        /\ haltfile' \in [kind : {"none", "deadman", "killed"}, effect : Nat]
        /\ ~standing' /\ ~Killed'
    BY <1>1, <1>2 DEF run, RunInv, RunTypeOK
  <1>4. EvidenceNamesTheDoubt'
    BY <1>3 DEF EvidenceNamesTheDoubt
  <1>5. QED
    BY <1>1, <1>3, <1>4, DownStep DEF run

LEMMA RefusedStep ==
  ASSUME RunInv, NEW m \in Managers, Refused(m)
  PROVE  RunInv'
  BY QuitStep DEF Refused, run, world

\* The guard of a manager that is past its startup, and the world around.
LEMMA GuardStep ==
  ASSUME RunInv, NEW m \in Managers, GuardArms(m) \/ GuardDies(m)
  PROVE  RunInv'
  <1>1. pc[m] \notin Startup
    BY DEF GuardArms, GuardDies, RunInv, Halts
  <1>2. ~standing /\ ~Killed
    BY <1>1, PastStartup
  <1>3. /\ UNCHANGED <<run, pc, mem, at, inflight, orphans, standing, performed>>
        /\ haltfile' \in {haltfile, [kind |-> "deadman", effect |-> 0]}
        /\ guard' \in {[guard EXCEPT ![m] = "watching"], [guard EXCEPT ![m] = "dead"]}
    BY DEF GuardArms, GuardDies, local, world
  <1>4. ~standing' /\ ~Killed'
    BY <1>2, <1>3
  <1>5. RunTypeOK'
    <2>1. haltfile' \in [kind : {"none", "deadman", "killed"}, effect : Nat]
      BY <1>3 DEF RunInv, RunTypeOK
    <2>2. guard' \in [Managers -> Guards]
      BY <1>3 DEF RunInv, RunTypeOK
    <2>3. IsBudget(budget') /\ DOMAIN mem' = Managers
          /\ \A n \in Managers : IsBudget(mem'[n])
      BY <1>3 DEF run, RunInv, RunTypeOK, IsBudget
    <2>4. QED
      BY <1>3, <2>1, <2>2, <2>3 DEF run, RunInv, RunTypeOK
  <1>6. Alone' /\ Once' /\ Order'
    BY <1>3 DEF run, RunInv, Alone, Once, Order
  <1>7. Halts' /\ EvidenceNamesTheDoubt'
    BY <1>1, <1>3, <1>4 DEF RunInv, RunTypeOK, Halts, EvidenceNamesTheDoubt
  <1>8. QED
    BY <1>5, <1>6, <1>7 DEF RunInv

LEMMA LockFileStep ==
  ASSUME RunInv,
         UNCHANGED <<haltfile, run, pc, mem, at, inflight, guard, orphans, standing, performed>>
  PROVE  RunInv'
  <1>1. RunTypeOK'
    BY DEF run, RunInv, RunTypeOK, IsBudget
  <1>2. Alone' /\ Once' /\ Order'
    BY DEF run, RunInv, Alone, Once, Order
  <1>3. Halts' /\ EvidenceNamesTheDoubt'
    BY DEF run, RunInv, Halts, HaltStands, EvidenceNamesTheDoubt
  <1>4. QED
    BY <1>1, <1>2, <1>3 DEF RunInv

\* An orphan's clean-up removes no verdict, as there is none while orphans live.
LEMMA OrphanStep ==
  ASSUME RunInv, OrphanCleansUp
  PROVE  RunInv'
  <1>1. /\ orphans > 0 /\ orphans' = orphans - 1 /\ haltfile' = NoHalt
        /\ UNCHANGED <<run, pc, mem, at, inflight, guard, standing, performed>>
    BY DEF OrphanCleansUp, local, world
  <1>2. orphans' \in Nat /\ ~Killed /\ ~Killed'
    BY <1>1 DEF NoHalt, RunInv, RunTypeOK, Halts
  <1>3. RunTypeOK'
    BY <1>1, <1>2 DEF run, NoHalt, RunInv, RunTypeOK, IsBudget
  <1>4. Alone' /\ Once' /\ Order'
    BY <1>1 DEF run, RunInv, Alone, Once, Order
  <1>5. Halts' /\ EvidenceNamesTheDoubt'
    BY <1>1, <1>2 DEF run, RunInv, Halts, HaltStands, EvidenceNamesTheDoubt
  <1>6. QED
    BY <1>3, <1>4, <1>5 DEF RunInv

\* A human who reconciles a stopped run, and a checkpoint that is lost.
LEMMA RunFilesStep ==
  ASSUME RunInv, NEW s \in 1 .. Steps, Reconcile(s) \/ CheckpointIsLost(s)
  PROVE  RunInv'
  <1>1. /\ UNCHANGED <<haltfile, budget, pc, mem, at, inflight, guard, orphans, standing,
                       performed>>
        /\ effects \subseteq effects' /\ intents' \subseteq intents
        /\ intents' # intents => intents' = intents \ {s} /\ performed[s] = 0
                                 /\ \A m \in Managers : pc[m] = "down"
        /\ ckpt' \in {ckpt, [ckpt EXCEPT ![s] = "corrupt"]}
    BY DEF Reconcile, CheckpointIsLost, Stopped, local, world
  <1>2. RunTypeOK'
    BY <1>1 DEF RunInv, RunTypeOK, IsBudget
  <1>3. Once'
    BY <1>1 DEF RunInv, Once
  <1>4. Alone' /\ Order'
    <2>1. ASSUME NEW t \in 1 .. Steps, ckpt'[t] = "saved" PROVE ckpt[t] = "saved"
      BY <1>1, <2>1 DEF RunInv, RunTypeOK
    <2>2. \A t \in 1 .. Steps : ckpt'[t] = "saved" => t \in effects'
      BY <1>1, <2>1 DEF RunInv, Order
    <2>3. QED
      BY <1>1, <2>2 DEF RunInv, Alone, Order
  <1>5. Halts' /\ EvidenceNamesTheDoubt'
    BY <1>1 DEF RunInv, Halts, HaltStands, EvidenceNamesTheDoubt
  <1>6. QED
    BY <1>2, <1>3, <1>4, <1>5 DEF RunInv

-----------------------------------------------------------------------------
(* The theorems.                                                            *)

LEMMA RunInvInit == Init => RunInv
  <1> SUFFICES ASSUME Init PROVE RunInv
    OBVIOUS
  <1>1. RunTypeOK
    <2>1. DOMAIN mem = Managers /\ \A m \in Managers : IsBudget(mem[m])
      BY FreshIsBudget DEF Init, IsBudget
    <2>2. IsBudget(budget)
      BY FreshIsBudget DEF Init
    <2>3. 1 \in 1 .. Steps
      BY DEF RunAssumption
    <2>4. QED
      BY <2>1, <2>2, <2>3 DEF Init, RunTypeOK, NoHalt
  <1>2. Alone /\ Once /\ Order /\ Halts /\ EvidenceNamesTheDoubt
    BY <1>1 DEF Init, RunTypeOK, NoHalt, Alone, Once, Order, Halts, HaltStands,
                EvidenceNamesTheDoubt
  <1>3. QED
    BY <1>1, <1>2 DEF RunInv

LEMMA RunInvStep == ~Concurrent /\ RunInv /\ [Next]_vars => RunInv'
  <1> SUFFICES ASSUME ~Concurrent, RunInv, [Next]_vars PROVE RunInv'
    OBVIOUS
  <1>1. CASE UNCHANGED vars
    BY <1>1, LockFileStep DEF vars, run, local, world
  <1>2. ASSUME NEW m \in Managers, Start(m) \/ Lock(m) PROVE RunInv'
    BY <1>2, LockStep, RefusedStep DEF Lock
  <1>3. ASSUME NEW m \in Managers, Work(m) PROVE RunInv'
    BY <1>3, HonourHaltStep, CreateSupervisorStep, BeginStepStep, ReadCheckpointStep,
       RecordAttemptStep, ReadLogsStep, AppendIntentStep, ActStep, AppendCompletionStep,
       SaveCheckpointStep, AdvanceStep, FinishStep, LeaveStep, BreachStep DEF Work
  <1>4. ASSUME NEW m \in Managers, Fault(m) \/ GuardArms(m) PROVE RunInv'
    BY <1>4, CrashStep, GuardKillsStep, GuardStep, WorkerThrowsStep, BreachStep DEF Fault
  <1>5. ASSUME NEW m \in Managers, Heartbeat(m) PROVE RunInv'
    BY <1>5, LockFileStep DEF Heartbeat, local, world
  <1>6. CASE LeaseExpires
    BY <1>6, LockFileStep DEF LeaseExpires, local, world
  <1>7. QED
    BY <1>1, <1>2, <1>3, <1>4, <1>5, <1>6, OrphanStep, RunFilesStep DEF Next

LEMMA RunSpec == ~Concurrent => (Spec => []RunInv)
  <1> SUFFICES ASSUME ~Concurrent PROVE Spec => []RunInv
    OBVIOUS
  <1>1. RunInv /\ [Next]_vars => RunInv'
    BY RunInvStep
  <1>2. QED
    BY <1>1, RunInvInit, PTL DEF Spec

\* No crash, retry, lost checkpoint or blocked loop makes a worker repeat its effect.
THEOREM EffectsHappenOnce ==
  ASSUME ~Concurrent
  PROVE  Spec => []EffectHappensOnce
  <1>1. RunInv => EffectHappensOnce
    BY DEF RunInv, Once, EffectHappensOnce
  <1>2. QED
    BY <1>1, RunSpec, PTL

\* A halt of the budget, a tripwire or the watchdog stops every later manager in its
\* startup until a human has acknowledged it.
THEOREM HaltsStand ==
  ASSUME ~Concurrent
  PROVE  Spec => []HaltStands
  <1>1. RunInv => HaltStands
    BY DEF RunInv, Halts, HaltStands
  <1>2. QED
    BY <1>1, RunSpec, PTL

\* The watchdog's evidence names the first effect that is in doubt, or one before it.
THEOREM EvidenceIsRight ==
  ASSUME ~Concurrent
  PROVE  Spec => []EvidenceNamesTheDoubt
  <1>1. RunInv => EvidenceNamesTheDoubt
    BY DEF RunInv
  <1>2. QED
    BY <1>1, RunSpec, PTL

\* Managers that are not started beside one another do not work beside one another.
THEOREM ManagersAreAlone ==
  ASSUME ~Concurrent
  PROVE  Spec => []Alone
  <1>1. RunInv => Alone
    BY DEF RunInv
  <1>2. QED
    BY <1>1, RunSpec, PTL
===============================================================================
