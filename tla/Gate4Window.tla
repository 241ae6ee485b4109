----------------------------- MODULE Gate4Window -----------------------------
(***************************************************************************)
(* The Gate-4 observation window and the run registry of                   *)
(* scripts/state-store.js, with the two places where scripts/promote.js    *)
(* writes window.json itself (admitWindow and finalizeWindow).             *)
(*                                                                         *)
(* An action is one public operation of the store.  Every operation runs   *)
(* under the store lock and begins with _sweepExpiredLocked, so every      *)
(* action is the sweep followed by the operation.  An operation that is    *)
(* refused, or that only reads, leaves its sweep behind and nothing else:  *)
(* that is action Sweep.  That one operation is atomic although it         *)
(* rewrites two files is the subject of StateJournal, not of this module.  *)
(*                                                                         *)
(* A run has at most one slot of a window (_observe hands the existing     *)
(* slot back), so the slot list is a function of the run.                  *)
(***************************************************************************)
EXTENDS Integers, FiniteSets

CONSTANTS
  Runs,         \* run ids
  Trees,        \* tree ids a run or a window can be pinned to
  NoTree,       \* the tree of what has none
  N,            \* window.n: how many runs a window observes
  Lease,        \* leaseMs, in ticks of the lease clock
  WallCap,      \* max_window_wall_time_ms, in the same ticks
  Results,      \* the dispositions callers ask for
  Outcomes,     \* the outcomes callers pass to window.close
  DirectCalls,  \* runs whose slots are also claimed and disposed of by calling
                \* window.observeSlot and dispose directly, as the tests do
  ClockMayStepBack,  \* whether the lease clock can be corrected backwards
  Horizon       \* bound on the lease clock

CompletedResults ==
  {"completed_pass", "completed_hard_fail", "completed_soft_wobble"}
Dispositions == CompletedResults \cup {"abandoned", "superseded"}
CloseOutcomes == {"pass", "flagged", "rolled_back", "halt_human"}

ASSUME WindowAssumption ==
  /\ IsFiniteSet(Runs)
  /\ NoTree \notin Trees
  /\ N \in Nat \ {0}
  /\ Lease \in Nat \ {0}
  /\ WallCap \in Nat \ {0}
  /\ Results \subseteq Dispositions
  /\ Outcomes \subseteq CloseOutcomes
  /\ DirectCalls \subseteq Runs
  /\ ClockMayStepBack \in BOOLEAN
  /\ Horizon \in Nat

VARIABLES
  window,    \* window.json
  registry,  \* run-registry.jsonl, folded by _registryState
  now,       \* the lease clock
  tx         \* what the last promotion transaction still owes the window

vars == <<window, registry, now, tx>>

Closed == {"CLOSED_PASS", "CLOSED_ROLLED_BACK", "CLOSED_FLAGGED"}
Admissible == Closed \cup {"NO_WINDOW"}
Timed == {"ADMITTED", "OBSERVING"}
WindowStates == Admissible \cup Timed \cup {"ROLLING_BACK", "HALT_HUMAN"}

SlotStatus == {"none", "active"} \cup Dispositions

Window ==
  [state: WindowStates, flag: BOOLEAN, tree: Trees \cup {NoTree},
   created: Nat, slot: [Runs -> SlotStatus], active: Nat]

Registration == [tree: Trees \cup {NoTree}, lease: Nat]

\* A lease that was granted expires at now + Lease > 0, so 0 marks no lease.
Unregistered == [tree |-> NoTree, lease |-> 0]

Registered == {r \in Runs : registry[r].lease # 0}

\* The runs that claimed a slot of window w.
Observed(w) == {r \in Runs : w.slot[r] # "none"}
ActiveRuns(w) == {r \in Runs : w.slot[r] = "active"}

Troubling == {"abandoned", "completed_soft_wobble"}

-----------------------------------------------------------------------------
(* The helpers of the store, on the value they change.                      *)

\* Mutant of Terminalize: an abandoned or wobbling run does not set the flag.
TerminalizeUnflagged(w, r, disposition) ==
  IF w.slot[r] # "active" THEN w
  ELSE [w EXCEPT !.slot[r] = disposition,
                 !.active = IF @ > 0 THEN @ - 1 ELSE 0,
                 !.state = IF disposition = "completed_hard_fail"
                           THEN "ROLLING_BACK" ELSE @]

\* _terminalize: only an active slot is given a disposition, once.
Terminalize(w, r, disposition) ==
  IF w.slot[r] # "active" THEN w
  ELSE [w EXCEPT !.slot[r] = disposition,
                 !.active = IF @ > 0 THEN @ - 1 ELSE 0,
                 !.flag = @ \/ disposition \in Troubling,
                 !.state = IF disposition = "completed_hard_fail"
                           THEN "ROLLING_BACK" ELSE @]

\* Mutant of Observe: the n cap compares with > instead of >=.
ObserveOneTooMany(w, r, t) ==
  IF /\ w.state = "OBSERVING"
     /\ w.tree = t
     /\ w.slot[r] = "none"
     /\ Cardinality(Observed(w)) <= N
  THEN [w EXCEPT !.slot[r] = "active", !.active = @ + 1]
  ELSE w

\* _observe: the slot a run claims, or the window as it was.
Observe(w, r, t) ==
  IF /\ w.state = "OBSERVING"
     /\ w.tree = t
     /\ w.slot[r] = "none"
     /\ Cardinality(Observed(w)) < N
  THEN [w EXCEPT !.slot[r] = "active", !.active = @ + 1]
  ELSE w

\* The first half of the sweep: every expired run's active slot is abandoned.
Abandon(w, expired) ==
  LET gone == expired \cap ActiveRuns(w)
      left == w.active - Cardinality(gone)
  IN [w EXCEPT !.slot = [r \in Runs |->
                           IF r \in gone THEN "abandoned" ELSE w.slot[r]],
               !.active = IF left > 0 THEN left ELSE 0,
               !.flag = @ \/ gone # {}]

\* Mutant of Supersede: it overwrites the slots that are terminal already.
SupersedeAll(w) ==
  [w EXCEPT !.slot = [r \in Runs |->
                        IF w.slot[r] # "none" THEN "superseded" ELSE "none"],
            !.active = 0]

\* What closing a window by rollback or by the wall-clock cap does to the runs
\* still active in it.
Supersede(w) ==
  [w EXCEPT !.slot = [r \in Runs |->
                        IF w.slot[r] = "active" THEN "superseded" ELSE w.slot[r]],
            !.active = 0]

-----------------------------------------------------------------------------
(* _sweepExpiredLocked.                                                     *)

Expired == {r \in Registered : registry[r].lease <= now}

WallExpired == window.state \in Timed /\ now - window.created >= WallCap

SweptRegistry ==
  [r \in Runs |-> IF r \in Expired THEN Unregistered ELSE registry[r]]

\* Mutant of SweptWindow: the expired runs leave the registry only.
SweptWindowKeepsSlots ==
  IF WallExpired
  THEN [Supersede(window) EXCEPT !.flag = TRUE, !.state = "CLOSED_FLAGGED"]
  ELSE window

\* Mutant of SweptWindow: the wall-clock cap spares a window nobody joined.
SweptWindowSparesEmpty ==
  IF WallExpired /\ Observed(window) # {}
  THEN [Supersede(Abandon(window, Expired)) EXCEPT !.flag = TRUE,
                                                   !.state = "CLOSED_FLAGGED"]
  ELSE Abandon(window, Expired)

SweptWindow ==
  IF WallExpired
  THEN [Supersede(Abandon(window, Expired)) EXCEPT !.flag = TRUE,
                                                   !.state = "CLOSED_FLAGGED"]
  ELSE Abandon(window, Expired)

\* sweepExpired, every read, and every call the operation itself refuses.
Sweep ==
  /\ window' = SweptWindow
  /\ registry' = SweptRegistry
  /\ UNCHANGED <<now, tx>>

-----------------------------------------------------------------------------
(* The registry operations.                                                 *)

\* A run already registered is handed its registration back: that is Sweep.
RegisterRun(r, t) ==
  /\ SweptRegistry[r] = Unregistered
  /\ now + Lease <= Horizon
  /\ registry' = [SweptRegistry EXCEPT ![r] = [tree |-> t, lease |-> now + Lease]]
  /\ window' = Observe(SweptWindow, r, t)
  /\ UNCHANGED <<now, tx>>

HeartbeatRun(r) ==
  /\ SweptRegistry[r] # Unregistered
  /\ now + Lease <= Horizon
  /\ registry' = [SweptRegistry EXCEPT
                    ![r].lease = IF @ >= now + Lease THEN @ ELSE now + Lease]
  /\ window' = SweptWindow
  /\ UNCHANGED <<now, tx>>

DeregisterRun(r, result) ==
  /\ SweptRegistry[r] # Unregistered
  /\ registry' = [SweptRegistry EXCEPT ![r] = Unregistered]
  /\ window' = Terminalize(SweptWindow, r, result)
  /\ UNCHANGED <<now, tx>>

-----------------------------------------------------------------------------
(* The window operations.                                                   *)

\* promote's admitWindow, and admitPending, which builds the same record.
\* refuseEarly keeps a new promotion out while one is unfinished.
AdmitPending(t) ==
  /\ tx = "none"
  /\ SweptWindow.state \in Admissible
  /\ now + WallCap <= Horizon
  /\ window' = [state |-> "ADMITTED", flag |-> FALSE, tree |-> t,
                created |-> now, slot |-> [r \in Runs |-> "none"], active |-> 0]
  /\ registry' = SweptRegistry
  /\ tx' = "admitted"
  /\ UNCHANGED now

\* promote's finalizeWindow.  It does not look at the state it replaces.  A
\* promotion that died before WINDOW_FINAL was journaled is recovered by doing
\* it again, with any operation of the store in between.
PromoteFinalizeWindow ==
  /\ tx \in {"admitted", "finalized"}
  /\ window' = [SweptWindow EXCEPT !.state = "OBSERVING"]
  /\ registry' = SweptRegistry
  /\ tx' = "finalized"
  /\ UNCHANGED now

\* promote's admitWindow for a rollback.
BeginRollback ==
  /\ tx \in {"none", "rolling"}
  /\ SweptWindow.state \in {"OBSERVING", "ROLLING_BACK", "ADMITTED"}
  /\ window' = [SweptWindow EXCEPT !.state = "ROLLING_BACK"]
  /\ registry' = SweptRegistry
  /\ tx' = "rolling"
  /\ UNCHANGED now

\* promote's finalizeWindow for a rollback, done again by a recovery too.
FinishRollback ==
  /\ tx \in {"rolling", "rolledback"}
  /\ window' = [Supersede(SweptWindow) EXCEPT !.state = "CLOSED_ROLLED_BACK"]
  /\ registry' = SweptRegistry
  /\ tx' = "rolledback"
  /\ UNCHANGED now

\* WINDOW_FINAL is in the journal: no recovery finalizes this window again.
SettleTransaction ==
  /\ tx \in {"finalized", "rolledback"}
  /\ tx' = "none"
  /\ UNCHANGED <<window, registry, now>>

HasHardFailure(w) == \E r \in Runs : w.slot[r] = "completed_hard_fail"

\* Mutant of ClosedAs: closing as a pass overlooks the flag.
ClosedAsUnflagged(w, outcome) ==
  CASE outcome = "rolled_back" -> "CLOSED_ROLLED_BACK"
    [] outcome = "halt_human" -> "HALT_HUMAN"
    [] outcome = "flagged" -> "CLOSED_FLAGGED"
    [] outcome = "pass" /\ HasHardFailure(w) -> "ROLLING_BACK"
    [] OTHER -> "CLOSED_PASS"

\* The state closeWindow leaves behind.
ClosedAs(w, outcome) ==
  CASE outcome = "rolled_back" -> "CLOSED_ROLLED_BACK"
    [] outcome = "halt_human" -> "HALT_HUMAN"
    [] outcome = "flagged" \/ (outcome = "pass" /\ w.flag) -> "CLOSED_FLAGGED"
    [] outcome = "pass" /\ ~w.flag /\ HasHardFailure(w) -> "ROLLING_BACK"
    [] OTHER -> "CLOSED_PASS"

CloseWindow(outcome) ==
  /\ SweptWindow.state # "NO_WINDOW"
  /\ ActiveRuns(SweptWindow) = {}
  /\ \/ HasHardFailure(SweptWindow)
     \/ Cardinality(Observed(SweptWindow)) >= N
     \/ outcome = "flagged"
  /\ window' = [SweptWindow EXCEPT !.state = ClosedAs(SweptWindow, outcome)]
  /\ registry' = SweptRegistry
  /\ UNCHANGED <<now, tx>>

\* window.finalize of the store, which only an ADMITTED window accepts.
FinalizeWindow ==
  /\ DirectCalls # {}
  /\ SweptWindow.state = "ADMITTED"
  /\ window' = [SweptWindow EXCEPT !.state = "OBSERVING"]
  /\ registry' = SweptRegistry
  /\ UNCHANGED <<now, tx>>

ObserveSlot(r, t) ==
  /\ window' = Observe(SweptWindow, r, t)
  /\ registry' = SweptRegistry
  /\ UNCHANGED <<now, tx>>

DisposeSlot(r, result) ==
  /\ window' = Terminalize(SweptWindow, r, result)
  /\ registry' = SweptRegistry
  /\ UNCHANGED <<now, tx>>

-----------------------------------------------------------------------------
(* The lease clock: it advances, and a correction may set it back.          *)

Tick ==
  /\ now < Horizon
  /\ now' = now + 1
  /\ UNCHANGED <<window, registry, tx>>

StepBack ==
  /\ ClockMayStepBack
  /\ now > 0
  /\ now' = now - 1
  /\ UNCHANGED <<window, registry, tx>>

-----------------------------------------------------------------------------

Init ==
  /\ window = [state |-> "NO_WINDOW", flag |-> FALSE, tree |-> NoTree,
               created |-> 0, slot |-> [r \in Runs |-> "none"], active |-> 0]
  /\ registry = [r \in Runs |-> Unregistered]
  /\ now = 0
  /\ tx = "none"

RegistryStep ==
  \E r \in Runs :
    \/ \E t \in Trees : RegisterRun(r, t)
    \/ HeartbeatRun(r)
    \/ \E result \in Results : DeregisterRun(r, result)

WindowStep ==
  \/ \E t \in Trees : AdmitPending(t)
  \/ PromoteFinalizeWindow
  \/ BeginRollback
  \/ FinishRollback
  \/ SettleTransaction
  \/ \E outcome \in Outcomes : CloseWindow(outcome)

DirectStep ==
  \/ FinalizeWindow
  \/ \E r \in DirectCalls, t \in Trees : ObserveSlot(r, t)
  \/ \E r \in DirectCalls, result \in Results : DisposeSlot(r, result)

Next == Sweep \/ RegistryStep \/ WindowStep \/ DirectStep \/ Tick \/ StepBack

Spec == Init /\ [][Next]_vars

\* Time passes, and some process keeps calling the store (scripts/watch.js and
\* every run do), so what has expired is eventually swept.  No person is
\* obliged to close a window and no run is obliged to finish.
FairSpec == Spec /\ WF_vars(Tick) /\ WF_vars(Sweep)

-----------------------------------------------------------------------------
(* Properties.                                                              *)

\* Every variable holds a value of its type.
TypeOK ==
  /\ window \in Window
  /\ registry \in [Runs -> Registration]
  /\ now \in Nat
  /\ tx \in {"none", "admitted", "finalized", "rolling", "rolledback"}

\* The counters of the window record agree with its slots: active counts the
\* active slots, no more than n runs are ever observed, and a run is active
\* only in a window that is observing or rolling back.  closeWindow, the sweep
\* and the rollback each keep one part of it.
SlotAccounting ==
  /\ window.active = Cardinality(ActiveRuns(window))
  /\ Cardinality(Observed(window)) <= N
  /\ ActiveRuns(window) # {} => window.state \in {"OBSERVING", "ROLLING_BACK"}

\* window.json and run-registry.jsonl agree: a run that occupies a slot holds
\* a lease on the very tree the window observes, so that its crash is noticed
\* by the lease sweep and the window cannot wait for it forever.  A slot that was
\* claimed without registering its run is the exception the store cannot see.
ActiveSlotIsLeased ==
  \A r \in ActiveRuns(window) \ DirectCalls :
    registry[r].lease # 0 /\ registry[r].tree = window.tree

\* A window that saw an abandoned run or a soft wobble carries the flag bit for
\* the rest of its life: it can only close flagged or rolled back.
FlagRemembersTrouble ==
  (\E r \in Runs : window.slot[r] \in Troubling) => window.flag

\* A window that was observing or rolling back closes as a pass only when all
\* n of its runs completed and passed, and nothing flagged it.
PassIsEarned ==
  [][ /\ window.state \in {"OBSERVING", "ROLLING_BACK"}
      /\ window'.state = "CLOSED_PASS"
      => /\ ~window'.flag
         /\ Cardinality(Observed(window')) = N
         /\ \A r \in Observed(window') : window'.slot[r] = "completed_pass"
    ]_vars

\* A slot is claimed once and disposed of once: until the next window is
\* admitted no step changes or frees a slot that has its disposition, whatever
\* sweeps, deregistrations, rollbacks and closes race for it.
DispositionIsFinal ==
  [][ \A r \in Runs :
        window.slot[r] \in Dispositions =>
          window'.slot[r] = window.slot[r] \/ window'.state = "ADMITTED"
    ]_vars

\* No step shortens the lease of a run that stays registered, even when the
\* clock was set back between two heartbeats (the fold takes the maximum).
LeaseNeverShortens ==
  [][ \A r \in Runs :
        registry[r].lease # 0 /\ registry'[r].lease # 0
          => registry'[r].lease >= registry[r].lease
    ]_vars

\* The wall-clock cap ends every window that is waiting for runs, however the
\* runs behave and although nobody closes it.
TimedWindowEnds == (window.state \in Timed) ~> (window.state \notin Timed)
=============================================================================
