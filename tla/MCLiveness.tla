------------------------------ MODULE MCLiveness ------------------------------
(* What the store must eventually do, on small instances of its journal and    *)
(* of its window: a behaviour is one of one of them, and the other stays as    *)
(* it began.  The fairness is that of the two modules, each in its half.       *)
EXTENDS StateJournal

VARIABLES half, window, registry, now, tx

W == INSTANCE Gate4Window WITH
  Runs <- {"r1", "r2"}, Trees <- {"t1"}, NoTree <- "none", N <- 2, Lease <- 1, WallCap <- 1,
  Results <- {"completed_pass", "completed_hard_fail", "completed_soft_wobble",
              "abandoned", "superseded"},
  Outcomes <- {"pass", "flagged"}, DirectCalls <- {"r1", "r2"}, ClockMayStepBack <- FALSE, Horizon <- 2
windowed == <<window, registry, now, tx>>
all == <<half, vars, windowed>>

ASSUME W!WindowAssumption

MCInit == Init /\ W!Init /\ half \in {"store", "window"}
MCNext ==
  \/ half = "store" /\ Next /\ UNCHANGED <<half, windowed>>
  \/ half = "window" /\ W!Next /\ UNCHANGED <<half, vars>>

InStore(A) == half = "store" /\ A /\ UNCHANGED <<half, windowed>>
InWindow(A) == half = "window" /\ A /\ UNCHANGED <<half, vars>>

MCFairness ==
  /\ \A p \in Procs :
       /\ WF_all(InStore(Acquire(p) \/ Recover(p) \/ Commit(p) \/ Release(p)))
       /\ SF_all(InStore(Steal(p)))
       /\ SF_all(InStore(CreateLock(p)))
  /\ WF_all(InWindow(W!Tick))
  /\ WF_all(InWindow(W!Sweep))

MCSpec == MCInit /\ [][MCNext]_all /\ MCFairness

\* TimedWindowEnds of Gate4Window: no window is observed for ever.
TimedWindowEnds == W!TimedWindowEnds
===============================================================================
