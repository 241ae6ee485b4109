--------------------------- MODULE Gate4WindowProofs ---------------------------
(***************************************************************************)
(* Proofs about Gate4Window, for every set of runs and trees, every window *)
(* size, lease and wall-clock cap.  Every operation is the sweep followed  *)
(* by one helper, so the proofs go by lemmas about the helpers; the step   *)
(* lemmas then have one case per action.                                   *)
(***************************************************************************)
EXTENDS Gate4Window, FiniteSetTheorems, TLAPS

USE WindowAssumption DEF WindowAssumption

-----------------------------------------------------------------------------
(* Type correctness.                                                        *)

\* Disposing of a slot yields a window record.
LEMMA TerminalizeType ==
  ASSUME NEW w \in Window, NEW r \in Runs, NEW d \in Dispositions
  PROVE  Terminalize(w, r, d) \in Window
  <1> DEFINE slot == [w.slot EXCEPT ![r] = d]
             active == IF w.active > 0 THEN w.active - 1 ELSE 0
             flag == w.flag \/ d \in Troubling
             state == IF d = "completed_hard_fail" THEN "ROLLING_BACK" ELSE w.state
  <1>1. slot \in [Runs -> SlotStatus]
    BY DEF Window, SlotStatus
  <1>2. active \in Nat
    BY DEF Window
  <1>3. flag \in BOOLEAN
    OBVIOUS
  <1>4. state \in WindowStates
    BY DEF Window, WindowStates
  <1> HIDE DEF slot, active, flag, state
  <1>5. [w EXCEPT !.slot = slot, !.active = active, !.flag = flag,
                  !.state = state] \in Window
    BY <1>1, <1>2, <1>3, <1>4 DEF Window
  <1>6. QED
    BY <1>5 DEF Terminalize, slot, active, flag, state

\* Claiming a slot yields a window record.
LEMMA ObserveType ==
  ASSUME NEW w \in Window, NEW r \in Runs, NEW t \in Trees
  PROVE  Observe(w, r, t) \in Window
  <1>1. [w.slot EXCEPT ![r] = "active"] \in [Runs -> SlotStatus]
    BY DEF Window, SlotStatus
  <1>2. w.active + 1 \in Nat
    BY DEF Window
  <1>3. [w EXCEPT !.slot = [w.slot EXCEPT ![r] = "active"],
                  !.active = w.active + 1] \in Window
    BY <1>1, <1>2 DEF Window
  <1>4. QED
    BY <1>3 DEF Observe

\* Abandoning expired runs yields a window record: the count of the runs that
\* are gone is a natural number because the set of runs is finite.
LEMMA AbandonType ==
  ASSUME NEW w \in Window, NEW E \in SUBSET Runs
  PROVE  Abandon(w, E) \in Window
  <1> DEFINE gone == E \cap ActiveRuns(w)
  <1>1. Cardinality(gone) \in Nat
    <2>1. gone \in SUBSET Runs
      BY DEF ActiveRuns
    <2>2. QED
      BY <2>1, FS_Subset, FS_CardinalityType
  <1>2. "abandoned" \in SlotStatus
    BY DEF SlotStatus, Dispositions
  <1> HIDE DEF gone
  <1>3. [r \in Runs |-> IF r \in gone THEN "abandoned" ELSE w.slot[r]]
          \in [Runs -> SlotStatus]
    BY <1>2 DEF Window
  <1>4. \A a \in Nat, f \in BOOLEAN :
          [w EXCEPT !.slot = [r \in Runs |->
                                IF r \in gone THEN "abandoned" ELSE w.slot[r]],
                    !.active = a, !.flag = f] \in Window
    BY <1>3 DEF Window
  <1>5. /\ (IF w.active - Cardinality(gone) > 0
            THEN w.active - Cardinality(gone) ELSE 0) \in Nat
        /\ (w.flag \/ gone # {}) \in BOOLEAN
    BY <1>1 DEF Window
  <1>6. QED
    BY <1>4, <1>5 DEF Abandon, gone

\* Superseding the active runs yields a window record.
LEMMA SupersedeType ==
  ASSUME NEW w \in Window
  PROVE  Supersede(w) \in Window
  BY DEF Supersede, Window, SlotStatus, Dispositions

\* The sweep preserves the type of both files.
LEMMA SweepType ==
  ASSUME TypeOK
  PROVE  SweptWindow \in Window /\ SweptRegistry \in [Runs -> Registration]
  <1>1. Expired \in SUBSET Runs
    BY DEF Expired, Registered
  <1>2. Abandon(window, Expired) \in Window
    BY <1>1, AbandonType DEF TypeOK
  <1>3. Supersede(Abandon(window, Expired)) \in Window
    BY <1>2, SupersedeType
  <1>4. SweptWindow \in Window
    BY <1>2, <1>3 DEF SweptWindow, Window, WindowStates, Admissible, Closed
  <1>5. Unregistered \in Registration
    BY DEF Unregistered, Registration
  <1>6. SweptRegistry \in [Runs -> Registration]
    BY <1>5 DEF SweptRegistry, TypeOK
  <1>7. QED
    BY <1>4, <1>6

\* The state a close leaves behind is a window state.
LEMMA ClosedAsType ==
  ASSUME NEW w, NEW outcome
  PROVE  ClosedAs(w, outcome) \in WindowStates
  BY DEF ClosedAs, WindowStates, Admissible, Closed

\* Every step preserves the types.
LEMMA TypeStep == TypeOK /\ [Next]_vars => TypeOK'
  <1> SUFFICES ASSUME TypeOK, [Next]_vars
               PROVE  TypeOK'
    OBVIOUS
  <1>1. SweptWindow \in Window /\ SweptRegistry \in [Runs -> Registration]
    BY SweepType
  <1> USE DEF TypeOK
  <1>2. CASE Sweep
    BY <1>1, <1>2 DEF Sweep
  <1>3. ASSUME NEW r \in Runs, NEW t \in Trees, RegisterRun(r, t)
        PROVE  TypeOK'
    <2>1. window' \in Window
      BY <1>1, <1>3, ObserveType DEF RegisterRun
    <2>2. [tree |-> t, lease |-> now + Lease] \in Registration
      BY DEF Registration
    <2>3. QED
      BY <1>1, <1>3, <2>1, <2>2 DEF RegisterRun
  <1>4. ASSUME NEW r \in Runs, HeartbeatRun(r)
        PROVE  TypeOK'
    BY <1>1, <1>4 DEF HeartbeatRun, Registration
  <1>5. ASSUME NEW r \in Runs, NEW result \in Results, DeregisterRun(r, result)
        PROVE  TypeOK'
    <2>1. window' \in Window
      BY <1>1, <1>5, TerminalizeType DEF DeregisterRun
    <2>2. QED
      BY <1>1, <1>5, <2>1 DEF DeregisterRun, Unregistered, Registration
  <1>6. ASSUME NEW t \in Trees, AdmitPending(t)
        PROVE  TypeOK'
    BY <1>1, <1>6 DEF AdmitPending, Window, WindowStates, Timed, SlotStatus
  <1>7. CASE PromoteFinalizeWindow
    BY <1>1, <1>7 DEF PromoteFinalizeWindow, Window, WindowStates, Timed
  <1>8. CASE BeginRollback
    BY <1>1, <1>8 DEF BeginRollback, Window, WindowStates
  <1>9. CASE FinishRollback
    <2>1. Supersede(SweptWindow) \in Window
      BY <1>1, SupersedeType
    <2>2. QED
      BY <1>1, <1>9, <2>1
         DEF FinishRollback, Window, WindowStates, Admissible, Closed
  <1>10. CASE SettleTransaction
    BY <1>10 DEF SettleTransaction
  <1>11. ASSUME NEW outcome \in Outcomes, CloseWindow(outcome)
         PROVE  TypeOK'
    BY <1>1, <1>11, ClosedAsType DEF CloseWindow, Window
  <1>12. CASE FinalizeWindow
    BY <1>1, <1>12 DEF FinalizeWindow, Window, WindowStates, Timed
  <1>13. ASSUME NEW r \in Runs, NEW t \in Trees, ObserveSlot(r, t)
         PROVE  TypeOK'
    BY <1>1, <1>13, ObserveType DEF ObserveSlot
  <1>14. ASSUME NEW r \in Runs, NEW result \in Results, DisposeSlot(r, result)
         PROVE  TypeOK'
    BY <1>1, <1>14, TerminalizeType DEF DisposeSlot
  <1>15. CASE Tick
    BY <1>15 DEF Tick
  <1>16. CASE StepBack
    BY <1>16 DEF StepBack
  <1>17. CASE UNCHANGED vars
    BY <1>17 DEF vars
  <1>18. QED
    BY <1>2, <1>3, <1>4, <1>5, <1>6, <1>7, <1>8, <1>9, <1>10, <1>11, <1>12,
       <1>13, <1>14, <1>15, <1>16, <1>17
       DEF Next, RegistryStep, WindowStep, DirectStep

\* Every reachable state is of its type.
THEOREM TypeCorrect == Spec => []TypeOK
  <1>1. Init => TypeOK
    BY DEF Init, TypeOK, Window, WindowStates, Admissible, SlotStatus,
           Registration, Unregistered
  <1>2. QED
    BY <1>1, TypeStep, PTL DEF Spec
-----------------------------------------------------------------------------
(* What each helper leaves in the fields the properties are about.          *)

\* The sweep changes nothing but active slots: an expired run is abandoned, and
\* the wall-clock cap supersedes the others; either way the flag is set.
LEMMA SweepEffect ==
  ASSUME TypeOK
  PROVE  /\ SweptWindow.tree = window.tree
         /\ WallExpired => SweptWindow.state = "CLOSED_FLAGGED"
         /\ ~WallExpired => SweptWindow.state = window.state
         /\ window.flag => SweptWindow.flag
         /\ WallExpired => SweptWindow.flag
         /\ Expired \cap ActiveRuns(window) # {} => SweptWindow.flag
         /\ \A r \in Runs :
              SweptWindow.slot[r] =
                IF window.slot[r] # "active" THEN window.slot[r]
                ELSE IF r \in Expired THEN "abandoned"
                ELSE IF WallExpired THEN "superseded" ELSE "active"
  <1> DEFINE A == Abandon(window, Expired)
  <1>1. A \in Window
    BY AbandonType DEF TypeOK, Expired, Registered
  <1>2. /\ A.tree = window.tree
        /\ A.state = window.state
        /\ window.flag => A.flag
        /\ Expired \cap ActiveRuns(window) # {} => A.flag
    BY DEF Abandon, TypeOK, Window
  <1>3. \A r \in Runs :
          A.slot[r] = IF window.slot[r] = "active" /\ r \in Expired
                      THEN "abandoned" ELSE window.slot[r]
    BY DEF Abandon, TypeOK, Window, ActiveRuns
  <1> HIDE DEF A
  <1>4. /\ Supersede(A).tree = A.tree
        /\ \A r \in Runs :
             Supersede(A).slot[r] = IF A.slot[r] = "active" THEN "superseded"
                                    ELSE A.slot[r]
    BY <1>1 DEF Supersede, Window
  <1>5. Supersede(A) \in Window
    BY <1>1, SupersedeType
  <1>6. CASE WallExpired
    <2>1. SweptWindow = [Supersede(A) EXCEPT !.flag = TRUE,
                                             !.state = "CLOSED_FLAGGED"]
      BY <1>6 DEF SweptWindow, A
    <2>2. /\ SweptWindow.tree = Supersede(A).tree
          /\ SweptWindow.state = "CLOSED_FLAGGED"
          /\ SweptWindow.flag
          /\ SweptWindow.slot = Supersede(A).slot
      BY <2>1, <1>5 DEF Window
    <2>3. QED
      BY <1>2, <1>3, <1>4, <1>6, <2>2
  <1>7. CASE ~WallExpired
    <2>1. SweptWindow = A
      BY <1>7 DEF SweptWindow, A
    <2>2. QED
      BY <1>2, <1>3, <1>7, <2>1
  <1>8. QED
    BY <1>6, <1>7

\* A disposition is given to an active slot only; trouble sets the flag, and a
\* hard failure pulls the rollback trigger.
LEMMA TerminalizeEffect ==
  ASSUME NEW w \in Window, NEW r \in Runs, NEW d \in Dispositions,
         NEW v, v = Terminalize(w, r, d)
  PROVE  /\ v.tree = w.tree
         /\ w.flag => v.flag
         /\ w.slot[r] = "active" /\ d \in Troubling => v.flag
         /\ \/ v.state = w.state
            \/ /\ v.state = "ROLLING_BACK"
               /\ v.slot[r] = "completed_hard_fail"
               /\ w.slot[r] = "active"
         /\ \A q \in Runs :
              v.slot[q] = IF q = r /\ w.slot[r] = "active" THEN d ELSE w.slot[q]
  <1>1. CASE w.slot[r] # "active"
    <2>1. v = w
      BY <1>1 DEF Terminalize
    <2>2. QED
      BY <1>1, <2>1
  <1>2. CASE w.slot[r] = "active"
    <2> DEFINE flag == w.flag \/ d \in Troubling
    <2>1. /\ v.tree = w.tree
          /\ v.flag = flag
          /\ v.state = IF d = "completed_hard_fail" THEN "ROLLING_BACK" ELSE w.state
          /\ v.slot = [w.slot EXCEPT ![r] = d]
      <3> HIDE DEF flag
      <3>1. v = [w EXCEPT !.slot[r] = d,
                          !.active = IF @ > 0 THEN @ - 1 ELSE 0,
                          !.flag = flag,
                          !.state = IF d = "completed_hard_fail"
                                    THEN "ROLLING_BACK" ELSE @]
        BY <1>2 DEF Terminalize, flag
      <3>2. QED
        BY <3>1 DEF Window
    <2>2. \A q \in Runs : v.slot[q] = IF q = r THEN d ELSE w.slot[q]
      BY <2>1 DEF Window
    <2>3. (w.flag => v.flag) /\ (d \in Troubling => v.flag)
      BY <2>1, Zenon
    <2>4. \/ v.state = w.state
          \/ v.state = "ROLLING_BACK" /\ v.slot[r] = "completed_hard_fail"
      BY <2>1, <2>2
    <2>5. v.tree = w.tree
      BY <2>1
    <2> HIDE DEF flag
    <2>6. QED
      BY <1>2, <2>2, <2>3, <2>4, <2>5, Zenon
  <1>3. QED
    BY <1>1, <1>2

\* A claim turns a free slot of an observing window of the same tree active,
\* if the window has one left, and changes nothing else.
LEMMA ObserveEffect ==
  ASSUME NEW w \in Window, NEW r \in Runs, NEW t \in Trees
  PROVE  LET v == Observe(w, r, t)
         IN  /\ v.tree = w.tree /\ v.state = w.state /\ v.flag = w.flag
             /\ \/ v = w
                \/ /\ w.state = "OBSERVING" /\ w.tree = t
                   /\ w.slot[r] = "none"
                   /\ Cardinality(Observed(w)) < N
                   /\ v.slot[r] = "active"
                   /\ v.active = w.active + 1
             /\ \A q \in Runs : q # r => v.slot[q] = w.slot[q]
  BY DEF Observe, Window

\* A rollback supersedes the runs still active and leaves the other slots.
LEMMA SupersedeEffect ==
  ASSUME NEW w \in Window
  PROVE  LET v == Supersede(w)
         IN  /\ v.tree = w.tree /\ v.flag = w.flag /\ v.active = 0
             /\ \A q \in Runs :
                  v.slot[q] = IF w.slot[q] = "active" THEN "superseded"
                              ELSE w.slot[q]
  BY DEF Supersede, Window
-----------------------------------------------------------------------------
(* The flag bit.                                                            *)

\* Every step preserves: a window with an abandoned or wobbling slot is flagged.
LEMMA FlagStep == TypeOK /\ FlagRemembersTrouble /\ [Next]_vars => FlagRemembersTrouble'
  <1> SUFFICES ASSUME TypeOK, FlagRemembersTrouble, [Next]_vars,
                      NEW q \in Runs, window'.slot[q] \in Troubling
               PROVE  window'.flag
    BY DEF FlagRemembersTrouble
  <1> DEFINE W == SweptWindow
  <1>t. W \in Window
    BY SweepType
  <1>s. \A p \in Runs : W.slot[p] \in Troubling => W.flag
    <2> SUFFICES ASSUME NEW p \in Runs, W.slot[p] \in Troubling
                 PROVE  W.flag
      OBVIOUS
    <2>1. CASE window.slot[p] = "active" /\ p \in Expired
      <3>1. p \in Expired \cap ActiveRuns(window)
        BY <2>1 DEF ActiveRuns
      <3>2. QED
        BY <3>1, SweepEffect
    <2>2. CASE ~(window.slot[p] = "active" /\ p \in Expired)
      <3>1. W.slot[p] = window.slot[p]
        BY <2>2, SweepEffect DEF Troubling
      <3>2. QED
        BY <3>1, SweepEffect DEF FlagRemembersTrouble
    <2>3. QED
      BY <2>1, <2>2
  <1> HIDE DEF W
  <1>k. ASSUME window'.slot[q] = W.slot[q], window'.flag = W.flag
        PROVE  window'.flag
    BY <1>k, <1>s
  <1>1. CASE Sweep
    BY <1>1, <1>s DEF Sweep, W
  <1>2. ASSUME NEW r \in Runs, NEW t \in Trees, RegisterRun(r, t) \/ ObserveSlot(r, t)
        PROVE  window'.flag
    <2>1. window' = Observe(W, r, t)
      BY <1>2 DEF RegisterRun, ObserveSlot, W
    <2>2. W.slot[q] \in Troubling
      BY <2>1, <1>t, ObserveEffect DEF Troubling
    <2>3. window'.flag = W.flag
      BY <2>1, <1>t, ObserveEffect
    <2>4. QED
      BY <2>2, <2>3, <1>s
  <1>3. ASSUME NEW r \in Runs, HeartbeatRun(r)
        PROVE  window'.flag
    BY <1>3, <1>s DEF HeartbeatRun, W
  <1>4. ASSUME NEW r \in Runs, NEW result \in Results,
               DeregisterRun(r, result) \/ DisposeSlot(r, result)
        PROVE  window'.flag
    <2>1. window' = Terminalize(W, r, result)
      BY <1>4 DEF DeregisterRun, DisposeSlot, W
    <2>2. \/ q = r /\ W.slot[r] = "active" /\ result \in Troubling
          \/ W.slot[q] \in Troubling
      BY <2>1, <1>t, TerminalizeEffect
    <2>3. QED
      BY <2>1, <2>2, <1>s, <1>t, TerminalizeEffect
  <1>5. ASSUME NEW t \in Trees, AdmitPending(t)
        PROVE  window'.flag
    BY <1>5 DEF AdmitPending, Troubling
  <1>6. CASE PromoteFinalizeWindow \/ BeginRollback \/ FinalizeWindow
    BY <1>6, <1>k, <1>t DEF PromoteFinalizeWindow, BeginRollback, FinalizeWindow, Window, W
  <1>7. CASE FinishRollback
    <2>1. /\ window'.slot[q] = Supersede(W).slot[q]
          /\ window'.flag = Supersede(W).flag
      BY <1>7, <1>t, SupersedeType DEF FinishRollback, Window, W
    <2>2. /\ W.slot[q] \in Troubling
          /\ window'.flag = W.flag
      BY <2>1, <1>t, SupersedeEffect DEF Troubling
    <2>3. QED
      BY <2>2, <1>s
  <1>8. ASSUME NEW outcome \in Outcomes, CloseWindow(outcome)
        PROVE  window'.flag
    BY <1>8, <1>k, <1>t DEF CloseWindow, Window, W
  <1>9. CASE UNCHANGED window
    BY <1>9 DEF FlagRemembersTrouble
  <1>10. QED
    BY <1>1, <1>2, <1>3, <1>4, <1>5, <1>6, <1>7, <1>8, <1>9
       DEF Next, RegistryStep, WindowStep, DirectStep, vars,
           SettleTransaction, Tick, StepBack

\* No sweep, close, recovery or rollback clears the flag bit of a window that saw
\* an abandoned run or a soft wobble.
THEOREM FlagIsKept == Spec => []FlagRemembersTrouble
  <1>1. Init => FlagRemembersTrouble
    BY DEF Init, FlagRemembersTrouble, Troubling
  <1>2. QED
    BY <1>1, FlagStep, TypeCorrect, PTL DEF Spec

-----------------------------------------------------------------------------
(* The two files agree.                                                     *)

\* Every step preserves ActiveSlotIsLeased: a direct call touches the slot of its
\* own run only.
LEMMA LeasedStep == TypeOK /\ ActiveSlotIsLeased /\ [Next]_vars => ActiveSlotIsLeased'
  <1> SUFFICES ASSUME TypeOK, ActiveSlotIsLeased, [Next]_vars,
                      NEW q \in Runs \ DirectCalls, window'.slot[q] = "active"
               PROVE  registry'[q].lease # 0 /\ registry'[q].tree = window'.tree
    BY DEF ActiveSlotIsLeased, ActiveRuns
  <1> DEFINE W == SweptWindow
             R == SweptRegistry
             Leased(p) == R[p].lease # 0 /\ R[p].tree = W.tree
  <1>t. W \in Window /\ R \in [Runs -> Registration]
    BY SweepType
  <1>s. \A p \in Runs \ DirectCalls : W.slot[p] = "active" => Leased(p)
    <2> SUFFICES ASSUME NEW p \in Runs \ DirectCalls, W.slot[p] = "active"
                 PROVE  Leased(p)
      OBVIOUS
    <2>1. window.slot[p] = "active" /\ p \notin Expired
      BY SweepEffect
    <2>2. registry[p].lease # 0 /\ registry[p].tree = window.tree
      BY <2>1 DEF ActiveSlotIsLeased, ActiveRuns
    <2>3. R[p] = registry[p]
      BY <2>1 DEF SweptRegistry
    <2>4. QED
      BY <2>2, <2>3, SweepEffect
  <1> HIDE DEF W, R
  <1>k. ASSUME window'.slot[q] = W.slot[q], window'.tree = W.tree, registry' = R
        PROVE  registry'[q].lease # 0 /\ registry'[q].tree = window'.tree
    BY <1>k, <1>s
  <1>1. CASE Sweep
    BY <1>1, <1>k DEF Sweep, W, R
  <1>2. ASSUME NEW r \in Runs, NEW t \in Trees, RegisterRun(r, t)
        PROVE  registry'[q].lease # 0 /\ registry'[q].tree = window'.tree
    <2>1. /\ R[r].lease = 0
          /\ registry' = [R EXCEPT ![r] = [tree |-> t, lease |-> now + Lease]]
          /\ window' = Observe(W, r, t)
      BY <1>2 DEF RegisterRun, W, R, Unregistered
    <2>2. q = r => W.slot[r] # "active"
      BY <2>1, <1>s
    <2>3. CASE q = r
      <3>1. window'.tree = t
        BY <2>1, <2>2, <2>3, <1>t, ObserveEffect
      <3>2. registry'[q].lease = now + Lease /\ registry'[q].tree = t
        BY <2>1, <2>3, <1>t
      <3>3. now + Lease # 0
        BY DEF TypeOK
      <3>4. QED
        BY <3>1, <3>2, <3>3
    <2>4. CASE q # r
      <3>1. window'.tree = W.tree /\ W.slot[q] = "active"
        BY <2>1, <2>4, <1>t, ObserveEffect
      <3>2. registry'[q] = R[q]
        BY <2>1, <2>4, <1>t
      <3>3. QED
        BY <3>1, <3>2, <1>s
    <2>5. QED
      BY <2>3, <2>4
  <1>3. ASSUME NEW r \in Runs, HeartbeatRun(r)
        PROVE  registry'[q].lease # 0 /\ registry'[q].tree = window'.tree
    <2>1. /\ window' = W
          /\ registry' = [R EXCEPT ![r].lease =
                            IF @ >= now + Lease THEN @ ELSE now + Lease]
      BY <1>3 DEF HeartbeatRun, W, R
    <2>2. registry'[q].tree = R[q].tree
      BY <2>1, <1>t DEF Registration
    <2>3. R[q].lease \in Nat /\ now + Lease \in Nat \ {0}
      BY <1>t DEF Registration, TypeOK
    <2>4. \/ registry'[q].lease = R[q].lease
          \/ registry'[q].lease = now + Lease
      BY <2>1, <1>t DEF Registration
    <2>5. QED
      BY <2>1, <2>2, <2>3, <2>4, <1>s
  <1>4. ASSUME NEW r \in Runs, NEW result \in Results, DeregisterRun(r, result)
        PROVE  registry'[q].lease # 0 /\ registry'[q].tree = window'.tree
    <2>1. /\ window' = Terminalize(W, r, result)
          /\ registry' = [R EXCEPT ![r] = Unregistered]
      BY <1>4 DEF DeregisterRun, W, R
    <2>2. W.slot[q] = "active" /\ q # r /\ window'.tree = W.tree
      <3>1. result # "active"
        BY DEF Dispositions, CompletedResults
      <3>2. QED
        BY <2>1, <3>1, <1>t, TerminalizeEffect
    <2>3. registry'[q] = R[q]
      BY <2>1, <2>2, <1>t
    <2>4. QED
      BY <2>2, <2>3, <1>s
  <1>5. ASSUME NEW t \in Trees, AdmitPending(t)
        PROVE  registry'[q].lease # 0 /\ registry'[q].tree = window'.tree
    BY <1>5 DEF AdmitPending
  <1>6. CASE PromoteFinalizeWindow \/ BeginRollback
    BY <1>6, <1>k, <1>t DEF PromoteFinalizeWindow, BeginRollback, Window, W, R
  <1>7. CASE FinishRollback
    <2>1. window'.slot[q] = Supersede(W).slot[q]
      BY <1>7, <1>t, SupersedeType DEF FinishRollback, Window, W
    <2>2. QED
      BY <2>1, <1>t, SupersedeEffect
  <1>8. ASSUME NEW outcome \in Outcomes, CloseWindow(outcome)
        PROVE  registry'[q].lease # 0 /\ registry'[q].tree = window'.tree
    BY <1>8, <1>k, <1>t DEF CloseWindow, Window, W, R
  <1>9. CASE UNCHANGED <<window, registry>>
    BY <1>9 DEF ActiveSlotIsLeased, ActiveRuns
  <1>10. CASE FinalizeWindow
    BY <1>10, <1>k, <1>t DEF FinalizeWindow, Window, W, R
  <1>11. ASSUME NEW r \in DirectCalls, NEW t \in Trees, ObserveSlot(r, t)
         PROVE  registry'[q].lease # 0 /\ registry'[q].tree = window'.tree
    <2>1. window' = Observe(W, r, t) /\ registry' = R
      BY <1>11 DEF ObserveSlot, W, R
    <2>2. W.slot[q] = "active" /\ window'.tree = W.tree
      BY <2>1, <1>t, ObserveEffect
    <2>3. QED
      BY <2>1, <2>2, <1>k
  <1>12. ASSUME NEW r \in DirectCalls, NEW result \in Results, DisposeSlot(r, result)
         PROVE  registry'[q].lease # 0 /\ registry'[q].tree = window'.tree
    <2>1. window' = Terminalize(W, r, result) /\ registry' = R
      BY <1>12 DEF DisposeSlot, W, R
    <2>2. result # "active"
      BY DEF Dispositions, CompletedResults
    <2>3. W.slot[q] = "active" /\ window'.tree = W.tree
      BY <2>1, <2>2, <1>t, TerminalizeEffect
    <2>4. QED
      BY <2>1, <2>3, <1>s
  <1>13. QED
    BY <1>1, <1>2, <1>3, <1>4, <1>5, <1>6, <1>7, <1>8, <1>9, <1>10, <1>11, <1>12
       DEF Next, RegistryStep, WindowStep, DirectStep, vars,
           SettleTransaction, Tick, StepBack

\* A run that occupies a slot holds a lease on the window's tree, so the sweep
\* of the registry cannot lose the run a window is waiting for.
THEOREM ActiveIsLeased == Spec => []ActiveSlotIsLeased
  <1>1. Init => ActiveSlotIsLeased
    BY DEF Init, ActiveSlotIsLeased, ActiveRuns
  <1>2. QED
    BY <1>1, LeasedStep, TypeCorrect, PTL DEF Spec

-----------------------------------------------------------------------------
(* A disposition is final, and a lease never shortens.                      *)

\* Every step leaves a slot that has its disposition as it is, unless it admits
\* the next window.
LEMMA DispositionStep ==
  ASSUME TypeOK, [Next]_vars, NEW q \in Runs, window.slot[q] \in Dispositions
  PROVE  window'.slot[q] = window.slot[q] \/ window'.state = "ADMITTED"
  <1> DEFINE W == SweptWindow
             Final == window'.slot[q] = window.slot[q]
  <1>t. W \in Window
    BY SweepType
  <1>d. window.slot[q] # "active" /\ window.slot[q] # "none"
    BY DEF Dispositions, CompletedResults
  <1>s. W.slot[q] = window.slot[q]
    BY <1>d, SweepEffect
  <1> HIDE DEF W
  <1>1. CASE window' = W
    BY <1>1, <1>s
  <1>2. ASSUME NEW r \in Runs, NEW t \in Trees, window' = Observe(W, r, t)
        PROVE  Final
    <2>1. CASE q = r
      BY <1>2, <1>d, <1>s, <1>t, <2>1, ObserveEffect
    <2>2. CASE q # r
      BY <1>2, <1>s, <1>t, <2>2, ObserveEffect
    <2>3. QED
      BY <2>1, <2>2
  <1>3. ASSUME NEW r \in Runs, NEW result \in Results,
               window' = Terminalize(W, r, result)
        PROVE  Final
    BY <1>3, <1>d, <1>s, <1>t, TerminalizeEffect
  <1>4. ASSUME NEW t \in Trees, AdmitPending(t)
        PROVE  window'.state = "ADMITTED"
    BY <1>4 DEF AdmitPending
  <1>5. ASSUME NEW state, window' = [W EXCEPT !.state = state]
        PROVE  Final
    BY <1>5, <1>s, <1>t DEF Window
  <1>6. CASE FinishRollback
    <2>1. window'.slot[q] = Supersede(W).slot[q]
      BY <1>6, <1>t, SupersedeType DEF FinishRollback, Window, W
    <2>2. QED
      BY <2>1, <1>d, <1>s, <1>t, SupersedeEffect
  <1>7. CASE UNCHANGED window
    BY <1>7
  <1>8. QED
    BY <1>1, <1>2, <1>3, <1>4, <1>5, <1>6, <1>7
       DEF Next, RegistryStep, WindowStep, DirectStep, vars, W,
           Sweep, RegisterRun, HeartbeatRun, DeregisterRun,
           PromoteFinalizeWindow, BeginRollback, SettleTransaction,
           CloseWindow, FinalizeWindow, ObserveSlot, DisposeSlot,
           Tick, StepBack

\* Whatever sweeps, deregistrations, closes and rollbacks race for a slot, the
\* first one to dispose of it decides, until the next window is admitted.
THEOREM DispositionStays == Spec => DispositionIsFinal
  <1>1. TypeOK /\ [Next]_vars =>
          [\A r \in Runs :
             window.slot[r] \in Dispositions =>
               window'.slot[r] = window.slot[r] \/ window'.state = "ADMITTED"]_vars
    BY DispositionStep
  <1>2. QED
    BY <1>1, TypeCorrect, PTL DEF Spec, DispositionIsFinal

\* Every step gives a run that stays registered a lease as long as it had.  A run
\* registered anew in one step was swept first, so its old lease had expired.
LEMMA LeaseStep ==
  ASSUME TypeOK, [Next]_vars, NEW q \in Runs,
         registry[q].lease # 0, registry'[q].lease # 0
  PROVE  registry'[q].lease >= registry[q].lease
  <1> DEFINE R == SweptRegistry
             Kept == registry'[q].lease >= registry[q].lease
  <1>t. R \in [Runs -> Registration] /\ registry \in [Runs -> Registration]
    BY SweepType DEF TypeOK
  <1>n. registry[q].lease \in Nat /\ now \in Nat
    BY DEF TypeOK, Registration
  <1>s. /\ R[q].lease # 0 => R[q] = registry[q]
        /\ R[q].lease = 0 => registry[q].lease <= now
    BY <1>t DEF SweptRegistry, Expired, Registered, Unregistered
  <1> HIDE DEF R
  <1>1. CASE registry' = R
    BY <1>1, <1>n, <1>s
  <1>2. ASSUME NEW r \in Runs, NEW t \in Trees, RegisterRun(r, t)
        PROVE  Kept
    <2>1. /\ R[r].lease = 0
          /\ registry' = [R EXCEPT ![r] = [tree |-> t, lease |-> now + Lease]]
      BY <1>2 DEF RegisterRun, R, Unregistered
    <2>2. CASE q = r
      <3>1. registry[q].lease <= now
        BY <2>1, <2>2, <1>s
      <3>2. registry'[q].lease = now + Lease
        BY <2>1, <2>2, <1>t
      <3>3. QED
        BY <3>1, <3>2, <1>n
    <2>3. CASE q # r
      BY <2>1, <2>3, <1>n, <1>s, <1>t
    <2>4. QED
      BY <2>2, <2>3
  <1>3. ASSUME NEW r \in Runs, HeartbeatRun(r)
        PROVE  Kept
    <2>1. /\ R[r] # Unregistered
          /\ registry' = [R EXCEPT ![r].lease =
                            IF @ >= now + Lease THEN @ ELSE now + Lease]
      BY <1>3 DEF HeartbeatRun, R
    <2>2. CASE q = r
      <3>1. registry'[q].lease = IF R[q].lease >= now + Lease
                                 THEN R[q].lease ELSE now + Lease
        BY <2>1, <2>2, <1>t DEF Registration
      <3>2. R[q].lease \in Nat
        BY <1>t DEF Registration
      <3>3. QED
        BY <3>1, <3>2, <1>n, <1>s
    <2>3. CASE q # r
      BY <2>1, <2>3, <1>n, <1>s, <1>t
    <2>4. QED
      BY <2>2, <2>3
  <1>4. ASSUME NEW r \in Runs, registry' = [R EXCEPT ![r] = Unregistered]
        PROVE  Kept
    BY <1>4, <1>n, <1>s, <1>t DEF Unregistered
  <1>5. CASE UNCHANGED registry
    BY <1>5, <1>n
  <1>6. QED
    BY <1>1, <1>2, <1>3, <1>4, <1>5
       DEF Next, RegistryStep, WindowStep, DirectStep, vars, R,
           Sweep, DeregisterRun, AdmitPending,
           PromoteFinalizeWindow, BeginRollback, FinishRollback,
           SettleTransaction, CloseWindow, FinalizeWindow, ObserveSlot,
           DisposeSlot, Tick, StepBack

\* A heartbeat or a registration never takes lease time away, wherever the clock
\* has been set back to.
THEOREM LeaseGrows == Spec => LeaseNeverShortens
  <1>1. TypeOK /\ [Next]_vars =>
          [\A r \in Runs :
             registry[r].lease # 0 /\ registry'[r].lease # 0
               => registry'[r].lease >= registry[r].lease]_vars
    BY LeaseStep
  <1>2. QED
    BY <1>1, TypeCorrect, PTL DEF Spec, LeaseNeverShortens

-----------------------------------------------------------------------------
(* The counters agree with the slots.                                       *)

\* SlotAccounting, of any window record.
Counted(w) ==
  /\ w.active = Cardinality(ActiveRuns(w))
  /\ Cardinality(Observed(w)) <= N
  /\ ActiveRuns(w) # {} => w.state \in {"OBSERVING", "ROLLING_BACK"}

\* The sets of runs a window counts are finite.
LEMMA CountedSets ==
  ASSUME NEW w
  PROVE  /\ IsFiniteSet(ActiveRuns(w)) /\ Cardinality(ActiveRuns(w)) \in Nat
         /\ IsFiniteSet(Observed(w)) /\ Cardinality(Observed(w)) \in Nat
  <1>1. ActiveRuns(w) \in SUBSET Runs /\ Observed(w) \in SUBSET Runs
    BY DEF ActiveRuns, Observed
  <1>2. IsFiniteSet(ActiveRuns(w)) /\ IsFiniteSet(Observed(w))
    BY <1>1, FS_Subset
  <1>3. QED
    BY <1>2, FS_CardinalityType

\* Only the slots and the active counter are counted: a change of state keeps the
\* count if the new state may have active runs or there are none.
LEMMA CountedState ==
  ASSUME NEW w \in Window, NEW v, Counted(w),
         v.slot = w.slot, v.active = w.active,
         v.state \in {"OBSERVING", "ROLLING_BACK"} \/ ActiveRuns(w) = {}
  PROVE  Counted(v)
  <1>1. ActiveRuns(v) = ActiveRuns(w) /\ Observed(v) = Observed(w)
    BY DEF ActiveRuns, Observed
  <1>2. QED
    BY <1>1 DEF Counted

\* A window without active runs or slots is counted.
LEMMA CountedIdle ==
  ASSUME NEW v, v.active = 0, ActiveRuns(v) = {}, Cardinality(Observed(v)) <= N
  PROVE  Counted(v)
  BY FS_EmptySet DEF Counted

\* Abandoning expired runs takes as many off the counter as it disposes of slots.
LEMMA CountedAbandon ==
  ASSUME NEW w \in Window, Counted(w), NEW E \in SUBSET Runs
  PROVE  Counted(Abandon(w, E))
  <1> DEFINE gone == E \cap ActiveRuns(w)
             v == Abandon(w, E)
             left == w.active - Cardinality(gone)
  <1>1. /\ v.state = w.state
        /\ v.active = IF left > 0 THEN left ELSE 0
        /\ v.slot = [r \in Runs |-> IF r \in gone THEN "abandoned" ELSE w.slot[r]]
    BY DEF Abandon, Window
  <1>2. ActiveRuns(v) = ActiveRuns(w) \ gone
    BY <1>1 DEF ActiveRuns
  <1>3. Observed(v) = Observed(w)
    BY <1>1 DEF ActiveRuns, Observed
  <1>4. ActiveRuns(w) \cap gone = gone
    OBVIOUS
  <1>5. Cardinality(ActiveRuns(v)) = left
    <2>1. IsFiniteSet(ActiveRuns(w))
      BY CountedSets
    <2> HIDE DEF gone
    <2>2. Cardinality(ActiveRuns(w) \ gone) =
            Cardinality(ActiveRuns(w)) - Cardinality(ActiveRuns(w) \cap gone)
      BY <2>1, FS_Difference
    <2>3. QED
      BY <1>2, <1>4, <2>2 DEF Counted
  <1>6. Cardinality(ActiveRuns(v)) \in Nat
    BY CountedSets
  <1>7. ActiveRuns(v) # {} => ActiveRuns(w) # {}
    BY <1>2
  <1> HIDE DEF v, gone, left
  <1>8. v.active = Cardinality(ActiveRuns(v))
    BY <1>1, <1>5, <1>6
  <1>9. Counted(v)
    BY <1>1, <1>3, <1>7, <1>8 DEF Counted
  <1>10. QED
    BY <1>9 DEF v

\* Superseding leaves no active run and frees no slot.
LEMMA CountedSupersede ==
  ASSUME NEW w \in Window, Counted(w)
  PROVE  /\ Counted(Supersede(w))
         /\ ActiveRuns(Supersede(w)) = {}
  <1> DEFINE v == Supersede(w)
  <1>1. /\ v.active = 0
        /\ \A q \in Runs : v.slot[q] = IF w.slot[q] = "active" THEN "superseded"
                                       ELSE w.slot[q]
    BY SupersedeEffect
  <1> HIDE DEF v
  <1>2. ActiveRuns(v) = {} /\ Observed(v) = Observed(w)
    BY <1>1 DEF ActiveRuns, Observed
  <1>3. Counted(v)
    BY <1>1, <1>2, CountedIdle DEF Counted
  <1>4. QED
    BY <1>2, <1>3 DEF v

\* Disposing of an active slot takes one off the counter.
LEMMA CountedTerminalize ==
  ASSUME NEW w \in Window, Counted(w), NEW r \in Runs, NEW d \in Dispositions
  PROVE  Counted(Terminalize(w, r, d))
  <1> DEFINE v == Terminalize(w, r, d)
  <1>d. d # "active" /\ d # "none"
    BY DEF Dispositions, CompletedResults
  <1>e. /\ v.state = w.state \/ v.state = "ROLLING_BACK"
        /\ \A q \in Runs :
             v.slot[q] = IF q = r /\ w.slot[r] = "active" THEN d ELSE w.slot[q]
    BY TerminalizeEffect
  <1>1. CASE w.slot[r] # "active"
    BY <1>1 DEF Terminalize
  <1>2. CASE w.slot[r] = "active"
    <2>1. v.active = IF w.active > 0 THEN w.active - 1 ELSE 0
      <3> DEFINE flag == w.flag \/ d \in Troubling
      <3> HIDE DEF flag
      <3>1. v = [w EXCEPT !.slot[r] = d,
                          !.active = IF @ > 0 THEN @ - 1 ELSE 0,
                          !.flag = flag,
                          !.state = IF d = "completed_hard_fail"
                                    THEN "ROLLING_BACK" ELSE @]
        BY <1>2 DEF Terminalize, flag
      <3> HIDE DEF v
      <3>2. QED
        BY <3>1 DEF Window
    <2> HIDE DEF v
    <2>2. /\ ActiveRuns(v) = ActiveRuns(w) \ {r}
          /\ Observed(v) = Observed(w)
          /\ r \in ActiveRuns(w)
      BY <1>2, <1>d, <1>e DEF ActiveRuns, Observed
    <2>3. Cardinality(ActiveRuns(v)) = w.active - 1
      <3>1. IsFiniteSet(ActiveRuns(w))
        BY CountedSets
      <3>2. Cardinality(ActiveRuns(w) \ {r}) = Cardinality(ActiveRuns(w)) - 1
        BY <2>2, <3>1, FS_RemoveElement
      <3>3. QED
        BY <2>2, <3>2 DEF Counted
    <2>4. v.active = Cardinality(ActiveRuns(v))
      BY <2>1, <2>3, CountedSets DEF Window
    <2>5. QED
      BY <2>2, <2>4, <1>e DEF Counted, v
  <1>3. QED
    BY <1>1, <1>2

\* Claiming a slot adds one to the counter and stays within the window size.
LEMMA CountedObserve ==
  ASSUME NEW w \in Window, Counted(w), NEW r \in Runs, NEW t \in Trees
  PROVE  Counted(Observe(w, r, t))
  <1> DEFINE v == Observe(w, r, t)
  <1>1. CASE v = w
    BY <1>1
  <1>2. CASE v # w
    <2>1. /\ v.state = "OBSERVING"
          /\ w.slot[r] = "none" /\ v.slot[r] = "active"
          /\ v.active = w.active + 1
          /\ Cardinality(Observed(w)) < N
          /\ \A q \in Runs : q # r => v.slot[q] = w.slot[q]
      BY <1>2, ObserveEffect
    <2> HIDE DEF v
    <2>2. /\ ActiveRuns(v) = ActiveRuns(w) \cup {r} /\ r \notin ActiveRuns(w)
          /\ Observed(v) = Observed(w) \cup {r} /\ r \notin Observed(w)
      BY <2>1 DEF ActiveRuns, Observed
    <2>3. /\ Cardinality(ActiveRuns(v)) = Cardinality(ActiveRuns(w)) + 1
          /\ Cardinality(Observed(v)) = Cardinality(Observed(w)) + 1
      BY <2>2, CountedSets, FS_AddElement
    <2>4. QED
      BY <2>1, <2>3, CountedSets DEF Counted, v
  <1>3. QED
    BY <1>1, <1>2

\* The sweep keeps the count.
LEMMA CountedSweep ==
  ASSUME TypeOK, Counted(window)
  PROVE  Counted(SweptWindow)
  <1> DEFINE A == Abandon(window, Expired)
             S == Supersede(A)
  <1>1. Expired \in SUBSET Runs /\ window \in Window
    BY DEF Expired, Registered, TypeOK
  <1>2. A \in Window /\ Counted(A)
    BY <1>1, AbandonType, CountedAbandon
  <1> HIDE DEF A
  <1>3. S \in Window /\ Counted(S) /\ ActiveRuns(S) = {}
    BY <1>2, SupersedeType, CountedSupersede
  <1> HIDE DEF S
  <1>4. CASE WallExpired
    <2>1. SweptWindow = [S EXCEPT !.flag = TRUE, !.state = "CLOSED_FLAGGED"]
      BY <1>4 DEF SweptWindow, A, S
    <2>2. SweptWindow.slot = S.slot /\ SweptWindow.active = S.active
      BY <2>1, <1>3 DEF Window
    <2>3. QED
      BY <2>2, <1>3, CountedState
  <1>5. CASE ~WallExpired
    BY <1>2, <1>5 DEF SweptWindow, A
  <1>6. QED
    BY <1>4, <1>5

\* Every step keeps the count.
LEMMA CountedStep == TypeOK /\ Counted(window) /\ [Next]_vars => Counted(window')
  <1> SUFFICES ASSUME TypeOK, Counted(window), [Next]_vars
               PROVE  Counted(window')
    OBVIOUS
  <1> DEFINE W == SweptWindow
  <1>t. W \in Window /\ Counted(W)
    BY SweepType, CountedSweep
  <1> HIDE DEF W
  <1>1. CASE window' = W
    BY <1>1, <1>t
  <1>2. ASSUME NEW r \in Runs, NEW t \in Trees, window' = Observe(W, r, t)
        PROVE  Counted(window')
    BY <1>2, <1>t, CountedObserve
  <1>3. ASSUME NEW r \in Runs, NEW result \in Results,
               window' = Terminalize(W, r, result)
        PROVE  Counted(window')
    BY <1>3, <1>t, CountedTerminalize
  <1>4. ASSUME NEW t \in Trees, AdmitPending(t)
        PROVE  Counted(window')
    <2>1. ActiveRuns(window') = {} /\ Observed(window') = {} /\ window'.active = 0
      BY <1>4 DEF AdmitPending, ActiveRuns, Observed
    <2>2. Cardinality(Observed(window')) <= N
      BY <2>1, FS_EmptySet
    <2>3. QED
      BY <2>1, <2>2, CountedIdle
  <1>5. ASSUME NEW state, window' = [W EXCEPT !.state = state],
               state \in {"OBSERVING", "ROLLING_BACK"} \/ ActiveRuns(W) = {}
        PROVE  Counted(window')
    <2>1. /\ window'.slot = W.slot /\ window'.active = W.active
          /\ window'.state = state
      BY <1>5, <1>t DEF Window
    <2>2. QED
      BY <2>1, <1>5, <1>t, CountedState
  <1>6. CASE FinishRollback
    <2> DEFINE S == Supersede(W)
    <2>1. S \in Window /\ Counted(S) /\ ActiveRuns(S) = {}
      BY <1>t, SupersedeType, CountedSupersede
    <2> HIDE DEF S
    <2>2. window' = [S EXCEPT !.state = "CLOSED_ROLLED_BACK"]
      BY <1>6 DEF FinishRollback, W, S
    <2>3. window'.slot = S.slot /\ window'.active = S.active
      BY <2>1, <2>2 DEF Window
    <2>4. QED
      BY <2>1, <2>3, CountedState
  <1>7. CASE UNCHANGED window
    BY <1>7
  <1>8. QED
    BY <1>1, <1>2, <1>3, <1>4, <1>5, <1>6, <1>7
       DEF Next, RegistryStep, WindowStep, DirectStep, vars, W,
           Sweep, RegisterRun, HeartbeatRun, DeregisterRun,
           PromoteFinalizeWindow, BeginRollback, SettleTransaction,
           CloseWindow, FinalizeWindow, ObserveSlot, DisposeSlot,
           Tick, StepBack

\* The active counter, the window size and the window state agree with the slots,
\* whichever of sweep, close, rollback and disposition comes first.
THEOREM SlotsAreCounted == Spec => []SlotAccounting
  <1>1. Init => Counted(window)
    <2> SUFFICES ASSUME Init PROVE Counted(window)
      OBVIOUS
    <2>1. ActiveRuns(window) = {} /\ Observed(window) = {} /\ window.active = 0
      BY DEF Init, ActiveRuns, Observed
    <2>2. Cardinality(Observed(window)) <= N
      BY <2>1, FS_EmptySet
    <2>3. QED
      BY <2>1, <2>2, CountedIdle
  <1>2. Counted(window) <=> SlotAccounting
    BY DEF Counted, SlotAccounting
  <1>3. TypeOK /\ SlotAccounting /\ [Next]_vars => SlotAccounting'
    BY CountedStep DEF Counted, SlotAccounting
  <1>4. Init => SlotAccounting
    BY <1>1, <1>2
  <1>5. QED
    BY <1>3, <1>4, TypeCorrect, PTL DEF Spec

-----------------------------------------------------------------------------
(* A pass is earned.                                                        *)

\* A window that superseded one of its runs shows it, when callers do not dispose
\* of runs as superseded themselves: it is flagged, or it carries a hard failure,
\* or it is closed and no promotion is left that could reopen it.  Without this
\* the window a rollback closed could observe again and pass.
Over(w, owed) ==
  (\E r \in Runs : w.slot[r] = "superseded") =>
    \/ w.flag
    \/ HasHardFailure(w)
    \/ /\ owed \in {"none", "rolledback"}
       /\ w.state \in Admissible \cup {"HALT_HUMAN"}

\* The sweep keeps it: what the wall-clock cap supersedes it also flags.
LEMMA OverSweep ==
  ASSUME TypeOK, Over(window, tx)
  PROVE  Over(SweptWindow, tx)
  <1> DEFINE W == SweptWindow
  <1> SUFFICES ASSUME NEW r \in Runs, W.slot[r] = "superseded", ~W.flag,
                      ~HasHardFailure(W)
               PROVE  /\ tx \in {"none", "rolledback"}
                      /\ W.state \in Admissible \cup {"HALT_HUMAN"}
    BY DEF Over
  <1>1. ~WallExpired /\ ~window.flag /\ W.state = window.state
    BY SweepEffect
  <1>2. \A q \in Runs :
          W.slot[q] = IF window.slot[q] # "active" THEN window.slot[q]
                      ELSE IF q \in Expired THEN "abandoned" ELSE "active"
    BY <1>1, SweepEffect
  <1> HIDE DEF W
  <1>3. window.slot[r] = "superseded"
    BY <1>2
  <1>4. ~HasHardFailure(window)
    BY <1>2 DEF HasHardFailure
  <1>5. QED
    BY <1>1, <1>3, <1>4 DEF Over

\* Every step keeps it.
LEMMA OverStep ==
  ASSUME "superseded" \notin Results, TypeOK, Over(window, tx), [Next]_vars
  PROVE  Over(window', tx')
  <1> DEFINE W == SweptWindow
  <1> SUFFICES ASSUME NEW q \in Runs, window'.slot[q] = "superseded",
                      ~window'.flag, ~HasHardFailure(window')
               PROVE  /\ tx' \in {"none", "rolledback"}
                      /\ window'.state \in Admissible \cup {"HALT_HUMAN"}
    BY DEF Over
  <1> DEFINE Goal == /\ tx' \in {"none", "rolledback"}
                     /\ window'.state \in Admissible \cup {"HALT_HUMAN"}
  <1>t. W \in Window /\ Over(W, tx)
    BY SweepType, OverSweep
  <1> HIDE DEF W
  <1>k. ASSUME W.slot[q] = "superseded", ~W.flag, ~HasHardFailure(W)
        PROVE  /\ tx \in {"none", "rolledback"}
               /\ W.state \in Admissible \cup {"HALT_HUMAN"}
    BY <1>k, <1>t DEF Over
  <1>1. CASE window' = W /\ tx' = tx
    BY <1>1, <1>k
  <1>2. ASSUME NEW r \in Runs, NEW t \in Trees,
               window' = Observe(W, r, t), tx' = tx
        PROVE  Goal
    <2>1. window'.state = W.state /\ window'.flag = W.flag
      BY <1>2, <1>t, ObserveEffect
    <2>2. \A p \in Runs : \/ window'.slot[p] = W.slot[p]
                          \/ W.slot[p] = "none" /\ window'.slot[p] = "active"
      BY <1>2, <1>t, ObserveEffect
    <2>3. W.slot[q] = "superseded" /\ ~HasHardFailure(W)
      BY <2>2 DEF HasHardFailure
    <2>4. QED
      BY <2>1, <2>3, <1>2, <1>k
  <1>3. ASSUME NEW r \in Runs, NEW result \in Results,
               window' = Terminalize(W, r, result), tx' = tx
        PROVE  Goal
    <2>1. /\ W.flag => window'.flag
          /\ \/ window'.state = W.state
             \/ window'.slot[r] = "completed_hard_fail"
          /\ \A p \in Runs :
               window'.slot[p] = IF p = r /\ W.slot[r] = "active" THEN result
                                 ELSE W.slot[p]
      BY <1>3, <1>t, TerminalizeEffect
    <2>2. window'.state = W.state
      BY <2>1 DEF HasHardFailure
    <2>3. W.slot[q] = "superseded" /\ ~HasHardFailure(W)
      BY <2>1 DEF HasHardFailure
    <2>4. QED
      BY <2>1, <2>2, <2>3, <1>3, <1>k
  <1>4. ASSUME NEW t \in Trees, AdmitPending(t)
        PROVE  Goal
    BY <1>4 DEF AdmitPending
  <1>5. ASSUME NEW state, window' = [W EXCEPT !.state = state]
        PROVE  /\ tx \in {"none", "rolledback"}
               /\ W.state \in Admissible \cup {"HALT_HUMAN"}
               /\ window'.state = state
               /\ ~HasHardFailure(W) /\ ~W.flag
    <2>1. /\ window'.slot = W.slot /\ window'.flag = W.flag
          /\ window'.state = state
      BY <1>5, <1>t DEF Window
    <2>2. ~HasHardFailure(W)
      BY <2>1 DEF HasHardFailure
    <2>3. QED
      BY <2>1, <2>2, <1>k
  <1>6. CASE PromoteFinalizeWindow
    BY <1>5, <1>6 DEF PromoteFinalizeWindow, W
  <1>7. CASE BeginRollback
    BY <1>5, <1>7 DEF BeginRollback, W, Admissible, Closed
  <1>8. CASE FinishRollback
    <2>1. window'.state = "CLOSED_ROLLED_BACK" /\ tx' = "rolledback"
      BY <1>8, <1>t, SupersedeType DEF FinishRollback, W, Window
    <2>2. QED
      BY <2>1 DEF Admissible, Closed
  <1>9. CASE SettleTransaction
    BY <1>9 DEF SettleTransaction, Over
  <1>10. ASSUME NEW outcome \in Outcomes, CloseWindow(outcome)
         PROVE  Goal
    <2>1. window' = [W EXCEPT !.state = ClosedAs(W, outcome)] /\ tx' = tx
      BY <1>10 DEF CloseWindow, W
    <2>2. /\ tx \in {"none", "rolledback"}
          /\ window'.state = ClosedAs(W, outcome)
          /\ ~HasHardFailure(W)
      BY <2>1, <1>5
    <2>3. ClosedAs(W, outcome) \in Closed \cup {"HALT_HUMAN"}
      BY <2>2 DEF ClosedAs, Closed
    <2>4. QED
      BY <2>1, <2>2, <2>3 DEF Admissible
  <1>11. CASE FinalizeWindow
    BY <1>5, <1>11 DEF FinalizeWindow, W, Admissible, Closed
  <1>12. CASE UNCHANGED <<window, tx>>
    BY <1>12 DEF Over
  <1>13. QED
    BY <1>1, <1>2, <1>3, <1>4, <1>6, <1>7, <1>8, <1>9, <1>10, <1>11, <1>12
       DEF Next, RegistryStep, WindowStep, DirectStep, vars, W,
           Sweep, RegisterRun, HeartbeatRun, DeregisterRun,
           ObserveSlot, DisposeSlot, Tick, StepBack

\* A step that closes a window as a pass finds it full, unflagged, and with
\* nothing but passed runs.
LEMMA PassStep ==
  ASSUME TypeOK, SlotAccounting, FlagRemembersTrouble, Over(window, tx), [Next]_vars,
         window.state \in {"OBSERVING", "ROLLING_BACK"},
         window'.state = "CLOSED_PASS"
  PROVE  /\ ~window'.flag
         /\ Cardinality(Observed(window')) = N
         /\ \A r \in Observed(window') : window'.slot[r] = "completed_pass"
  <1> DEFINE W == SweptWindow
  <1>t. W \in Window /\ Counted(W) /\ W.state # "CLOSED_PASS"
    BY SweepType, CountedSweep, SweepEffect DEF Counted, SlotAccounting
  <1> HIDE DEF W
  <1>1. PICK outcome \in Outcomes : CloseWindow(outcome)
    <2>1. ~(window' = W) /\ ~UNCHANGED window
      BY <1>t
    <2>2. ASSUME NEW r \in Runs, NEW t \in Trees PROVE window' # Observe(W, r, t)
      BY <1>t, ObserveEffect
    <2>3. ASSUME NEW r \in Runs, NEW result \in Results
          PROVE  window' # Terminalize(W, r, result)
      BY <1>t, TerminalizeEffect
    <2>4. ASSUME NEW t \in Trees PROVE ~AdmitPending(t)
      BY DEF AdmitPending
    <2>5. ~PromoteFinalizeWindow /\ ~BeginRollback /\ ~FinalizeWindow
      BY <1>t DEF PromoteFinalizeWindow, BeginRollback, FinalizeWindow, W, Window
    <2>6. ~FinishRollback
      BY <1>t, SupersedeType DEF FinishRollback, W, Window
    <2>7. QED
      BY <2>1, <2>2, <2>3, <2>4, <2>5, <2>6
         DEF Next, RegistryStep, WindowStep, DirectStep, vars, W,
             Sweep, RegisterRun, HeartbeatRun, DeregisterRun,
             SettleTransaction, ObserveSlot, DisposeSlot, Tick, StepBack
  <1>2. /\ window'.slot = W.slot /\ window'.flag = W.flag
        /\ ClosedAs(W, outcome) = "CLOSED_PASS"
        /\ ActiveRuns(W) = {}
        /\ HasHardFailure(W) \/ Cardinality(Observed(W)) >= N \/ outcome = "flagged"
    BY <1>1, <1>t DEF CloseWindow, W, Window
  <1>3. outcome = "pass" /\ ~W.flag /\ ~HasHardFailure(W)
    BY <1>2 DEF ClosedAs, CloseOutcomes
  <1>4. Observed(window') = Observed(W)
    BY <1>2 DEF Observed
  <1>5. Cardinality(Observed(W)) = N
    BY <1>2, <1>3, <1>t, CountedSets DEF Counted
  <1>6. ASSUME NEW r \in Observed(W)
        PROVE  W.slot[r] = "completed_pass"
    <2>1. /\ r \in Runs /\ W.slot[r] # "none" /\ W.slot[r] # "active"
          /\ W.slot[r] # "completed_hard_fail"
      BY <1>2, <1>3 DEF Observed, ActiveRuns, HasHardFailure
    <2>2. ~WallExpired /\ ~window.flag /\ Expired \cap ActiveRuns(window) = {}
      BY <1>3, SweepEffect DEF W
    <2>3. \A p \in Runs : W.slot[p] = window.slot[p]
      BY <2>2, SweepEffect DEF W, ActiveRuns
    <2>4. W.slot[r] \notin Troubling
      BY <2>1, <2>2, <2>3 DEF FlagRemembersTrouble
    <2>5. ~HasHardFailure(window)
      BY <2>3, <1>3 DEF HasHardFailure
    <2>6. W.slot[r] # "superseded"
      BY <2>1, <2>2, <2>3, <2>5 DEF Over, Admissible, Closed
    <2>7. W.slot[r] \in SlotStatus
      BY <2>1, <1>t DEF Window
    <2>8. QED
      BY <2>1, <2>4, <2>6, <2>7
         DEF SlotStatus, Dispositions, CompletedResults, Troubling
  <1>7. ~window'.flag
    BY <1>2, <1>3
  <1>8. QED
    BY <1>2, <1>4, <1>5, <1>6, <1>7

\* As long as no caller disposes of a run as superseded, a window closes as a pass
\* only when all n of its runs passed and nothing flagged it.
THEOREM PassesAreEarned ==
  ASSUME "superseded" \notin Results
  PROVE  Spec => PassIsEarned
  <1> DEFINE IsOver == Over(window, tx)
  <1>1. Init => IsOver
    BY DEF Init, Over
  <1>2. TypeOK /\ IsOver /\ [Next]_vars => IsOver'
    BY OverStep
  <1>3. TypeOK /\ SlotAccounting /\ FlagRemembersTrouble /\ IsOver /\ [Next]_vars =>
          [ /\ window.state \in {"OBSERVING", "ROLLING_BACK"}
            /\ window'.state = "CLOSED_PASS"
            => /\ ~window'.flag
               /\ Cardinality(Observed(window')) = N
               /\ \A r \in Observed(window') : window'.slot[r] = "completed_pass"
          ]_vars
    BY PassStep
  <1> HIDE DEF IsOver
  <1>4. QED
    BY <1>1, <1>2, <1>3, TypeCorrect, SlotsAreCounted, FlagIsKept,
       PTL DEF Spec, PassIsEarned
=============================================================================
