---------------------------- MODULE MCManagedRun -----------------------------
(* The two halves of a managed run for TLC: a behaviour is one of the run     *)
(* manager or one of its supervisor, and the other half stays as it began.    *)
EXTENDS RunManager, Supervisor, TLC

VARIABLE half   \* the half whose behaviour this is

ASSUME BudgetAssumption == SupervisorAssumption

MCInit == Init /\ BudgetInit /\ half \in {"manager", "supervisor"}
MCNext ==
  \/ half = "manager" /\ Next /\ UNCHANGED <<half, budgetVars>>
  \/ half = "supervisor" /\ BudgetNext /\ UNCHANGED <<half, vars>>
MCSpec == MCInit /\ [][MCNext]_<<half, vars, budgetVars>>

Symmetry == Permutations(Managers) \cup Permutations(Declared) \cup Permutations(Types)
=============================================================================
