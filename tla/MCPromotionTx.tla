--------------------------- MODULE MCPromotionTx ---------------------------
(* Two small instances of PromotionTx for TLC, on the same variables: a        *)
(* behaviour is one of promotions that fail and are recovered, or one of       *)
(* rollbacks whose appends can be torn.  Liveness is asked of the first only.  *)
EXTENDS PromotionTx

VARIABLE half

R == INSTANCE PromotionTx WITH
  Edits <- {"a"}, Rollbacks <- TRUE, TornAppends <- TRUE, MaxBegun <- 3

Recovering == half = "recovery"

MCInit == Init /\ half \in {"recovery", "rollback"}
MCNext ==
  \/ Recovering /\ Next /\ UNCHANGED half
  \/ half = "rollback" /\ R!Next /\ UNCHANGED half

\* Fairness of PromotionTx, in the half it is asked of.
MCFairness ==
  /\ \A p \in Procs :
       /\ WF_vars(Recovering /\ (Promote(p) \/ Abort(p)))
       /\ WF_vars(Recovering /\ Recover(p))
  /\ SF_vars(Recovering /\ CloseWindow /\ window.state = "ADMITTED")

MCSpec == MCInit /\ [][MCNext]_<<half, vars>> /\ MCFairness

RecoveryEnds == (Recovering /\ Unfinished # {}) ~> (Unfinished = {})
=============================================================================
