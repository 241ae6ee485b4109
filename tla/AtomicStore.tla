----------------------------- MODULE AtomicStore -----------------------------
(***************************************************************************)
(* What scripts/state-store.js promises its callers: a set of state files  *)
(* that only change by whole mutations.  A mutation rewrites some of the   *)
(* files at once, starting from what they hold, and happens at most once.  *)
(*                                                                         *)
(* The content of a file is the set of the mutations it reflects: a write  *)
(* that starts from an outdated read shows as a mutation that is missing.  *)
(***************************************************************************)
EXTENDS Naturals

CONSTANTS
  Files,       \* the files of the state directory
  Mutations    \* identities of mutations

VARIABLE value

Init == value = [f \in Files |-> {}]

Mutate(m, touched) ==
  /\ \A f \in Files : m \notin value[f]
  /\ value' = [f \in Files |-> IF f \in touched THEN value[f] \cup {m} ELSE value[f]]

Next == \E m \in Mutations, touched \in (SUBSET Files) \ {{}} : Mutate(m, touched)

Spec == Init /\ [][Next]_value
=============================================================================
