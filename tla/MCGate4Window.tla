---- MODULE MCGate4Window ----
\* Small instances of Gate4Window for TLC.
EXTENDS Gate4Window, TLC

Symmetry ==
  Permutations(Runs \ DirectCalls) \cup Permutations(DirectCalls) \cup Permutations(Trees)
====
