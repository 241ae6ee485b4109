---- MODULE MCStateJournal ----
\* Small instances of StateJournal for TLC.
EXTENDS StateJournal, TLC

Symmetry == Permutations(Procs) \cup Permutations(Files)
====
