--------------------------- MODULE MCSpendJournal ---------------------------
(***************************************************************************)
(* SpendJournal for TLC: leaves and digests are interchangeable, and so    *)
(* are processes.                                                          *)
(***************************************************************************)
EXTENDS SpendJournal, TLC

Symmetry == Permutations(Process) \cup Permutations(Leaf) \cup Permutations(Digest)

=============================================================================
