--------------------------- MODULE MCParallelMap ----------------------------
(***************************************************************************)
(* ParallelMap for TLC: the mapped function tells all elements apart.      *)
(***************************************************************************)
EXTENDS ParallelMap

Values == 1..7
Mapped == [i \in Index |-> i + 1]

=============================================================================
