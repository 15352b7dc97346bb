------------------------------ MODULE MCRollback ------------------------------
(* Rollback for TLC: the system files and what they hold are model values   *)
(* that no definition tells apart.                                          *)
EXTENDS Rollback, TLC

Symmetry == Permutations(Targets) \cup Permutations(Contents)

=============================================================================
