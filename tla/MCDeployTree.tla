---------------------------- MODULE MCDeployTree ----------------------------
(* DeployTree for TLC: two programs of two parts are model values.  The    *)
(* parts are interchangeable, and so are the programs.                     *)
EXTENDS DeployTree, TLC

MCFile == [keep |-> Tenths(25), rollbackOnFailure |-> Other]

Symmetry == Permutations(Parts) \cup Permutations(Programs)
=============================================================================
