--------------------------- MODULE MCWifiProvision ---------------------------
(* WifiProvision for TLC: the submissions and the networks are model values *)
(* that no definition tells apart.                                          *)
EXTENDS WifiProvision, TLC

Symmetry == Permutations(Requests) \cup Permutations(Networks)

=============================================================================
