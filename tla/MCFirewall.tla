----------------------------- MODULE MCFirewall -----------------------------
(* A small instance of Firewall.                                           *)
EXTENDS Firewall
=============================================================================
