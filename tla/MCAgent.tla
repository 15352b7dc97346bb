------------------------------- MODULE MCAgent -------------------------------
(* A small instance of Agent.                                              *)
EXTENDS Agent
=============================================================================
