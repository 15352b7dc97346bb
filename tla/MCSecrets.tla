----------------------------- MODULE MCSecrets -----------------------------
(* A small instance of Secrets.                                            *)
EXTENDS Secrets
=============================================================================
