-------------------------- MODULE MCDeployRelease --------------------------
(* A small instance of DeployRelease.                                      *)
EXTENDS DeployRelease

MCFile == [keep |-> Tenths(25), allowDowngrade |-> Other]
=============================================================================
