------------------------------ MODULE MCFixFlow ------------------------------
(***************************************************************************)
(* Instances of FixFlow for TLC; every constant is given in the .cfg.      *)
(* Runs are ordered in time, so that they are no symmetry set.             *)
(***************************************************************************)
EXTENDS FixFlow
=============================================================================
