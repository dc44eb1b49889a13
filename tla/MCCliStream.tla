----------------------------- MODULE MCCliStream -----------------------------
(* Instance of CliStream for TLC; every constant is given in the .cfg.      *)
EXTENDS CliStream
=============================================================================
