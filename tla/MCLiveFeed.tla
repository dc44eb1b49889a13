------------------------------ MODULE MCLiveFeed ------------------------------
(* Instances of LiveFeed for TLC; every constant is given in the .cfg.     *)
EXTENDS LiveFeed
=============================================================================
