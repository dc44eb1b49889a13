----------------------------- MODULE MCPublish -----------------------------
(* Instances of Publish for TLC; every constant is given in the .cfg. *)
EXTENDS Publish
=============================================================================
