---------------------------- MODULE MCComments -----------------------------
(* Instances of Comments for TLC: requests are interchangeable. *)
EXTENDS Comments, TLC

RequestSymmetry == Permutations(Request)
=============================================================================
