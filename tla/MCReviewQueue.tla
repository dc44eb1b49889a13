---------------------------- MODULE MCReviewQueue ----------------------------
(* Instances of ReviewQueue for TLC: PRs are interchangeable. *)
EXTENDS ReviewQueue, TLC

KeySymmetry == Permutations(Key)
=============================================================================
