---------------------------- MODULE MCLiveReview ----------------------------
(* LiveReview for TLC: one or two PRs of one repository. *)
EXTENDS LiveReview, TLC

CONSTANTS p1, p2, t1, t2, c1, r1

OneRepo == [p \in PR |-> r1]
TaskSymmetry == Permutations(Task)
=============================================================================
