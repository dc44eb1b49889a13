------------------------------ MODULE MCStore ------------------------------
(***************************************************************************)
(* Store for TLC: threads and repositories are interchangeable; one key    *)
(* has a value in the environment.                                         *)
(***************************************************************************)
EXTENDS Store, TLC

CONSTANTS k1, k2, v1, v2

OneEnv == k1 :> v2 @@ k2 :> Missing
Defaults == k1 :> v1 @@ k2 :> v1
ThreadRepoSymmetry == Permutations(Thread) \cup Permutations(Repo)
=============================================================================
