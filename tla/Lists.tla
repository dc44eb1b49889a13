-------------------------------- MODULE Lists --------------------------------
(***************************************************************************)
(* Parts of a list, as the comprehensions and filters of the code pick     *)
(* them.                                                                   *)
(***************************************************************************)
EXTENDS Naturals, Sequences, FiniteSets, SequencesExt

\* Those of a list that are in a set, in their order: the n-th of them is the one
\* that n - 1 of them come before.
Only(list, kept) ==
    LET places == {i \in DOMAIN list : list[i] \in kept}
        place(n) == CHOOSE i \in places : Cardinality({j \in places : j < i}) = n - 1
    IN [n \in 1 .. Cardinality(places) |-> list[place(n)]]

=============================================================================
