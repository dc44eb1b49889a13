------------------------------- MODULE Findings -------------------------------
(***************************************************************************)
(* How findings of several reviews are put together                        *)
(* (app/services/review_service.py).  A finding is its key - file, line    *)
(* and normalised title - and its priority, 0 to 3.                        *)
(***************************************************************************)
EXTENDS Naturals, Sequences, SequencesExt, Lists

CONSTANT Key    \* what tells findings apart, its file first

Priority == 0 .. 3

Finding == [key : Key, priority : Priority]

\* Of the findings with one key the first of the most urgent, in the place of the first.
Dedupe(findings) ==
    LET add(kept, f) ==
            LET same == {i \in DOMAIN kept : kept[i].key = f.key}
            IN IF same = {} THEN Append(kept, f)
               ELSE [i \in DOMAIN kept |->
                        IF i \in same /\ f.priority < kept[i].priority THEN f ELSE kept[i]]
    IN FoldLeft(add, <<>>, findings)

\* Python's sort is stable.
SortedByPriority(findings) ==
    LET of(p) == Only(findings, {f \in ToSet(findings) : f.priority = p})
    IN of(0) \o of(1) \o of(2) \o of(3)

MergedFindings(reviews) == SortedByPriority(Dedupe(FlattenSeq(reviews)))

\* Mutant: what was carried over is not told from what is reported again.
MergeIncrementalAll(cached, changed, new) == SortedByPriority(Dedupe(cached \o new))

\* Findings on files that did not change are carried over.
MergeIncremental(cached, changed, new) ==
    LET kept == Only(cached, {f \in ToSet(cached) : f.key[1] \notin changed})
    IN SortedByPriority(Dedupe(kept \o new))

=============================================================================
