---------------------------- MODULE MCSplitReview ----------------------------
(***************************************************************************)
(* Instances of SplitReview for TLC.  Chunks are told apart by their place *)
(* in the semaphore's waiting line, so that they are no symmetry set.      *)
(***************************************************************************)
EXTENDS SplitReview

HunkAt(start, lines) == [old |-> start, new |-> start, lines |-> lines]
SectionOf(path, header, hunks) ==
    [path |-> path, header |-> header, hunks |-> hunks, parsed |-> TRUE, ignored |-> FALSE]

(***************************************************************************)
(* Against a limit of 5: files well below it, exactly at it, above it with *)
(* hunks that fit alone and ones that do not, and headers at the limit.    *)
(***************************************************************************)
Paths == 1 .. 3

Shapes == {<<2, <<>>>>, <<1, <<1>>>>, <<1, <<1, 1>>>>, <<1, <<1, 1, 1>>>>, <<1, <<3, 1, 2>>>>,
           <<1, <<4>>>>, <<1, <<1, 5, 1>>>>, <<5, <<1>>>>, <<6, <<>>>>}

File(path, shape) ==
    SectionOf(path, shape[1], [h \in DOMAIN shape[2] |-> HunkAt(1, [i \in 1 .. shape[2][h] |-> "+"])])

MCDiffs ==
    UNION {{[i \in 1 .. n |-> File(i, shapes[i])] : shapes \in [1 .. n -> Shapes]} : n \in 1 .. 3}
      \cup {<<[File(1, <<1, <<1>>>>) EXCEPT !.ignored = i], [File(2, <<1, <<1>>>>) EXCEPT !.parsed = p]>> :
              i, p \in BOOLEAN}

MCSections ==
    {SectionOf(1, 1, <<HunkAt(1, lines), HunkAt(8, second)>>) :
        lines \in UNION {[1 .. n -> LineKind] : n \in 0 .. 3},
        second \in {<<" ", "-", "+">>, <<"+", "++", " ">>}}

Asked == 1 .. 12
Around == 0 .. 1

\* Three keys in two files, told most or least urgent.
Keys == {<<"changed", 1>>, <<"same", 1>>, <<"same", 2>>}
Report == {<<>>} \cup {<<[key |-> k, priority |-> p]>> : k \in Keys, p \in {0, 3}}
MCReports == [1 .. 3 -> Report]
=============================================================================
