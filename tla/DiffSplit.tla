------------------------------ MODULE DiffSplit ------------------------------
(***************************************************************************)
(* What is made of a unified diff: app/services/_diff_splitter.py.  A diff *)
(* is a sequence of file sections, a section a header and hunks of lines,  *)
(* and sizes are counted in lines instead of characters.                   *)
(***************************************************************************)
EXTENDS Integers, Sequences, FiniteSets, SequencesExt, Lists

CONSTANT Path    \* what tells the sections of a diff apart

(***************************************************************************)
(* A line is what it starts with.  "++" is an added line whose own text    *)
(* begins with "++", so that it reads as "+++"; "--" likewise; "\" is the  *)
(* remark that a newline is missing.  A hunk tells the numbers its lines   *)
(* begin at on either side.                                                *)
(***************************************************************************)
LineKind == {" ", "+", "-", "++", "--", "\\"}

NewSide == {" ", "+", "++"}

Hunk == [old : Nat, new : Nat, lines : Seq(LineKind)]

Section ==
    [path : Path, header : Nat, hunks : Seq(Hunk), parsed : BOOLEAN, ignored : BOOLEAN]

\* What git sees to: a file has one section, and its hunks are in the order of the
\* lines of the new side, none of which is in two.
OneSectionEach(diff) ==
    \A i, j \in DOMAIN diff : diff[i].path = diff[j].path => i = j

HunksAscend(f) ==
    \A g, h \in DOMAIN f.hunks : g < h =>
        LET own == {i \in DOMAIN f.hunks[g].lines : f.hunks[g].lines[i] \in NewSide}
        IN f.hunks[g].new + Cardinality(own) <= f.hunks[h].new

SumOf(counts) == FoldLeft(LAMBDA sum, n : sum + n, 0, counts)
HunkSize(hunk) == 1 + Len(hunk.lines)
SectionSize(f) == f.header + SumOf([h \in DOMAIN f.hunks |-> HunkSize(f.hunks[h])])

\* Sections whose path cannot be read, as those of a name with a space, are skipped.
SplitUnifiedDiff(diff) == Only(diff, {f \in ToSet(diff) : f.parsed})

IgnoredFile(f) == f.ignored
KeptFiles(files) == Only(files, {f \in ToSet(files) : ~IgnoredFile(f)})

-----------------------------------------------------------------------------
(* Packing *)

(***************************************************************************)
(* A chunk holds hunks, named by their file and their place in it, each    *)
(* after the header of its file.  A truncated one is cut at the limit.     *)
(***************************************************************************)
ChunkOf(f, hunks, size, truncated, solo) ==
    [files |-> <<f.path>>, hunks |-> {<<f.path, h>> : h \in hunks}, size |-> size,
     truncated |-> truncated, solo |-> solo]

Piece(f, open, size) == ChunkOf(f, open, size, FALSE, TRUE)

\* What is open is closed when the hunk does not fit behind it.
RoomMade(f, max, acc, h) ==
    IF acc.open = {} \/ acc.size + HunkSize(f.hunks[h]) <= max THEN acc
    ELSE [pieces |-> Append(acc.pieces, Piece(f, acc.open, acc.size)),
          open |-> {}, size |-> f.header]

\* Mutant: a hunk that alone is too large is cut and not told.
AddHunkSilently(f, max, acc, h) ==
    LET begun == RoomMade(f, max, acc, h)
        size == begun.size + HunkSize(f.hunks[h])
    IN IF size <= max THEN [begun EXCEPT !.open = @ \cup {h}, !.size = size]
       ELSE [begun EXCEPT !.pieces = Append(@, ChunkOf(f, {h}, max, FALSE, TRUE))]

\* A hunk that is too large even alone is cut.
AddHunk(f, max, acc, h) ==
    LET begun == RoomMade(f, max, acc, h)
        size == begun.size + HunkSize(f.hunks[h])
    IN IF size <= max THEN [begun EXCEPT !.open = @ \cup {h}, !.size = size]
       ELSE [begun EXCEPT !.pieces = Append(@, ChunkOf(f, {h}, max, TRUE, TRUE))]

\* One file at hunk boundaries, first come first packed.
SplitOversizedFile(f, max) ==
    LET end == FoldLeft(LAMBDA acc, h : AddHunk(f, max, acc, h),
                        [pieces |-> <<>>, open |-> {}, size |-> f.header],
                        [h \in DOMAIN f.hunks |-> h])
    IN IF f.hunks = <<>> \/ f.header >= max
       THEN <<ChunkOf(f, DOMAIN f.hunks, max, TRUE, TRUE)>>
       ELSE end.pieces \o IF end.open = {} THEN <<>> ELSE <<Piece(f, end.open, end.size)>>

\* Largest first, files of one size in the order of the diff: the n-th is the one that
\* n - 1 come before.
LargestFirst(files) ==
    LET before(i, j) == \/ SectionSize(files[i]) > SectionSize(files[j])
                        \/ SectionSize(files[i]) = SectionSize(files[j]) /\ i < j
        place(n) == CHOOSE i \in DOMAIN files :
                       Cardinality({j \in DOMAIN files : before(j, i)}) = n - 1
    IN [n \in DOMAIN files |-> files[place(n)]]

Roomy(chunk, f, max) ==
    ~chunk.solo /\ ~chunk.truncated /\ chunk.size + SectionSize(f) <= max

\* A chunk takes in what another holds.
Joined(chunk, own) ==
    [chunk EXCEPT !.files = @ \o own.files, !.hunks = @ \cup own.hunks, !.size = @ + own.size]

\* The first chunk with room takes a file, else a chunk is opened for it.
PlaceFile(chunks, f, max) ==
    LET roomy == {i \in DOMAIN chunks : Roomy(chunks[i], f, max)}
        first == CHOOSE i \in roomy : \A j \in roomy : i <= j
        own == ChunkOf(f, DOMAIN f.hunks, SectionSize(f), FALSE, FALSE)
    IN CASE SectionSize(f) > max -> chunks \o SplitOversizedFile(f, max)
         [] SectionSize(f) <= max /\ roomy # {} ->
                [chunks EXCEPT ![first] = Joined(chunks[first], own)]
         [] OTHER -> Append(chunks, own)

PackChunks(files, max) ==
    FoldLeft(LAMBDA chunks, f : PlaceFile(chunks, f, max), <<>>, LargestFirst(files))

-----------------------------------------------------------------------------
(* The list of all files that each chunk is sent with: its own always, the *)
(* others as far as the listing is within its budget, a line each.         *)

Listed(manifest, own, budget) ==
    FoldLeft(LAMBDA listed, path :
                 IF path \in own \/ Len(listed) + 1 <= budget THEN Append(listed, path) ELSE listed,
             <<>>, manifest)

-----------------------------------------------------------------------------
(* The rows of a section around a line of the new side.                    *)

\* A line that reads as the header of a file is no row and counts for neither side.
\* Lines are those of the diff: str.splitlines, which the code takes them from, breaks
\* one at a form feed, U+2028 or a lone carriage return as well, which no line here has.
AddLine(f, acc, at) ==
    LET kind == f.hunks[at[1]].lines[at[2]]
        row == [at |-> at, sign |-> kind, old |-> acc.old, new |-> acc.new]
    IN IF kind \notin {" ", "+", "-"} THEN acc
       ELSE [rows |-> Append(acc.rows, row),
             old |-> IF kind = "+" THEN acc.old ELSE acc.old + 1,
             new |-> IF kind = "-" THEN acc.new ELSE acc.new + 1]

AddRows(f, rows, h) ==
    FoldLeft(LAMBDA acc, at : AddLine(f, acc, at),
             [rows |-> rows, old |-> f.hunks[h].old, new |-> f.hunks[h].new],
             [i \in DOMAIN f.hunks[h].lines |-> <<h, i>>]).rows

RowsOf(f) ==
    FoldLeft(LAMBDA rows, h : AddRows(f, rows, h), <<>>, [h \in DOMAIN f.hunks |-> h])

\* Mutant: a removed line is taken for the one asked for.
TargetRowsOnAnySide(rows, line) == {i \in DOMAIN rows : rows[i].new = line}

TargetRows(rows, line) == {i \in DOMAIN rows : rows[i].sign # "-" /\ rows[i].new = line}

\* No rows at all: the line is not in the diff.
ExtractHunkRows(f, line, context) ==
    LET rows == RowsOf(f)
        targets == TargetRows(rows, line)
        first == CHOOSE i \in targets : \A j \in targets : i <= j
        low == IF first - context < 1 THEN 1 ELSE first - context
        high == IF first + context > Len(rows) THEN Len(rows) ELSE first + context
    IN IF targets = {} THEN <<>> ELSE SubSeq(rows, low, high)

=============================================================================
