---------------------------- MODULE CliStreamProofs ----------------------------
(***************************************************************************)
(* Proofs about CliStream, for every size of the prompt, of the pipes and  *)
(* of the output, and every set of faults.                                 *)
(*                                                                         *)
(* A line the child has written is in the pipe, in the fan-in queue or     *)
(* with the caller; the DONE item of a stream follows all its lines, and   *)
(* is put when nobody can write to the stream any more.  A run that ends   *)
(* without a timeout has taken both DONE items.                            *)
(***************************************************************************)
EXTENDS CliStream, FiniteSetTheorems, SequenceTheorems, TLAPS

-----------------------------------------------------------------------------
(* The fan-in queue *)

Has(q, x) == \E i \in DOMAIN q : q[i] = x

\* How many lines of stdout a queue holds.
LinesIn(q) == Cardinality({i \in DOMAIN q : q[i] = "stdout"})

\* stdout's DONE item comes after its lines.
DoneIsLast(q) == \A i, j \in DOMAIN q : q[i] = "stdout_done" /\ q[j] = "stdout" => j < i

LEMMA EmptyQueue ==
    /\ \A x : ~Has(<<>>, x)
    /\ LinesIn(<<>>) = 0
    /\ DoneIsLast(<<>>)
<1>1. {i \in DOMAIN <<>> : <<>>[i] = "stdout"} = {}
    OBVIOUS
<1> QED BY <1>1, FS_EmptySet DEF Has, LinesIn, DoneIsLast

LEMMA HasAppend ==
    ASSUME NEW q \in Seq(Tag), NEW t \in Tag
    PROVE  \A x : Has(Append(q, t), x) <=> Has(q, x) \/ x = t
<1> DEFINE r == Append(q, t)
<1>1. /\ Len(q) \in Nat /\ DOMAIN q = 1 .. Len(q) /\ DOMAIN r = 1 .. Len(q) + 1
      /\ \A i \in 1 .. Len(q) : r[i] = q[i]
      /\ r[Len(q) + 1] = t
    BY AppendProperties
<1>2. Len(q) + 1 \in DOMAIN r
    BY <1>1
<1>3. \A i \in DOMAIN r : i = Len(q) + 1 \/ i \in DOMAIN q
    BY <1>1
<1>4. \A i \in DOMAIN q : i \in DOMAIN r /\ r[i] = q[i]
    BY <1>1
<1> HIDE DEF r
<1>5. \A x : Has(r, x) <=> Has(q, x) \/ x = t
    BY <1>1, <1>2, <1>3, <1>4 DEF Has
<1> QED BY <1>5 DEF r

LEMMA HasTail ==
    ASSUME NEW q \in Seq(Tag), q # <<>>
    PROVE  \A x : Has(q, x) <=> x = Head(q) \/ Has(Tail(q), x)
<1> DEFINE r == Tail(q)
<1>1. /\ Len(q) \in Nat \ {0} /\ DOMAIN q = 1 .. Len(q)
      /\ DOMAIN r = 1 .. Len(q) - 1
      /\ \A i \in 1 .. Len(q) - 1 : r[i] = q[i + 1]
      /\ Head(q) = q[1]
    BY HeadTailProperties, EmptySeq
<1>2. \A i \in DOMAIN r : i + 1 \in DOMAIN q /\ q[i + 1] = r[i]
    BY <1>1
<1>3. \A i \in DOMAIN q : i = 1 \/ (i - 1 \in DOMAIN r /\ r[i - 1] = q[i])
    BY <1>1
<1>4. 1 \in DOMAIN q
    BY <1>1
<1>5. ASSUME NEW x
      PROVE  Has(q, x) <=> x = Head(q) \/ Has(r, x)
    <2>1. Has(r, x) => Has(q, x)
        BY <1>2 DEF Has
    <2>2. Has(q, x) => x = Head(q) \/ Has(r, x)
        BY <1>1, <1>3 DEF Has
    <2>3. Has(q, Head(q))
        BY <1>1, <1>4 DEF Has
    <2> QED BY <2>1, <2>2, <2>3
<1> QED BY <1>5

LEMMA LinesInIsNat ==
    ASSUME NEW q \in Seq(Tag)
    PROVE  /\ IsFiniteSet({i \in DOMAIN q : q[i] = "stdout"})
           /\ LinesIn(q) \in Nat
           /\ ~Has(q, "stdout") => LinesIn(q) = 0
<1>1. Len(q) \in Nat /\ DOMAIN q = 1 .. Len(q)
    OBVIOUS
<1>2. IsFiniteSet(1 .. Len(q))
    BY <1>1, FS_Interval
<1>3. IsFiniteSet({i \in DOMAIN q : q[i] = "stdout"})
    BY <1>1, <1>2, FS_Subset
<1>4. ~Has(q, "stdout") => {i \in DOMAIN q : q[i] = "stdout"} = {}
    BY DEF Has
<1> QED BY <1>3, <1>4, FS_CardinalityType, FS_EmptySet DEF LinesIn

LEMMA LinesInAppend ==
    ASSUME NEW q \in Seq(Tag), NEW t \in Tag
    PROVE  LinesIn(Append(q, t)) = LinesIn(q) + IF t = "stdout" THEN 1 ELSE 0
<1> DEFINE r == Append(q, t)
           S == {i \in DOMAIN q : q[i] = "stdout"}
           T == {i \in DOMAIN r : r[i] = "stdout"}
<1>1. /\ DOMAIN q = 1 .. Len(q) /\ Len(q) \in Nat
      /\ DOMAIN r = 1 .. Len(q) + 1
      /\ \A i \in 1 .. Len(q) : r[i] = q[i]
      /\ r[Len(q) + 1] = t
    BY AppendProperties
<1>2. Len(q) + 1 \notin S
    BY <1>1
<1>3. T = IF t = "stdout" THEN S \cup {Len(q) + 1} ELSE S
    BY <1>1
<1>4. IsFiniteSet(S) /\ Cardinality(S) \in Nat
    BY LinesInIsNat DEF LinesIn
<1>5. LinesIn(q) = Cardinality(S) /\ LinesIn(r) = Cardinality(T)
    BY DEF LinesIn
<1> HIDE DEF S, T, r
<1>6. CASE t = "stdout"
    <2>1. Cardinality(T) = Cardinality(S) + 1
        BY <1>2, <1>3, <1>4, <1>6, FS_AddElement
    <2> QED BY <1>5, <1>6, <2>1 DEF r
<1>7. CASE t # "stdout"
    <2>1. LinesIn(r) = LinesIn(q) + 0
        BY <1>3, <1>4, <1>5, <1>7
    <2> QED BY <1>7, <2>1 DEF r
<1> QED BY <1>6, <1>7

LEMMA LinesInTail ==
    ASSUME NEW q \in Seq(Tag), q # <<>>
    PROVE  LinesIn(q) = LinesIn(Tail(q)) + IF Head(q) = "stdout" THEN 1 ELSE 0
<1> DEFINE r == Tail(q)
           S == {i \in DOMAIN r : r[i] = "stdout"}
           T == {i \in DOMAIN q : q[i] = "stdout"}
           f == [i \in S |-> i + 1]
<1>1. /\ Len(q) \in Nat \ {0} /\ DOMAIN q = 1 .. Len(q)
      /\ r \in Seq(Tag) /\ DOMAIN r = 1 .. Len(q) - 1
      /\ \A i \in 1 .. Len(q) - 1 : r[i] = q[i + 1]
      /\ Head(q) = q[1]
    BY HeadTailProperties, EmptySeq
<1>2. S \subseteq Int /\ \A i \in S : i + 1 \in T \ {1}
    BY <1>1
<1>3. \A j \in T \ {1} : j \in Int /\ j - 1 \in S
    BY <1>1
<1>4. f \in Bijection(S, T \ {1})
    <2>1. f \in [S -> T \ {1}]
        BY <1>2
    <2>2. \A i, j \in S : f[i] = f[j] => i = j
        BY <1>2
    <2>3. ASSUME NEW j \in T \ {1}
          PROVE  \E i \in S : f[i] = j
        <3>1. j \in Int /\ j - 1 \in S
            BY <1>3
        <3>2. f[j - 1] = j
            BY <3>1
        <3> QED BY <3>1, <3>2
    <2> QED BY <2>1, <2>2, <2>3 DEF Bijection, Injection, Surjection, IsInjective
<1>5. ExistsBijection(S, T \ {1})
    BY <1>4 DEF ExistsBijection
<1>6. IsFiniteSet(S) /\ IsFiniteSet(T)
    BY <1>1, LinesInIsNat
<1>7. 1 \in T <=> Head(q) = "stdout"
    BY <1>1
<1> HIDE DEF S, T, f
<1>8. Cardinality(T \ {1}) = Cardinality(S)
    BY <1>5, <1>6, FS_Bijection
<1>9. Cardinality(T \ {1}) = IF 1 \in T THEN Cardinality(T) - 1 ELSE Cardinality(T)
    BY <1>6, FS_RemoveElement
<1>10. Cardinality(S) \in Nat /\ Cardinality(T) \in Nat
    BY <1>6, FS_CardinalityType
<1>11. Cardinality(T) = Cardinality(S) + IF Head(q) = "stdout" THEN 1 ELSE 0
    BY <1>7, <1>8, <1>9, <1>10
<1> QED BY <1>11 DEF LinesIn, S, T

LEMMA DoneIsLastAppend ==
    ASSUME NEW q \in Seq(Tag), NEW t \in Tag, DoneIsLast(q),
           t = "stdout" => ~Has(q, "stdout_done")
    PROVE  DoneIsLast(Append(q, t))
<1> DEFINE r == Append(q, t)
           n == Len(q) + 1
<1>1. /\ n \in Nat /\ DOMAIN q = 1 .. n - 1 /\ DOMAIN r = 1 .. n
      /\ \A i \in 1 .. n - 1 : r[i] = q[i]
      /\ r[n] = t
    BY AppendProperties
<1>2. ASSUME NEW i \in DOMAIN r, NEW j \in DOMAIN r, r[i] = "stdout_done", r[j] = "stdout"
      PROVE  j < i
    <2>1. CASE i = n
        BY <1>1, <1>2, <2>1
    <2>2. CASE i # n /\ j = n
        BY <1>1, <1>2, <2>2 DEF Has
    <2>3. CASE i # n /\ j # n
        BY <1>1, <1>2, <2>3 DEF DoneIsLast
    <2> QED BY <2>1, <2>2, <2>3
<1> HIDE DEF r, n
<1> QED BY <1>2 DEF DoneIsLast, r

LEMMA DoneIsLastTail ==
    ASSUME NEW q \in Seq(Tag), q # <<>>, DoneIsLast(q)
    PROVE  /\ DoneIsLast(Tail(q))
           /\ Head(q) = "stdout_done" => ~Has(Tail(q), "stdout")
<1> DEFINE r == Tail(q)
           n == Len(q)
<1>1. /\ n \in Nat \ {0} /\ DOMAIN q = 1 .. n /\ DOMAIN r = 1 .. n - 1
      /\ \A i \in 1 .. n - 1 : r[i] = q[i + 1] /\ i + 1 \in 1 .. n
      /\ Head(q) = q[1]
    BY HeadTailProperties, EmptySeq
<1>2. ASSUME NEW i \in DOMAIN r, NEW j \in DOMAIN r, r[i] = "stdout_done", r[j] = "stdout"
      PROVE  j < i
    <2>1. j + 1 < i + 1
        BY <1>1, <1>2 DEF DoneIsLast
    <2> QED BY <1>1, <2>1
<1>3. ASSUME Head(q) = "stdout_done", NEW j \in DOMAIN r, r[j] = "stdout"
      PROVE  FALSE
    <2>1. j + 1 < 1
        BY <1>1, <1>3 DEF DoneIsLast
    <2> QED BY <1>1, <2>1
<1> HIDE DEF r, n
<1>4. DoneIsLast(r)
    BY <1>2 DEF DoneIsLast
<1>5. Head(q) = "stdout_done" => ~Has(r, "stdout")
    BY <1>3 DEF Has
<1> QED BY <1>4, <1>5 DEF r

-----------------------------------------------------------------------------
(* The inductive invariant *)

Feeding == phase \in {"spawn", "stream", "given", "drain"}

\* Before the child is spawned nothing has happened.
NotSpawned ==
    phase = "spawn" =>
        /\ proc = "none" /\ mux = <<>> /\ doneWith = {} /\ ~timedOut
        /\ \A h \in DOMAIN helper : ~Alive(h)

\* The DONE item of a stream is put when all of it has been read, and it is over.
OutDone ==
    Has(mux, "stdout_done") \/ ("out" \in doneWith /\ ~timedOut) =>
        helper["out"] = "ended" /\ pipe["out"] = 0 /\ "out" \notin open

ErrDone ==
    Has(mux, "stderr_done") \/ ("err" \in doneWith /\ ~timedOut) =>
        helper["err"] = "ended" /\ "err" \notin open

\* It is taken after all lines of stdout.
LinesFirst ==
    /\ DoneIsLast(mux)
    /\ "out" \in doneWith /\ ~timedOut => ~Has(mux, "stdout")

\* A line is in the pipe, in the queue or with the caller.
LinesCounted == Feeding => wrote["out"] = lines + pipe["out"] + LinesIn(mux)

\* The loop is left when both streams are done, or on a timeout.
LoopLeft ==
    phase \in {"drain", "last warnings", "reap", "report", "done"} =>
        /\ doneWith = Stream
        /\ phase # "drain" /\ ~timedOut => lines = wrote["out"]

\* Warnings are shown from when stderr is done.
WarningsKept ==
    /\ "err" \in doneWith /\ ~timedOut => warned = noted
    /\ Feeding /\ helper["err"] = "ended" => warned = noted \/ Has(mux, "stderr_done")
    /\ phase \in {"reap", "report", "done"} =>
            ~Alive("err") /\ (helper["err"] = "ended" => warned = noted)

\* Helpers are over when the run reports; a run that timed out has killed its process.
HelpersAreOver == phase \in Over \cup {"report"} => \A h \in DOMAIN helper : ~Alive(h)

TimeoutKills == timedOut => proc # "running"

CliInv ==
    /\ TypeOK /\ NotSpawned /\ OutDone /\ ErrDone /\ LinesFirst /\ LinesCounted
    /\ LoopLeft /\ WarningsKept /\ HelpersAreOver /\ TimeoutKills /\ OrphanIsExplained

-----------------------------------------------------------------------------
(* What a step leaves alone *)

Task == Child \/ Writer \/ OutFeeder \/ ErrFeeder

Take == TakeDone \/ TakeLine \/ TakeTimeout

LEMMA NextCases ==
    ASSUME [Next]_vars
    PROVE  \/ Child \/ Writer \/ OutFeeder \/ ErrFeeder
           \/ SpawnFails \/ Spawn \/ TakeDone \/ TakeLine \/ TakeTimeout \/ Resume
           \/ Drain \/ LastWarnings \/ LastWarningsTimeOut \/ Reap \/ Report \/ Raise
           \/ Cancel \/ Close \/ UNCHANGED vars
BY DEF Next, Main

\* A stream that is over stays so, and a process that has exited too.
LEMMA KillFrame ==
    ASSUME TypeOK, Kill
    PROVE  /\ proc' # "running" /\ proc' \in {"none", "running", "exited"}
           /\ rc' \in {"none", "zero", "nonzero"}
           /\ open' \subseteq open
           /\ proc = "none" => proc' = "none"
BY DEF Kill, LeftOpen, TypeOK

\* A unit that goes in or out of a pipe.
LEMMA PipeMoves ==
    ASSUME TypeOK, NEW s \in Stream \cup {"in"}
    PROVE  /\ pipe[s] \in Nat
           /\ pipe[s] < PipeSize =>
                [pipe EXCEPT ![s] = @ + 1] \in [Stream \cup {"in"} -> 0 .. PipeSize]
           /\ pipe[s] > 0 =>
                [pipe EXCEPT ![s] = @ - 1] \in [Stream \cup {"in"} -> 0 .. PipeSize]
<1>1. PipeSize \in Nat /\ pipe \in [Stream \cup {"in"} -> 0 .. PipeSize]
    BY CliAssumption DEF TypeOK
<1>2. pipe[s] \in 0 .. PipeSize
    BY <1>1
<1>3. pipe[s] < PipeSize => pipe[s] + 1 \in 0 .. PipeSize
    BY <1>1, <1>2
<1>4. pipe[s] > 0 => pipe[s] - 1 \in 0 .. PipeSize
    BY <1>1, <1>2
<1> QED BY <1>1, <1>2, <1>3, <1>4

LEMMA ChildFrame ==
    ASSUME TypeOK, Child
    PROVE  /\ UNCHANGED <<mainVars, helperVars>>
           /\ proc = "running" /\ proc' \in {"running", "exited"}
           /\ rc' \in {"none", "zero", "nonzero"}
           /\ open' \subseteq open
           /\ pipe' \in [Stream \cup {"in"} -> 0 .. PipeSize]
           /\ wrote' \in [Stream -> Nat]
           /\ \/ pipe'["out"] = pipe["out"] /\ wrote'["out"] = wrote["out"]
              \/ /\ "out" \in open
                 /\ pipe'["out"] = pipe["out"] + 1 /\ wrote'["out"] = wrote["out"] + 1
<1> USE DEF mainVars, helperVars
<1>0. PipeSize \in Nat /\ MaxOut \in Nat /\ MaxErr \in Nat
    BY CliAssumption
<1>1. CASE ChildReads
    <2>1. /\ pipe' = [pipe EXCEPT !["in"] = @ - 1] /\ pipe["in"] > 0
          /\ UNCHANGED <<proc, rc, open, wrote, mainVars, helperVars>> /\ proc = "running"
        BY <1>1 DEF ChildReads
    <2>2. pipe' \in [Stream \cup {"in"} -> 0 .. PipeSize]
        BY <2>1, PipeMoves
    <2>3. pipe'["out"] = pipe["out"]
        BY <2>1 DEF TypeOK, Stream
    <2> QED BY <2>1, <2>2, <2>3 DEF TypeOK
<1>2. ASSUME NEW s \in Stream, ChildWrites(s)
      PROVE  /\ pipe' = [pipe EXCEPT ![s] = @ + 1] /\ pipe[s] < PipeSize
             /\ wrote' = [wrote EXCEPT ![s] = @ + 1] /\ s \in open /\ proc = "running"
             /\ UNCHANGED <<proc, rc, open, mainVars, helperVars>>
             /\ pipe' \in [Stream \cup {"in"} -> 0 .. PipeSize]
             /\ wrote' \in [Stream -> Nat]
    <2>1. pipe' = [pipe EXCEPT ![s] = @ + 1] /\ pipe[s] < PipeSize
        BY <1>2 DEF ChildWrites
    <2>2. wrote' = [wrote EXCEPT ![s] = @ + 1]
        BY <1>2 DEF ChildWrites
    <2>3. wrote' \in [Stream -> Nat]
        <3>1. wrote \in [Stream -> Nat]
            BY DEF TypeOK
        <3>2. wrote[s] + 1 \in Nat
            BY <3>1
        <3> QED BY <2>2, <3>1, <3>2
    <2> QED BY <1>2, <2>1, <2>2, <2>3, PipeMoves DEF ChildWrites
<1>3. CASE ChildWrites("out")
    <2>1. pipe'["out"] = pipe["out"] + 1 /\ wrote'["out"] = wrote["out"] + 1
        BY <1>2, <1>3 DEF TypeOK, Stream
    <2> QED BY <1>2, <1>3, <2>1 DEF TypeOK, Stream
<1>4. CASE ChildWrites("err")
    <2>1. pipe'["out"] = pipe["out"] /\ wrote'["out"] = wrote["out"]
        BY <1>2, <1>4 DEF TypeOK, Stream
    <2> QED BY <1>2, <1>4, <2>1 DEF TypeOK, Stream
<1>5. CASE ChildExits
    BY <1>5 DEF ChildExits, LeftOpen, TypeOK
<1>6. CASE ChildLingers
    BY <1>6 DEF ChildLingers, TypeOK
<1> QED BY <1>1, <1>3, <1>4, <1>5, <1>6 DEF Child, Stream

LEMMA WriterFrame ==
    ASSUME TypeOK, Writer
    PROVE  /\ UNCHANGED <<mainVars, proc, rc, open, wrote, mux, noted>>
           /\ pipe' \in [Stream \cup {"in"} -> 0 .. PipeSize]
           /\ pipe'["out"] = pipe["out"] /\ pipe'["err"] = pipe["err"]
           /\ toSend' \in 0 .. PromptSize
           /\ \/ UNCHANGED helper
              \/ Alive("in") /\ helper' = [helper EXCEPT !["in"] = "ended"]
<1>0. PipeSize \in Nat /\ PromptSize \in Nat
    BY CliAssumption
<1>1. CASE WriterSends
    <2>1. /\ pipe' = [pipe EXCEPT !["in"] = @ + 1] /\ pipe["in"] < PipeSize
          /\ toSend' = toSend - 1 /\ toSend > 0
          /\ UNCHANGED <<mainVars, proc, rc, open, wrote, mux, noted, helper>>
        BY <1>1 DEF WriterSends
    <2>2. pipe' \in [Stream \cup {"in"} -> 0 .. PipeSize]
        BY <2>1, PipeMoves
    <2>3. pipe'["out"] = pipe["out"] /\ pipe'["err"] = pipe["err"]
        BY <2>1 DEF TypeOK, Stream
    <2>4. toSend' \in 0 .. PromptSize
        <3>1. toSend \in 0 .. PromptSize
            BY DEF TypeOK
        <3> QED BY <1>0, <2>1, <3>1
    <2> QED BY <2>1, <2>2, <2>3, <2>4
<1>2. CASE WriterEnds
    BY <1>2 DEF WriterEnds, childVars, TypeOK
<1> QED BY <1>1, <1>2 DEF Writer

\* A feeder moves a unit to the queue or the warnings, or comes to its end: it tells the
\* queue unless it fails.
LEMMA OutFeederFrame ==
    ASSUME TypeOK, OutFeeder
    PROVE  /\ UNCHANGED <<mainVars, proc, rc, open, wrote, toSend, noted>>
           /\ Alive("out")
           /\ pipe' \in [Stream \cup {"in"} -> 0 .. PipeSize]
           /\ \/ /\ mux' = Append(mux, "stdout") /\ UNCHANGED helper
                 /\ pipe["out"] \in Nat /\ pipe["out"] > 0 /\ pipe'["out"] = pipe["out"] - 1
              \/ /\ mux' = Append(mux, "timeout") /\ UNCHANGED pipe
                 /\ helper' = [helper EXCEPT !["out"] = "ended"]
              \/ /\ mux' = Append(mux, "stdout_done") /\ UNCHANGED pipe
                 /\ helper' = [helper EXCEPT !["out"] = "ended"]
                 /\ pipe["out"] = 0 /\ "out" \notin open
              \/ /\ UNCHANGED <<mux, pipe>>
                 /\ helper' = [helper EXCEPT !["out"] = "failed"]
<1> USE DEF childVars
<1>1. CASE OutReads
    <2>1. /\ UNCHANGED <<mainVars, proc, rc, open, wrote, toSend, noted, helper>>
          /\ Alive("out") /\ pipe["out"] > 0 /\ pipe' = [pipe EXCEPT !["out"] = @ - 1]
          /\ mux' = Append(mux, "stdout")
        BY <1>1 DEF OutReads
    <2>2. pipe' \in [Stream \cup {"in"} -> 0 .. PipeSize] /\ pipe["out"] \in Nat
        BY <2>1, PipeMoves DEF Stream
    <2>3. pipe'["out"] = pipe["out"] - 1
        BY <2>1 DEF TypeOK, Stream
    <2> QED BY <2>1, <2>2, <2>3
<1>2. CASE OutTimesOut
    BY <1>2 DEF OutTimesOut, TypeOK
<1>3. CASE OutEOF
    BY <1>3 DEF OutEOF, TypeOK
<1>4. CASE FeederFails("out")
    BY <1>4 DEF FeederFails, TypeOK
<1> QED BY <1>1, <1>2, <1>3, <1>4 DEF OutFeeder

LEMMA ErrFeederFrame ==
    ASSUME TypeOK, ErrFeeder
    PROVE  /\ UNCHANGED <<mainVars, proc, rc, open, wrote, toSend>>
           /\ Alive("err")
           /\ pipe' \in [Stream \cup {"in"} -> 0 .. PipeSize]
           /\ pipe'["out"] = pipe["out"]
           /\ \/ UNCHANGED helper /\ noted' \in Nat /\ mux' \in {mux, Append(mux, "progress")}
              \/ /\ mux' = Append(mux, "stderr_done") /\ UNCHANGED noted
                 /\ helper' = [helper EXCEPT !["err"] = "ended"]
                 /\ "err" \notin open
              \/ /\ UNCHANGED <<mux, noted>>
                 /\ helper' = [helper EXCEPT !["err"] = "failed"]
<1> USE DEF childVars
<1>1. CASE ErrReads
    <2>1. /\ UNCHANGED <<mainVars, proc, rc, open, wrote, toSend, helper>>
          /\ Alive("err") /\ pipe["err"] > 0 /\ pipe' = [pipe EXCEPT !["err"] = @ - 1]
          /\ mux' \in {mux, Append(mux, "progress")}
        BY <1>1 DEF ErrReads
    <2>2. pipe' \in [Stream \cup {"in"} -> 0 .. PipeSize]
        BY <2>1, PipeMoves DEF Stream
    <2>3. pipe'["out"] = pipe["out"]
        BY <2>1 DEF TypeOK, Stream
    <2>4. noted' \in Nat
        <3>1. noted \in Nat
            BY DEF TypeOK
        <3>2. noted' \in {noted, noted + 1}
            BY <1>1 DEF ErrReads
        <3> QED BY <3>1, <3>2
    <2> QED BY <2>1, <2>2, <2>3, <2>4
<1>2. CASE ErrEOF
    BY <1>2 DEF ErrEOF, TypeOK
<1>3. CASE FeederFails("err")
    BY <1>3 DEF FeederFails, TypeOK
<1> QED BY <1>1, <1>2, <1>3 DEF ErrFeeder

\* An item is taken from the queue.
LEMMA TakeFrame ==
    ASSUME TypeOK, Take
    PROVE  /\ phase = "stream" /\ phase' \in {"stream", "given", "drain"}
           /\ mux # <<>> /\ mux' = Tail(mux) /\ Head(mux) \in Tag /\ mux' \in Seq(Tag)
           /\ UNCHANGED <<strict, pipe, wrote, helper, toSend, noted>>
           /\ \/ /\ Head(mux) = "stdout_done"
                 /\ UNCHANGED <<proc, rc, open, lines, timedOut, warned>>
                 /\ doneWith' = doneWith \cup {"out"}
                 /\ phase' = IF doneWith' = Stream THEN "drain" ELSE "stream"
              \/ /\ Head(mux) = "stderr_done"
                 /\ UNCHANGED <<proc, rc, open, lines, timedOut>> /\ warned' = noted
                 /\ doneWith' = doneWith \cup {"err"}
                 /\ phase' = IF doneWith' = Stream THEN "drain" ELSE "stream"
              \/ /\ Head(mux) \in {"stdout", "progress"} /\ phase' = "given"
                 /\ UNCHANGED <<proc, rc, open, doneWith, timedOut, warned>>
                 /\ lines' = lines + IF Head(mux) = "stdout" THEN 1 ELSE 0
              \/ /\ Head(mux) = "timeout" /\ phase' = "given"
                 /\ Kill /\ timedOut' = TRUE /\ doneWith' = Stream /\ UNCHANGED <<lines, warned>>
<1> USE DEF childVars
<1>1. mux # <<>> /\ mux' = Tail(mux) /\ phase = "stream"
    BY DEF Take, TakeDone, TakeLine, TakeTimeout
<1>2. Head(mux) \in Tag /\ mux' \in Seq(Tag)
    BY <1>1, HeadTailProperties DEF TypeOK
<1>3. CASE TakeDone /\ Head(mux) = "stdout_done"
    BY <1>1, <1>2, <1>3 DEF TakeDone
<1>4. CASE TakeDone /\ Head(mux) = "stderr_done"
    BY <1>1, <1>2, <1>4 DEF TakeDone
<1>5. CASE TakeLine
    <2>1. /\ Head(mux) \in {"stdout", "progress"} /\ phase' = "given"
          /\ UNCHANGED <<strict, pipe, wrote, helper, toSend, noted>>
          /\ UNCHANGED <<proc, rc, open, doneWith, timedOut, warned>>
          /\ lines' = IF Head(mux) = "stdout" THEN lines + 1 ELSE lines
        BY <1>5 DEF TakeLine
    <2>2. lines' = lines + IF Head(mux) = "stdout" THEN 1 ELSE 0
        <3>1. lines \in Nat
            BY DEF TypeOK
        <3>2. CASE Head(mux) = "stdout"
            BY <2>1, <3>2
        <3>3. CASE Head(mux) # "stdout"
            BY <2>1, <3>1, <3>3
        <3> QED BY <3>2, <3>3
    <2> QED BY <1>1, <1>2, <2>1, <2>2
<1>6. CASE TakeTimeout
    BY <1>1, <1>2, <1>6 DEF TakeTimeout
<1> QED BY <1>3, <1>4, <1>5, <1>6 DEF Take, TakeDone

\* A stream is done when its DONE item is taken.
LEMMA StreamIsDone ==
    ASSUME TypeOK, Take
    PROVE  /\ "out" \in doneWith' /\ ~timedOut' =>
                Head(mux) = "stdout_done" \/ ("out" \in doneWith /\ ~timedOut)
           /\ "err" \in doneWith' /\ ~timedOut' =>
                Head(mux) = "stderr_done" \/ ("err" \in doneWith /\ ~timedOut)
<1>1. "out" \in doneWith' /\ ~timedOut' =>
        Head(mux) = "stdout_done" \/ ("out" \in doneWith /\ ~timedOut)
    <2>1. CASE Head(mux) = "stdout_done"
        BY <2>1
    <2>2. CASE Head(mux) = "stderr_done"
        <3>1. doneWith' = doneWith \cup {"err"} /\ UNCHANGED timedOut
            BY <2>2, TakeFrame
        <3> QED BY <3>1
    <2>3. CASE Head(mux) \in {"stdout", "progress"}
        <3>1. UNCHANGED <<doneWith, timedOut>>
            BY <2>3, TakeFrame
        <3> QED BY <3>1
    <2>4. CASE Head(mux) = "timeout"
        <3>1. timedOut' = TRUE
            BY <2>4, TakeFrame
        <3> QED BY <3>1
    <2> QED BY <2>1, <2>2, <2>3, <2>4, TakeFrame
<1>2. "err" \in doneWith' /\ ~timedOut' =>
        Head(mux) = "stderr_done" \/ ("err" \in doneWith /\ ~timedOut)
    <2>1. CASE Head(mux) = "stderr_done"
        BY <2>1
    <2>2. CASE Head(mux) = "stdout_done"
        <3>1. doneWith' = doneWith \cup {"out"} /\ UNCHANGED timedOut
            BY <2>2, TakeFrame
        <3> QED BY <3>1
    <2>3. CASE Head(mux) \in {"stdout", "progress"}
        <3>1. UNCHANGED <<doneWith, timedOut>>
            BY <2>3, TakeFrame
        <3> QED BY <3>1
    <2>4. CASE Head(mux) = "timeout"
        <3>1. timedOut' = TRUE
            BY <2>4, TakeFrame
        <3> QED BY <3>1
    <2> QED BY <2>1, <2>2, <2>3, <2>4, TakeFrame
<1> QED BY <1>1, <1>2

\* Cancelling the helpers leaves none alive, and tells those that ended from the others.
LEMMA CancelFrame ==
    ASSUME TypeOK, helper' = Cancelled
    PROVE  /\ helper' \in [Stream \cup {"in"} -> {"absent", "running", "ended", "failed", "cancelled"}]
           /\ \A h \in DOMAIN helper' : ~Alive(h)'
           /\ \A h \in Stream \cup {"in"} : helper'[h] = "ended" <=> helper[h] = "ended"
BY DEF TypeOK, Cancelled, Alive

\* The ways out of a run that is not left to end by itself.
LEMMA LeaveFrame ==
    ASSUME TypeOK, Raise \/ Cancel \/ Close
    PROVE  /\ UNCHANGED <<strict, pipe, wrote, doneWith, lines, warned, timedOut, toSend, mux, noted>>
           /\ helper' = Cancelled
           /\ \/ phase' \in {"raised", "cancelled"} /\ Kill
              \/ phase' = "closed" /\ UNCHANGED <<proc, rc, open>>
BY DEF Raise, Cancel, Close, Cleanup, childVars

\* The last steps of a run take neither line nor unit.
LEMMA EndFrame ==
    ASSUME TypeOK, Resume \/ Drain \/ LastWarnings \/ LastWarningsTimeOut \/ Reap \/ Report
    PROVE  /\ UNCHANGED <<strict, childVars, doneWith, lines, timedOut, toSend, noted>>
           /\ mux' \in {mux, <<>>} /\ warned' \in {warned, noted}
           /\ phase \in {"given", "drain", "last warnings", "reap", "report"}
           /\ \/ UNCHANGED helper
              \/ phase = "last warnings" /\ Alive("err") /\ helper' = [helper EXCEPT !["err"] = "cancelled"]
              \/ phase = "reap" /\ helper' = Cancelled
<1> USE DEF helperVars, childVars
<1>1. CASE Resume \/ Report
    BY <1>1 DEF Resume, Report
<1>2. CASE Drain
    BY <1>2 DEF Drain
<1>3. CASE LastWarnings
    BY <1>3 DEF LastWarnings
<1>4. CASE LastWarningsTimeOut
    BY <1>4 DEF LastWarningsTimeOut
<1>5. CASE Reap
    BY <1>5 DEF Reap
<1> QED BY <1>1, <1>2, <1>3, <1>4, <1>5

-----------------------------------------------------------------------------
(* Types *)

LEMMA MuxTypes ==
    ASSUME TypeOK
    PROVE  /\ mux \in Seq(Tag) /\ <<>> \in Seq(Tag)
           /\ {"stdout", "progress", "stdout_done", "stderr_done", "timeout"} = Tag
           /\ \A t \in Tag : Append(mux, t) \in Seq(Tag)
<1>1. mux \in Seq(Tag)
    BY DEF TypeOK
<1>2. \A t \in Tag : Append(mux, t) \in Seq(Tag)
    BY <1>1, AppendProperties
<1> QED BY <1>1, <1>2, EmptySeq DEF Tag

LEMMA CliTypeStep ==
    ASSUME TypeOK, NotSpawned, [Next]_vars
    PROVE  TypeOK'
<1> USE DEF mainVars, helperVars, childVars
<1>1. CASE Child
    BY <1>1, ChildFrame DEF TypeOK
<1>2. CASE Writer
    <2>1. helper' \in [Stream \cup {"in"} -> {"absent", "running", "ended", "failed", "cancelled"}]
        BY <1>2, WriterFrame DEF TypeOK
    <2> QED BY <1>2, <2>1, WriterFrame DEF TypeOK
<1>3. CASE OutFeeder
    <2>1. helper' \in [Stream \cup {"in"} -> {"absent", "running", "ended", "failed", "cancelled"}]
        BY <1>3, OutFeederFrame DEF TypeOK
    <2>2. mux' \in Seq(Tag)
        BY <1>3, OutFeederFrame, MuxTypes
    <2> QED BY <1>3, <2>1, <2>2, OutFeederFrame DEF TypeOK
<1>4. CASE ErrFeeder
    <2>1. helper' \in [Stream \cup {"in"} -> {"absent", "running", "ended", "failed", "cancelled"}]
        BY <1>4, ErrFeederFrame DEF TypeOK
    <2>2. mux' \in Seq(Tag)
        BY <1>4, ErrFeederFrame, MuxTypes
    <2>3. noted' \in Nat
        BY <1>4, ErrFeederFrame DEF TypeOK
    <2> QED BY <1>4, <2>1, <2>2, <2>3, ErrFeederFrame DEF TypeOK
<1>5. CASE Take
    <2>1. doneWith' \subseteq Stream /\ warned' \in Nat /\ timedOut' \in BOOLEAN
        BY <1>5, TakeFrame DEF TypeOK, Stream
    <2>2. /\ proc' \in {"none", "running", "exited"} /\ rc' \in {"none", "zero", "nonzero"}
          /\ open' \subseteq Stream
        BY <1>5, TakeFrame, KillFrame DEF TypeOK
    <2>3. lines' \in Nat
        <3>1. lines \in Nat
            BY DEF TypeOK
        <3>2. lines + 1 \in Nat /\ lines + 0 \in Nat
            BY <3>1
        <3> QED BY <1>5, <3>1, <3>2, TakeFrame
    <2> QED BY <1>5, <2>1, <2>2, <2>3, TakeFrame DEF TypeOK
<1>6. CASE SpawnFails
    BY <1>6 DEF SpawnFails, TypeOK, Over
<1>7. CASE Spawn
    BY <1>7 DEF Spawn, TypeOK
<1>8. CASE Resume \/ Drain \/ LastWarnings \/ LastWarningsTimeOut \/ Reap \/ Report
    <2>1. phase' \in Over \cup {"spawn", "stream", "given", "drain", "last warnings", "reap", "report"}
        BY <1>8 DEF Resume, Drain, LastWarnings, LastWarningsTimeOut, Reap, Report, Over
    <2>2. helper' \in [Stream \cup {"in"} -> {"absent", "running", "ended", "failed", "cancelled"}]
        BY <1>8, EndFrame, CancelFrame DEF TypeOK
    <2>3. mux' \in Seq(Tag)
        BY <1>8, EndFrame, MuxTypes
    <2>4. warned' \in Nat
        BY <1>8, EndFrame DEF TypeOK
    <2> QED BY <1>8, <2>1, <2>2, <2>3, <2>4, EndFrame DEF TypeOK
<1>9. CASE Raise \/ Cancel \/ Close
    <2>1. /\ proc' \in {"none", "running", "exited"} /\ rc' \in {"none", "zero", "nonzero"}
          /\ open' \subseteq Stream
        BY <1>9, LeaveFrame, KillFrame DEF TypeOK
    <2>2. helper' \in [Stream \cup {"in"} -> {"absent", "running", "ended", "failed", "cancelled"}]
        BY <1>9, LeaveFrame, CancelFrame
    <2>3. phase' \in Over
        BY <1>9, LeaveFrame DEF Over
    <2> QED BY <1>9, <2>1, <2>2, <2>3, LeaveFrame DEF TypeOK
<1>10. CASE UNCHANGED vars
    BY <1>10 DEF vars, TypeOK
<1> QED BY <1>1, <1>2, <1>3, <1>4, <1>5, <1>6, <1>7, <1>8, <1>9, <1>10, NextCases DEF Take

-----------------------------------------------------------------------------
(* Lines and warnings *)

\* What happens to the queue, and to what tells that a stream is done.
LEMMA MuxCases ==
    ASSUME TypeOK, NotSpawned, [Next]_vars
    PROVE  /\ Take \/ UNCHANGED <<doneWith, timedOut, lines>>
           /\ \/ UNCHANGED mux
              \/ OutFeeder \/ ErrFeeder \/ Take
              \/ mux' = <<>> /\ (Drain \/ LastWarnings)
<1> USE DEF mainVars, helperVars, childVars
<1>1. CASE Child \/ Writer
    BY <1>1, ChildFrame, WriterFrame
<1>7. CASE OutFeeder \/ ErrFeeder
    BY <1>7, OutFeederFrame, ErrFeederFrame
<1>2. CASE SpawnFails \/ Spawn
    BY <1>2 DEF SpawnFails, Spawn
<1>3. CASE Resume \/ LastWarningsTimeOut \/ Reap \/ Report
    BY <1>3 DEF Resume, LastWarningsTimeOut, Reap, Report
<1>4. CASE Drain \/ LastWarnings
    BY <1>4 DEF Drain, LastWarnings
<1>5. CASE Raise \/ Cancel \/ Close
    BY <1>5, LeaveFrame
<1>6. CASE UNCHANGED vars
    BY <1>6 DEF vars
<1> QED BY <1>1, <1>2, <1>3, <1>4, <1>5, <1>6, <1>7, NextCases DEF Take

LEMMA NotSpawnedStep ==
    ASSUME TypeOK, NotSpawned, [Next]_vars
    PROVE  NotSpawned'
<1> USE DEF mainVars, helperVars, childVars
<1>1. CASE Child
    BY <1>1, ChildFrame DEF NotSpawned
<1>2. CASE Writer
    <2>1. phase # "spawn"
        BY <1>2 DEF NotSpawned, Writer, WriterSends, WriterEnds, Alive, TypeOK
    <2> QED BY <1>2, <2>1, WriterFrame DEF NotSpawned
<1>3. CASE OutFeeder
    <2>1. phase # "spawn"
        BY <1>3, OutFeederFrame DEF NotSpawned, TypeOK, Stream
    <2> QED BY <1>3, <2>1, OutFeederFrame DEF NotSpawned
<1>4. CASE ErrFeeder
    <2>1. phase # "spawn"
        BY <1>4, ErrFeederFrame DEF NotSpawned, TypeOK, Stream
    <2> QED BY <1>4, <2>1, ErrFeederFrame DEF NotSpawned
<1>5. CASE Take
    BY <1>5, TakeFrame DEF NotSpawned
<1>6. CASE SpawnFails \/ Spawn
    BY <1>6 DEF SpawnFails, Spawn, NotSpawned
<1>7. CASE Resume \/ Drain \/ LastWarnings \/ LastWarningsTimeOut \/ Reap \/ Report
    BY <1>7 DEF Resume, Drain, LastWarnings, LastWarningsTimeOut, Reap, Report, NotSpawned
<1>8. CASE Raise \/ Cancel \/ Close
    BY <1>8, LeaveFrame DEF NotSpawned
<1>9. CASE UNCHANGED vars
    BY <1>9 DEF vars, NotSpawned, Alive
<1> QED BY <1>1, <1>2, <1>3, <1>4, <1>5, <1>6, <1>7, <1>8, <1>9, NextCases DEF Take

\* The DONE item of a stream, its feeder and whether it is open, together.
LEMMA OutDoneStep ==
    ASSUME TypeOK, NotSpawned, OutDone, [Next]_vars
    PROVE  OutDone'
<1> USE DEF mainVars, helperVars, childVars
<1> DEFINE Told == Has(mux, "stdout_done") \/ ("out" \in doneWith /\ ~timedOut)
           Read == helper["out"] = "ended" /\ pipe["out"] = 0 /\ "out" \notin open
<1>0. Told => Read /\ ~Alive("out")
    BY DEF OutDone, Alive
<1>1. CASE Child
    BY <1>0, <1>1, ChildFrame DEF OutDone
<1>2. CASE Writer
    <2>1. helper'["out"] = helper["out"]
        BY <1>2, WriterFrame DEF TypeOK, Stream
    <2> QED BY <1>0, <1>2, <2>1, WriterFrame DEF OutDone
<1>3. CASE OutFeeder
    <2>1. ~Told /\ ~("out" \in doneWith' /\ ~timedOut')
        BY <1>0, <1>3, OutFeederFrame
    <2>2. \A t \in Tag : Has(Append(mux, t), "stdout_done") <=> t = "stdout_done"
        BY <2>1, MuxTypes, HasAppend
    <2>3. helper \in [Stream \cup {"in"} -> {"absent", "running", "ended", "failed", "cancelled"}]
        BY DEF TypeOK
    <2> HIDE DEF Told, Read
    <2>4. Has(mux', "stdout_done") => helper' = [helper EXCEPT !["out"] = "ended"]
                                        /\ UNCHANGED pipe /\ pipe["out"] = 0 /\ "out" \notin open'
        BY <1>3, <2>1, <2>2, OutFeederFrame, MuxTypes DEF Told
    <2>5. [helper EXCEPT !["out"] = "ended"]["out"] = "ended"
        BY <2>3 DEF Stream
    <2> QED BY <2>1, <2>4, <2>5 DEF OutDone
<1>4. CASE ErrFeeder
    <2>1. \A t \in Tag : Has(Append(mux, t), "stdout_done") <=> Has(mux, "stdout_done") \/ t = "stdout_done"
        BY MuxTypes, HasAppend
    <2>2. Has(mux', "stdout_done") => Has(mux, "stdout_done")
        BY <1>4, <2>1, ErrFeederFrame, MuxTypes
    <2>3. helper'["out"] = helper["out"]
        BY <1>4, ErrFeederFrame DEF TypeOK, Stream
    <2> QED BY <1>0, <1>4, <2>2, <2>3, ErrFeederFrame DEF OutDone
<1>5. CASE Take
    <2>1. \A x : Has(mux, x) <=> x = Head(mux) \/ Has(mux', x)
        BY <1>5, TakeFrame, MuxTypes, HasTail
    <2>2. open' \subseteq open
        BY <1>5, TakeFrame, KillFrame
    <2>3. "out" \in doneWith' /\ ~timedOut' => Told
        BY <1>5, <2>1, StreamIsDone
    <2>4. UNCHANGED <<helper, pipe>>
        BY <1>5, TakeFrame
    <2> QED BY <1>0, <2>1, <2>2, <2>3, <2>4 DEF OutDone
<1>6. CASE SpawnFails \/ Spawn
    <2>1. ~Has(mux', "stdout_done") /\ doneWith' = {}
        BY <1>6, EmptyQueue DEF SpawnFails, Spawn, NotSpawned
    <2> QED BY <2>1 DEF OutDone
<1>7. CASE Resume \/ Drain \/ LastWarnings \/ LastWarningsTimeOut \/ Reap \/ Report
    <2>1. helper["out"] = "ended" => helper'["out"] = "ended"
        BY <1>7, EndFrame, CancelFrame DEF TypeOK, Stream
    <2>2. Has(mux', "stdout_done") => Has(mux, "stdout_done")
        BY <1>7, EndFrame, EmptyQueue
    <2> QED BY <1>0, <1>7, <2>1, <2>2, EndFrame DEF OutDone
<1>8. CASE Raise \/ Cancel \/ Close
    <2>1. helper["out"] = "ended" => helper'["out"] = "ended"
        BY <1>8, LeaveFrame, CancelFrame DEF Stream
    <2>2. open' \subseteq open
        BY <1>8, LeaveFrame, KillFrame
    <2> QED BY <1>0, <1>8, <2>1, <2>2, LeaveFrame DEF OutDone
<1>9. CASE UNCHANGED vars
    BY <1>9 DEF vars, OutDone
<1> QED BY <1>1, <1>2, <1>3, <1>4, <1>5, <1>6, <1>7, <1>8, <1>9, NextCases DEF Take

LEMMA ErrDoneStep ==
    ASSUME TypeOK, NotSpawned, ErrDone, [Next]_vars
    PROVE  ErrDone'
<1> USE DEF mainVars, helperVars, childVars
<1> DEFINE Told == Has(mux, "stderr_done") \/ ("err" \in doneWith /\ ~timedOut)
<1>0. Told => helper["err"] = "ended" /\ ~Alive("err") /\ "err" \notin open
    BY DEF ErrDone, Alive
<1>1. CASE Child
    BY <1>0, <1>1, ChildFrame DEF ErrDone
<1>2. CASE Writer
    <2>1. helper'["err"] = helper["err"]
        BY <1>2, WriterFrame DEF TypeOK, Stream
    <2> QED BY <1>0, <1>2, <2>1, WriterFrame DEF ErrDone
<1>3. CASE OutFeeder
    <2>1. \A t \in Tag : Has(Append(mux, t), "stderr_done") <=> Has(mux, "stderr_done") \/ t = "stderr_done"
        BY MuxTypes, HasAppend
    <2>2. Has(mux', "stderr_done") => Has(mux, "stderr_done")
        <3>1. mux' \in {mux} \cup {Append(mux, t) : t \in {"stdout", "timeout", "stdout_done"}}
            BY <1>3, OutFeederFrame
        <3> QED BY <2>1, <3>1 DEF Tag
    <2>3. helper'["err"] = helper["err"]
        BY <1>3, OutFeederFrame DEF TypeOK, Stream
    <2> QED BY <1>0, <1>3, <2>2, <2>3, OutFeederFrame DEF ErrDone
<1>4. CASE ErrFeeder
    <2>1. ~Told /\ ~("err" \in doneWith' /\ ~timedOut')
        BY <1>0, <1>4, ErrFeederFrame
    <2>2. \A t \in Tag : Has(Append(mux, t), "stderr_done") <=> t = "stderr_done"
        BY <2>1, MuxTypes, HasAppend
    <2>3. helper \in [Stream \cup {"in"} -> {"absent", "running", "ended", "failed", "cancelled"}]
        BY DEF TypeOK
    <2> HIDE DEF Told
    <2>4. Has(mux', "stderr_done") => /\ helper' = [helper EXCEPT !["err"] = "ended"]
                                      /\ "err" \notin open'
        BY <1>4, <2>1, <2>2, ErrFeederFrame, MuxTypes DEF Told
    <2>5. [helper EXCEPT !["err"] = "ended"]["err"] = "ended"
        BY <2>3 DEF Stream
    <2> QED BY <2>1, <2>4, <2>5 DEF ErrDone
<1>5. CASE Take
    <2>1. \A x : Has(mux, x) <=> x = Head(mux) \/ Has(mux', x)
        BY <1>5, TakeFrame, MuxTypes, HasTail
    <2>2. open' \subseteq open
        BY <1>5, TakeFrame, KillFrame
    <2>3. "err" \in doneWith' /\ ~timedOut' => Told
        BY <1>5, <2>1, StreamIsDone
    <2>4. UNCHANGED helper
        BY <1>5, TakeFrame
    <2> QED BY <1>0, <2>1, <2>2, <2>3, <2>4 DEF ErrDone
<1>6. CASE SpawnFails \/ Spawn
    <2>1. ~Has(mux', "stderr_done") /\ doneWith' = {}
        BY <1>6, EmptyQueue DEF SpawnFails, Spawn, NotSpawned
    <2> QED BY <2>1 DEF ErrDone
<1>7. CASE Resume \/ Drain \/ LastWarnings \/ LastWarningsTimeOut \/ Reap \/ Report
    <2>1. helper["err"] = "ended" => helper'["err"] = "ended"
        BY <1>7, EndFrame, CancelFrame DEF TypeOK, Stream, Alive
    <2>2. Has(mux', "stderr_done") => Has(mux, "stderr_done")
        BY <1>7, EndFrame, EmptyQueue
    <2> QED BY <1>0, <1>7, <2>1, <2>2, EndFrame DEF ErrDone
<1>8. CASE Raise \/ Cancel \/ Close
    <2>1. helper["err"] = "ended" => helper'["err"] = "ended"
        BY <1>8, LeaveFrame, CancelFrame DEF Stream
    <2>2. open' \subseteq open
        BY <1>8, LeaveFrame, KillFrame
    <2> QED BY <1>0, <1>8, <2>1, <2>2, LeaveFrame DEF ErrDone
<1>9. CASE UNCHANGED vars
    BY <1>9 DEF vars, ErrDone
<1> QED BY <1>1, <1>2, <1>3, <1>4, <1>5, <1>6, <1>7, <1>8, <1>9, NextCases DEF Take

LEMMA LinesFirstStep ==
    ASSUME TypeOK, NotSpawned, OutDone, LinesFirst, [Next]_vars
    PROVE  LinesFirst'
<1> DEFINE OutTaken == "out" \in doneWith /\ ~timedOut
<1>0. DoneIsLast(mux) /\ (OutTaken => ~Has(mux, "stdout"))
    BY DEF LinesFirst
<1>1. CASE OutFeeder
    <2>1. ~Has(mux, "stdout_done") /\ ~OutTaken /\ ~OutTaken'
        BY <1>1, OutFeederFrame DEF OutDone, Alive, mainVars
    <2>2. \A t \in Tag : DoneIsLast(Append(mux, t))
        BY <1>0, <2>1, MuxTypes, DoneIsLastAppend
    <2>3. mux' \in {mux} \cup {Append(mux, t) : t \in {"stdout", "timeout", "stdout_done"}}
        BY <1>1, OutFeederFrame
    <2>4. DoneIsLast(mux')
        BY <1>0, <2>2, <2>3 DEF Tag
    <2> QED BY <2>1, <2>4 DEF LinesFirst
<1>2. CASE ErrFeeder
    <2>1. OutTaken' = OutTaken
        BY <1>2, ErrFeederFrame DEF mainVars
    <2>2. \A t \in {"progress", "stderr_done"} :
             /\ DoneIsLast(Append(mux, t))
             /\ Has(Append(mux, t), "stdout") => Has(mux, "stdout")
        <3> SUFFICES ASSUME NEW t \in {"progress", "stderr_done"}
                     PROVE  /\ DoneIsLast(Append(mux, t))
                            /\ Has(Append(mux, t), "stdout") => Has(mux, "stdout")
            OBVIOUS
        <3>1. t \in Tag /\ t # "stdout" /\ mux \in Seq(Tag)
            BY MuxTypes DEF Tag
        <3> QED BY <1>0, <3>1, HasAppend, DoneIsLastAppend
    <2>3. mux' \in {mux} \cup {Append(mux, t) : t \in {"progress", "stderr_done"}}
        BY <1>2, ErrFeederFrame
    <2>4. DoneIsLast(mux') /\ (Has(mux', "stdout") => Has(mux, "stdout"))
        BY <1>0, <2>2, <2>3
    <2> QED BY <1>0, <2>1, <2>4 DEF LinesFirst
<1>3. CASE Take
    <2>1. /\ DoneIsLast(mux')
          /\ Head(mux) = "stdout_done" => ~Has(mux', "stdout")
        BY <1>0, <1>3, TakeFrame, MuxTypes, DoneIsLastTail
    <2>2. Has(mux', "stdout") => Has(mux, "stdout")
        BY <1>3, TakeFrame, MuxTypes, HasTail
    <2> QED BY <1>0, <1>3, <2>1, <2>2, StreamIsDone DEF LinesFirst
<1>4. CASE mux' = <<>> /\ ~Take
    BY <1>4, EmptyQueue DEF LinesFirst
<1>5. CASE UNCHANGED mux /\ ~Take
    BY <1>5, MuxCases DEF LinesFirst
<1> QED BY <1>1, <1>2, <1>3, <1>4, <1>5, MuxCases

\* A line that moves is nowhere lost.
LEMMA LinesCountedStep ==
    ASSUME TypeOK, NotSpawned, LinesCounted, [Next]_vars
    PROVE  LinesCounted'
<1>0. wrote["out"] \in Nat /\ lines \in Nat /\ pipe["out"] \in Nat /\ LinesIn(mux) \in Nat
    <2>1. wrote["out"] \in Nat /\ lines \in Nat
        BY DEF TypeOK, Stream
    <2>2. pipe["out"] \in Nat
        BY PipeMoves DEF Stream
    <2> QED BY <2>1, <2>2, MuxTypes, LinesInIsNat
<1>9. \A t \in Tag : LinesIn(Append(mux, t)) = LinesIn(mux) + IF t = "stdout" THEN 1 ELSE 0
    BY MuxTypes, LinesInAppend
<1>10. /\ LinesIn(Append(mux, "stdout")) = LinesIn(mux) + 1
       /\ \A t \in Tag \ {"stdout"} : LinesIn(Append(mux, t)) = LinesIn(mux)
    BY <1>0, <1>9 DEF Tag
<1>1. CASE Child
    <2>1. UNCHANGED <<phase, lines, mux>>
        BY <1>1, ChildFrame DEF mainVars, helperVars
    <2> QED BY <1>0, <1>1, <2>1, ChildFrame DEF LinesCounted, Feeding
<1>2. CASE Writer
    <2>1. UNCHANGED <<phase, lines, mux, wrote>> /\ pipe'["out"] = pipe["out"]
        BY <1>2, WriterFrame DEF mainVars
    <2> QED BY <2>1 DEF LinesCounted, Feeding
<1>3. CASE OutFeeder
    <2>1. UNCHANGED <<phase, lines, wrote>>
        BY <1>3, OutFeederFrame DEF mainVars
    <2>2. CASE mux' = Append(mux, "stdout") /\ pipe["out"] > 0 /\ pipe'["out"] = pipe["out"] - 1
        <3>1. LinesIn(mux') = LinesIn(mux) + 1
            BY <1>10, <2>2
        <3>2. lines + (pipe["out"] - 1) + (LinesIn(mux) + 1) = lines + pipe["out"] + LinesIn(mux)
            BY <1>0
        <3>3. wrote'["out"] = wrote["out"] /\ lines' = lines /\ phase' = phase
            BY <2>1
        <3> QED BY <2>2, <3>1, <3>2, <3>3 DEF LinesCounted, Feeding
    <2>3. CASE UNCHANGED pipe /\ mux' \in {mux, Append(mux, "timeout"), Append(mux, "stdout_done")}
        <3>1. LinesIn(mux') = LinesIn(mux)
            BY <1>10, <2>3 DEF Tag
        <3> QED BY <2>1, <2>3, <3>1 DEF LinesCounted, Feeding
    <2> QED BY <1>3, <2>2, <2>3, OutFeederFrame
<1>4. CASE ErrFeeder
    <2>1. UNCHANGED <<phase, lines, wrote>> /\ pipe'["out"] = pipe["out"]
        BY <1>4, ErrFeederFrame DEF mainVars
    <2>2. mux' \in {mux, Append(mux, "progress"), Append(mux, "stderr_done")}
        BY <1>4, ErrFeederFrame
    <2>3. LinesIn(mux') = LinesIn(mux)
        BY <1>10, <2>2 DEF Tag
    <2> QED BY <2>1, <2>3 DEF LinesCounted, Feeding
<1>5. CASE Take
    <2>1. /\ mux # <<>> /\ mux' = Tail(mux) /\ mux' \in Seq(Tag) /\ UNCHANGED <<pipe, wrote>>
          /\ Feeding
        BY <1>5, TakeFrame DEF Feeding
    <2>2. LinesIn(mux) = LinesIn(mux') + IF Head(mux) = "stdout" THEN 1 ELSE 0
        BY <2>1, MuxTypes, LinesInTail
    <2>3. LinesIn(mux') \in Nat
        BY <2>1, LinesInIsNat
    <2>4. lines' = lines + IF Head(mux) = "stdout" THEN 1 ELSE 0
        <3>1. lines = lines + 0
            BY <1>0
        <3> QED BY <1>5, <3>1, TakeFrame
    <2>5. UNCHANGED wrote["out"] /\ UNCHANGED pipe["out"]
        BY <2>1
    <2>6. wrote["out"] = lines + pipe["out"] + LinesIn(mux)
        BY <2>1 DEF LinesCounted
    <2>7. CASE Head(mux) = "stdout"
        <3>1. LinesIn(mux) = LinesIn(mux') + 1 /\ lines' = lines + 1
            BY <2>2, <2>4, <2>7
        <3>2. wrote'["out"] = lines' + pipe'["out"] + LinesIn(mux')
            BY <1>0, <2>3, <2>5, <2>6, <3>1
        <3> QED BY <3>2 DEF LinesCounted
    <2>8. CASE Head(mux) # "stdout"
        <3>1. LinesIn(mux) = LinesIn(mux') /\ lines' = lines
            BY <1>0, <2>2, <2>3, <2>4, <2>8
        <3>2. wrote'["out"] = lines' + pipe'["out"] + LinesIn(mux')
            BY <2>5, <2>6, <3>1
        <3> QED BY <3>2 DEF LinesCounted
    <2> QED BY <2>7, <2>8
<1>6. CASE Spawn \/ Resume \/ UNCHANGED vars
    BY <1>6 DEF Spawn, Resume, vars, LinesCounted, Feeding, mainVars, helperVars, childVars
<1>7. CASE \/ SpawnFails \/ Drain \/ LastWarnings \/ LastWarningsTimeOut \/ Reap \/ Report
           \/ Raise \/ Cancel \/ Close
    <2>1. ~Feeding'
        BY <1>7, LeaveFrame DEF SpawnFails, Drain, LastWarnings, LastWarningsTimeOut, Reap, Report, Feeding
    <2> QED BY <2>1 DEF LinesCounted
<1> QED BY <1>1, <1>2, <1>3, <1>4, <1>5, <1>6, <1>7, NextCases DEF Take

\* When the loop is left without a timeout, both streams have been read to the end.
LEMMA LoopLeftStep ==
    ASSUME TypeOK, NotSpawned, OutDone, LinesFirst, LinesCounted, LoopLeft, [Next]_vars
    PROVE  LoopLeft'
<1> DEFINE Left == phase \in {"drain", "last warnings", "reap", "report", "done"}
<1>1. CASE Child
    <2>1. UNCHANGED <<phase, doneWith, timedOut, lines>>
        BY <1>1, ChildFrame DEF mainVars
    <2>2. Left /\ ~timedOut => wrote'["out"] = wrote["out"]
        BY <1>1, ChildFrame DEF LoopLeft, OutDone, Stream
    <2> QED BY <2>1, <2>2 DEF LoopLeft
<1>2. CASE Writer \/ OutFeeder \/ ErrFeeder
    <2>1. UNCHANGED <<phase, doneWith, timedOut, lines, wrote>>
        BY <1>2, WriterFrame, OutFeederFrame, ErrFeederFrame DEF mainVars
    <2> QED BY <2>1 DEF LoopLeft
<1>3. CASE Take
    <2>1. phase' \in {"stream", "given"} \/ (phase' = "drain" /\ doneWith' = Stream)
        BY <1>3, TakeFrame
    <2> QED BY <2>1 DEF LoopLeft
<1>4. CASE Spawn \/ Resume \/ SpawnFails
    <2>1. Left' => phase' = "drain" /\ doneWith' = Stream
        BY <1>4 DEF Spawn, Resume, SpawnFails
    <2> QED BY <2>1 DEF LoopLeft
<1>5. CASE Drain
    <2>1. /\ phase = "drain" /\ phase' \in {"last warnings", "reap"}
          /\ UNCHANGED <<doneWith, timedOut, lines, wrote>>
        BY <1>5 DEF Drain, childVars
    <2>2. ~timedOut => lines = wrote["out"]
        <3> SUFFICES ASSUME ~timedOut PROVE lines = wrote["out"]
            OBVIOUS
        <3>1. pipe["out"] = 0 /\ ~Has(mux, "stdout")
            BY <2>1 DEF LoopLeft, OutDone, LinesFirst, Stream
        <3>2. LinesIn(mux) = 0
            BY <3>1, MuxTypes, LinesInIsNat
        <3>3. wrote["out"] = lines + 0 + 0 /\ lines \in Nat
            BY <2>1, <3>1, <3>2 DEF LinesCounted, Feeding, TypeOK
        <3> QED BY <3>3
    <2> QED BY <2>1, <2>2 DEF LoopLeft
<1>6. CASE LastWarnings \/ LastWarningsTimeOut \/ Reap \/ Report
    <2>1. UNCHANGED <<doneWith, timedOut, lines, wrote>> /\ phase \in {"last warnings", "reap", "report"}
        BY <1>6 DEF LastWarnings, LastWarningsTimeOut, Reap, Report, childVars
    <2> QED BY <2>1 DEF LoopLeft
<1>7. CASE Raise \/ Cancel \/ Close
    <2>1. ~Left'
        BY <1>7, LeaveFrame
    <2> QED BY <2>1 DEF LoopLeft
<1>8. CASE UNCHANGED vars
    BY <1>8 DEF vars, LoopLeft, mainVars, childVars
<1> QED BY <1>1, <1>2, <1>3, <1>4, <1>5, <1>6, <1>7, <1>8, NextCases DEF Take

\* Warnings are not told apart from noise before stderr is done; then they are all there.
LEMMA WarningsKeptStep ==
    ASSUME TypeOK, NotSpawned, ErrDone, WarningsKept, [Next]_vars
    PROVE  WarningsKept'
<1> USE DEF mainVars, helperVars, childVars, Feeding
<1> DEFINE ErrTaken == "err" \in doneWith /\ ~timedOut
           Ended == helper["err"] = "ended"
           Finishing == phase \in {"reap", "report", "done"}
<1>0. /\ ErrTaken => warned = noted /\ Ended
      /\ Feeding /\ Ended => warned = noted \/ Has(mux, "stderr_done")
      /\ Finishing => ~Alive("err") /\ (Ended => warned = noted)
    BY DEF WarningsKept, ErrDone
<1>1. CASE Child
    BY <1>0, <1>1, ChildFrame DEF WarningsKept, Alive
<1>2. CASE Writer
    <2>1. helper'["err"] = helper["err"]
        BY <1>2, WriterFrame DEF TypeOK, Stream
    <2> QED BY <1>0, <1>2, <2>1, WriterFrame DEF WarningsKept, Alive
<1>3. CASE OutFeeder
    <2>1. helper'["err"] = helper["err"]
        BY <1>3, OutFeederFrame DEF TypeOK, Stream
    <2>2. \A t \in Tag : Has(mux, "stderr_done") => Has(Append(mux, t), "stderr_done")
        BY MuxTypes, HasAppend
    <2>3. mux' \in {mux} \cup {Append(mux, t) : t \in {"stdout", "timeout", "stdout_done"}}
        BY <1>3, OutFeederFrame
    <2>4. Has(mux, "stderr_done") => Has(mux', "stderr_done")
        BY <2>2, <2>3 DEF Tag
    <2>5. UNCHANGED <<phase, doneWith, timedOut, warned, noted>>
        BY <1>3, OutFeederFrame
    <2> QED BY <1>0, <2>1, <2>4, <2>5 DEF WarningsKept, Alive
<1>4. CASE ErrFeeder
    <2>1. Alive("err") /\ ~Finishing /\ ~ErrTaken /\ UNCHANGED <<phase, doneWith, timedOut, warned>>
        BY <1>0, <1>4, ErrFeederFrame DEF Alive
    <2>2. Ended' => Has(mux', "stderr_done")
        <3>1. Has(Append(mux, "stderr_done"), "stderr_done")
            BY MuxTypes, HasAppend DEF Tag
        <3>2. [helper EXCEPT !["err"] = "failed"]["err"] = "failed"
            BY DEF TypeOK, Stream
        <3> QED BY <1>4, <2>1, <3>1, <3>2, ErrFeederFrame DEF Alive
    <2> QED BY <2>1, <2>2 DEF WarningsKept
<1>5. CASE Take
    <2>1. UNCHANGED <<helper, noted>> /\ phase = "stream" /\ ~Finishing'
        BY <1>5, TakeFrame
    <2>2. Has(mux, "stderr_done") => Head(mux) = "stderr_done" \/ Has(mux', "stderr_done")
        BY <1>5, TakeFrame, MuxTypes, HasTail
    <2>3. CASE Head(mux) = "stderr_done"
        <3>1. warned' = noted'
            BY <1>5, <2>1, <2>3, TakeFrame
        <3> QED BY <2>1, <3>1 DEF WarningsKept
    <2>4. CASE Head(mux) # "stderr_done"
        <3>1. warned' = warned
            BY <1>5, <2>4, TakeFrame
        <3>2. ErrTaken' => ErrTaken
            BY <1>5, <2>4, StreamIsDone
        <3> QED BY <1>0, <2>1, <2>2, <2>4, <3>1, <3>2 DEF WarningsKept
    <2> QED BY <2>3, <2>4
<1>6. CASE SpawnFails
    BY <1>6 DEF SpawnFails, NotSpawned, WarningsKept
<1>7. CASE Spawn
    <2>1. helper'["err"] = "running"
        BY <1>7 DEF Spawn, Stream
    <2> QED BY <1>7, <2>1 DEF Spawn, NotSpawned, WarningsKept
<1>8. CASE Resume
    BY <1>0, <1>8 DEF Resume, WarningsKept
<1>9. CASE Drain
    <2>1. /\ phase = "drain" /\ UNCHANGED <<doneWith, timedOut, helper, noted>>
          /\ phase' = IF Alive("err") THEN "last warnings" ELSE "reap"
          /\ warned' \in {warned, noted} /\ (Has(mux, "stderr_done") => warned' = noted)
        BY <1>9 DEF Drain, Has
    <2> QED BY <1>0, <2>1 DEF WarningsKept, Alive
<1>10. CASE LastWarnings
    BY <1>10 DEF LastWarnings, WarningsKept, Alive
<1>11. CASE LastWarningsTimeOut
    <2>1. /\ phase' = "reap" /\ UNCHANGED <<doneWith, timedOut, warned, noted>>
          /\ helper'["err"] = "cancelled"
        BY <1>11 DEF LastWarningsTimeOut, TypeOK, Stream
    <2> QED BY <1>0, <2>1 DEF WarningsKept, Alive
<1>12. CASE Reap
    <2>1. /\ phase = "reap" /\ phase' = "report" /\ UNCHANGED <<doneWith, timedOut, warned, noted>>
          /\ helper' = Cancelled
        BY <1>12 DEF Reap
    <2>2. helper'["err"] # "running" /\ (Ended' <=> Ended)
        BY <2>1, CancelFrame DEF Alive, Stream
    <2> QED BY <1>0, <2>1, <2>2 DEF WarningsKept, Alive
<1>13. CASE Report
    <2>1. /\ phase = "report" /\ phase' \in {"raised", "done"}
          /\ UNCHANGED <<doneWith, timedOut, warned, noted, helper>>
        BY <1>13 DEF Report
    <2> QED BY <1>0, <2>1 DEF WarningsKept, Alive
<1>14. CASE Raise \/ Cancel \/ Close
    <2>1. phase' \in {"raised", "cancelled", "closed"} /\ UNCHANGED <<doneWith, timedOut, warned, noted>>
        BY <1>14, LeaveFrame
    <2> QED BY <1>0, <2>1 DEF WarningsKept
<1>15. CASE UNCHANGED vars
    BY <1>15 DEF vars, WarningsKept, Alive
<1> QED BY <1>1, <1>2, <1>3, <1>4, <1>5, <1>6, <1>7, <1>8, <1>9, <1>10, <1>11, <1>12, <1>13,
           <1>14, <1>15, NextCases DEF Take

-----------------------------------------------------------------------------
(* What a run leaves behind *)

LEMMA HelpersAreOverStep ==
    ASSUME TypeOK, NotSpawned, HelpersAreOver, [Next]_vars
    PROVE  HelpersAreOver'
<1> USE DEF mainVars, helperVars, childVars
<1>1. CASE Child \/ UNCHANGED vars
    <2>1. UNCHANGED <<phase, helper>>
        BY <1>1, ChildFrame DEF vars
    <2> QED BY <2>1 DEF HelpersAreOver, Alive
<1>2. CASE Writer \/ OutFeeder \/ ErrFeeder
    <2>1. phase' = phase /\ (UNCHANGED helper \/ \E h \in DOMAIN helper : Alive(h))
        BY <1>2, WriterFrame, OutFeederFrame, ErrFeederFrame DEF TypeOK, Stream
    <2> QED BY <2>1 DEF HelpersAreOver, Alive
<1>3. CASE Take \/ Spawn \/ Resume \/ Drain \/ LastWarnings \/ LastWarningsTimeOut
    <2>1. phase' \notin Over \cup {"report"}
        BY <1>3, TakeFrame DEF Spawn, Resume, Drain, LastWarnings, LastWarningsTimeOut, Over
    <2> QED BY <2>1 DEF HelpersAreOver
<1>4. CASE SpawnFails
    BY <1>4 DEF SpawnFails, NotSpawned, HelpersAreOver, Alive
<1>5. CASE Reap \/ Raise \/ Cancel \/ Close
    <2>1. helper' = Cancelled
        BY <1>5, LeaveFrame DEF Reap
    <2> QED BY <2>1, CancelFrame DEF HelpersAreOver
<1>6. CASE Report
    BY <1>6 DEF Report, HelpersAreOver, Alive
<1> QED BY <1>1, <1>2, <1>3, <1>4, <1>5, <1>6, NextCases DEF Take

LEMMA TimeoutKillsStep ==
    ASSUME TypeOK, NotSpawned, TimeoutKills, [Next]_vars
    PROVE  TimeoutKills'
<1> USE DEF mainVars, helperVars, childVars
<1>1. CASE Child
    BY <1>1, ChildFrame DEF TimeoutKills
<1>2. CASE Take
    BY <1>2, TakeFrame, KillFrame DEF TimeoutKills
<1>3. CASE SpawnFails \/ Spawn
    BY <1>3 DEF SpawnFails, Spawn, NotSpawned, TimeoutKills
<1>4. CASE Raise \/ Cancel \/ Close
    BY <1>4, LeaveFrame, KillFrame DEF TimeoutKills
<1>5. CASE UNCHANGED <<proc, timedOut>>
    BY <1>5 DEF TimeoutKills
<1> QED BY <1>1, <1>2, <1>3, <1>4, <1>5, NextCases, WriterFrame, OutFeederFrame, ErrFeederFrame,
           EndFrame DEF vars, Take

\* A run that reports and leaves its process is one whose child has closed its outputs.
LEMMA OrphanIsExplainedStep ==
    ASSUME TypeOK, NotSpawned, OutDone, ErrDone, LoopLeft, TimeoutKills, OrphanIsExplained, [Next]_vars
    PROVE  OrphanIsExplained'
<1> USE DEF mainVars, helperVars, childVars
<1>1. CASE Child
    <2>1. phase' = phase /\ proc = "running" /\ open' \subseteq open
        BY <1>1, ChildFrame
    <2> QED BY <2>1 DEF OrphanIsExplained
<1>2. CASE Writer \/ OutFeeder \/ ErrFeeder \/ UNCHANGED vars
    <2>1. UNCHANGED <<phase, proc, open>>
        BY <1>2, WriterFrame, OutFeederFrame, ErrFeederFrame DEF vars
    <2> QED BY <2>1 DEF OrphanIsExplained
<1>3. CASE Take \/ Spawn \/ Resume \/ Drain \/ LastWarnings \/ LastWarningsTimeOut \/ Reap
    <2>1. phase' \notin Over
        BY <1>3, TakeFrame DEF Spawn, Resume, Drain, LastWarnings, LastWarningsTimeOut, Reap, Over
    <2> QED BY <2>1 DEF OrphanIsExplained
<1>4. CASE SpawnFails
    BY <1>4 DEF SpawnFails, NotSpawned, OrphanIsExplained
<1>5. CASE Report
    <2>1. phase = "report" /\ phase' \in {"raised", "done"} /\ UNCHANGED <<proc, open>>
        BY <1>5 DEF Report
    <2>2. proc = "running" => ~timedOut
        BY DEF TimeoutKills
    <2>3. doneWith = Stream
        BY <2>1 DEF LoopLeft
    <2>4. ~timedOut => "out" \notin open /\ "err" \notin open
        BY <2>3 DEF OutDone, ErrDone, Stream
    <2>5. open \subseteq {"out", "err"}
        BY DEF TypeOK, Stream
    <2> QED BY <2>1, <2>2, <2>4, <2>5 DEF OrphanIsExplained
<1>6. CASE Raise \/ Cancel \/ Close
    BY <1>6, LeaveFrame, KillFrame DEF OrphanIsExplained
<1> QED BY <1>1, <1>2, <1>3, <1>4, <1>5, <1>6, NextCases DEF Take

-----------------------------------------------------------------------------
(* The invariant, and what follows from it *)

LEMMA CliInvInit == Init => CliInv
<1> SUFFICES ASSUME Init PROVE CliInv
    OBVIOUS
<1> USE DEF Init
<1>1. TypeOK
    <2>1. pipe \in [Stream \cup {"in"} -> 0 .. PipeSize] /\ toSend \in 0 .. PromptSize
        BY CliAssumption
    <2>2. wrote \in [Stream -> Nat]
        OBVIOUS
    <2>3. mux \in Seq(Tag)
        BY EmptySeq
    <2> QED BY <2>1, <2>2, <2>3, CliAssumption DEF TypeOK
<1>2. NotSpawned
    BY DEF NotSpawned, Alive
<1>3. OutDone /\ ErrDone /\ LinesFirst
    BY EmptyQueue DEF OutDone, ErrDone, LinesFirst
<1>4. LinesCounted
    BY EmptyQueue DEF LinesCounted, Stream
<1>5. LoopLeft /\ WarningsKept /\ HelpersAreOver /\ TimeoutKills /\ OrphanIsExplained
    BY DEF LoopLeft, WarningsKept, HelpersAreOver, TimeoutKills, OrphanIsExplained, Over
<1> QED BY <1>1, <1>2, <1>3, <1>4, <1>5 DEF CliInv

LEMMA CliInvStep == CliInv /\ [Next]_vars => CliInv'
<1> SUFFICES ASSUME CliInv, [Next]_vars PROVE CliInv'
    OBVIOUS
<1> USE DEF CliInv
<1>1. TypeOK' /\ NotSpawned'
    BY CliTypeStep, NotSpawnedStep
<1>2. OutDone' /\ ErrDone'
    BY OutDoneStep, ErrDoneStep
<1>3. LinesFirst' /\ LinesCounted'
    BY LinesFirstStep, LinesCountedStep
<1>4. LoopLeft' /\ WarningsKept'
    BY LoopLeftStep, WarningsKeptStep
<1>5. HelpersAreOver' /\ TimeoutKills' /\ OrphanIsExplained'
    BY HelpersAreOverStep, TimeoutKillsStep, OrphanIsExplainedStep
<1> QED BY <1>1, <1>2, <1>3, <1>4, <1>5

LEMMA CliCorrect == Spec => []CliInv
<1>1. Init => CliInv
    BY CliInvInit
<1>2. CliInv /\ [Next]_vars => CliInv'
    BY CliInvStep
<1> QED BY <1>1, <1>2, PTL DEF Spec

\* Whatever the size of the pipes and of the output and however the helper tasks are
\* scheduled, a run that ends by itself has given the caller every line of stdout and
\* every warning (the fan-in of stream_cli and the drain that follows it).
THEOREM AllOutputIsGiven == Spec => []OutputIsComplete
<1>1. ASSUME CliInv PROVE OutputIsComplete
    <2> USE <1>1 DEF CliInv
    <2>1. NothingLost
        <3> SUFFICES ASSUME phase \in {"report", "done"}, ~timedOut
                     PROVE  lines = wrote["out"] /\ warned = noted
            BY DEF NothingLost
        <3>1. doneWith = Stream /\ lines = wrote["out"]
            BY DEF LoopLeft
        <3>2. warned = noted
            BY <3>1 DEF WarningsKept, Stream
        <3> QED BY <3>1, <3>2
    <2>2. LateWarningsShown
        BY DEF LateWarningsShown, WarningsKept
    <2> QED BY <2>1, <2>2 DEF OutputIsComplete
<1> QED BY <1>1, CliCorrect, PTL

\* However a run ends, no helper task of it goes on, and its process does in two ways
\* only: the generator was closed at a yield, or the child closed its outputs and stayed
\* (_cleanup and the `finally` of stream_cli).
THEOREM NothingOutlivesTheRun == Spec => []NothingOutlives
<1>1. CliInv => NothingOutlives
    BY DEF CliInv, NothingOutlives, NoHelperOutlives, HelpersAreOver
<1> QED BY <1>1, CliCorrect, PTL
=============================================================================
