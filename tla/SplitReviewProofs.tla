--------------------------- MODULE SplitReviewProofs ---------------------------
(***************************************************************************)
(* Proofs about SplitReview, for every number of chunks, every width of    *)
(* the semaphore and every number of events.                               *)
(*                                                                         *)
(* What is left behind when the generator merges is a matter of what the   *)
(* queue holds: the sentinel of a chunk is the last of its items, so that  *)
(* once as many sentinels are taken as there are chunks the queue is empty *)
(* and every event has been passed on.  The lemmas of the first part say   *)
(* it of one operation on a queue at a time, those of the second part of   *)
(* the steps of the system.                                                *)
(*                                                                         *)
(* The parts after the contract are about what the generator computes: the *)
(* merge of findings, the packing of a diff and the rows around a finding. *)
(* Each is a fold, told by the accumulator after each of its steps; what   *)
(* holds of that is an induction over a set of numbers.                    *)
(***************************************************************************)
EXTENDS SplitReview, FiniteSetTheorems, SequenceTheorems, WellFoundedInduction, TLAPS

-----------------------------------------------------------------------------
(* Queues *)

\* How many events of a chunk a queue holds.
Queued(q, c) == Cardinality({i \in DOMAIN q : q[i] = Event(c)})

Within(c, s) == \E i \in DOMAIN s : s[i] = c

\* A chunk is done once its sentinel is in the queue or has been taken; nothing of the
\* chunk is behind its sentinel, nor in the queue once that is taken; and it is taken once.
Ordered(q, done, taken) ==
    /\ \A c \in Chunk : c \in done <=> Within(c, taken) \/ Within(Sentinel(c), q)
    /\ \A i, j \in DOMAIN q : q[i].sentinel /\ q[j].chunk = q[i].chunk => j <= i
    /\ \A i \in DOMAIN q, k \in DOMAIN taken : q[i].chunk # taken[k]
    /\ \A k, l \in DOMAIN taken : taken[k] = taken[l] => k = l

LEMMA ItemsAre ==
    ASSUME NEW c \in Chunk
    PROVE  /\ Event(c) \in Item /\ Sentinel(c) \in Item
           /\ Event(c).chunk = c /\ ~Event(c).sentinel
           /\ Sentinel(c).chunk = c /\ Sentinel(c).sentinel
BY DEF Event, Sentinel, Item

\* An item is the event or the sentinel of its chunk.
LEMMA ItemIs ==
    ASSUME NEW x \in Item
    PROVE  /\ x.chunk \in Chunk /\ x.sentinel \in BOOLEAN
           /\ x = IF x.sentinel THEN Sentinel(x.chunk) ELSE Event(x.chunk)
BY DEF Item, Event, Sentinel

LEMMA QueuedIsNat ==
    ASSUME NEW q \in Seq(Item), NEW c
    PROVE  /\ IsFiniteSet({i \in DOMAIN q : q[i] = Event(c)})
           /\ Queued(q, c) \in Nat
<1>1. Len(q) \in Nat /\ DOMAIN q = 1 .. Len(q)
    OBVIOUS
<1>2. IsFiniteSet(1 .. Len(q))
    BY <1>1, FS_Interval
<1> QED BY <1>1, <1>2, FS_Subset, FS_CardinalityType DEF Queued

LEMMA QueuedEmpty == \A c : Queued(<<>>, c) = 0
BY FS_EmptySet DEF Queued

\* What is put at the end of a queue counts once, if it is an event of the chunk.
LEMMA QueuedAppend ==
    ASSUME NEW q \in Seq(Item), NEW x \in Item, NEW c
    PROVE  Queued(Append(q, x), c) = Queued(q, c) + IF x = Event(c) THEN 1 ELSE 0
<1> DEFINE r == Append(q, x)
           S == {i \in DOMAIN q : q[i] = Event(c)}
           T == {i \in DOMAIN r : r[i] = Event(c)}
<1>1. /\ DOMAIN q = 1 .. Len(q) /\ Len(q) \in Nat
      /\ DOMAIN r = 1 .. Len(q) + 1
      /\ \A i \in 1 .. Len(q) : r[i] = q[i]
      /\ r[Len(q) + 1] = x
    BY AppendProperties
<1>2. Len(q) + 1 \notin S
    BY <1>1
<1>3. T = IF x = Event(c) THEN S \cup {Len(q) + 1} ELSE S
    BY <1>1
<1>4. IsFiniteSet(S) /\ Cardinality(S) \in Nat
    BY QueuedIsNat DEF Queued
<1>7. Queued(q, c) = Cardinality(S) /\ Queued(r, c) = Cardinality(T)
    BY DEF Queued
<1> HIDE DEF S, T, r
<1>5. CASE x = Event(c)
    <2>1. Cardinality(T) = Cardinality(S) + 1
        BY <1>2, <1>3, <1>4, <1>5, FS_AddElement
    <2> QED BY <1>5, <1>7, <2>1 DEF r
<1>6. CASE x # Event(c)
    <2>1. Cardinality(T) = Cardinality(S)
        BY <1>3, <1>6
    <2>2. Queued(r, c) = Queued(q, c) + 0
        BY <1>4, <1>7, <2>1
    <2> QED BY <1>6, <2>2 DEF r
<1> QED BY <1>5, <1>6

\* What is taken from the head of a queue no longer counts.
LEMMA QueuedTail ==
    ASSUME NEW q \in Seq(Item), q # <<>>, NEW c
    PROVE  Queued(q, c) = Queued(Tail(q), c) + IF Head(q) = Event(c) THEN 1 ELSE 0
<1> DEFINE r == Tail(q)
           S == {i \in DOMAIN r : r[i] = Event(c)}
           T == {i \in DOMAIN q : q[i] = Event(c)}
           f == [i \in S |-> i + 1]
<1>1. /\ Len(q) \in Nat \ {0} /\ DOMAIN q = 1 .. Len(q)
      /\ r \in Seq(Item) /\ DOMAIN r = 1 .. Len(q) - 1
      /\ \A i \in 1 .. Len(q) - 1 : r[i] = q[i + 1]
      /\ Head(q) = q[1]
    BY HeadTailProperties, EmptySeq
<1>2. S \subseteq Int /\ \A i \in S : i + 1 \in T \ {1}
    BY <1>1
<1>3. \A j \in T \ {1} : j \in Int /\ j - 1 \in S
    BY <1>1
<1>4. f \in Bijection(S, T \ {1})
    <2>1. f \in [S -> T \ {1}]
        BY <1>2
    <2>2. \A i, j \in S : f[i] = f[j] => i = j
        BY <1>2
    <2>3. ASSUME NEW j \in T \ {1}
          PROVE  \E i \in S : f[i] = j
        <3>1. j \in Int /\ j - 1 \in S
            BY <1>3
        <3>2. f[j - 1] = j
            BY <3>1
        <3> QED BY <3>1, <3>2
    <2> QED BY <2>1, <2>2, <2>3 DEF Bijection, Injection, Surjection, IsInjective
<1>5. ExistsBijection(S, T \ {1})
    BY <1>4 DEF ExistsBijection
<1>6. IsFiniteSet(S) /\ IsFiniteSet(T)
    BY <1>1, QueuedIsNat
<1>7. 1 \in T <=> Head(q) = Event(c)
    BY <1>1
<1> HIDE DEF S, T, f
<1>8. Cardinality(T \ {1}) = Cardinality(S)
    BY <1>5, <1>6, FS_Bijection
<1>9. Cardinality(T \ {1}) = IF 1 \in T THEN Cardinality(T) - 1 ELSE Cardinality(T)
    BY <1>6, FS_RemoveElement
<1>10. Cardinality(S) \in Nat /\ Cardinality(T) \in Nat
    BY <1>6, FS_CardinalityType
<1>11. Cardinality(T) = Cardinality(S) + IF Head(q) = Event(c) THEN 1 ELSE 0
    BY <1>7, <1>8, <1>9, <1>10
<1> QED BY <1>11 DEF Queued, S, T

\* An event may follow whatever its chunk has sent before it is done.
LEMMA OrderedEvent ==
    ASSUME NEW q \in Seq(Item), NEW done, NEW taken \in Seq(Chunk), NEW c \in Chunk,
           Ordered(q, done, taken), c \notin done
    PROVE  Ordered(Append(q, Event(c)), done, taken)
<1> DEFINE r == Append(q, Event(c))
           n == Len(q) + 1
<1>1. /\ n \in Nat /\ DOMAIN q = 1 .. n - 1
      /\ DOMAIN r = 1 .. n
      /\ \A i \in 1 .. n - 1 : r[i] = q[i] /\ q[i] \in Item
      /\ r[n] = Event(c)
    BY ItemsAre, AppendProperties
<1>2. ~Within(c, taken) /\ ~Within(Sentinel(c), q)
    BY DEF Ordered
<1>3. ASSUME NEW d \in Chunk
      PROVE  Within(Sentinel(d), r) <=> Within(Sentinel(d), q)
    <2>1. r[n] # Sentinel(d)
        BY <1>1, ItemsAre
    <2>2. \A i \in DOMAIN r : r[i] = Sentinel(d) => i \in DOMAIN q /\ q[i] = Sentinel(d)
        BY <1>1, <2>1
    <2>3. \A i \in DOMAIN q : i \in DOMAIN r /\ r[i] = q[i]
        BY <1>1
    <2> HIDE DEF r, n
    <2> QED BY <2>2, <2>3 DEF Within
<1>4. ASSUME NEW i \in DOMAIN r, NEW j \in DOMAIN r, r[i].sentinel, r[j].chunk = r[i].chunk
      PROVE  j <= i
    <2>1. i \in 1 .. n - 1
        BY <1>1, <1>4, ItemsAre
    <2>2. CASE j = n
        <3>1. q[i].sentinel /\ q[i].chunk = c /\ q[i] \in Item
            BY <1>1, <1>4, <2>1, <2>2, ItemsAre
        <3>2. q[i] = Sentinel(c)
            BY <3>1, ItemIs
        <3> QED BY <1>1, <1>2, <2>1, <3>2 DEF Within
    <2>3. CASE j \in 1 .. n - 1
        BY <1>1, <1>4, <2>1, <2>3 DEF Ordered
    <2> QED BY <1>1, <2>2, <2>3
<1>5. ASSUME NEW i \in DOMAIN r, NEW k \in DOMAIN taken
      PROVE  r[i].chunk # taken[k]
    BY <1>1, <1>2, ItemsAre DEF Ordered, Within
<1> HIDE DEF r, n
<1> QED BY <1>3, <1>4, <1>5 DEF Ordered, r

\* The sentinel comes last of all its chunk sends.
LEMMA OrderedSentinel ==
    ASSUME NEW q \in Seq(Item), NEW done, NEW taken \in Seq(Chunk), NEW c \in Chunk,
           Ordered(q, done, taken), c \notin done
    PROVE  Ordered(Append(q, Sentinel(c)), done \cup {c}, taken)
<1> DEFINE r == Append(q, Sentinel(c))
           n == Len(q) + 1
<1>1. /\ n \in Nat /\ DOMAIN q = 1 .. n - 1
      /\ DOMAIN r = 1 .. n
      /\ \A i \in 1 .. n - 1 : r[i] = q[i] /\ q[i] \in Item
      /\ r[n] = Sentinel(c)
    BY ItemsAre, AppendProperties
<1>2. ~Within(c, taken) /\ ~Within(Sentinel(c), q)
    BY DEF Ordered
<1>3. ASSUME NEW d \in Chunk
      PROVE  Within(Sentinel(d), r) <=> Within(Sentinel(d), q) \/ d = c
    <2>1. n \in DOMAIN r /\ (r[n] = Sentinel(d) <=> d = c)
        BY <1>1, ItemsAre
    <2>2. \A i \in DOMAIN r : i # n => i \in DOMAIN q /\ q[i] = r[i]
        BY <1>1
    <2>3. \A i \in DOMAIN q : i \in DOMAIN r /\ r[i] = q[i]
        BY <1>1
    <2> HIDE DEF r, n
    <2> QED BY <2>1, <2>2, <2>3 DEF Within
<1>4. ASSUME NEW i \in DOMAIN r, NEW j \in DOMAIN r, r[i].sentinel, r[j].chunk = r[i].chunk
      PROVE  j <= i
    <2>1. CASE i = n
        BY <1>1, <2>1
    <2>2. CASE i # n /\ j = n
        <3>1. q[i].sentinel /\ q[i].chunk = c /\ q[i] \in Item
            BY <1>1, <1>4, <2>2, ItemsAre
        <3>2. q[i] = Sentinel(c)
            BY <3>1, ItemIs
        <3> QED BY <1>1, <1>2, <2>2, <3>2 DEF Within
    <2>3. CASE i # n /\ j # n
        BY <1>1, <1>4, <2>3 DEF Ordered
    <2> QED BY <2>1, <2>2, <2>3
<1>5. ASSUME NEW i \in DOMAIN r, NEW k \in DOMAIN taken
      PROVE  r[i].chunk # taken[k]
    BY <1>1, <1>2, ItemsAre DEF Ordered, Within
<1> HIDE DEF r, n
<1> QED BY <1>3, <1>4, <1>5 DEF Ordered, r

\* Taking an event from the head disturbs nothing.
LEMMA OrderedTakeEvent ==
    ASSUME NEW q \in Seq(Item), NEW done, NEW taken \in Seq(Chunk),
           Ordered(q, done, taken), q # <<>>, ~Head(q).sentinel
    PROVE  Ordered(Tail(q), done, taken)
<1> DEFINE r == Tail(q)
           n == Len(q)
<1>1. /\ n \in Nat \ {0} /\ DOMAIN q = 1 .. n
      /\ DOMAIN r = 1 .. n - 1
      /\ \A i \in 1 .. n - 1 : r[i] = q[i + 1] /\ i + 1 \in 1 .. n
      /\ Head(q) = q[1]
    BY HeadTailProperties, EmptySeq
<1>2. ASSUME NEW d \in Chunk
      PROVE  Within(Sentinel(d), r) <=> Within(Sentinel(d), q)
    <2>1. ASSUME NEW i \in DOMAIN q, q[i] = Sentinel(d)
          PROVE  i - 1 \in DOMAIN r /\ r[i - 1] = Sentinel(d)
        <3>1. i # 1
            BY <1>1, <2>1, ItemsAre
        <3> QED BY <1>1, <2>1, <3>1
    <2>2. ASSUME NEW i \in DOMAIN r, r[i] = Sentinel(d)
          PROVE  i + 1 \in DOMAIN q /\ q[i + 1] = Sentinel(d)
        BY <1>1, <2>2
    <2> HIDE DEF r, n
    <2> QED BY <2>1, <2>2 DEF Within
<1>3. ASSUME NEW i \in DOMAIN r, NEW j \in DOMAIN r, r[i].sentinel, r[j].chunk = r[i].chunk
      PROVE  j <= i
    <2>1. j + 1 <= i + 1
        BY <1>1, <1>3 DEF Ordered
    <2> QED BY <1>1, <2>1
<1>4. ASSUME NEW i \in DOMAIN r, NEW k \in DOMAIN taken
      PROVE  r[i].chunk # taken[k]
    BY <1>1 DEF Ordered
<1> HIDE DEF r, n
<1> QED BY <1>2, <1>3, <1>4 DEF Ordered, r

\* Taking a sentinel leaves nothing of its chunk in the queue.
LEMMA OrderedTakeSentinel ==
    ASSUME NEW q \in Seq(Item), NEW done, NEW taken \in Seq(Chunk),
           Ordered(q, done, taken), q # <<>>, Head(q).sentinel
    PROVE  Ordered(Tail(q), done, Append(taken, Head(q).chunk))
<1> DEFINE r == Tail(q)
           n == Len(q)
           m == Len(taken) + 1
           e == Head(q).chunk
           t == Append(taken, e)
<1>1. /\ n \in Nat \ {0} /\ DOMAIN q = 1 .. n
      /\ DOMAIN r = 1 .. n - 1
      /\ \A i \in 1 .. n - 1 : r[i] = q[i + 1] /\ i + 1 \in 1 .. n
      /\ Head(q) = q[1]
    BY HeadTailProperties, EmptySeq
<1>2. /\ Head(q) \in Item /\ e \in Chunk
      /\ Head(q) = Sentinel(e)
    BY <1>1, ItemIs
<1>3. /\ m \in Nat /\ DOMAIN taken = 1 .. m - 1
      /\ DOMAIN t = 1 .. m
      /\ \A k \in 1 .. m - 1 : t[k] = taken[k]
      /\ t[m] = e
    BY <1>2, AppendProperties
<1>4. ASSUME NEW d \in Chunk
      PROVE  d \in done <=> Within(d, t) \/ Within(Sentinel(d), r)
    <2>1. Within(d, t) <=> Within(d, taken) \/ d = e
        BY <1>3 DEF Within
    <2>2. ASSUME NEW i \in DOMAIN q, q[i] = Sentinel(d), d # e
          PROVE  i - 1 \in DOMAIN r /\ r[i - 1] = Sentinel(d)
        <3>1. i # 1
            BY <1>1, <1>2, <2>2, ItemsAre
        <3> QED BY <1>1, <2>2, <3>1
    <2>3. ASSUME NEW i \in DOMAIN r, r[i] = Sentinel(d)
          PROVE  i + 1 \in DOMAIN q /\ q[i + 1] = Sentinel(d)
        BY <1>1, <2>3
    <2>4. Within(Sentinel(e), q)
        BY <1>1, <1>2 DEF Within
    <2>5. Within(Sentinel(d), r) => Within(Sentinel(d), q)
        BY <2>3 DEF Within
    <2>6. Within(Sentinel(d), q) /\ d # e => Within(Sentinel(d), r)
        BY <2>2 DEF Within
    <2> HIDE DEF r, n, m, e, t
    <2> QED BY <2>1, <2>4, <2>5, <2>6 DEF Ordered
<1>5. ASSUME NEW i \in DOMAIN r, NEW j \in DOMAIN r, r[i].sentinel, r[j].chunk = r[i].chunk
      PROVE  j <= i
    <2>1. j + 1 <= i + 1
        BY <1>1, <1>5 DEF Ordered
    <2> QED BY <1>1, <2>1
<1>6. ASSUME NEW i \in DOMAIN r, NEW k \in DOMAIN t
      PROVE  r[i].chunk # t[k]
    <2>1. CASE k = m
        <3>1. SUFFICES ASSUME r[i].chunk = e PROVE FALSE
            BY <1>3, <2>1
        <3>2. i + 1 <= 1
            BY <1>1, <1>2, <3>1 DEF Ordered
        <3> QED BY <1>1, <3>2
    <2>2. CASE k # m
        BY <1>1, <1>3, <2>2 DEF Ordered
    <2> QED BY <2>1, <2>2
<1>7. ASSUME NEW k \in DOMAIN t, NEW l \in DOMAIN t, t[k] = t[l]
      PROVE  k = l
    <2>1. \A x \in 1 .. m - 1 : taken[x] # e
        BY <1>1, <1>3 DEF Ordered
    <2> QED BY <1>3, <1>7, <2>1 DEF Ordered
<1> HIDE DEF r, n, m, e, t
<1> QED BY <1>4, <1>5, <1>6, <1>7 DEF Ordered, r, t, e

\* Once as many sentinels are taken as there are chunks, every chunk is done and
\* nothing is in the queue.
LEMMA AllTaken ==
    ASSUME NEW q \in Seq(Item), NEW done, NEW taken \in Seq(Chunk),
           Ordered(q, done, taken), Len(taken) = NChunks
    PROVE  /\ \A c \in Chunk : Within(c, taken)
           /\ \A c \in Chunk : c \in done
           /\ q = <<>>
<1>1. NChunks \in Nat /\ DOMAIN taken = Chunk
    BY SplitAssumption DEF Chunk
<1>2. IsFiniteSet(Chunk)
    BY <1>1, FS_Interval DEF Chunk
<1>3. taken \in Injection(Chunk, Chunk)
    BY <1>1 DEF Ordered, Injection, IsInjective
<1>4. taken \in Surjection(Chunk, Chunk)
    BY <1>2, <1>3, FS_Injection
<1>5. \A c \in Chunk : Within(c, taken)
    BY <1>1, <1>4 DEF Surjection, Within
<1>7. \A c \in Chunk : c \in done
    BY <1>5 DEF Ordered
<1>8. \A i \in DOMAIN q : FALSE
    <2> SUFFICES ASSUME NEW i \in DOMAIN q PROVE FALSE
        OBVIOUS
    <2>1. q[i] \in Item
        OBVIOUS
    <2>2. Within(q[i].chunk, taken)
        BY <1>5, <2>1, ItemIs
    <2> QED BY <2>2 DEF Ordered, Within
<1>9. Len(q) = 0
    BY <1>8
<1> QED BY <1>5, <1>7, <1>9, EmptySeq

-----------------------------------------------------------------------------
(* The inductive invariant *)

Running == {c \in Chunk : pc[c] = "running"}
Ended == {c \in Chunk : pc[c] = "ended"}

\* Every permit is with the semaphore or with a running call.
PermitsHeld == permits + Cardinality(Running) = MaxConcurrency

\* Until a diff is split there is nothing to wait for.
NothingBegun ==
    phase \in {"start", "single", "unanswered", "split"} =>
        queue = <<>> /\ results = <<>> /\ \A c \in Chunk : pc[c] = "absent" /\ reply[c] = "none"

\* A chunk has a reply when its task is over, and then it has the call's.
RepliesAreCalls ==
    /\ \A c \in Chunk : Active(c) => reply[c] = "none"
    /\ phase = "collect" => \A c \in Chunk : reply[c] \in {"none", "review", "error"}

\* Tasks live while the generator collects, or until it has closed them.
TasksAreOver ==
    phase \notin {"collect", "abandoned", "closing"} \/ saved # {} =>
        \A c \in Chunk : ~Active(c)

Attended == phase \notin {"abandoned", "closing", "closed"}

\* As long as the generator is there, no task is cancelled, the queue is in order and
\* each event sent is in the queue or has been passed on.
QueueInOrder ==
    Attended => /\ cancelled = {}
                /\ Ordered(queue, Ended, results)
                /\ \A c \in Chunk : emitted[c] = received[c] + Queued(queue, c)

\* It collects until it has taken the sentinels of all chunks, if there are any.
ResultsAreCounted ==
    /\ phase = "collect" => Len(results) < NChunks
    /\ phase \in {"merge", "synthesis"} => Len(results) = NChunks
    /\ phase \in {"final", "result", "updated", "done", "failed"} =>
            results = <<>> \/ Len(results) = NChunks

\* What goes into the review to be saved.
MergedIsExact ==
    /\ phase \in {"start", "single", "unanswered"} => merged = {}
    /\ phase = "synthesis" \/ (phase \in {"final", "unanswered"} /\ answer # "usable") =>
            merged = Succeeded
    /\ phase \in {"final", "unanswered"} => merged \subseteq Succeeded

\* The failures that are counted are all there are, unless nothing was asked.
FailuresAreMissing ==
    phase \in {"merge", "synthesis", "final"} => Unsplit \/ Failures = Missing

\* Nothing is saved before the end.
SavedAtTheEnd ==
    phase \in {"start", "single", "unanswered", "split", "collect", "merge", "synthesis", "final"} =>
        saved = {}

SplitInv ==
    /\ TypeOK /\ PermitsHeld /\ NothingBegun /\ TasksAreOver /\ QueueInOrder
    /\ ResultsAreCounted /\ RepliesAreCalls /\ MergedIsExact /\ FailuresAreMissing
    /\ SavedAtTheEnd /\ SavedIsExact

-----------------------------------------------------------------------------
(* What a step leaves alone *)

\* The call for a diff that fits in one, and its outcomes.
Single == SingleResult \/ SingleFails \/ SingleEnds \/ EndUnanswered

LEMMA ChunkIsFinite == IsFiniteSet(Chunk)
BY SplitAssumption, FS_Interval DEF Chunk

\* The generator, or the caller, leaves the tasks alone.
LEMMA GeneratorFrame ==
    ASSUME GeneratorStep \/ Disconnect \/ UNCHANGED vars
    PROVE  /\ UNCHANGED <<permits, emitted>>
           /\ AllIgnored \/ SplitOfNothing \/ SingleResult \/ UNCHANGED reply
           /\ CreateTasks \/ UNCHANGED pc
           /\ Close \/ UNCHANGED cancelled
           /\ TakeEvent \/ TakeSentinel \/ UNCHANGED queue
           /\ TakeEvent \/ UNCHANGED received
           /\ TakeSentinel \/ UNCHANGED results
           /\ SingleResult \/ Merge \/ Synthesize \/ UNCHANGED merged
           /\ Synthesize \/ UNCHANGED answer
           /\ Finalize \/ FinalizeIncremental \/ UNCHANGED saved
<1> USE DEF taskVars, mergeVars
<1>1. CASE AllIgnored \/ SplitOfNothing \/ Route \/ Single \/ CreateTasks
    BY <1>1 DEF AllIgnored, SplitOfNothing, Route, Single,
                SingleResult, SingleFails, SingleEnds, EndUnanswered, CreateTasks
<1>2. CASE TakeEvent \/ TakeSentinel
    BY <1>2 DEF TakeEvent, TakeSentinel
<1>3. CASE Merge \/ Synthesize
    BY <1>3 DEF Merge, Synthesize
<1>4. CASE Finalize \/ FinalizeIncremental \/ FinalizeFails \/ Deliver
    BY <1>4 DEF Finalize, FinalizeIncremental, FinalizeFails, Deliver
<1>5. CASE Close \/ Closed \/ Disconnect \/ UNCHANGED vars
    BY <1>5 DEF Close, Closed, Disconnect, vars
<1> QED BY <1>1, <1>2, <1>3, <1>4, <1>5 DEF GeneratorStep, Single

\* A task that takes a step is alive, and leaves the generator alone.
LEMMA TaskFrame ==
    ASSUME NEW c \in Chunk, TaskStep(c)
    PROVE  /\ Active(c)
           /\ UNCHANGED <<phase, cancelled, mergeVars>>
BY DEF TaskStep, Start, Emit, Finish, Unwind, Active

LEMMA StepCases ==
    ASSUME [Next]_vars
    PROVE  \/ GeneratorStep \/ Disconnect \/ UNCHANGED vars
           \/ \E c \in Chunk : TaskStep(c)
BY DEF Next

\* What is put in the queue, one item at a time.
LEMMA PutIs ==
    ASSUME TypeOK, NEW c \in Chunk
    PROVE  /\ Put(c, <<Event(c)>>) =>
                /\ queue' = Append(queue, Event(c))
                /\ emitted' = [emitted EXCEPT ![c] = @ + 1]
           /\ Put(c, <<Sentinel(c)>>) =>
                /\ queue' = Append(queue, Sentinel(c))
                /\ emitted' = emitted
           /\ Put(c, <<Event(c), Sentinel(c)>>) =>
                /\ queue' = Append(Append(queue, Event(c)), Sentinel(c))
                /\ emitted' = [emitted EXCEPT ![c] = @ + 1]
<1>1. /\ queue \in Seq(Item) /\ emitted \in [Chunk -> Nat]
      /\ Event(c) \in Item /\ Sentinel(c) \in Item
    BY ItemsAre DEF TypeOK
<1>2. /\ queue \o <<Event(c)>> = Append(queue, Event(c))
      /\ queue \o <<Sentinel(c)>> = Append(queue, Sentinel(c))
    BY <1>1, AppendIsConcat
<1>3. queue \o <<Event(c), Sentinel(c)>> = Append(Append(queue, Event(c)), Sentinel(c))
    BY <1>1
<1>4. {i \in DOMAIN <<Event(c)>> : ~<<Event(c)>>[i].sentinel} = {1}
    BY ItemsAre
<1>5. {i \in DOMAIN <<Sentinel(c)>> : ~<<Sentinel(c)>>[i].sentinel} = {}
    BY ItemsAre
<1>6. {i \in DOMAIN <<Event(c), Sentinel(c)>> : ~<<Event(c), Sentinel(c)>>[i].sentinel} = {1}
    BY ItemsAre
<1>7. Cardinality({1}) = 1 /\ Cardinality({}) = 0
    BY FS_Singleton, FS_EmptySet
<1>8. [emitted EXCEPT ![c] = @ + 0] = emitted
    BY <1>1
<1> QED BY <1>2, <1>3, <1>4, <1>5, <1>6, <1>7, <1>8 DEF Put

-----------------------------------------------------------------------------
(* Types and permits *)

\* A permit is taken by a call that starts and given back by one that ends or is
\* cancelled, so that the cap holds for calls and not only for the counter.
LEMMA PermitsStep ==
    ASSUME TypeOK, PermitsHeld, NothingBegun, [Next]_vars
    PROVE  permits' \in 0 .. MaxConcurrency /\ PermitsHeld'
<1>0. IsFiniteSet(Running) /\ IsFiniteSet(Running')
    BY ChunkIsFinite, FS_Subset DEF Running
<1>1. Cardinality(Running) \in Nat /\ Cardinality(Running') \in Nat
    BY <1>0, FS_CardinalityType
<1>2. permits \in Nat /\ MaxConcurrency \in Nat /\ pc \in [Chunk -> {"absent", "waiting", "running", "ended"}]
    BY SplitAssumption DEF TypeOK
<1> DEFINE Conserved == permits' + Cardinality(Running') = permits + Cardinality(Running) /\ permits' \in Nat
<1>3. ASSUME UNCHANGED permits, Running' = Running
      PROVE  Conserved
    BY <1>2, <1>3
<1>5. ASSUME GeneratorStep \/ Disconnect \/ UNCHANGED vars
      PROVE  Conserved
    <2>1. CASE UNCHANGED <<permits, pc>>
        <3>1. Running' = Running
            BY <2>1 DEF Running
        <3> QED BY <1>3, <2>1, <3>1
    <2>2. CASE CreateTasks
        <3>1. Running = {} /\ Running' = {}
            BY <2>2 DEF CreateTasks, Running, NothingBegun
        <3>2. UNCHANGED permits
            BY <1>5, GeneratorFrame
        <3> QED BY <1>3, <3>1, <3>2
    <2> QED BY <1>5, <2>1, <2>2, GeneratorFrame
<1>6. ASSUME NEW c \in Chunk, TaskStep(c)
      PROVE  Conserved
    <2>1. CASE Start(c)
        <3>1. permits' = permits - 1 /\ c \notin Running /\ Running' = Running \cup {c}
            BY <1>2, <2>1 DEF Start, Running
        <3>2. Cardinality(Running') = Cardinality(Running) + 1
            BY <1>0, <3>1, FS_AddElement
        <3>3. permits \in Nat \ {0}
            BY <1>2, <2>1 DEF Start
        <3> QED BY <1>1, <3>1, <3>2, <3>3
    <2>2. CASE Emit(c)
        BY <1>3, <2>2 DEF Emit, Running
    <2>3. CASE Finish(c) \/ (Unwind(c) /\ pc[c] = "running")
        <3>1. permits' = permits + 1 /\ c \in Running /\ Running' = Running \ {c}
            BY <1>2, <2>3 DEF Finish, Unwind, Running
        <3>2. Cardinality(Running') = Cardinality(Running) - 1
            BY <1>0, <3>1, FS_RemoveElement
        <3> QED BY <1>1, <1>2, <3>1, <3>2
    <2>4. CASE Unwind(c) /\ pc[c] # "running"
        BY <1>2, <1>3, <2>4 DEF Unwind, Running
    <2> QED BY <1>6, <2>1, <2>2, <2>3, <2>4 DEF TaskStep
<1>7. Conserved
    BY <1>5, <1>6, StepCases
<1>8. permits' + Cardinality(Running') = MaxConcurrency
    BY <1>1, <1>2, <1>7 DEF PermitsHeld
<1> QED BY <1>1, <1>2, <1>7, <1>8 DEF PermitsHeld

LEMMA FailuresAreFew ==
    ASSUME TypeOK
    PROVE  Failures \subseteq Chunk /\ Cardinality(Failures) \in 0 .. Cardinality(Chunk)
<1>1. Failures \subseteq Chunk
    BY DEF Failures, TypeOK
<1>2. IsFiniteSet(Failures) /\ Cardinality(Failures) <= Cardinality(Chunk)
    BY <1>1, ChunkIsFinite, FS_Subset
<1> QED BY <1>1, <1>2, ChunkIsFinite, FS_CardinalityType

LEMMA TypeStep ==
    ASSUME TypeOK, PermitsHeld, NothingBegun, [Next]_vars
    PROVE  TypeOK'
<1>1. permits' \in 0 .. MaxConcurrency
    BY PermitsStep
<1>2. CASE GeneratorStep \/ Disconnect \/ UNCHANGED vars
    <2>1. /\ reply' \in [Chunk -> Replies]
          /\ emitted' \in [Chunk -> Nat]
        BY <1>2, GeneratorFrame DEF TypeOK, Replies, AllIgnored, SplitOfNothing, SingleResult
    <2>2. pc' \in [Chunk -> {"absent", "waiting", "running", "ended"}]
        BY <1>2, GeneratorFrame DEF TypeOK, CreateTasks
    <2>3. cancelled' \subseteq Chunk
        BY <1>2, GeneratorFrame DEF TypeOK, Close
    <2>4. queue' \in Seq(Item)
        <3>1. CASE TakeEvent \/ TakeSentinel
            <4>1. queue # <<>> /\ queue' = Tail(queue) /\ queue \in Seq(Item)
                BY <3>1 DEF TypeOK, TakeEvent, TakeSentinel
            <4> QED BY <4>1, HeadTailProperties
        <3> QED BY <1>2, <3>1, GeneratorFrame DEF TypeOK
    <2>5. received' \in [Chunk -> Nat]
        BY <1>2, GeneratorFrame DEF TypeOK, TakeEvent
    <2>6. results' \in Seq(Chunk)
        <3>1. CASE TakeSentinel
            <4>1. Head(queue).chunk \in Chunk
                BY <3>1, HeadTailProperties, ItemIs DEF TypeOK, TakeSentinel
            <4> QED BY <3>1, <4>1, AppendProperties DEF TypeOK, TakeSentinel
        <3> QED BY <1>2, <3>1, GeneratorFrame DEF TypeOK
    <2>7. merged' \subseteq Chunk
        BY <1>2, GeneratorFrame DEF TypeOK, SingleResult, Merge, Synthesize, Succeeded
    <2>8. answer' \in Fallback \cup {"none", "usable"}
        BY <1>2, GeneratorFrame DEF TypeOK, Synthesize
    <2>9. saved' \subseteq [reviewed : SUBSET Chunk, failed : Nat, scope : Scopes]
        <3>1. Saved \in [reviewed : SUBSET Chunk, failed : Nat, scope : Scopes]
            <4>1. Cardinality(Failures) \in Nat
                BY FailuresAreFew
            <4> QED BY <4>1 DEF Saved, TypeOK, Scopes
        <3>2. [Saved EXCEPT !.failed = 0, !.scope = "changed"]
                    \in [reviewed : SUBSET Chunk, failed : Nat, scope : Scopes]
            BY <3>1 DEF Scopes
        <3> QED BY <1>2, <3>1, <3>2, GeneratorFrame DEF TypeOK, Finalize, FinalizeIncremental
    <2>10. phase' \in Phases
        <3>1. CASE AllIgnored \/ SplitOfNothing \/ Route \/ Single \/ CreateTasks
            BY <3>1 DEF Phases, Suspended, AllIgnored, SplitOfNothing, Route, Single,
                SingleResult, SingleFails, SingleEnds, EndUnanswered, CreateTasks
        <3>2. CASE TakeEvent \/ TakeSentinel
            BY <3>2 DEF Phases, Suspended, TakeEvent, TakeSentinel, TypeOK
        <3>3. CASE Merge \/ Synthesize
            BY <3>3 DEF Phases, Suspended, Merge, Synthesize
        <3>4. CASE Finalize \/ FinalizeIncremental \/ FinalizeFails \/ Deliver
            BY <3>4 DEF Phases, Suspended, Finalize, FinalizeIncremental, FinalizeFails, Deliver
        <3>5. CASE Close \/ Closed \/ Disconnect \/ UNCHANGED vars
            BY <3>5 DEF Phases, Suspended, Close, Closed, Disconnect, vars, TypeOK
        <3> QED BY <1>2, <3>1, <3>2, <3>3, <3>4, <3>5 DEF GeneratorStep, Single
    <2> QED BY <1>1, <2>1, <2>2, <2>3, <2>4, <2>5, <2>6, <2>7, <2>8, <2>9, <2>10 DEF TypeOK
<1>3. ASSUME NEW c \in Chunk, TaskStep(c)
      PROVE  TypeOK'
    <2>1. /\ pc' \in [Chunk -> {"absent", "waiting", "running", "ended"}]
          /\ reply' \in [Chunk -> Replies]
        BY <1>3 DEF TypeOK, Replies, TaskStep, Start, Emit, Finish, Unwind
    <2>2. \/ Put(c, <<Event(c)>>) \/ Put(c, <<Sentinel(c)>>) \/ Put(c, <<Event(c), Sentinel(c)>>)
          \/ UNCHANGED <<queue, emitted>>
        BY <1>3 DEF TaskStep, Start, Emit, Finish, Unwind
    <2>3. queue' \in Seq(Item) /\ emitted' \in [Chunk -> Nat]
        <3>1. /\ Append(queue, Event(c)) \in Seq(Item)
              /\ Append(queue, Sentinel(c)) \in Seq(Item)
              /\ Append(Append(queue, Event(c)), Sentinel(c)) \in Seq(Item)
            BY ItemsAre, AppendProperties DEF TypeOK
        <3>2. [emitted EXCEPT ![c] = @ + 1] \in [Chunk -> Nat]
            BY DEF TypeOK
        <3> QED BY <2>2, <3>1, <3>2, PutIs DEF TypeOK
    <2> QED BY <1>1, <1>3, <2>1, <2>3, TaskFrame DEF TypeOK, mergeVars
<1> QED BY <1>2, <1>3, StepCases

-----------------------------------------------------------------------------
(* The queue *)

LEMMA NothingBegunStep ==
    ASSUME NothingBegun, [Next]_vars
    PROVE  NothingBegun'
<1>1. CASE GeneratorStep \/ Disconnect \/ UNCHANGED vars
    <2> SUFFICES ASSUME phase' \in {"start", "single", "unanswered", "split"}
                 PROVE  /\ phase \in {"start", "single", "unanswered", "split"}
                        /\ UNCHANGED <<queue, results, pc, reply>>
        BY DEF NothingBegun
    <2> USE DEF taskVars, mergeVars
    <2>1. CASE AllIgnored \/ SplitOfNothing \/ Route \/ Single \/ CreateTasks
        BY <2>1 DEF AllIgnored, SplitOfNothing, Route, Single,
                SingleResult, SingleFails, SingleEnds, EndUnanswered, CreateTasks
    <2>2. CASE TakeEvent \/ TakeSentinel
        BY <2>2 DEF TakeEvent, TakeSentinel
    <2>3. CASE Merge \/ Synthesize
        BY <2>3 DEF Merge, Synthesize
    <2>4. CASE Finalize \/ FinalizeIncremental \/ FinalizeFails \/ Deliver
        BY <2>4 DEF Finalize, FinalizeIncremental, FinalizeFails, Deliver
    <2>5. CASE Close \/ Closed \/ Disconnect \/ UNCHANGED vars
        BY <2>5 DEF Close, Closed, Disconnect, vars
    <2> QED BY <1>1, <2>1, <2>2, <2>3, <2>4, <2>5 DEF GeneratorStep, Single
<1>2. ASSUME NEW c \in Chunk, TaskStep(c)
      PROVE  NothingBegun'
    <2>1. pc[c] # "absent" /\ phase' = phase
        BY <1>2, TaskFrame DEF Active
    <2> QED BY <2>1 DEF NothingBegun
<1> QED BY <1>1, <1>2, StepCases

\* As long as nothing is cancelled a task that takes a step sends an event, or its
\* sentinel and is done, or one after the other.
LEMMA TaskSends ==
    ASSUME TypeOK, NEW c \in Chunk, TaskStep(c), cancelled = {}
    PROVE  /\ c \notin Ended
           /\ \/ /\ Ended' = Ended
                 /\ queue' = Append(queue, Event(c))
                 /\ emitted' = [emitted EXCEPT ![c] = @ + 1]
              \/ /\ Ended' = Ended \cup {c}
                 /\ queue' = Append(queue, Sentinel(c))
                 /\ emitted' = emitted
              \/ /\ Ended' = Ended \cup {c}
                 /\ queue' = Append(Append(queue, Event(c)), Sentinel(c))
                 /\ emitted' = [emitted EXCEPT ![c] = @ + 1]
<1>1. c \notin Ended
    BY TaskFrame DEF Active, Ended
<1>2. CASE Start(c) \/ Emit(c)
    <2>1. Put(c, <<Event(c)>>)
        BY <1>2 DEF Start, Emit
    <2>2. Ended' = Ended
        BY <1>2 DEF Start, Emit, Ended, TypeOK
    <2> QED BY <1>1, <2>1, <2>2, PutIs
<1>3. CASE Finish(c)
    <2>1. Put(c, <<Event(c), Sentinel(c)>>) \/ Put(c, <<Sentinel(c)>>)
        BY <1>3 DEF Finish
    <2>2. Ended' = Ended \cup {c}
        BY <1>3 DEF Finish, Ended, TypeOK
    <2> QED BY <1>1, <2>1, <2>2, PutIs
<1>4. ~Unwind(c)
    BY DEF Unwind
<1> QED BY <1>2, <1>3, <1>4 DEF TaskStep

LEMMA QueueInOrderStep ==
    ASSUME TypeOK, NothingBegun, QueueInOrder, [Next]_vars
    PROVE  QueueInOrder'
<1> DEFINE Kept ==
        /\ Ordered(queue', Ended', results')
        /\ \A c \in Chunk : emitted'[c] = received'[c] + Queued(queue', c)
<1>1. /\ queue \in Seq(Item) /\ results \in Seq(Chunk)
      /\ emitted \in [Chunk -> Nat] /\ received \in [Chunk -> Nat]
      /\ \A c \in Chunk : Queued(queue, c) \in Nat
    BY QueuedIsNat DEF TypeOK
<1>2. CASE GeneratorStep \/ Disconnect \/ UNCHANGED vars
    <2> SUFFICES ASSUME Attended' PROVE cancelled' = {} /\ Kept
        BY DEF QueueInOrder
    <2> HIDE DEF Kept
    <2>1. Attended /\ ~Close
        <3> USE DEF Attended
        <3>1. CASE AllIgnored \/ SplitOfNothing \/ Route \/ Single \/ CreateTasks
            BY <3>1 DEF AllIgnored, SplitOfNothing, Route, Single,
                SingleResult, SingleFails, SingleEnds, EndUnanswered, CreateTasks, Close
        <3>2. CASE TakeEvent \/ TakeSentinel
            BY <3>2 DEF TakeEvent, TakeSentinel, Close
        <3>3. CASE Merge \/ Synthesize
            BY <3>3 DEF Merge, Synthesize, Close
        <3>4. CASE Finalize \/ FinalizeIncremental \/ FinalizeFails \/ Deliver
            BY <3>4 DEF Finalize, FinalizeIncremental, FinalizeFails, Deliver, Close
        <3>5. CASE Close \/ Closed \/ Disconnect \/ UNCHANGED vars
            BY <3>5 DEF Close, Closed, Disconnect, vars
        <3> QED BY <1>2, <3>1, <3>2, <3>3, <3>4, <3>5 DEF GeneratorStep, Single
    <2>2. /\ cancelled = {} /\ cancelled' = {}
          /\ Ordered(queue, Ended, results)
          /\ \A c \in Chunk : emitted[c] = received[c] + Queued(queue, c)
        BY <1>2, <2>1, GeneratorFrame DEF QueueInOrder
    <2>3. CASE TakeEvent
        <3>1. /\ queue # <<>> /\ ~Head(queue).sentinel /\ queue' = Tail(queue)
              /\ received' = [received EXCEPT ![Head(queue).chunk] = @ + 1]
              /\ UNCHANGED <<pc, emitted, results>>
            BY <2>3 DEF TakeEvent
        <3>2. Ended' = Ended
            BY <3>1 DEF Ended
        <3>3. Ordered(queue', Ended', results')
            BY <1>1, <2>2, <3>1, <3>2, OrderedTakeEvent
        <3>4. Head(queue) = Event(Head(queue).chunk) /\ Head(queue).chunk \in Chunk
            BY <1>1, <3>1, HeadTailProperties, ItemIs
        <3>5. ASSUME NEW c \in Chunk
              PROVE  emitted'[c] = received'[c] + Queued(queue', c)
            <4>1. Queued(queue, c) = Queued(queue', c) + IF Head(queue) = Event(c) THEN 1 ELSE 0
                BY <1>1, <3>1, QueuedTail
            <4>2. Head(queue) = Event(c) <=> c = Head(queue).chunk
                BY <3>4, ItemsAre
            <4>3. received'[c] = received[c] + IF c = Head(queue).chunk THEN 1 ELSE 0
                BY <1>1, <3>1, <3>4
            <4>4. Tail(queue) \in Seq(Item)
                BY <1>1, <3>1, HeadTailProperties
            <4>5. Queued(queue', c) \in Nat /\ received[c] \in Nat
                BY <1>1, <3>1, <4>4, QueuedIsNat
            <4>6. emitted'[c] = received[c] + Queued(queue, c)
                BY <2>2, <3>1
            <4> QED BY <4>1, <4>2, <4>3, <4>5, <4>6
        <3> QED BY <2>2, <3>3, <3>5 DEF Kept
    <2>4. CASE TakeSentinel
        <3>1. /\ queue # <<>> /\ Head(queue).sentinel /\ queue' = Tail(queue)
              /\ results' = Append(results, Head(queue).chunk)
              /\ UNCHANGED <<pc, emitted, received>>
            BY <2>4 DEF TakeSentinel
        <3>2. Ended' = Ended
            BY <3>1 DEF Ended
        <3>3. Ordered(queue', Ended', results')
            BY <1>1, <2>2, <3>1, <3>2, OrderedTakeSentinel
        <3>4. ASSUME NEW c \in Chunk
              PROVE  emitted'[c] = received'[c] + Queued(queue', c)
            <4>1. Queued(queue, c) = Queued(queue', c) + IF Head(queue) = Event(c) THEN 1 ELSE 0
                BY <1>1, <3>1, QueuedTail
            <4>2. Head(queue) # Event(c)
                BY <3>1, ItemsAre
            <4>3. Tail(queue) \in Seq(Item)
                BY <1>1, <3>1, HeadTailProperties
            <4>4. Queued(queue', c) \in Nat
                BY <3>1, <4>3, QueuedIsNat
            <4> QED BY <2>2, <3>1, <4>1, <4>2, <4>4
        <3> QED BY <2>2, <3>3, <3>4 DEF Kept
    <2>5. CASE UNCHANGED <<queue, results, received>>
        <3>1. Ended' = Ended
            <4>1. CASE CreateTasks
                BY <4>1 DEF CreateTasks, NothingBegun, Ended
            <4>2. CASE UNCHANGED pc
                BY <4>2 DEF Ended
            <4> QED BY <1>2, <4>1, <4>2, GeneratorFrame
        <3>2. UNCHANGED emitted
            BY <1>2, GeneratorFrame
        <3> QED BY <2>2, <2>5, <3>1, <3>2 DEF Kept
    <2> QED BY <1>2, <2>3, <2>4, <2>5, GeneratorFrame
<1>3. ASSUME NEW c \in Chunk, TaskStep(c)
      PROVE  QueueInOrder'
    <2> SUFFICES ASSUME Attended' PROVE cancelled' = {} /\ Kept
        BY DEF QueueInOrder
    <2>1. Attended /\ UNCHANGED <<cancelled, received, results>>
        BY <1>3, TaskFrame DEF Attended, mergeVars
    <2>2. /\ cancelled = {} /\ cancelled' = {}
          /\ Ordered(queue, Ended, results)
          /\ \A d \in Chunk : emitted[d] = received[d] + Queued(queue, d)
        BY <2>1 DEF QueueInOrder
    <2> DEFINE sent == Append(queue, Event(c))
    <2>3. c \notin Ended
        BY <1>3, <2>2, TaskSends
    <2>4. /\ sent \in Seq(Item) /\ Event(c) \in Item /\ Sentinel(c) \in Item
          /\ Ordered(sent, Ended, results)
          /\ Ordered(Append(sent, Sentinel(c)), Ended \cup {c}, results)
          /\ Ordered(Append(queue, Sentinel(c)), Ended \cup {c}, results)
        <3>1. sent \in Seq(Item) /\ Event(c) \in Item /\ Sentinel(c) \in Item
            BY <1>1, ItemsAre, AppendProperties
        <3>2. Ordered(sent, Ended, results)
            BY <1>1, <2>2, <2>3, OrderedEvent
        <3> HIDE DEF sent
        <3> QED BY <1>1, <2>2, <2>3, <3>1, <3>2, OrderedSentinel
    <2>5. ASSUME NEW d \in Chunk
          PROVE  /\ Queued(sent, d) = Queued(queue, d) + IF d = c THEN 1 ELSE 0
                 /\ Queued(Append(sent, Sentinel(c)), d) = Queued(sent, d) + 0
                 /\ Queued(Append(queue, Sentinel(c)), d) = Queued(queue, d) + 0
        <3>1. Event(c) = Event(d) <=> d = c
            BY ItemsAre
        <3>2. Sentinel(c) # Event(d)
            BY ItemsAre
        <3>3. Queued(sent, d) = Queued(queue, d) + IF d = c THEN 1 ELSE 0
            BY <1>1, <2>4, <3>1, QueuedAppend
        <3> HIDE DEF sent
        <3> QED BY <1>1, <2>4, <3>2, <3>3, QueuedAppend
    <2>6. ASSUME NEW d \in Chunk
          PROVE  [emitted EXCEPT ![c] = @ + 1][d] = emitted[d] + IF d = c THEN 1 ELSE 0
        BY <1>1
    <2> HIDE DEF sent, Kept
    <2>7. CASE Ended' = Ended /\ queue' = sent /\ emitted' = [emitted EXCEPT ![c] = @ + 1]
        <3>1. ASSUME NEW d \in Chunk
              PROVE  emitted'[d] = received'[d] + Queued(queue', d)
            <4>1. /\ emitted'[d] = emitted[d] + IF d = c THEN 1 ELSE 0
                  /\ emitted[d] = received[d] + Queued(queue, d)
                  /\ received'[d] = received[d]
                BY <2>1, <2>2, <2>6, <2>7
            <4>2. Queued(queue', d) = Queued(queue, d) + IF d = c THEN 1 ELSE 0
                BY <1>1, <2>5, <2>7
            <4>3. received[d] \in Nat /\ Queued(queue, d) \in Nat
                BY <1>1
            <4> QED BY <4>1, <4>2, <4>3
        <3> QED BY <2>1, <2>2, <2>4, <2>7, <3>1 DEF Kept
    <2>8. CASE /\ Ended' = Ended \cup {c}
               /\ queue' = Append(queue, Sentinel(c)) /\ emitted' = emitted
        <3>1. \A d \in Chunk : emitted'[d] = received'[d] + Queued(queue', d)
            BY <1>1, <2>1, <2>2, <2>5, <2>8
        <3> QED BY <2>1, <2>2, <2>4, <2>8, <3>1 DEF Kept
    <2>9. CASE /\ Ended' = Ended \cup {c}
               /\ queue' = Append(sent, Sentinel(c)) /\ emitted' = [emitted EXCEPT ![c] = @ + 1]
        <3>1. ASSUME NEW d \in Chunk
              PROVE  emitted'[d] = received'[d] + Queued(queue', d)
            <4>1. /\ emitted'[d] = emitted[d] + IF d = c THEN 1 ELSE 0
                  /\ emitted[d] = received[d] + Queued(queue, d)
                  /\ received'[d] = received[d]
                BY <2>1, <2>2, <2>6, <2>9
            <4>2. Queued(queue', d) = Queued(queue, d) + IF d = c THEN 1 ELSE 0
                BY <1>1, <2>5, <2>9
            <4>3. received[d] \in Nat /\ Queued(queue, d) \in Nat
                BY <1>1
            <4> QED BY <4>1, <4>2, <4>3
        <3> QED BY <2>1, <2>2, <2>4, <2>9, <3>1 DEF Kept
    <2> QED BY <1>3, <2>2, <2>7, <2>8, <2>9, TaskSends DEF sent
<1> QED BY <1>2, <1>3, StepCases

-----------------------------------------------------------------------------
(* The end of the tasks, and what is merged and saved *)

LEMMA ResultsAreCountedStep ==
    ASSUME TypeOK, NothingBegun, ResultsAreCounted, [Next]_vars
    PROVE  ResultsAreCounted'
<1> USE DEF taskVars, mergeVars, ResultsAreCounted
<1>1. NChunks \in Nat \ {0} /\ Len(results) \in Nat
    BY SplitAssumption DEF TypeOK
<1>2. CASE AllIgnored \/ SplitOfNothing \/ Route \/ Single
    BY <1>2 DEF AllIgnored, SplitOfNothing, Route, Single,
                SingleResult, SingleFails, SingleEnds, EndUnanswered, NothingBegun
<1>3. CASE CreateTasks
    BY <1>1, <1>3, EmptySeq DEF CreateTasks, NothingBegun
<1>4. CASE TakeEvent
    BY <1>4 DEF TakeEvent
<1>5. CASE TakeSentinel
    <2>1. Head(queue).chunk \in Chunk
        BY <1>5, HeadTailProperties, ItemIs DEF TypeOK, TakeSentinel
    <2>2. results' \in Seq(Chunk) /\ Len(results') = Len(results) + 1
        BY <1>5, <2>1, AppendProperties DEF TypeOK, TakeSentinel
    <2>3. /\ phase = "collect"
          /\ phase' = IF Len(results') = NChunks THEN "merge" ELSE "collect"
        BY <1>5 DEF TakeSentinel
    <2> QED BY <1>1, <2>2, <2>3
<1>6. CASE Merge \/ Synthesize
    BY <1>6 DEF Merge, Synthesize
<1>7. CASE Finalize \/ FinalizeIncremental \/ FinalizeFails \/ Deliver
    BY <1>7 DEF Finalize, FinalizeIncremental, FinalizeFails, Deliver, NothingBegun
<1>8. CASE Close \/ Closed \/ Disconnect \/ UNCHANGED vars
    BY <1>8 DEF Close, Closed, Disconnect, vars
<1>9. ASSUME NEW c \in Chunk, TaskStep(c)
      PROVE  ResultsAreCounted'
    BY <1>9, TaskFrame
<1> QED BY <1>2, <1>3, <1>4, <1>5, <1>6, <1>7, <1>8, <1>9, StepCases DEF GeneratorStep, Single

\* The generator stops collecting when the last sentinel is taken, and every task has
\* ended by then.
LEMMA TasksAreOverStep ==
    ASSUME TypeOK, TypeOK', NothingBegun, QueueInOrder', TasksAreOver, SavedAtTheEnd, [Next]_vars
    PROVE  TasksAreOver'
<1> USE DEF taskVars, mergeVars
<1>1. CASE UNCHANGED pc /\ UNCHANGED saved /\ (phase \in {"collect", "abandoned", "closing"} =>
                                                  phase' \in {"collect", "abandoned", "closing"})
    BY <1>1 DEF TasksAreOver, Active
<1>2. CASE AllIgnored \/ SplitOfNothing \/ Route \/ Single
    BY <1>1, <1>2 DEF AllIgnored, SplitOfNothing, Route, Single,
                SingleResult, SingleFails, SingleEnds, EndUnanswered
<1>3. CASE CreateTasks
    BY <1>3 DEF CreateTasks, TasksAreOver, SavedAtTheEnd
<1>4. CASE TakeEvent \/ (TakeSentinel /\ Len(results') # NChunks)
    BY <1>1, <1>4 DEF TakeEvent, TakeSentinel
<1>5. CASE TakeSentinel /\ Len(results') = NChunks
    <2>1. phase' = "merge"
        BY <1>5 DEF TakeSentinel
    <2>2. Ordered(queue', Ended', results')
        BY <2>1 DEF QueueInOrder, Attended
    <2>3. queue' \in Seq(Item) /\ results' \in Seq(Chunk)
        BY DEF TypeOK
    <2>4. \A c \in Chunk : c \in Ended'
        BY <1>5, <2>2, <2>3, AllTaken
    <2> QED BY <2>4 DEF TasksAreOver, Active, Ended
<1>6. CASE Merge \/ Synthesize
    BY <1>1, <1>6 DEF Merge, Synthesize
<1>7. CASE Finalize \/ FinalizeIncremental
    BY <1>7 DEF Finalize, FinalizeIncremental, TasksAreOver, Active
<1>8. CASE FinalizeFails \/ Deliver
    BY <1>1, <1>8 DEF FinalizeFails, Deliver
<1>9. CASE Close \/ Disconnect \/ UNCHANGED vars
    BY <1>1, <1>9 DEF Close, Disconnect, vars
<1>10. CASE Closed
    BY <1>10 DEF Closed, TasksAreOver, Active
<1>11. ASSUME NEW c \in Chunk, TaskStep(c)
       PROVE  TasksAreOver'
    BY <1>11, TaskFrame DEF TasksAreOver
<1> QED BY <1>2, <1>3, <1>4, <1>5, <1>6, <1>7, <1>8, <1>9, <1>10, <1>11, StepCases
        DEF GeneratorStep, Single

LEMMA RepliesAreCallsStep ==
    ASSUME TypeOK, NothingBegun, RepliesAreCalls, [Next]_vars
    PROVE  RepliesAreCalls'
<1> USE DEF taskVars, mergeVars
<1>1. CASE AllIgnored \/ SplitOfNothing \/ Route \/ Single
    <2>1. /\ phase \in {"start", "single", "unanswered"} /\ phase' # "collect" /\ UNCHANGED pc
        BY <1>1 DEF AllIgnored, SplitOfNothing, Route, Single,
                SingleResult, SingleFails, SingleEnds, EndUnanswered
    <2>2. \A c \in Chunk : pc'[c] = "absent"
        BY <2>1 DEF NothingBegun
    <2> QED BY <2>1, <2>2 DEF RepliesAreCalls, Active
<1>2. CASE CreateTasks
    BY <1>2 DEF CreateTasks, NothingBegun, RepliesAreCalls
<1>3. CASE TakeEvent \/ TakeSentinel \/ Merge \/ Synthesize
    BY <1>3 DEF TakeEvent, TakeSentinel, Merge, Synthesize, RepliesAreCalls, Active
<1>4. CASE Finalize \/ FinalizeIncremental \/ FinalizeFails \/ Deliver
    BY <1>4 DEF Finalize, FinalizeIncremental, FinalizeFails, Deliver, RepliesAreCalls, Active
<1>5. CASE Close \/ Closed \/ Disconnect \/ UNCHANGED vars
    BY <1>5 DEF Close, Closed, Disconnect, vars, RepliesAreCalls, Active
<1>6. ASSUME NEW c \in Chunk, TaskStep(c)
      PROVE  RepliesAreCalls'
    <2>1. UNCHANGED phase /\ Active(c)
        BY <1>6, TaskFrame
    <2>2. /\ \A d \in Chunk \ {c} : reply'[d] = reply[d] /\ pc'[d] = pc[d]
          /\ reply'[c] \in {reply[c], "review", "error"}
          /\ pc'[c] = "ended" \/ reply'[c] = reply[c]
        BY <1>6 DEF TaskStep, Start, Emit, Finish, Unwind, TypeOK
    <2> QED BY <2>1, <2>2 DEF RepliesAreCalls, Active
<1> QED BY <1>1, <1>2, <1>3, <1>4, <1>5, <1>6, StepCases DEF GeneratorStep, Single

\* What is missing is known for good when the generator stops collecting.
LEMMA MissingIsFixed ==
    ASSUME TasksAreOver, SavedAtTheEnd, [Next]_vars, ~TakeSentinel,
           \/ phase \notin {"start", "single", "collect", "abandoned", "closing"}
           \/ saved # {}
    PROVE  /\ Missing' = Missing /\ Succeeded' = Succeeded
           /\ Failures' = Failures /\ Unsplit' = Unsplit
<1>1. ~AllIgnored /\ ~SplitOfNothing /\ ~SingleResult
    BY DEF AllIgnored, SplitOfNothing, SingleResult, SavedAtTheEnd
<1>2. phase \notin {"collect", "abandoned", "closing"} \/ saved # {}
    OBVIOUS
<1>3. \A c \in Chunk : ~TaskStep(c)
    BY <1>2, TaskFrame DEF TasksAreOver
<1>4. UNCHANGED <<reply, results>>
    BY <1>1, <1>3, StepCases, GeneratorFrame
<1> QED BY <1>4 DEF Missing, Succeeded, Failures, Unsplit

LEMMA MergedIsExactStep ==
    ASSUME TypeOK, NothingBegun, TasksAreOver, SavedAtTheEnd, MergedIsExact, [Next]_vars
    PROVE  MergedIsExact'
<1> USE DEF taskVars, mergeVars
<1>1. CASE AllIgnored \/ SplitOfNothing
    <2>1. /\ phase = "start" /\ phase' = "final" /\ merged' = merged
          /\ \A c \in Chunk : reply'[c] # "review"
        BY <1>1 DEF AllIgnored, SplitOfNothing
    <2>2. Succeeded' = {} /\ merged' = {}
        BY <2>1 DEF Succeeded, MergedIsExact
    <2> QED BY <2>1, <2>2 DEF MergedIsExact
<1>2. CASE SingleResult
    <2>1. phase' = "final" /\ merged' = Chunk /\ \A c \in Chunk : reply'[c] = "review"
        BY <1>2 DEF SingleResult
    <2>2. Succeeded' = Chunk
        BY <2>1 DEF Succeeded
    <2> QED BY <2>1, <2>2 DEF MergedIsExact
<1>3. CASE SingleEnds
    <2>1. /\ phase = "single" /\ phase' = "unanswered" /\ UNCHANGED <<reply, merged>>
        BY <1>3 DEF SingleEnds
    <2>2. merged' = {} /\ Succeeded' = {}
        BY <2>1 DEF MergedIsExact, NothingBegun, Succeeded
    <2> QED BY <2>1, <2>2 DEF MergedIsExact
<1>4. CASE Merge
    <2>1. phase = "merge" /\ phase' \in {"synthesis", "final"} /\ merged' = Succeeded
        BY <1>4 DEF Merge
    <2>2. Succeeded' = Succeeded
        BY <2>1, MissingIsFixed DEF TakeSentinel
    <2> QED BY <2>1, <2>2 DEF MergedIsExact
<1>5. CASE Synthesize
    <2>1. /\ phase = "synthesis" /\ phase' = "final" /\ merged' \subseteq merged
          /\ answer' # "usable" => merged' = merged
        BY <1>5 DEF Synthesize
    <2>2. Succeeded' = Succeeded
        BY <2>1, MissingIsFixed DEF TakeSentinel
    <2> QED BY <2>1, <2>2 DEF MergedIsExact
<1>6. CASE Route
    BY <1>6 DEF Route, MergedIsExact
<1>7. ASSUME phase' \notin {"start", "single", "unanswered", "synthesis", "final"}
      PROVE  MergedIsExact'
    BY <1>7 DEF MergedIsExact
<1>8. CASE SingleFails \/ EndUnanswered \/ CreateTasks
    BY <1>7, <1>8 DEF SingleFails, EndUnanswered, CreateTasks
<1>9. CASE TakeEvent \/ TakeSentinel
    BY <1>7, <1>9 DEF TakeEvent, TakeSentinel
<1>10. CASE Finalize \/ FinalizeIncremental \/ FinalizeFails \/ Deliver
    BY <1>7, <1>10 DEF Finalize, FinalizeIncremental, FinalizeFails, Deliver
<1>11. CASE Close \/ Closed \/ Disconnect
    BY <1>7, <1>11 DEF Close, Closed, Disconnect
<1>12. CASE UNCHANGED vars
    BY <1>12 DEF vars, MergedIsExact, Succeeded
<1>13. ASSUME NEW c \in Chunk, TaskStep(c)
       PROVE  MergedIsExact'
    <2>1. UNCHANGED <<phase, merged, answer>> /\ Active(c)
        BY <1>13, TaskFrame
    <2>2. phase \in {"collect", "abandoned", "closing"}
        BY <2>1 DEF TasksAreOver
    <2> QED BY <1>7, <2>1, <2>2
<1> QED BY <1>1, <1>2, <1>3, <1>4, <1>5, <1>6, <1>8, <1>9, <1>10, <1>11, <1>12, <1>13,
           StepCases DEF GeneratorStep

\* When the generator stops collecting every chunk has reported, so that those it
\* counts as failed are all that are missing.
LEMMA FailuresAreMissingStep ==
    ASSUME TypeOK, TypeOK', NothingBegun, QueueInOrder', TasksAreOver, SavedAtTheEnd,
           RepliesAreCalls, FailuresAreMissing, [Next]_vars
    PROVE  FailuresAreMissing'
<1> USE DEF taskVars, mergeVars
<1>1. CASE AllIgnored \/ SingleResult
    <2>1. /\ results' = <<>> /\ \A c \in Chunk : reply'[c] \in {"review", "ignored"}
        BY <1>1 DEF AllIgnored, SingleResult, NothingBegun
    <2>2. Failures' = {} /\ Missing' = {}
        BY <2>1 DEF Failures, Missing
    <2> QED BY <2>2 DEF FailuresAreMissing
<1>2. CASE SplitOfNothing
    <2>1. \A c \in Chunk : reply'[c] = "skipped"
        BY <1>2 DEF SplitOfNothing
    <2>2. 1 \in Chunk
        BY SplitAssumption DEF Chunk
    <2>3. Unsplit'
        BY <2>1, <2>2 DEF Unsplit
    <2> QED BY <2>3 DEF FailuresAreMissing
<1>3. CASE TakeSentinel /\ Len(results') = NChunks
    <2>1. phase = "collect" /\ phase' = "merge" /\ UNCHANGED reply
        BY <1>3 DEF TakeSentinel
    <2>2. Ordered(queue', Ended', results')
        BY <2>1 DEF QueueInOrder, Attended
    <2>3. queue' \in Seq(Item) /\ results' \in Seq(Chunk)
        BY DEF TypeOK
    <2>4. \A c \in Chunk : Within(c, results')
        BY <1>3, <2>2, <2>3, AllTaken
    <2>5. {results'[i] : i \in DOMAIN results'} = Chunk
        <3>1. \A i \in DOMAIN results' : results'[i] \in Chunk
            BY <2>3
        <3> QED BY <2>4, <3>1 DEF Within
    <2>6. Failures' = {c \in Chunk : reply'[c] # "review"}
        BY <2>5 DEF Failures, Succeeded
    <2>7. \A c \in Chunk : reply'[c] # "ignored"
        BY <2>1 DEF RepliesAreCalls
    <2> QED BY <2>6, <2>7 DEF FailuresAreMissing, Missing
<1>4. CASE TakeSentinel /\ Len(results') # NChunks
    BY <1>4 DEF TakeSentinel, FailuresAreMissing
<1>5. ASSUME phase \in {"merge", "synthesis", "final"}, ~TakeSentinel
      PROVE  FailuresAreMissing'
    <2>1. Missing' = Missing /\ Failures' = Failures /\ Unsplit' = Unsplit
        BY <1>5, MissingIsFixed
    <2> QED BY <1>5, <2>1 DEF FailuresAreMissing
<1>6. ASSUME phase' \notin {"merge", "synthesis", "final"}
      PROVE  FailuresAreMissing'
    BY <1>6 DEF FailuresAreMissing
<1>7. CASE Route \/ SingleFails \/ SingleEnds \/ EndUnanswered \/ CreateTasks \/ TakeEvent
    BY <1>6, <1>7 DEF Route, SingleFails, SingleEnds, EndUnanswered, CreateTasks, TakeEvent
<1>8. CASE Merge \/ Synthesize
    BY <1>5, <1>8 DEF Merge, Synthesize, TakeSentinel
<1>9. CASE Finalize \/ FinalizeIncremental \/ FinalizeFails \/ Deliver
    BY <1>6, <1>9 DEF Finalize, FinalizeIncremental, FinalizeFails, Deliver
<1>10. CASE Close \/ Closed \/ Disconnect
    BY <1>6, <1>10 DEF Close, Closed, Disconnect
<1>11. CASE UNCHANGED vars
    BY <1>11 DEF vars, FailuresAreMissing, Failures, Missing, Unsplit, Succeeded
<1>12. ASSUME NEW c \in Chunk, TaskStep(c)
       PROVE  FailuresAreMissing'
    <2>1. UNCHANGED phase /\ Active(c)
        BY <1>12, TaskFrame
    <2>2. phase \in {"collect", "abandoned", "closing"}
        BY <2>1 DEF TasksAreOver
    <2> QED BY <1>6, <2>1, <2>2
<1> QED BY <1>1, <1>2, <1>3, <1>4, <1>7, <1>8, <1>9, <1>10, <1>11, <1>12,
           StepCases DEF GeneratorStep

LEMMA SavedAtTheEndStep ==
    ASSUME SavedAtTheEnd, [Next]_vars
    PROVE  SavedAtTheEnd'
<1> USE DEF taskVars, mergeVars, SavedAtTheEnd
<1>1. CASE AllIgnored \/ SplitOfNothing \/ Route \/ Single \/ CreateTasks
    BY <1>1 DEF AllIgnored, SplitOfNothing, Route, Single,
                SingleResult, SingleFails, SingleEnds, EndUnanswered, CreateTasks
<1>2. CASE TakeEvent \/ TakeSentinel
    BY <1>2 DEF TakeEvent, TakeSentinel
<1>3. CASE Merge \/ Synthesize
    BY <1>3 DEF Merge, Synthesize
<1>4. CASE Finalize \/ FinalizeIncremental \/ FinalizeFails \/ Deliver
    BY <1>4 DEF Finalize, FinalizeIncremental, FinalizeFails, Deliver
<1>5. CASE Close \/ Closed \/ Disconnect \/ UNCHANGED vars
    BY <1>5 DEF Close, Closed, Disconnect, vars
<1>6. ASSUME NEW c \in Chunk, TaskStep(c)
      PROVE  SavedAtTheEnd'
    BY <1>6, TaskFrame
<1> QED BY <1>1, <1>2, <1>3, <1>4, <1>5, <1>6, StepCases DEF GeneratorStep, Single

\* A saved review is not touched again, nor are the chunks it counts as missing.
LEMMA SavedIsExactStep ==
    ASSUME TasksAreOver, MergedIsExact, FailuresAreMissing, SavedAtTheEnd, SavedIsExact, [Next]_vars
    PROVE  SavedIsExact'
<1>1. CASE Finalize
    <2>1. /\ phase = "final" /\ saved' = {Saved} /\ answer' = answer
          /\ ~TakeSentinel
        BY <1>1 DEF Finalize, TakeSentinel
    <2>2. Missing' = Missing /\ Succeeded' = Succeeded
        BY <2>1, MissingIsFixed
    <2>3. answer # "usable" => Saved.reviewed = Succeeded
        BY <2>1 DEF MergedIsExact, Saved
    <2>4. Saved.scope = "all" => Saved.failed = Cardinality(Missing)
        BY <2>1 DEF FailuresAreMissing, Saved
    <2> QED BY <2>1, <2>2, <2>3, <2>4 DEF SavedIsExact
<1>2. CASE FinalizeIncremental
    <2> DEFINE r == [Saved EXCEPT !.failed = 0, !.scope = "changed"]
    <2>1. /\ phase \in {"final", "unanswered"} /\ saved' = {r} /\ answer' = answer
          /\ ~TakeSentinel
        BY <1>2 DEF FinalizeIncremental, TakeSentinel
    <2>2. Succeeded' = Succeeded
        BY <2>1, MissingIsFixed
    <2>3. answer # "usable" => r.reviewed = Succeeded
        BY <2>1 DEF MergedIsExact, Saved
    <2>4. r.scope # "all"
        BY DEF Saved
    <2> HIDE DEF r
    <2> QED BY <2>1, <2>2, <2>3, <2>4 DEF SavedIsExact
<1>3. CASE Synthesize
    <2>1. saved' = {}
        BY <1>3 DEF Synthesize, SavedAtTheEnd
    <2> QED BY <2>1 DEF SavedIsExact
<1>4. CASE UNCHANGED <<saved, answer>>
    <2>1. CASE saved = {}
        BY <1>4, <2>1 DEF SavedIsExact
    <2>2. CASE saved # {}
        <3>1. ~TakeSentinel
            BY <2>2 DEF TakeSentinel, SavedAtTheEnd
        <3>2. Missing' = Missing /\ Succeeded' = Succeeded
            BY <2>2, <3>1, MissingIsFixed
        <3> QED BY <1>4, <3>2 DEF SavedIsExact
    <2> QED BY <2>1, <2>2
<1> QED BY <1>1, <1>2, <1>3, <1>4, StepCases, GeneratorFrame, TaskFrame DEF mergeVars

-----------------------------------------------------------------------------
(* The invariant, and what follows from it *)

LEMMA SplitInvInit == Init => SplitInv
<1> SUFFICES ASSUME Init PROVE SplitInv
    OBVIOUS
<1> USE DEF Init
<1>1. TypeOK
    BY SplitAssumption DEF TypeOK, Phases, Suspended, Fallback, Replies
<1>2. PermitsHeld
    <2>1. Running = {}
        BY DEF Running
    <2> QED BY <2>1, SplitAssumption, FS_EmptySet DEF PermitsHeld
<1>3. NothingBegun /\ SavedAtTheEnd /\ SavedIsExact
    BY DEF NothingBegun, SavedAtTheEnd, SavedIsExact
<1>4. TasksAreOver
    BY DEF TasksAreOver, Active
<1>5. QueueInOrder
    <2>1. Ordered(queue, Ended, results)
        BY DEF Ordered, Within, Ended
    <2>2. \A c \in Chunk : emitted[c] = received[c] + Queued(queue, c)
        BY QueuedEmpty
    <2> QED BY <2>1, <2>2 DEF QueueInOrder
<1>6. ResultsAreCounted /\ RepliesAreCalls /\ MergedIsExact /\ FailuresAreMissing
    BY DEF ResultsAreCounted, RepliesAreCalls, MergedIsExact, FailuresAreMissing, Active
<1> QED BY <1>1, <1>2, <1>3, <1>4, <1>5, <1>6 DEF SplitInv

LEMMA SplitInvStep == SplitInv /\ [Next]_vars => SplitInv'
<1> SUFFICES ASSUME SplitInv, [Next]_vars PROVE SplitInv'
    OBVIOUS
<1> USE DEF SplitInv
<1>1. TypeOK' /\ PermitsHeld'
    BY TypeStep, PermitsStep
<1>2. NothingBegun' /\ QueueInOrder'
    BY NothingBegunStep, QueueInOrderStep
<1>3. TasksAreOver'
    BY <1>1, <1>2, TasksAreOverStep
<1>4. ResultsAreCounted' /\ RepliesAreCalls' /\ MergedIsExact' /\ FailuresAreMissing'
    BY <1>1, <1>2, ResultsAreCountedStep, RepliesAreCallsStep, MergedIsExactStep,
       FailuresAreMissingStep
<1>5. SavedAtTheEnd' /\ SavedIsExact'
    BY SavedAtTheEndStep, SavedIsExactStep
<1> QED BY <1>1, <1>2, <1>3, <1>4, <1>5

LEMMA SplitCorrect == Spec => []SplitInv
<1>1. Init => SplitInv
    BY SplitInvInit
<1>2. SplitInv /\ [Next]_vars => SplitInv'
    BY SplitInvStep
<1> QED BY <1>1, <1>2, PTL DEF Spec

\* Whatever the number of chunks and of events, and whoever leaves when: a review that
\* merges has every event and every result of its chunks, no more calls run than there
\* are permits, and no task outlives the generator (run_one and the collecting loop of
\* _stream_chunked).
THEOREM NothingIsLeftBehind == Spec => []NothingLeftBehind
<1>1. ASSUME SplitInv PROVE NothingLeftBehind
    <2> USE DEF SplitInv
    <2>1. NothingLeftInQueue
        <3> SUFFICES ASSUME results # <<>>,
                            phase \in {"merge", "synthesis", "final", "result", "done"}
                     PROVE  /\ queue = <<>>
                            /\ {results[i] : i \in DOMAIN results} = Chunk /\ Len(results) = NChunks
                            /\ received = emitted
            BY DEF NothingLeftInQueue
        <3>1. Len(results) = NChunks
            BY <1>1 DEF ResultsAreCounted
        <3>2. /\ Ordered(queue, Ended, results)
              /\ \A c \in Chunk : emitted[c] = received[c] + Queued(queue, c)
            BY <1>1 DEF QueueInOrder, Attended
        <3>3. /\ queue \in Seq(Item) /\ results \in Seq(Chunk)
              /\ emitted \in [Chunk -> Nat] /\ received \in [Chunk -> Nat]
            BY <1>1 DEF TypeOK
        <3>4. queue = <<>> /\ {results[i] : i \in DOMAIN results} = Chunk
            <4>1. queue = <<>> /\ \A c \in Chunk : Within(c, results)
                BY <3>1, <3>2, <3>3, AllTaken
            <4>2. \A i \in DOMAIN results : results[i] \in Chunk
                BY <3>3
            <4> QED BY <4>1, <4>2 DEF Within
        <3>5. \A c \in Chunk : emitted[c] = received[c]
            BY <3>2, <3>3, <3>4, QueuedEmpty
        <3> QED BY <3>1, <3>3, <3>4, <3>5
    <2>2. ConcurrencyBounded
        <3>1. IsFiniteSet(Running)
            BY ChunkIsFinite, FS_Subset DEF Running
        <3>2. Cardinality(Running) \in Nat
            BY <3>1, FS_CardinalityType
        <3>3. Cardinality(Running) <= MaxConcurrency
            BY <1>1, <3>2, SplitAssumption DEF TypeOK, PermitsHeld
        <3> QED BY <3>3 DEF ConcurrencyBounded, Running
    <2>3. NoOrphanTasks
        BY <1>1 DEF TasksAreOver, NoOrphanTasks
    <2> QED BY <1>1, <2>1, <2>2, <2>3 DEF NothingLeftBehind
<1> QED BY <1>1, SplitCorrect, PTL

\* A review that is saved holds what every chunk that succeeded has found, unless a
\* usable second pass chose among it; and one of the whole diff counts every part that
\* is missing from it, if a section could be told (_review_diff_text, _finalize_review,
\* stream_synthesis and its fallbacks).
THEOREM SavedReviewIsExact == Spec => []SavedIsExact
<1>1. SplitInv => SavedIsExact
    BY DEF SplitInv
<1> QED BY <1>1, SplitCorrect, PTL

-----------------------------------------------------------------------------
(* A review keeps the contract *)

\* What the contract sees of a phase.
Told(p) ==
    CASE p \in {"result", "updated"} -> "saved"
      [] p = "done" -> "returned"
      [] p = "failed" -> "failed"
      [] p \in {"abandoned", "closing", "closed"} -> "abandoned"
      [] OTHER -> "running"

LEMMA OutcomeIsTold == Outcome = Told(phase) /\ Outcome' = Told(phase')
BY DEF Outcome, Told

\* The contract counts as this module does.
LEMMA ContractCounts == \A S : Contract!Cardinality(S) = Cardinality(S)
BY DEF Contract!Cardinality, Cardinality

\* What is saved is a review of parts that were read, with the number of the others.
LEMMA SaveRefines ==
    ASSUME SplitInv, [Next]_vars, Finalize \/ FinalizeIncremental
    PROVE  Contract!Save
<1> DEFINE r == IF Finalize THEN Saved ELSE [Saved EXCEPT !.failed = 0, !.scope = "changed"]
<1>1. /\ phase \in {"final", "unanswered"} /\ saved' = {r} /\ ~TakeSentinel
      /\ phase' \in {"result", "updated"}
    BY DEF Finalize, FinalizeIncremental, TakeSentinel
<1>2. Outcome = "running" /\ Outcome' = "saved"
    BY <1>1, OutcomeIsTold DEF Told
<1>3. Missing' = Missing
    BY <1>1, MissingIsFixed DEF SplitInv
<1>4. merged \subseteq Chunk /\ merged \subseteq Succeeded
    BY <1>1 DEF SplitInv, TypeOK, MergedIsExact
<1>5. merged \in SUBSET (Chunk \ Missing)
    BY <1>4 DEF Succeeded, Missing
<1>6. /\ Cardinality(Failures) \in 0 .. Cardinality(Chunk) /\ 0 \in 0 .. Cardinality(Chunk)
    BY FailuresAreFew, ChunkIsFinite, FS_CardinalityType DEF SplitInv
<1>7. ASSUME Finalize
      PROVE  Saved.scope = "all" => Saved.failed = Cardinality(Missing)
    BY <1>7 DEF Finalize, SplitInv, FailuresAreMissing, Saved
<1>8. PICK n \in 0 .. Cardinality(Chunk), scope \in Scopes :
         /\ r = [reviewed |-> merged, failed |-> n, scope |-> scope]
         /\ scope = "all" => n = Cardinality(Missing)
    <2>1. CASE Finalize
        BY <1>6, <1>7, <2>1 DEF Saved, Scopes
    <2>2. CASE ~Finalize
        <3>1. r = [reviewed |-> merged, failed |-> 0, scope |-> "changed"]
            BY <2>2 DEF Saved
        <3> QED BY <1>6, <3>1 DEF Scopes
    <2> QED BY <2>1, <2>2
<1> HIDE DEF r
<1>9. \E kept \in SUBSET (Chunk \ Missing), m \in 0 .. Contract!Cardinality(Chunk), s \in Scopes :
         /\ s \in {"all"} => m = Contract!Cardinality(Missing)
         /\ saved' = {[reviewed |-> kept, failed |-> m, scope |-> s]}
    BY <1>1, <1>5, <1>8, ContractCounts
<1> QED BY <1>2, <1>3, <1>9 DEF Contract!Save

\* What is missing only becomes less.
LEMMA MissingIsRead ==
    ASSUME SplitInv, [Next]_vars
    PROVE  Missing' \subseteq Missing
<1>1. ASSUME UNCHANGED reply
      PROVE  Missing' = Missing
    BY <1>1 DEF Missing
<1>2. CASE AllIgnored \/ SplitOfNothing \/ SingleResult
    <2>1. phase \in {"start", "single"}
        BY <1>2 DEF AllIgnored, SplitOfNothing, SingleResult
    <2>2. Missing = Chunk
        BY <2>1 DEF SplitInv, NothingBegun, Missing
    <2> QED BY <2>2 DEF Missing
<1>3. ASSUME NEW c \in Chunk, TaskStep(c)
      PROVE  Missing' \subseteq Missing
    <2>1. Active(c)
        BY <1>3, TaskFrame
    <2>2. reply[c] = "none"
        BY <2>1 DEF SplitInv, RepliesAreCalls
    <2>3. \A d \in Chunk \ {c} : reply'[d] = reply[d]
        BY <1>3 DEF SplitInv, TypeOK, TaskStep, Start, Emit, Finish, Unwind
    <2> QED BY <2>2, <2>3 DEF Missing
<1> QED BY <1>1, <1>2, <1>3, StepCases, GeneratorFrame

LEMMA ContractStep == SplitInv /\ [Next]_vars => [Contract!Next]_(Contract!vars)
<1> SUFFICES ASSUME SplitInv, [Next]_vars
             PROVE  Contract!Next \/ UNCHANGED <<Outcome, saved, Missing>>
    BY DEF Contract!vars
<1> USE DEF taskVars, mergeVars
<1>1. CASE Finalize \/ FinalizeIncremental
    BY <1>1, SaveRefines DEF Contract!Next
<1>2. ASSUME UNCHANGED <<Outcome, saved>>, Outcome \in {"running", "abandoned"}, saved = {}
      PROVE  Contract!Next \/ UNCHANGED <<Outcome, saved, Missing>>
    BY <1>2, MissingIsRead DEF Contract!Next, Contract!Read
<1>3. ASSUME UNCHANGED reply
      PROVE  UNCHANGED Missing
    BY <1>3 DEF Missing
<1>4. CASE AllIgnored \/ SplitOfNothing \/ Route \/ SingleResult \/ SingleEnds \/ CreateTasks
    <2>1. /\ phase \in {"start", "single", "split"} /\ UNCHANGED saved
          /\ phase' \in {"single", "unanswered", "split", "collect", "final"}
        BY <1>4 DEF AllIgnored, SplitOfNothing, Route, SingleResult, SingleEnds, CreateTasks
    <2>2. saved = {}
        BY <2>1 DEF SplitInv, SavedAtTheEnd
    <2> QED BY <1>2, <2>1, <2>2, OutcomeIsTold DEF Told
<1>5. CASE SingleFails \/ EndUnanswered \/ FinalizeFails
    <2>1. /\ phase \in {"single", "unanswered", "final"} /\ phase' = "failed"
          /\ UNCHANGED <<saved, reply>>
        BY <1>5 DEF SingleFails, EndUnanswered, FinalizeFails
    <2> QED BY <1>3, <2>1, OutcomeIsTold DEF Told, Contract!Next, Contract!Fail
<1>6. CASE TakeEvent \/ TakeSentinel \/ Merge \/ Synthesize
    <2>1. /\ phase \in {"collect", "merge", "synthesis"} /\ UNCHANGED <<saved, reply>>
          /\ phase' \in {"collect", "merge", "synthesis", "final"}
        BY <1>6 DEF TakeEvent, TakeSentinel, Merge, Synthesize
    <2> QED BY <1>3, <2>1, OutcomeIsTold DEF Told
<1>7. CASE Deliver
    <2>1. /\ phase \in {"result", "updated"} /\ phase' = "done" /\ UNCHANGED <<saved, reply>>
        BY <1>7 DEF Deliver
    <2> QED BY <1>3, <2>1, OutcomeIsTold DEF Told, Contract!Next, Contract!Return
<1>8. CASE Disconnect
    <2>1. /\ phase \in Suspended /\ phase' = "abandoned" /\ UNCHANGED <<saved, reply>>
        BY <1>8 DEF Disconnect
    <2>2. Outcome \in {"running", "saved"} /\ Outcome' = "abandoned"
        BY <2>1, OutcomeIsTold DEF Told, Suspended
    <2> QED BY <1>3, <2>1, <2>2 DEF Contract!Next, Contract!Abandon
<1>9. CASE Close \/ Closed
    <2>1. /\ phase \in {"abandoned", "closing"} /\ phase' \in {"closing", "closed"}
          /\ UNCHANGED <<saved, reply>>
        BY <1>9 DEF Close, Closed
    <2> QED BY <1>3, <2>1, OutcomeIsTold DEF Told
<1>10. CASE UNCHANGED vars
    BY <1>3, <1>10, OutcomeIsTold DEF vars
<1>11. ASSUME NEW c \in Chunk, TaskStep(c)
       PROVE  Contract!Next \/ UNCHANGED <<Outcome, saved, Missing>>
    <2>1. UNCHANGED <<phase, saved>> /\ Active(c)
        BY <1>11, TaskFrame
    <2>2. phase \in {"collect", "abandoned", "closing"} /\ saved = {}
        BY <2>1 DEF SplitInv, TasksAreOver
    <2> QED BY <1>2, <2>1, <2>2, OutcomeIsTold DEF Told
<1> QED BY <1>1, <1>4, <1>5, <1>6, <1>7, <1>8, <1>9, <1>10, <1>11, StepCases DEF GeneratorStep

\* Split or not, full or incremental, a review does what ReviewContract promises to
\* whoever asked for it: it is saved at most once, before it is returned, holds only
\* parts that were read, and one of the whole diff has the number of all that were not
\* (_review_diff_text and incremental_review).
THEOREM ReviewKeepsTheContract == Spec => ImplementsContract
<1>1. Init => Contract!Init
    <2> SUFFICES ASSUME Init PROVE Contract!Init
        OBVIOUS
    <2>1. Missing = Chunk
        BY DEF Init, Missing
    <2> QED BY <2>1, OutcomeIsTold DEF Init, Contract!Init, Told
<1>2. SplitInv /\ [Next]_vars => [Contract!Next]_(Contract!vars)
    BY ContractStep
<1> QED BY <1>1, <1>2, SplitCorrect, PTL DEF Spec, ImplementsContract, Contract!Spec

-----------------------------------------------------------------------------
(* Induction over the naturals, with a set where the library has an operator *)

LEMMA LeastNatural ==
    ASSUME NEW T \in SUBSET Nat, T # {}
    PROVE  \E m \in T : \A k \in T : m <= k
<1> DEFINE R == OpToRel(<, Nat)
<1>1. IsWellFoundedOn(R, Nat)
    BY NatLessThanWellFounded
<1>2. \A i, j \in Nat : <<i, j>> \in R <=> i < j
    BY DEF OpToRel
<1> HIDE DEF R
<1>3. PICK m \in T : \A k \in T : ~(<<k, m>> \in R)
    BY <1>1, WFMin
<1>4. \A k \in T : ~(k < m)
    BY <1>2, <1>3
<1> QED BY <1>3, <1>4

LEMMA InductionOnSet ==
    ASSUME NEW S, 0 \in S, \A n \in Nat : n \in S => n + 1 \in S
    PROVE  \A n \in Nat : n \in S
<1> DEFINE T == Nat \ S
<1> SUFFICES ASSUME T # {} PROVE FALSE
    OBVIOUS
<1>1. PICK m \in T : \A k \in T : m <= k
    BY LeastNatural
<1>2. m # 0 /\ m - 1 \in Nat /\ m - 1 \notin T
    BY <1>1
<1> QED BY <1>1, <1>2

\* The same up to a bound, as lists need it.
LEMMA InductionUpTo ==
    ASSUME NEW n \in Nat, NEW S, 0 \in S, \A k \in 1 .. n : k - 1 \in S => k \in S
    PROVE  \A k \in 0 .. n : k \in S
<1> DEFINE T == {k \in Nat : k <= n => k \in S}
<1>1. 0 \in T
    OBVIOUS
<1>2. \A k \in Nat : k \in T => k + 1 \in T
    <2> SUFFICES ASSUME NEW k \in Nat, k \in T, k + 1 <= n PROVE k + 1 \in S
        OBVIOUS
    <2>1. k + 1 \in 1 .. n /\ (k + 1) - 1 = k /\ k \in S
        OBVIOUS
    <2> QED BY <2>1
<1> HIDE DEF T
<1>3. \A k \in Nat : k \in T
    BY <1>1, <1>2, InductionOnSet
<1> QED BY <1>3 DEF T

LEMMA MaxIs ==
    ASSUME NEW n \in Nat, NEW S \in SUBSET (1 .. n), S # {}
    PROVE  Max(S) \in S /\ \A x \in S : x <= Max(S)
<1> DEFINE T == {n - x : x \in S}
<1>1. T \in SUBSET Nat /\ T # {}
    <2>1. PICK y \in S : n - y \in T
        OBVIOUS
    <2>2. \A x \in S : n - x \in Nat
        OBVIOUS
    <2> QED BY <2>1, <2>2
<1>2. PICK m \in T : \A k \in T : m <= k
    BY <1>1, LeastNatural
<1>3. PICK y \in S : m = n - y
    BY <1>2
<1>4. \A x \in S : n - y <= n - x
    BY <1>2, <1>3
<1>5. \A x \in S : y >= x
    <2> TAKE x \in S
    <2>1. x \in Int /\ y \in Int /\ n - y <= n - x
        BY <1>4
    <2> QED BY <2>1
<1>6. Max(S) \in S /\ \A x \in S : Max(S) >= x
    BY <1>5 DEF Max
<1> QED BY <1>6

LEMMA MaxOfInterval ==
    ASSUME NEW k \in Nat \ {0}
    PROVE  /\ Max(1 .. k) = k
           /\ (1 .. k) \ {Max(1 .. k)} = 1 .. k - 1
           /\ 1 .. k # {}
<1>1. k \in 1 .. k /\ (1 .. k) \in SUBSET (1 .. k)
    OBVIOUS
<1>2. Max(1 .. k) \in 1 .. k /\ \A x \in 1 .. k : x <= Max(1 .. k)
    BY <1>1, MaxIs
<1>3. Max(1 .. k) = k
    BY <1>1, <1>2
<1>4. (1 .. k) \ {k} = 1 .. k - 1
    OBVIOUS
<1> QED BY <1>1, <1>3, <1>4

-----------------------------------------------------------------------------
(* Folds *)

\* The table that a fold is computed with: what each part of a list comes to.
FoldTable(t, V, base, d, s) ==
    /\ t \in [SUBSET DOMAIN s -> V]
    /\ t = [S \in SUBSET DOMAIN s |->
              IF S = {} THEN base ELSE d[<<t[S \ {Max(S)}], s[Max(S)]>>]]

\* What a fold comes to, place by place.
FoldSteps(g, V, base, d, s, end) ==
    /\ g \in [0 .. Len(s) -> V]
    /\ g[0] = base /\ g[Len(s)] = end
    /\ \A k \in 1 .. Len(s) : g[k] = d[<<g[k - 1], s[k]>>]

\* The table exists, when the operation keeps a type.
LEMMA FoldTableExists ==
    ASSUME NEW V, NEW X, NEW base \in V, NEW d \in [V \X X -> V], NEW s \in Seq(X)
    PROVE  \E t : FoldTable(t, V, base, d, s)
<1> DEFINE Table(g, n) == /\ g \in [SUBSET (1 .. n) -> V]
                          /\ g = [S \in SUBSET (1 .. n) |->
                                    IF S = {} THEN base ELSE d[<<g[S \ {Max(S)}], s[Max(S)]>>]]
           Made == {n \in 0 .. Len(s) : \E g : Table(g, n)}
<1>1. Len(s) \in Nat /\ DOMAIN s = 1 .. Len(s) /\ \A i \in 1 .. Len(s) : s[i] \in X
    OBVIOUS
<1>2. 0 \in Made
    <2> DEFINE g == [S \in {{}} |-> base]
    <2>1. SUBSET (1 .. 0) = {{}}
        OBVIOUS
    <2>2. Table(g, 0)
        BY <2>1
    <2> HIDE DEF g, Table
    <2> QED BY <1>1, <2>2
<1>3. ASSUME NEW n \in 1 .. Len(s), n - 1 \in Made PROVE n \in Made
    <2>1. PICK g : Table(g, n - 1)
        BY <1>3
    <2> DEFINE P == SUBSET (1 .. n)
               h == [S \in P |-> IF n \in S THEN d[<<g[S \ {n}], s[n]>>] ELSE g[S]]
               small == SUBSET (1 .. n - 1)
    <2>2. \A S \in P : S \ {n} \in small /\ (n \notin S => S \in small)
        BY <1>1
    <2>3. \A S \in small : S \in P /\ n \notin S /\ h[S] = g[S]
        BY <1>1
    <2>4. \A S \in small : g[S] \in V
        BY <2>1
    <2>5. \A S \in P : n \in S => <<g[S \ {n}], s[n]>> \in V \X X
        BY <1>1, <2>2, <2>4
    <2>6. h \in [P -> V]
        BY <2>2, <2>4, <2>5
    <2>7. ASSUME NEW S \in P
          PROVE  h[S] = IF S = {} THEN base ELSE d[<<h[S \ {Max(S)}], s[Max(S)]>>]
        <3>1. CASE n \in S
            <4>1. n \in Nat /\ S # {}
                BY <1>1, <3>1
            <4>2. Max(S) \in S /\ \A x \in S : x <= Max(S)
                BY <4>1, MaxIs
            <4>3. Max(S) \in 1 .. n /\ n <= Max(S)
                BY <3>1, <4>2
            <4>4. Max(S) = n
                BY <1>1, <4>3
            <4>5. h[S \ {n}] = g[S \ {n}]
                BY <2>2, <2>3
            <4>6. h[S] = d[<<g[S \ {n}], s[n]>>]
                BY <3>1
            <4> HIDE DEF h
            <4> QED BY <4>1, <4>4, <4>5, <4>6
        <3>2. CASE n \notin S
            <4>1. S \in small
                BY <2>2, <3>2
            <4>2. g[S] = IF S = {} THEN base ELSE d[<<g[S \ {Max(S)}], s[Max(S)]>>]
                BY <2>1, <4>1
            <4>3. h[S] = g[S] /\ S \ {Max(S)} \in small
                BY <2>3, <4>1
            <4>4. h[S \ {Max(S)}] = g[S \ {Max(S)}]
                BY <2>3, <4>3
            <4> HIDE DEF h
            <4> QED BY <4>2, <4>3, <4>4
        <3> QED BY <3>1, <3>2
    <2>8. h = [S \in P |-> h[S]]
        OBVIOUS
    <2> HIDE DEF h
    <2>9. h = [S \in P |-> IF S = {} THEN base ELSE d[<<h[S \ {Max(S)}], s[Max(S)]>>]]
        BY <2>7, <2>8
    <2>10. Table(h, n)
        BY <2>6, <2>9
    <2> HIDE DEF Table
    <2> QED BY <2>10
<1> HIDE DEF Made
<1>4. \A k \in 0 .. Len(s) : k \in Made
    BY <1>1, <1>2, <1>3, InductionUpTo, Zenon
<1>5. Len(s) \in Made
    BY <1>1, <1>4
<1>6. PICK g : Table(g, Len(s))
    BY <1>5 DEF Made
<1>7. FoldTable(g, V, base, d, s)
    BY <1>1, <1>6 DEF FoldTable
<1> HIDE DEF Table
<1> QED BY <1>7, Zenon

LEMMA FoldStepsExist ==
    ASSUME NEW V, NEW X, NEW base \in V, NEW d \in [V \X X -> V], NEW s \in Seq(X), NEW h,
           h[{}] = base,
           \A k \in 1 .. Len(s) :
              h[1 .. k - 1] \in V => h[1 .. k] = d[<<h[1 .. k - 1], s[k]>>]
    PROVE  \E g : FoldSteps(g, V, base, d, s, h[DOMAIN s])
<1> DEFINE T == {k \in 0 .. Len(s) : h[1 .. k] \in V}
           g == [k \in 0 .. Len(s) |-> h[1 .. k]]
<1>1. Len(s) \in Nat /\ DOMAIN s = 1 .. Len(s) /\ \A i \in 1 .. Len(s) : s[i] \in X
    OBVIOUS
<1>2. 1 .. 0 = {}
    OBVIOUS
<1>3. 0 \in T
    BY <1>1, <1>2
<1>4. ASSUME NEW k \in 1 .. Len(s), k - 1 \in T PROVE k \in T
    <2>1. h[1 .. k] = d[<<h[1 .. k - 1], s[k]>>]
        BY <1>4
    <2>2. <<h[1 .. k - 1], s[k]>> \in V \X X
        BY <1>1, <1>4
    <2>3. d[<<h[1 .. k - 1], s[k]>>] \in V
        BY <2>2
    <2> QED BY <1>1, <2>1, <2>3
<1> HIDE DEF T
<1>5. \A k \in 0 .. Len(s) : k \in T
    BY <1>1, <1>3, <1>4, InductionUpTo, Zenon
<1>6. \A k \in 0 .. Len(s) : h[1 .. k] \in V
    BY <1>5 DEF T
<1>7. g \in [0 .. Len(s) -> V]
    BY <1>6
<1>8. g[0] = base /\ g[Len(s)] = h[DOMAIN s]
    BY <1>1, <1>2
<1>9. ASSUME NEW k \in 1 .. Len(s) PROVE g[k] = d[<<g[k - 1], s[k]>>]
    <2>1. k - 1 \in 0 .. Len(s) /\ k \in 0 .. Len(s)
        BY <1>1
    <2>2. g[k - 1] = h[1 .. k - 1] /\ g[k] = h[1 .. k]
        BY <2>1
    <2>3. h[1 .. k - 1] \in V
        BY <1>6, <2>1
    <2> QED BY <2>2, <2>3
<1> HIDE DEF g
<1>10. FoldSteps(g, V, base, d, s, h[DOMAIN s])
    BY <1>7, <1>8, <1>9 DEF FoldSteps
<1> QED BY <1>10

-----------------------------------------------------------------------------
(* Ranks: the n-th of a set is the one that n - 1 come before *)

LEMMA Ranks ==
    ASSUME NEW P, IsFiniteSet(P), NEW before \in [P -> SUBSET P],
           \A i \in P : i \notin before[i],
           \A i, k \in P : i # k => i \in before[k] \/ k \in before[i],
           \A i, k \in P : i \in before[k] => before[i] \subseteq before[k]
    PROVE  \E place \in [1 .. Cardinality(P) -> P] :
              /\ \A n \in 1 .. Cardinality(P) :
                    place[n] = CHOOSE i \in P : Cardinality(before[i]) = n - 1
              /\ \A n, m \in 1 .. Cardinality(P) : n < m => place[n] \in before[place[m]]
              /\ \A i \in P : \E n \in 1 .. Cardinality(P) : place[n] = i
<1> DEFINE c == Cardinality(P)
           size(i) == Cardinality(before[i])
           rank == [i \in P |-> size(i) + 1]
           place == [n \in 1 .. c |-> CHOOSE i \in P : size(i) = n - 1]
<1>1. c \in Nat
    BY FS_CardinalityType
<1>2. ASSUME NEW i \in P
      PROVE  IsFiniteSet(before[i]) /\ size(i) \in Nat /\ size(i) < c
    <2>1. before[i] \in SUBSET P /\ i \notin before[i]
        OBVIOUS
    <2>2. IsFiniteSet(before[i]) /\ size(i) <= c /\ (c = size(i) => P = before[i])
        BY <2>1, FS_Subset
    <2>3. size(i) \in Nat
        BY <2>2, FS_CardinalityType
    <2>4. c # size(i)
        BY <2>1, <2>2
    <2> QED BY <1>1, <2>2, <2>3, <2>4
<1>3. ASSUME NEW i \in P, NEW k \in P, i \in before[k] PROVE size(i) < size(k)
    <2>1. before[i] \in SUBSET before[k] /\ i \notin before[i]
        BY <1>3
    <2>2. before[i] # before[k]
        BY <1>3, <2>1
    <2>3. size(i) <= size(k) /\ (size(k) = size(i) => before[k] = before[i])
        BY <1>2, <2>1, FS_Subset
    <2> QED BY <1>2, <2>2, <2>3
<1>4. ASSUME NEW i \in P, NEW k \in P, size(i) = size(k) PROVE i = k
    <2>1. ~(size(i) < size(k)) /\ ~(size(k) < size(i))
        BY <1>2, <1>4
    <2> QED BY <1>3, <2>1
<1>5. rank \in Injection(P, 1 .. c)
    <2>1. rank \in [P -> 1 .. c]
        BY <1>1, <1>2
    <2>2. ASSUME NEW i \in P, NEW k \in P, rank[i] = rank[k] PROVE i = k
        <3>1. size(i) + 1 = size(k) + 1
            BY <2>2
        <3>2. size(i) = size(k)
            BY <1>2, <3>1
        <3> QED BY <1>4, <3>2
    <2> QED BY <2>1, <2>2 DEF Injection, IsInjective
<1>6. IsFiniteSet(1 .. c) /\ Cardinality(1 .. c) = c
    BY <1>1, FS_Interval
<1>7. rank \in Surjection(P, 1 .. c)
    <2> HIDE DEF rank
    <2> QED BY <1>5, <1>6, FS_Injection
<1>8. ASSUME NEW n \in 1 .. c PROVE place[n] \in P /\ size(place[n]) = n - 1
    <2>1. PICK i \in P : rank[i] = n
        BY <1>7 DEF Surjection
    <2>2. size(i) = n - 1
        BY <1>2, <2>1
    <2> QED BY <2>2
<1>9. ASSUME NEW i \in P PROVE \E n \in 1 .. c : place[n] = i
    <2>1. size(i) + 1 \in 1 .. c /\ (size(i) + 1) - 1 = size(i)
        BY <1>1, <1>2
    <2>2. place[size(i) + 1] \in P /\ size(place[size(i) + 1]) = size(i)
        BY <1>8, <2>1
    <2> QED BY <1>4, <2>1, <2>2
<1>10. ASSUME NEW n \in 1 .. c, NEW m \in 1 .. c, n < m PROVE place[n] \in before[place[m]]
    <2>1. /\ place[n] \in P /\ size(place[n]) = n - 1
          /\ place[m] \in P /\ size(place[m]) = m - 1
        BY <1>8
    <2> HIDE DEF place
    <2>2. size(place[n]) < size(place[m])
        BY <1>10, <2>1
    <2>3. ~(size(place[m]) < size(place[n])) /\ place[n] # place[m]
        BY <2>1, <2>2, <1>2
    <2> QED BY <1>3, <2>1, <2>3
<1>11. place \in [1 .. c -> P]
    BY <1>8
<1>12. \A n \in 1 .. c : place[n] = CHOOSE i \in P : size(i) = n - 1
    OBVIOUS
<1> HIDE DEF place
<1> QED BY <1>9, <1>10, <1>11, <1>12

\* What is picked from a list: all of it that is wanted, in its order.
Picks(picked, list, kept) ==
    \E from \in [DOMAIN picked -> DOMAIN list] :
        /\ \A k \in DOMAIN picked : picked[k] = list[from[k]] /\ picked[k] \in kept
        /\ \A k, l \in DOMAIN picked : k < l => from[k] < from[l]
        /\ \A i \in DOMAIN list : list[i] \in kept => \E k \in DOMAIN picked : from[k] = i

LEMMA OnlyPicks ==
    ASSUME NEW V, NEW list \in Seq(V), NEW kept
    PROVE  Only(list, kept) \in Seq(V) /\ Picks(Only(list, kept), list, kept)
<1> DEFINE places == {i \in DOMAIN list : list[i] \in kept}
           before == [i \in places |-> {j \in places : j < i}]
           c == Cardinality(places)
<1>1. DOMAIN list = 1 .. Len(list) /\ Len(list) \in Nat /\ \A i \in 1 .. Len(list) : list[i] \in V
    OBVIOUS
<1>2. IsFiniteSet(places)
    <2>1. IsFiniteSet(1 .. Len(list)) /\ places \in SUBSET (1 .. Len(list))
        BY <1>1, FS_Interval
    <2> HIDE DEF places
    <2> QED BY <2>1, FS_Subset
<1>3. \A i \in places : i \in 1 .. Len(list) /\ list[i] \in kept
    BY <1>1
<1>4. \A i \in 1 .. Len(list) : list[i] \in kept => i \in places
    BY <1>1
<1> HIDE DEF places
<1>5. before \in [places -> SUBSET places]
    OBVIOUS
<1>6. /\ \A i \in places : i \notin before[i]
      /\ \A i, k \in places : i # k => i \in before[k] \/ k \in before[i]
      /\ \A i, k \in places : i \in before[k] => before[i] \subseteq before[k]
    BY <1>1, <1>3
<1>7. \A i \in places : before[i] = {j \in places : j < i}
    OBVIOUS
<1> HIDE DEF before
<1>8. PICK place \in [1 .. c -> places] :
              /\ \A n \in 1 .. c :
                    place[n] = CHOOSE i \in places : Cardinality(before[i]) = n - 1
              /\ \A n, m \in 1 .. c : n < m => place[n] \in before[place[m]]
              /\ \A i \in places : \E n \in 1 .. c : place[n] = i
    BY <1>2, <1>5, <1>6, Ranks
<1>9. \A n \in 1 .. c :
         place[n] = CHOOSE i \in places : Cardinality({j \in places : j < i}) = n - 1
    <2> TAKE n \in 1 .. c
    <2>1. \A i \in places : Cardinality(before[i]) = Cardinality({j \in places : j < i})
        BY <1>7
    <2>2. place[n] = CHOOSE i \in places : Cardinality(before[i]) = n - 1
        BY <1>8
    <2> QED BY <2>1, <2>2
<1>10. Only(list, kept) = [n \in 1 .. c |-> list[place[n]]]
    <2>1. Only(list, kept) =
            [n \in 1 .. c |-> list[CHOOSE i \in places : Cardinality({j \in places : j < i}) = n - 1]]
        BY Zenon DEF Only, places
    <2> HIDE DEF c
    <2> QED BY <1>9, <2>1
<1> DEFINE picked == [n \in 1 .. c |-> list[place[n]]]
<1>11. c \in Nat
    BY <1>2, FS_CardinalityType
<1> HIDE DEF c
<1>12. picked \in [1 .. c -> V]
    BY <1>1, <1>3, <1>8
<1>13. picked \in Seq(V) /\ DOMAIN picked = 1 .. c
    <2> HIDE DEF picked
    <2> QED BY <1>11, <1>12
<1>14. place \in [DOMAIN picked -> DOMAIN list]
    BY <1>1, <1>3, <1>8, <1>13
<1>15. \A k \in 1 .. c : picked[k] = list[place[k]] /\ picked[k] \in kept
    BY <1>3, <1>8
<1>16. \A k, l \in 1 .. c : k < l => place[k] < place[l]
    BY <1>7, <1>8
<1>17. \A i \in 1 .. Len(list) : list[i] \in kept => \E k \in 1 .. c : place[k] = i
    BY <1>4, <1>8
<1> HIDE DEF picked
<1>18. Picks(picked, list, kept)
    <2>1. \A k \in DOMAIN picked : picked[k] = list[place[k]] /\ picked[k] \in kept
        BY <1>13, <1>15
    <2>2. \A k, l \in DOMAIN picked : k < l => place[k] < place[l]
        BY <1>13, <1>16
    <2>3. \A i \in DOMAIN list : list[i] \in kept => \E k \in DOMAIN picked : place[k] = i
        BY <1>1, <1>13, <1>17
    <2> QED BY <1>14, <2>1, <2>2, <2>3, Zenon DEF Picks
<1> QED BY <1>10, <1>13, <1>18 DEF picked

-----------------------------------------------------------------------------
(* The merge *)

\* One step of Dedupe.
Added(kept, f) ==
    LET same == {i \in DOMAIN kept : kept[i].key = f.key}
    IN IF same = {} THEN Append(kept, f)
       ELSE [i \in DOMAIN kept |->
                IF i \in same /\ f.priority < kept[i].priority THEN f ELSE kept[i]]

LEMMA AddedIs ==
    ASSUME NEW kept \in Seq(Finding), NEW f \in Finding
    PROVE  Added(kept, f) \in Seq(Finding)
<1> DEFINE same == {i \in DOMAIN kept : kept[i].key = f.key}
           other == [i \in DOMAIN kept |->
                        IF i \in same /\ f.priority < kept[i].priority THEN f ELSE kept[i]]
<1>1. DOMAIN kept = 1 .. Len(kept) /\ Len(kept) \in Nat
    OBVIOUS
<1>2. \A i \in 1 .. Len(kept) : kept[i] \in Finding
    OBVIOUS
<1> HIDE DEF same
<1>3. other \in [1 .. Len(kept) -> Finding]
    BY <1>1, <1>2
<1> HIDE DEF other
<1>4. other \in Seq(Finding)
    BY <1>1, <1>3
<1>5. Append(kept, f) \in Seq(Finding)
    OBVIOUS
<1>6. Added(kept, f) = IF same = {} THEN Append(kept, f) ELSE other
    BY Zenon DEF Added, same, other
<1> QED BY <1>4, <1>5, <1>6

LEMMA DedupeSteps ==
    ASSUME NEW all \in Seq(Finding)
    PROVE  \E g \in [0 .. Len(all) -> Seq(Finding)] :
              /\ g[0] = <<>> /\ g[Len(all)] = Dedupe(all)
              /\ \A k \in 1 .. Len(all) : g[k] = Added(g[k - 1], all[k])
<1> DEFINE V == Seq(Finding)
           Table(g) == g = [S \in SUBSET DOMAIN all |->
                              IF S = {} THEN <<>> ELSE Added(g[S \ {Max(S)}], all[Max(S)])]
           d == [p \in V \X Finding |-> Added(p[1], p[2])]
           h == CHOOSE g : Table(g)
<1>1. Len(all) \in Nat /\ DOMAIN all = 1 .. Len(all) /\ \A i \in 1 .. Len(all) : all[i] \in Finding
    OBVIOUS
<1>2. <<>> \in V
    OBVIOUS
<1>3. \A v \in V, f \in Finding : Added(v, f) \in V
    BY AddedIs
<1> HIDE DEF V
<1>4. d \in [V \X Finding -> V] /\ \A v \in V, f \in Finding : d[<<v, f>>] = Added(v, f)
    BY <1>3
<1> HIDE DEF d
<1>5. PICK t : FoldTable(t, V, <<>>, d, all)
    BY <1>2, <1>4, FoldTableExists, Zenon
<1>6. \A S \in SUBSET DOMAIN all : S # {} =>
         d[<<t[S \ {Max(S)}], all[Max(S)]>>] = Added(t[S \ {Max(S)}], all[Max(S)])
    <2> SUFFICES ASSUME NEW S \in SUBSET DOMAIN all, S # {}
                 PROVE  t[S \ {Max(S)}] \in V /\ all[Max(S)] \in Finding
        BY <1>4
    <2>1. Max(S) \in S
        BY <1>1, MaxIs
    <2> QED BY <1>1, <1>5, <2>1 DEF FoldTable
<1>7. Table(t)
    BY <1>5, <1>6 DEF FoldTable
<1>8. Table(h)
    <2> HIDE DEF Table
    <2> QED BY <1>7
<1>9. Dedupe(all) = h[DOMAIN all]
    BY Zenon DEF Dedupe, FoldLeft, MapThenFoldSet, Added
<1> HIDE DEF h
<1>10. h[{}] = <<>>
    BY <1>8
<1>11. ASSUME NEW k \in 1 .. Len(all) PROVE h[1 .. k] = Added(h[1 .. k - 1], all[k])
    <2>1. k \in Nat \ {0} /\ 1 .. k \in SUBSET DOMAIN all
        BY <1>1
    <2>2. h[1 .. k] = Added(h[(1 .. k) \ {Max(1 .. k)}], all[Max(1 .. k)])
        BY <1>8, <2>1, MaxOfInterval
    <2> QED BY <2>1, <2>2, MaxOfInterval
<1>12. \A k \in 1 .. Len(all) :
          h[1 .. k - 1] \in V => h[1 .. k] = d[<<h[1 .. k - 1], all[k]>>]
    BY <1>1, <1>4, <1>11
<1>13. PICK g : FoldSteps(g, V, <<>>, d, all, h[DOMAIN all])
    BY <1>2, <1>4, <1>10, <1>12, FoldStepsExist, Zenon
<1>14. ASSUME NEW k \in 1 .. Len(all) PROVE g[k] = Added(g[k - 1], all[k])
    <2>1. k - 1 \in 0 .. Len(all)
        BY <1>1
    <2>2. g[k - 1] \in V
        BY <1>13, <2>1 DEF FoldSteps
    <2> QED BY <1>1, <1>4, <1>13, <2>2 DEF FoldSteps
<1> QED BY <1>9, <1>13, <1>14 DEF V, FoldSteps

\* Where a key is reported first.
Starts(all, k, a) == a \in DOMAIN all /\ all[a].key = k /\ \A j \in 1 .. a - 1 : all[j].key # k

LEMMA StartsOnce ==
    ASSUME NEW all \in Seq(Finding), NEW k, NEW a, NEW b, Starts(all, k, a), Starts(all, k, b)
    PROVE  a = b
<1>1. a \in Nat \ {0} /\ b \in Nat \ {0} /\ all[a].key = k /\ all[b].key = k
    BY DEF Starts
<1>2. a \notin 1 .. b - 1 /\ b \notin 1 .. a - 1
    BY <1>1 DEF Starts
<1> QED BY <1>1, <1>2

LEMMA KeysStart ==
    ASSUME NEW all \in Seq(Finding), NEW j \in DOMAIN all
    PROVE  \E a \in DOMAIN all : Starts(all, all[j].key, a)
<1> DEFINE T == {i \in DOMAIN all : all[i].key = all[j].key}
<1>1. DOMAIN all = 1 .. Len(all) /\ Len(all) \in Nat
    OBVIOUS
<1>2. T \in SUBSET Nat /\ T # {}
    BY <1>1
<1>3. PICK a \in T : \A i \in T : a <= i
    BY <1>2, LeastNatural
<1>4. \A i \in 1 .. a - 1 : i \in DOMAIN all /\ ~(a <= i)
    BY <1>1
<1>5. \A i \in 1 .. a - 1 : all[i].key # all[j].key
    BY <1>3, <1>4
<1> QED BY <1>3, <1>5 DEF Starts

\* What is kept of the first n findings.
Deduped(kept, all, n) ==
    /\ \A i \in DOMAIN kept : \E j \in 1 .. n : kept[i] = all[j]
    /\ \A j \in 1 .. n : \E i \in DOMAIN kept : kept[i].key = all[j].key
    /\ \A i \in DOMAIN kept, j \in 1 .. n :
          all[j].key = kept[i].key => kept[i].priority <= all[j].priority
    /\ \A i, j \in DOMAIN kept : i < j =>
          \A a, b \in DOMAIN all :
             Starts(all, kept[i].key, a) /\ Starts(all, kept[j].key, b) => a < b

LEMMA AddedKeepsDeduped ==
    ASSUME NEW all \in Seq(Finding), NEW kept \in Seq(Finding), NEW n \in 1 .. Len(all),
           Deduped(kept, all, n - 1)
    PROVE  Deduped(Added(kept, all[n]), all, n)
<1> DEFINE f == all[n]
           same == {i \in DOMAIN kept : kept[i].key = f.key}
           other == [i \in DOMAIN kept |->
                        IF i \in same /\ f.priority < kept[i].priority THEN f ELSE kept[i]]
           more == Append(kept, f)
<1>1. /\ DOMAIN kept = 1 .. Len(kept) /\ Len(kept) \in Nat /\ \A i \in DOMAIN kept : kept[i] \in Finding
      /\ DOMAIN all = 1 .. Len(all) /\ Len(all) \in Nat /\ \A i \in DOMAIN all : all[i] \in Finding
    OBVIOUS
<1>2. \A x \in Finding : x.priority \in Nat
    BY DEF Finding, Priority
<1>3. n \in Nat \ {0} /\ \A j \in 1 .. n : j \in DOMAIN all /\ (j = n \/ j \in 1 .. n - 1)
    BY <1>1
<1>4. \A j \in 1 .. n - 1 : j \in 1 .. n
    BY <1>3
<1>5. n \in 1 .. n
    BY <1>3
<1>6. Added(kept, f) = IF same = {} THEN more ELSE other
    BY Zenon DEF Added
<1>7. ASSUME same = {} PROVE Deduped(more, all, n)
    <2>1. /\ DOMAIN more = 1 .. Len(kept) + 1 /\ more[Len(kept) + 1] = f
          /\ \A i \in DOMAIN kept : more[i] = kept[i]
          /\ \A i \in DOMAIN more : i = Len(kept) + 1 \/ i \in DOMAIN kept
          /\ \A i \in DOMAIN kept : i \in DOMAIN more
          /\ Len(kept) + 1 \in DOMAIN more
        BY <1>1, <1>3, AppendProperties
    <2> HIDE DEF more
    <2>2. \A j \in 1 .. n - 1 : all[j].key # f.key
        BY <1>7 DEF Deduped
    <2>3. Starts(all, f.key, n)
        BY <1>3, <2>2 DEF Starts
    <2>4. \A i \in DOMAIN kept : kept[i].key # f.key
        BY <1>7
    <2>5. \A i \in DOMAIN more : \E j \in 1 .. n : more[i] = all[j]
        BY <1>4, <1>5, <2>1 DEF Deduped
    <2>6. \A j \in 1 .. n : \E i \in DOMAIN more : more[i].key = all[j].key
        BY <1>3, <2>1 DEF Deduped
    <2>7. ASSUME NEW i \in DOMAIN more, NEW j \in 1 .. n, all[j].key = more[i].key
          PROVE  more[i].priority <= all[j].priority
        <3>1. CASE i \in DOMAIN kept
            <4>1. j \in 1 .. n - 1
                BY <1>3, <2>1, <2>4, <2>7, <3>1
            <4> QED BY <2>1, <2>7, <3>1, <4>1 DEF Deduped
        <3>2. CASE i = Len(kept) + 1
            <4>1. j = n
                BY <1>3, <2>1, <2>2, <2>7, <3>2
            <4>2. f.priority \in Nat
                BY <1>1, <1>2, <1>3
            <4> QED BY <2>1, <3>2, <4>1, <4>2
        <3> QED BY <2>1, <3>1, <3>2
    <2>8. ASSUME NEW i \in DOMAIN more, NEW j \in DOMAIN more, i < j,
                 NEW a \in DOMAIN all, NEW b \in DOMAIN all,
                 Starts(all, more[i].key, a), Starts(all, more[j].key, b)
          PROVE  a < b
        <3>1. i \in DOMAIN kept
            BY <1>1, <2>1, <2>8
        <3>2. CASE j \in DOMAIN kept
            BY <2>1, <2>8, <3>1, <3>2 DEF Deduped
        <3>3. CASE j = Len(kept) + 1
            <4>1. b = n
                BY <2>1, <2>3, <2>8, <3>3, StartsOnce
            <4>2. PICK m \in 1 .. n - 1 : kept[i] = all[m]
                BY <3>1 DEF Deduped
            <4>3. all[m].key = more[i].key
                BY <2>1, <3>1, <4>2
            <4>4. m \notin 1 .. a - 1
                BY <2>8, <4>3 DEF Starts
            <4> QED BY <1>1, <1>3, <4>1, <4>4
        <3> QED BY <2>1, <3>2, <3>3
    <2> QED BY <2>5, <2>6, <2>7, <2>8, Zenon DEF Deduped
<1>8. ASSUME same # {} PROVE Deduped(other, all, n)
    <2>1. PICK s \in DOMAIN kept : kept[s].key = f.key
        BY <1>8
    <2>2. /\ DOMAIN other = DOMAIN kept
          /\ \A i \in DOMAIN kept :
                /\ other[i] = f \/ other[i] = kept[i]
                /\ other[i].key = kept[i].key
                /\ other[i] = f \/ kept[i].key # f.key \/ ~(f.priority < kept[i].priority)
                /\ other[i] = f => kept[i] = f \/ f.priority < kept[i].priority
        OBVIOUS
    <2> HIDE DEF other
    <2>3. ASSUME NEW i \in DOMAIN kept PROVE \E j \in 1 .. n : other[i] = all[j]
        <3>1. PICK j \in 1 .. n - 1 : kept[i] = all[j]
            BY DEF Deduped
        <3>2. j \in 1 .. n
            BY <1>4
        <3>3. other[i] = all[n] \/ other[i] = all[j]
            BY <2>2, <3>1
        <3> QED BY <1>5, <3>2, <3>3
    <2>4. \A j \in 1 .. n : \E i \in DOMAIN kept : other[i].key = all[j].key
        BY <1>3, <2>1, <2>2 DEF Deduped
    <2>5. ASSUME NEW i \in DOMAIN kept, NEW j \in 1 .. n, all[j].key = other[i].key
          PROVE  other[i].priority <= all[j].priority
        <3>1. f.priority \in Nat /\ kept[i].priority \in Nat /\ all[j].priority \in Nat
            BY <1>1, <1>2, <1>3
        <3>2. other[i].priority <= kept[i].priority
            BY <2>2, <3>1
        <3>3. CASE j = n
            <4>0. kept[i].key = f.key
                BY <2>2, <2>5, <3>3
            <4>1. other[i] = f \/ (other[i] = kept[i] /\ ~(f.priority < kept[i].priority))
                BY <2>2, <4>0
            <4> QED BY <3>1, <3>3, <4>1
        <3>4. CASE j \in 1 .. n - 1
            <4>1. kept[i].priority <= all[j].priority
                BY <2>2, <2>5, <3>4 DEF Deduped
            <4>2. other[i].priority \in Nat
                BY <2>2, <3>1
            <4> QED BY <3>1, <3>2, <4>1, <4>2
        <3> QED BY <1>3, <3>3, <3>4
    <2>6. \A i, j \in DOMAIN kept : i < j =>
             \A a, b \in DOMAIN all :
                Starts(all, other[i].key, a) /\ Starts(all, other[j].key, b) => a < b
        BY <2>2 DEF Deduped
    <2> QED BY <2>2, <2>3, <2>4, <2>5, <2>6, Zenon DEF Deduped
<1> QED BY <1>6, <1>7, <1>8

\* Deduplication keeps each key once, as urgent as it was reported, in the order of first report.
LEMMA DedupeIsExact ==
    ASSUME NEW all \in Seq(Finding)
    PROVE  Dedupe(all) \in Seq(Finding) /\ Deduped(Dedupe(all), all, Len(all))
<1>1. PICK g \in [0 .. Len(all) -> Seq(Finding)] :
              /\ g[0] = <<>> /\ g[Len(all)] = Dedupe(all)
              /\ \A k \in 1 .. Len(all) : g[k] = Added(g[k - 1], all[k])
    BY DedupeSteps
<1> DEFINE T == {k \in 0 .. Len(all) : Deduped(g[k], all, k)}
<1>2. Len(all) \in Nat
    OBVIOUS
<1>3. Deduped(<<>>, all, 0)
    BY DEF Deduped
<1>4. 0 \in T
    BY <1>1, <1>2, <1>3
<1>5. ASSUME NEW k \in 1 .. Len(all), k - 1 \in T PROVE k \in T
    <2>1. g[k - 1] \in Seq(Finding) /\ Deduped(g[k - 1], all, k - 1)
        BY <1>5
    <2>2. Deduped(Added(g[k - 1], all[k]), all, k)
        BY <2>1, AddedKeepsDeduped
    <2>3. Deduped(g[k], all, k)
        BY <1>1, <2>2
    <2> QED BY <1>2, <2>3
<1> HIDE DEF T
<1>6. \A k \in 0 .. Len(all) : k \in T
    BY <1>2, <1>4, <1>5, InductionUpTo, Zenon
<1>7. Len(all) \in T
    BY <1>2, <1>6
<1> QED BY <1>1, <1>2, <1>7 DEF T

\* Those of a list with some priorities: the urgent ones first, others in its order.
Ranked(ranked, list, priorities) ==
    \E from \in [DOMAIN ranked -> DOMAIN list] :
        /\ \A k \in DOMAIN ranked : ranked[k] = list[from[k]] /\ ranked[k].priority \in priorities
        /\ \A k, l \in DOMAIN ranked : k < l =>
              \/ ranked[k].priority < ranked[l].priority
              \/ (ranked[k].priority = ranked[l].priority /\ from[k] < from[l])
        /\ \A i \in DOMAIN list : list[i].priority \in priorities =>
              \E k \in DOMAIN ranked : from[k] = i

LEMMA PickedAreRanked ==
    ASSUME NEW list \in Seq(Finding), NEW p \in Priority
    PROVE  LET part == Only(list, {f \in ToSet(list) : f.priority = p})
           IN part \in Seq(Finding) /\ Ranked(part, list, {p})
<1> DEFINE kept == {f \in ToSet(list) : f.priority = p}
           part == Only(list, kept)
<1>1. \A i \in DOMAIN list : list[i] \in kept <=> list[i].priority = p
    BY DEF ToSet
<1>2. \A f \in kept : f.priority = p
    OBVIOUS
<1> HIDE DEF kept
<1>3. part \in Seq(Finding) /\ Picks(part, list, kept)
    BY OnlyPicks
<1> HIDE DEF part
<1>4. PICK from \in [DOMAIN part -> DOMAIN list] :
        /\ \A k \in DOMAIN part : part[k] = list[from[k]] /\ part[k] \in kept
        /\ \A k, l \in DOMAIN part : k < l => from[k] < from[l]
        /\ \A i \in DOMAIN list : list[i] \in kept => \E k \in DOMAIN part : from[k] = i
    BY <1>3 DEF Picks
<1>5. \A k \in DOMAIN part : part[k] = list[from[k]] /\ part[k].priority \in {p}
    BY <1>2, <1>4
<1>6. \A k, l \in DOMAIN part : k < l =>
              \/ part[k].priority < part[l].priority
              \/ (part[k].priority = part[l].priority /\ from[k] < from[l])
    BY <1>4, <1>5
<1>7. \A i \in DOMAIN list : list[i].priority \in {p} => \E k \in DOMAIN part : from[k] = i
    BY <1>1, <1>4
<1>8. Ranked(part, list, {p})
    BY <1>4, <1>5, <1>6, <1>7, Zenon DEF Ranked
<1> QED BY <1>3, <1>8 DEF part, kept

LEMMA RankedConcat ==
    ASSUME NEW list \in Seq(Finding), NEW s \in Seq(Finding), NEW t \in Seq(Finding),
           NEW P \in SUBSET Nat, NEW Q \in SUBSET Nat, Ranked(s, list, P), Ranked(t, list, Q),
           \A p \in P, q \in Q : p < q
    PROVE  s \o t \in Seq(Finding) /\ Ranked(s \o t, list, P \cup Q)
<1> DEFINE u == s \o t
<1>1. /\ u \in Seq(Finding) /\ DOMAIN u = 1 .. Len(s) + Len(t)
      /\ \A k \in DOMAIN u : u[k] = IF k <= Len(s) THEN s[k] ELSE t[k - Len(s)]
    BY ConcatProperties
<1>2. /\ DOMAIN s = 1 .. Len(s) /\ Len(s) \in Nat
      /\ DOMAIN t = 1 .. Len(t) /\ Len(t) \in Nat
    OBVIOUS
<1> HIDE DEF u
<1>3. PICK f \in [DOMAIN s -> DOMAIN list] :
        /\ \A k \in DOMAIN s : s[k] = list[f[k]] /\ s[k].priority \in P
        /\ \A k, l \in DOMAIN s : k < l =>
              \/ s[k].priority < s[l].priority
              \/ (s[k].priority = s[l].priority /\ f[k] < f[l])
        /\ \A i \in DOMAIN list : list[i].priority \in P => \E k \in DOMAIN s : f[k] = i
    BY DEF Ranked
<1>4. PICK g \in [DOMAIN t -> DOMAIN list] :
        /\ \A k \in DOMAIN t : t[k] = list[g[k]] /\ t[k].priority \in Q
        /\ \A k, l \in DOMAIN t : k < l =>
              \/ t[k].priority < t[l].priority
              \/ (t[k].priority = t[l].priority /\ g[k] < g[l])
        /\ \A i \in DOMAIN list : list[i].priority \in Q => \E k \in DOMAIN t : g[k] = i
    BY DEF Ranked
<1> DEFINE from == [k \in DOMAIN u |-> IF k <= Len(s) THEN f[k] ELSE g[k - Len(s)]]
<1>5. /\ \A k \in DOMAIN s : k \in DOMAIN u /\ k <= Len(s) /\ u[k] = s[k] /\ from[k] = f[k]
      /\ \A k \in DOMAIN t : /\ k + Len(s) \in DOMAIN u /\ ~(k + Len(s) <= Len(s))
                             /\ u[k + Len(s)] = t[k] /\ from[k + Len(s)] = g[k]
    BY <1>1, <1>2
<1>6. ASSUME NEW k \in DOMAIN u
      PROVE  \/ k \in DOMAIN s
             \/ (~(k <= Len(s)) /\ k - Len(s) \in DOMAIN t /\ k = (k - Len(s)) + Len(s))
    BY <1>1, <1>2
<1>7. from \in [DOMAIN u -> DOMAIN list]
    BY <1>2, <1>3, <1>4, <1>6
<1> HIDE DEF from
<1>8. \A k \in DOMAIN u : u[k] = list[from[k]] /\ u[k].priority \in P \cup Q
    <2> TAKE k \in DOMAIN u
    <2>1. CASE k \in DOMAIN s
        BY <1>3, <1>5, <2>1
    <2>2. CASE k - Len(s) \in DOMAIN t /\ k = (k - Len(s)) + Len(s)
        BY <1>4, <1>5, <2>2
    <2> QED BY <1>6, <2>1, <2>2
<1>9. ASSUME NEW k \in DOMAIN u, NEW l \in DOMAIN u, k < l
      PROVE  \/ u[k].priority < u[l].priority
             \/ (u[k].priority = u[l].priority /\ from[k] < from[l])
    <2>1. CASE k \in DOMAIN s /\ l \in DOMAIN s
        BY <1>3, <1>5, <1>9, <2>1
    <2>2. CASE k \in DOMAIN s /\ l - Len(s) \in DOMAIN t /\ l = (l - Len(s)) + Len(s)
        <3>1. u[k].priority \in P /\ u[l].priority \in Q
            BY <1>3, <1>4, <1>5, <2>2
        <3> QED BY <3>1
    <2>3. CASE /\ k - Len(s) \in DOMAIN t /\ k = (k - Len(s)) + Len(s)
               /\ l - Len(s) \in DOMAIN t /\ l = (l - Len(s)) + Len(s)
        <3>1. k - Len(s) < l - Len(s)
            BY <1>1, <1>2, <1>9
        <3>2. /\ u[k] = t[k - Len(s)] /\ from[k] = g[k - Len(s)]
              /\ u[l] = t[l - Len(s)] /\ from[l] = g[l - Len(s)]
            BY <1>5, <2>3
        <3> QED BY <1>4, <2>3, <3>1, <3>2
    <2>4. ASSUME l \in DOMAIN s PROVE k \in DOMAIN s
        BY <1>1, <1>2, <1>9, <2>4
    <2> QED BY <1>6, <2>1, <2>2, <2>3, <2>4
<1>10. ASSUME NEW i \in DOMAIN list, list[i].priority \in P \cup Q
       PROVE  \E k \in DOMAIN u : from[k] = i
    <2>1. CASE list[i].priority \in P
        BY <1>3, <1>5, <2>1
    <2>2. CASE list[i].priority \in Q
        BY <1>4, <1>5, <2>2
    <2> QED BY <1>10, <2>1, <2>2
<1>11. Ranked(u, list, P \cup Q)
    BY <1>7, <1>8, <1>9, <1>10, Zenon DEF Ranked
<1> QED BY <1>1, <1>11 DEF u

LEMMA SortedIsRanked ==
    ASSUME NEW list \in Seq(Finding)
    PROVE  SortedByPriority(list) \in Seq(Finding) /\ Ranked(SortedByPriority(list), list, Priority)
<1> DEFINE of(p) == Only(list, {f \in ToSet(list) : f.priority = p})
<1>1. \A p \in Priority : of(p) \in Seq(Finding) /\ Ranked(of(p), list, {p})
    BY PickedAreRanked
<1>2. SortedByPriority(list) = of(0) \o of(1) \o of(2) \o of(3)
    BY Zenon DEF SortedByPriority
<1> HIDE DEF of
<1>3. 0 \in Priority /\ 1 \in Priority /\ 2 \in Priority /\ 3 \in Priority
    BY DEF Priority
<1>4. /\ of(0) \in Seq(Finding) /\ Ranked(of(0), list, {0})
      /\ of(1) \in Seq(Finding) /\ Ranked(of(1), list, {1})
      /\ of(2) \in Seq(Finding) /\ Ranked(of(2), list, {2})
      /\ of(3) \in Seq(Finding) /\ Ranked(of(3), list, {3})
    BY <1>1, <1>3
<1> DEFINE u == of(0) \o of(1)
           P == {0} \cup {1}
           v == u \o of(2)
           Q == P \cup {2}
<1>5. u \in Seq(Finding) /\ Ranked(u, list, P)
    <2>1. {0} \in SUBSET Nat /\ {1} \in SUBSET Nat /\ \A p \in {0}, q \in {1} : p < q
        OBVIOUS
    <2> QED BY <1>4, <2>1, RankedConcat, Zenon
<1>6. P \in SUBSET Nat /\ Q \in SUBSET Nat /\ (\A p \in P, q \in {2} : p < q)
      /\ (\A p \in Q, q \in {3} : p < q) /\ Q \cup {3} = Priority
      /\ {2} \in SUBSET Nat /\ {3} \in SUBSET Nat
    BY DEF Priority
<1> HIDE DEF P, u
<1>7. v \in Seq(Finding) /\ Ranked(v, list, Q)
    BY <1>4, <1>5, <1>6, RankedConcat, Zenon
<1> HIDE DEF Q, v
<1>8. v \o of(3) \in Seq(Finding) /\ Ranked(v \o of(3), list, Q \cup {3})
    BY <1>4, <1>6, <1>7, RankedConcat, Zenon
<1> QED BY <1>2, <1>6, <1>8 DEF u, v

\* Any list of findings is consolidated by deduplicating and sorting it.
LEMMA ListIsConsolidated ==
    ASSUME NEW all \in Seq(Finding)
    PROVE  Consolidates(SortedByPriority(Dedupe(all)), all)
<1> DEFINE kept == Dedupe(all)
           list == SortedByPriority(kept)
           firstOf(k) == CHOOSE i \in DOMAIN all : all[i].key = k /\ \A j \in 1 .. i - 1 : all[j].key # k
<1>1. kept \in Seq(Finding) /\ Deduped(kept, all, Len(all)) /\ DOMAIN all = 1 .. Len(all)
    BY DedupeIsExact
<1> HIDE DEF kept
<1>2. list \in Seq(Finding) /\ Ranked(list, kept, Priority)
    BY <1>1, SortedIsRanked
<1> HIDE DEF list
<1>3. PICK from \in [DOMAIN list -> DOMAIN kept] :
        /\ \A k \in DOMAIN list : list[k] = kept[from[k]] /\ list[k].priority \in Priority
        /\ \A k, l \in DOMAIN list : k < l =>
              \/ list[k].priority < list[l].priority
              \/ (list[k].priority = list[l].priority /\ from[k] < from[l])
        /\ \A i \in DOMAIN kept : kept[i].priority \in Priority =>
              \E k \in DOMAIN list : from[k] = i
    BY <1>2 DEF Ranked
<1>4. \A i \in DOMAIN kept : kept[i].priority \in Priority
    <2>1. \A i \in DOMAIN kept : kept[i] \in Finding
        BY <1>1
    <2> QED BY <2>1 DEF Finding
<1>5. ASSUME NEW i \in DOMAIN list PROVE \E j \in DOMAIN all : list[i] = all[j]
    <2>1. from[i] \in DOMAIN kept /\ list[i] = kept[from[i]]
        BY <1>3
    <2>2. PICK j \in 1 .. Len(all) : kept[from[i]] = all[j]
        BY <1>1, <2>1 DEF Deduped
    <2> QED BY <1>1, <2>1, <2>2
<1>6. \A j \in DOMAIN all : \E i \in DOMAIN list : list[i].key = all[j].key
    <2> TAKE j \in DOMAIN all
    <2>1. PICK i \in DOMAIN kept : kept[i].key = all[j].key
        BY <1>1 DEF Deduped
    <2>2. PICK k \in DOMAIN list : from[k] = i
        BY <1>3, <1>4
    <2> QED BY <1>3, <2>1, <2>2
<1>7. {list[i].key : i \in DOMAIN list} = {all[i].key : i \in DOMAIN all}
    BY <1>5, <1>6
<1>8. \A i \in DOMAIN list :
             /\ list[i] \in ToSet(all)
             /\ \A j \in DOMAIN all : all[j].key = list[i].key => list[i].priority <= all[j].priority
    <2> TAKE i \in DOMAIN list
    <2>1. list[i] \in ToSet(all)
        BY <1>5 DEF ToSet
    <2>2. from[i] \in DOMAIN kept /\ list[i] = kept[from[i]]
        BY <1>3
    <2>3. \A j \in DOMAIN all : all[j].key = list[i].key => list[i].priority <= all[j].priority
        BY <1>1, <2>2 DEF Deduped
    <2> QED BY <2>1, <2>3
<1>9. ASSUME NEW i \in DOMAIN list
      PROVE  firstOf(list[i].key) \in DOMAIN all /\ Starts(all, list[i].key, firstOf(list[i].key))
    <2>1. PICK j \in DOMAIN all : list[i] = all[j]
        BY <1>5
    <2>2. \E a \in DOMAIN all : Starts(all, list[i].key, a)
        BY <2>1, KeysStart
    <2>3. \A a : Starts(all, list[i].key, a) <=>
                   a \in DOMAIN all /\ (all[a].key = list[i].key /\ \A l \in 1 .. a - 1 : all[l].key # list[i].key)
        BY DEF Starts
    <2> QED BY <2>2, <2>3
<1> HIDE DEF firstOf
<1>10. \A i, j \in DOMAIN list : i < j =>
             \/ list[i].priority < list[j].priority
             \/ (/\ list[i].priority = list[j].priority
                 /\ firstOf(list[i].key) < firstOf(list[j].key))
    <2> SUFFICES ASSUME NEW i \in DOMAIN list, NEW j \in DOMAIN list, from[i] < from[j]
                 PROVE  firstOf(list[i].key) < firstOf(list[j].key)
        BY <1>3
    <2>1. /\ from[i] \in DOMAIN kept /\ list[i] = kept[from[i]]
          /\ from[j] \in DOMAIN kept /\ list[j] = kept[from[j]]
        BY <1>3
    <2>2. /\ firstOf(list[i].key) \in DOMAIN all /\ Starts(all, list[i].key, firstOf(list[i].key))
          /\ firstOf(list[j].key) \in DOMAIN all /\ Starts(all, list[j].key, firstOf(list[j].key))
        BY <1>9
    <2>3. \A a, b \in DOMAIN all :
             Starts(all, kept[from[i]].key, a) /\ Starts(all, kept[from[j]].key, b) => a < b
        BY <1>1, <2>1 DEF Deduped
    <2> QED BY <2>1, <2>2, <2>3
<1> USE DEF firstOf
<1>11. Consolidates(list, all)
    BY <1>7, <1>8, <1>10, Zenon DEF Consolidates
<1> QED BY <1>11 DEF list, kept

LEMMA ListIs ==
    ASSUME NEW V, NEW n \in Nat, NEW list \in [1 .. n -> V]
    PROVE  list \in Seq(V)
    OBVIOUS

LEMMA FlattenIs ==
    ASSUME NEW V, NEW lists \in Seq(Seq(V))
    PROVE  FlattenSeq(lists) \in Seq(V)
<1> DEFINE n == Len(lists)
           Flat(g, m) == /\ g \in [1 .. m -> Seq(V)]
                         /\ g = [i \in 1 .. m |-> IF i = 1 THEN lists[i] ELSE g[i - 1] \o lists[i]]
           Made == {m \in 0 .. n : \E g : Flat(g, m)}
           f == CHOOSE g : g = [i \in 1 .. n |-> IF i = 1 THEN lists[i] ELSE g[i - 1] \o lists[i]]
<1>1. n \in Nat /\ \A i \in 1 .. n : lists[i] \in Seq(V)
    OBVIOUS
<1>2. CASE n = 0
    <2>1. Len(lists) = 0 /\ lists = <<>>
        BY <1>2, EmptySeq
    <2>2. FlattenSeq(lists) = lists
        BY <2>1, Zenon DEF FlattenSeq
    <2>3. <<>> \in Seq(V)
        OBVIOUS
    <2> QED BY <2>1, <2>2, <2>3, Zenon
<1>3. CASE n # 0
    <2>1. 0 \in Made
        <3>1. Flat([i \in {} |-> <<>>], 0)
            BY <1>1
        <3> HIDE DEF Flat
        <3> QED BY <1>1, <3>1
    <2>2. ASSUME NEW m \in 1 .. n, m - 1 \in Made PROVE m \in Made
        <3>1. PICK g : Flat(g, m - 1)
            BY <2>2
        <3> DEFINE h == [i \in 1 .. m |-> IF i = 1 THEN lists[i] ELSE g[i - 1] \o lists[i]]
        <3>2. \A i \in 1 .. m : i # 1 => i - 1 \in 1 .. m - 1 /\ g[i - 1] \in Seq(V)
            BY <1>1, <3>1
        <3>3. h \in [1 .. m -> Seq(V)]
            <4>1. \A i \in 1 .. m : lists[i] \in Seq(V)
                BY <1>1
            <4>2. \A i \in 1 .. m : i # 1 => g[i - 1] \o lists[i] \in Seq(V)
                BY <3>2, <4>1
            <4> QED BY <4>1, <4>2
        <3>4. ASSUME NEW i \in 1 .. m - 1 PROVE h[i] = g[i]
            <4>1. i \in 1 .. m
                BY <1>1
            <4>2. h[i] = IF i = 1 THEN lists[i] ELSE g[i - 1] \o lists[i]
                BY <4>1
            <4>3. g[i] = IF i = 1 THEN lists[i] ELSE g[i - 1] \o lists[i]
                BY <3>1
            <4> QED BY <4>2, <4>3
        <3>5. h = [i \in 1 .. m |-> IF i = 1 THEN lists[i] ELSE h[i - 1] \o lists[i]]
            <4>1. \A i \in 1 .. m : i # 1 => h[i - 1] = g[i - 1]
                BY <3>2, <3>4
            <4> QED BY <4>1
        <3> HIDE DEF h
        <3>6. Flat(h, m)
            BY <3>3, <3>5
        <3> HIDE DEF Flat
        <3> QED BY <3>6
    <2> HIDE DEF Made
    <2>3. \A k \in 0 .. n : k \in Made
        BY <1>1, <2>1, <2>2, InductionUpTo, Zenon
    <2>4. n \in Made
        BY <1>1, <2>3
    <2>5. PICK g : Flat(g, n)
        BY <2>4 DEF Made
    <2>6. f = [i \in 1 .. n |-> IF i = 1 THEN lists[i] ELSE f[i - 1] \o lists[i]]
        BY <2>5
    <2> DEFINE T == {k \in 0 .. n : k = 0 \/ f[k] \in Seq(V)}
    <2>7. FlattenSeq(lists) = f[n]
        BY <1>3, Zenon DEF FlattenSeq
    <2> HIDE DEF f
    <2>8. 0 \in T
        BY <1>1
    <2>9. ASSUME NEW k \in 1 .. n, k - 1 \in T PROVE k \in T
        <3>1. f[k] = IF k = 1 THEN lists[k] ELSE f[k - 1] \o lists[k]
            BY <2>6
        <3>2. k # 1 => f[k - 1] \in Seq(V)
            BY <2>9
        <3>3. lists[k] \in Seq(V)
            BY <1>1
        <3>4. f[k] \in Seq(V)
            BY <3>1, <3>2, <3>3
        <3> QED BY <1>1, <3>4
    <2> HIDE DEF T
    <2>10. \A k \in 0 .. n : k \in T
        BY <1>1, <2>8, <2>9, InductionUpTo, Zenon
    <2>11. f[n] \in Seq(V)
        BY <1>1, <1>3, <2>10 DEF T
    <2> QED BY <2>7, <2>11
<1> QED BY <1>2, <1>3

\* The merge of the chunks and the update of a saved review, whatever is reported.
LEMMA MergesAreExact ==
    ASSUME TypeOK
    PROVE  MergeIsExact
<1> USE SplitAssumption DEF Chunk
<1>1. ASSUME NEW reported \in Reports
      PROVE  LET reviews == [i \in DOMAIN Reviewed |-> reported[Reviewed[i]]]
             IN Consolidates(MergedFindings(reviews), FlattenSeq(reviews))
    <2> DEFINE reviews == [i \in DOMAIN Reviewed |-> reported[Reviewed[i]]]
    <2>1. Reviewed \in Seq(Chunk)
        BY OnlyPicks DEF TypeOK, Reviewed
    <2>2. reported \in [Chunk -> Seq(Finding)]
        OBVIOUS
    <2>3. \A i \in DOMAIN Reviewed : Reviewed[i] \in Chunk
        BY <2>1
    <2>4. reviews \in [1 .. Len(Reviewed) -> Seq(Finding)] /\ Len(Reviewed) \in Nat
        BY <2>1, <2>2, <2>3
    <2> HIDE DEF reviews
    <2>5. reviews \in Seq(Seq(Finding))
        BY <2>4, ListIs, Zenon
    <2>6. FlattenSeq(reviews) \in Seq(Finding)
        BY <2>5, FlattenIs
    <2> QED BY <2>6, ListIsConsolidated DEF MergedFindings, reviews
<1>2. ASSUME NEW reported \in Reports, NEW n \in Chunk
      PROVE  LET cached == FlattenSeq([i \in 1 .. n |-> reported[i]])
                 new == FlattenSeq([i \in 1 .. NChunks - n |-> reported[n + i]])
                 kept == Only(cached, {f \in ToSet(cached) : f.key[1] # "changed"})
             IN Consolidates(MergeIncremental(cached, {"changed"}, new), kept \o new)
    <2> DEFINE one == [i \in 1 .. n |-> reported[i]]
               other == [i \in 1 .. NChunks - n |-> reported[n + i]]
               cached == FlattenSeq(one)
               new == FlattenSeq(other)
               kept == Only(cached, {f \in ToSet(cached) : f.key[1] # "changed"})
    <2>1. reported \in [Chunk -> Seq(Finding)]
        OBVIOUS
    <2>2. one \in [1 .. n -> Seq(Finding)] /\ other \in [1 .. NChunks - n -> Seq(Finding)]
        BY <2>1
    <2> HIDE DEF one, other
    <2>3. one \in Seq(Seq(Finding)) /\ other \in Seq(Seq(Finding))
        <3>1. n \in Nat /\ NChunks - n \in Nat
            OBVIOUS
        <3> QED BY <2>2, <3>1, ListIs, Zenon
    <2>4. cached \in Seq(Finding) /\ new \in Seq(Finding)
        BY <2>3, FlattenIs
    <2> HIDE DEF cached, new
    <2>5. kept \in Seq(Finding)
        BY <2>4, OnlyPicks
    <2>6. {f \in ToSet(cached) : f.key[1] # "changed"} = {f \in ToSet(cached) : f.key[1] \notin {"changed"}}
        OBVIOUS
    <2>7. MergeIncremental(cached, {"changed"}, new) = SortedByPriority(Dedupe(kept \o new))
        BY <2>6 DEF MergeIncremental
    <2> HIDE DEF kept
    <2>8. kept \o new \in Seq(Finding)
        BY <2>4, <2>5
    <2>9. Consolidates(MergeIncremental(cached, {"changed"}, new), kept \o new)
        BY <2>7, <2>8, ListIsConsolidated
    <2> QED BY <2>9 DEF kept, cached, new, one, other
<1>3. MergeConsolidates
    BY <1>1, Zenon DEF MergeConsolidates
<1>4. UpdateKeepsTheRest
    BY <1>2, Zenon DEF UpdateKeepsTheRest
<1> QED BY <1>3, <1>4 DEF MergeIsExact

\* In whatever order the chunks end and whatever they report, the merge of those that
\* succeeded loses no finding, doubles none and makes none less urgent, and neither does
\* the update of a saved review (_stream_split_review, _dedupe_findings, incremental_review).
THEOREM MergesLoseNothing == Spec => []MergeIsExact
<1>1. SplitInv => MergeIsExact
    BY MergesAreExact DEF SplitInv
<1> QED BY <1>1, SplitCorrect, PTL

-----------------------------------------------------------------------------
(* Sums *)

\* How a sum adds up.
SumSteps(g, counts) ==
    /\ g \in [0 .. Len(counts) -> Nat]
    /\ g[0] = 0
    /\ g[Len(counts)] = SumOf(counts)
    /\ \A k \in 1 .. Len(counts) : g[k] = g[k - 1] + counts[k]

LEMMA SumStepsExist ==
    ASSUME NEW counts \in Seq(Nat)
    PROVE  \E g : SumSteps(g, counts)
<1> DEFINE V == Nat
           n == Len(counts)
           Table(t) == t = [S \in SUBSET DOMAIN counts |->
                              IF S = {} THEN 0 ELSE t[S \ {Max(S)}] + counts[Max(S)]]
           d == [p \in V \X Nat |-> p[1] + p[2]]
           h == CHOOSE t : Table(t)
<1>1. counts \in Seq(Nat)
    OBVIOUS
<1>2. n \in Nat /\ DOMAIN counts = 1 .. n /\ \A i \in 1 .. n : counts[i] \in Nat
    BY <1>1
<1>3. 0 \in V
    OBVIOUS
<1>4. \A v \in V, x \in Nat : v + x \in V
    OBVIOUS
<1> HIDE DEF V
<1>5. d \in [V \X Nat -> V]
    BY <1>4
<1>6. \A v \in V, x \in Nat : d[<<v, x>>] = v + x
    OBVIOUS
<1> HIDE DEF d
<1>7. PICK t : FoldTable(t, V, 0, d, counts)
    BY <1>1, <1>3, <1>5, FoldTableExists, Zenon
<1>8. ASSUME NEW S \in SUBSET DOMAIN counts, S # {}
      PROVE  d[<<t[S \ {Max(S)}], counts[Max(S)]>>] = t[S \ {Max(S)}] + counts[Max(S)]
    <2>1. Max(S) \in S
        BY <1>2, <1>8, MaxIs
    <2>2. t[S \ {Max(S)}] \in V /\ counts[Max(S)] \in Nat
        BY <1>2, <1>7, <2>1 DEF FoldTable
    <2> QED BY <1>6, <2>2
<1>9. Table(t)
    BY <1>7, <1>8 DEF FoldTable
<1>10. Table(h)
    <2> HIDE DEF Table
    <2> QED BY <1>9
<1>11. h[DOMAIN counts] = SumOf(counts)
    BY Zenon DEF SumOf, FoldLeft, MapThenFoldSet
<1> HIDE DEF h
<1>12. h[{}] = 0
    BY <1>10
<1>13. ASSUME NEW k \in 1 .. n PROVE h[1 .. k] = h[1 .. k - 1] + counts[k]
    <2>1. k \in Nat \ {0} /\ 1 .. k \in SUBSET DOMAIN counts
        BY <1>2
    <2>2. h[1 .. k] = h[(1 .. k) \ {Max(1 .. k)}] + counts[Max(1 .. k)]
        BY <1>10, <2>1, MaxOfInterval
    <2> QED BY <2>1, <2>2, MaxOfInterval
<1>14. \A k \in 1 .. n : h[1 .. k - 1] \in V => h[1 .. k] = d[<<h[1 .. k - 1], counts[k]>>]
    BY <1>2, <1>6, <1>13
<1>15. PICK g : FoldSteps(g, V, 0, d, counts, h[DOMAIN counts])
    BY <1>1, <1>3, <1>5, <1>12, <1>14, FoldStepsExist, Zenon
<1>16. ASSUME NEW k \in 1 .. n PROVE g[k] = g[k - 1] + counts[k]
    <2>1. k - 1 \in 0 .. n
        BY <1>2
    <2>2. g[k - 1] \in V
        BY <1>15, <2>1 DEF FoldSteps
    <2> QED BY <1>2, <1>6, <1>15, <2>2 DEF FoldSteps
<1>17. /\ g \in [0 .. n -> Nat] /\ g[0] = 0
       /\ g[n] = h[DOMAIN counts]
    BY <1>15 DEF V, FoldSteps
<1>18. g[n] = SumOf(counts)
    BY <1>11, <1>17
<1>19. SumSteps(g, counts)
    BY <1>16, <1>17, <1>18 DEF SumSteps
<1> QED BY <1>19

LEMMA SumIs ==
    ASSUME NEW counts \in Seq(Nat), NEW g, g[0] = 0,
           \A k \in 1 .. Len(counts) : g[k] = g[k - 1] + counts[k]
    PROVE  SumOf(counts) = g[Len(counts)] /\ SumOf(counts) \in Nat
<1>1. PICK f \in [0 .. Len(counts) -> Nat] :
              /\ f[0] = 0 /\ f[Len(counts)] = SumOf(counts)
              /\ \A k \in 1 .. Len(counts) : f[k] = f[k - 1] + counts[k]
    BY SumStepsExist DEF SumSteps
<1> DEFINE T == {k \in 0 .. Len(counts) : f[k] = g[k]}
<1>2. Len(counts) \in Nat
    OBVIOUS
<1>3. 0 \in T
    BY <1>1, <1>2
<1>4. \A k \in 1 .. Len(counts) : k - 1 \in T => k \in T
    BY <1>1, <1>2
<1> HIDE DEF T
<1>5. \A k \in 0 .. Len(counts) : k \in T
    BY <1>2, <1>3, <1>4, InductionUpTo, Zenon
<1>6. f[Len(counts)] = g[Len(counts)]
    BY <1>2, <1>5 DEF T
<1> QED BY <1>1, <1>2, <1>6

LEMMA SumOfNothing == SumOf(<<>>) = 0
<1>1. PICK f \in [0 .. Len(<<>>) -> Nat] : f[0] = 0 /\ f[Len(<<>>)] = SumOf(<<>>)
    <2>1. <<>> \in Seq(Nat)
        OBVIOUS
    <2> QED BY <2>1, SumStepsExist DEF SumSteps
<1>2. Len(<<>>) = 0
    OBVIOUS
<1> QED BY <1>1, <1>2

LEMMA SumOfMore ==
    ASSUME NEW counts \in Seq(Nat), NEW x \in Nat
    PROVE  SumOf(Append(counts, x)) = SumOf(counts) + x
<1> DEFINE n == Len(counts)
           more == Append(counts, x)
<1>1. PICK f \in [0 .. n -> Nat] :
              /\ f[0] = 0 /\ f[n] = SumOf(counts)
              /\ \A k \in 1 .. n : f[k] = f[k - 1] + counts[k]
    BY SumStepsExist DEF SumSteps
<1> DEFINE g == [k \in 0 .. n + 1 |-> IF k <= n THEN f[k] ELSE f[n] + x]
<1>2. /\ n \in Nat /\ more \in Seq(Nat) /\ Len(more) = n + 1 /\ more[n + 1] = x
      /\ \A k \in 1 .. n : more[k] = counts[k]
    BY AppendProperties
<1> HIDE DEF more
<1>3. g[0] = 0
    BY <1>1, <1>2
<1>4. ASSUME NEW k \in 1 .. n + 1 PROVE g[k] = g[k - 1] + more[k]
    <2>1. k - 1 \in 0 .. n /\ g[k - 1] = f[k - 1]
        BY <1>2
    <2>2. CASE k \in 1 .. n
        BY <1>1, <1>2, <2>1, <2>2
    <2>3. CASE k = n + 1
        BY <1>2, <2>1, <2>3
    <2> QED BY <1>2, <2>2, <2>3
<1>5. g[n + 1] = f[n] + x
    BY <1>2
<1> HIDE DEF g
<1>6. SumOf(more) = g[Len(more)]
    BY <1>2, <1>3, <1>4, SumIs
<1> QED BY <1>1, <1>2, <1>5, <1>6 DEF more

\* A place that counts more makes the sum as much larger.
LEMMA SumOfBump ==
    ASSUME NEW counts \in Seq(Nat), NEW more \in Seq(Nat), Len(more) = Len(counts),
           NEW h \in 1 .. Len(counts), NEW x \in Nat, more[h] = counts[h] + x,
           \A k \in 1 .. Len(counts) : k # h => more[k] = counts[k]
    PROVE  SumOf(more) = SumOf(counts) + x
<1> DEFINE n == Len(counts)
<1>1. PICK f \in [0 .. n -> Nat] :
              /\ f[0] = 0 /\ f[n] = SumOf(counts)
              /\ \A k \in 1 .. n : f[k] = f[k - 1] + counts[k]
    BY SumStepsExist DEF SumSteps
<1> DEFINE g == [k \in 0 .. n |-> IF h <= k THEN f[k] + x ELSE f[k]]
<1>2. n \in Nat /\ \A k \in 1 .. n : counts[k] \in Nat
    OBVIOUS
<1>3. g[0] = 0
    BY <1>1, <1>2
<1>4. ASSUME NEW k \in 1 .. n PROVE g[k] = g[k - 1] + more[k]
    <2>0. k \in Nat /\ h \in Nat /\ k - 1 \in 0 .. n /\ k \in 0 .. n
        BY <1>2
    <2>1. f[k - 1] \in Nat /\ f[k] = f[k - 1] + counts[k] /\ counts[k] \in Nat
        BY <1>1, <1>2, <2>0
    <2>2. /\ g[k] = IF h <= k THEN f[k] + x ELSE f[k]
          /\ g[k - 1] = IF h <= k - 1 THEN f[k - 1] + x ELSE f[k - 1]
        BY <2>0
    <2> HIDE DEF g
    <2>3. CASE k = h
        <3>1. g[k] = f[k] + x /\ g[k - 1] = f[k - 1] /\ more[k] = counts[k] + x
            BY <2>0, <2>2, <2>3
        <3> QED BY <2>1, <3>1
    <2>4. CASE k # h
        <3>1. more[k] = counts[k] /\ (h <= k <=> h <= k - 1)
            BY <2>0, <2>4
        <3>2. CASE h <= k
            BY <2>1, <2>2, <3>1, <3>2
        <3>3. CASE ~(h <= k)
            BY <2>1, <2>2, <3>1, <3>3
        <3> QED BY <3>2, <3>3
    <2> QED BY <2>3, <2>4
<1>5. g[n] = f[n] + x
    BY <1>2
<1> HIDE DEF g
<1>6. SumOf(more) = g[n]
    BY <1>3, <1>4, SumIs
<1> QED BY <1>1, <1>5, <1>6

LEMMA SumOfNone ==
    ASSUME NEW counts \in Seq(Nat), \A k \in 1 .. Len(counts) : counts[k] = 0
    PROVE  SumOf(counts) = 0
<1> DEFINE g == [k \in 0 .. Len(counts) |-> 0]
<1>1. Len(counts) \in Nat
    OBVIOUS
<1>2. g[0] = 0 /\ g[Len(counts)] = 0 /\ \A k \in 1 .. Len(counts) : g[k] = g[k - 1] + counts[k]
    BY <1>1
<1> HIDE DEF g
<1> QED BY <1>2, SumIs

-----------------------------------------------------------------------------
(* Chunks and what they hold *)

ChunkRecord ==
    [files : Seq(Path), hunks : SUBSET (Path \X Nat), size : Nat, truncated : BOOLEAN, solo : BOOLEAN]

Own(f, hunks) == {<<f.path, h>> : h \in hunks}

Counts(f, hunks) ==
    [h \in DOMAIN f.hunks |-> IF <<f.path, h>> \in hunks THEN HunkSize(f.hunks[h]) ELSE 0]

\* The header of a section and those of its hunks that are in a set.
Weight(f, hunks) == f.header + SumOf(Counts(f, hunks))

LEMMA SectionIs ==
    ASSUME NEW f \in Section
    PROVE  /\ f.path \in Path /\ f.header \in Nat /\ f.hunks \in Seq(Hunk)
           /\ Len(f.hunks) \in Nat /\ DOMAIN f.hunks = 1 .. Len(f.hunks)
           /\ \A h \in DOMAIN f.hunks :
                 f.hunks[h] \in Hunk /\ HunkSize(f.hunks[h]) \in Nat /\ HunkSize(f.hunks[h]) > 0
<1>1. f.path \in Path /\ f.header \in Nat /\ f.hunks \in Seq(Hunk)
    BY DEF Section
<1>2. \A h \in DOMAIN f.hunks : f.hunks[h] \in Hunk
    BY <1>1
<1>3. \A h \in DOMAIN f.hunks : f.hunks[h].lines \in Seq(LineKind)
    BY <1>2 DEF Hunk
<1>4. \A h \in DOMAIN f.hunks : Len(f.hunks[h].lines) \in Nat
    BY <1>3
<1>5. \A h \in DOMAIN f.hunks : HunkSize(f.hunks[h]) \in Nat /\ HunkSize(f.hunks[h]) > 0
    BY <1>4 DEF HunkSize
<1> QED BY <1>1, <1>2, <1>5

LEMMA CountsAre ==
    ASSUME NEW f \in Section, NEW hunks
    PROVE  /\ Counts(f, hunks) \in Seq(Nat) /\ Len(Counts(f, hunks)) = Len(f.hunks)
           /\ SumOf(Counts(f, hunks)) \in Nat /\ Weight(f, hunks) \in Nat
<1>1. /\ f.header \in Nat /\ Len(f.hunks) \in Nat /\ DOMAIN f.hunks = 1 .. Len(f.hunks)
      /\ \A h \in DOMAIN f.hunks : HunkSize(f.hunks[h]) \in Nat
    BY SectionIs
<1>2. Counts(f, hunks) \in [1 .. Len(f.hunks) -> Nat]
    BY <1>1 DEF Counts
<1>3. Counts(f, hunks) \in Seq(Nat) /\ Len(Counts(f, hunks)) = Len(f.hunks)
    BY <1>1, <1>2
<1>4. SumOf(Counts(f, hunks)) \in Nat
    BY <1>3, SumStepsExist, SumIs DEF SumSteps
<1> QED BY <1>1, <1>3, <1>4 DEF Weight

LEMMA WeightOfNone ==
    ASSUME NEW f \in Section, NEW hunks, \A h \in DOMAIN f.hunks : <<f.path, h>> \notin hunks
    PROVE  Weight(f, hunks) = f.header
<1>1. Counts(f, hunks) \in Seq(Nat) /\ Len(Counts(f, hunks)) = Len(f.hunks)
    BY CountsAre
<1>2. \A h \in 1 .. Len(f.hunks) : Counts(f, hunks)[h] = 0
    BY SectionIs DEF Counts
<1>3. SumOf(Counts(f, hunks)) = 0
    BY <1>1, <1>2, SumOfNone
<1> QED BY <1>3, SectionIs DEF Weight

LEMMA WeightOfSame ==
    ASSUME NEW f \in Section, NEW s, NEW t,
           \A h \in DOMAIN f.hunks : <<f.path, h>> \in s <=> <<f.path, h>> \in t
    PROVE  Weight(f, s) = Weight(f, t)
<1>1. Counts(f, s) = Counts(f, t)
    BY DEF Counts
<1> QED BY <1>1 DEF Weight

LEMMA WeightOfAll ==
    ASSUME NEW f \in Section, NEW s, \A h \in DOMAIN f.hunks : <<f.path, h>> \in s
    PROVE  Weight(f, s) = SectionSize(f)
<1>1. Counts(f, s) = [h \in DOMAIN f.hunks |-> HunkSize(f.hunks[h])]
    BY DEF Counts
<1> QED BY <1>1 DEF Weight, SectionSize

LEMMA WeightOfMore ==
    ASSUME NEW f \in Section, NEW s, NEW h \in DOMAIN f.hunks, <<f.path, h>> \notin s
    PROVE  Weight(f, s \cup {<<f.path, h>>}) = Weight(f, s) + HunkSize(f.hunks[h])
<1> DEFINE t == s \cup {<<f.path, h>>}
           size == HunkSize(f.hunks[h])
<1>1. /\ Counts(f, s) \in Seq(Nat) /\ Len(Counts(f, s)) = Len(f.hunks)
      /\ Counts(f, t) \in Seq(Nat) /\ Len(Counts(f, t)) = Len(f.hunks)
      /\ SumOf(Counts(f, s)) \in Nat
    BY CountsAre
<1>2. h \in 1 .. Len(f.hunks) /\ size \in Nat /\ f.header \in Nat
    BY SectionIs
<1>3. Counts(f, t)[h] = size /\ Counts(f, s)[h] = 0
    BY DEF Counts
<1>4. \A k \in DOMAIN f.hunks : k # h => Counts(f, t)[k] = Counts(f, s)[k]
    BY DEF Counts
<1>5. \A k \in 1 .. Len(f.hunks) : k # h => Counts(f, t)[k] = Counts(f, s)[k]
    BY <1>4, SectionIs
<1> HIDE DEF size, t
<1>6. Counts(f, t)[h] = Counts(f, s)[h] + size
    BY <1>2, <1>3
<1>7. SumOf(Counts(f, t)) = SumOf(Counts(f, s)) + size
    <2> DEFINE a == Counts(f, s)
               b == Counts(f, t)
    <2>1. /\ a \in Seq(Nat) /\ b \in Seq(Nat) /\ Len(b) = Len(a) /\ h \in 1 .. Len(a)
          /\ \A k \in 1 .. Len(a) : k # h => b[k] = a[k]
        BY <1>1, <1>2, <1>5
    <2>2. b[h] = a[h] + size
        BY <1>6
    <2> HIDE DEF a, b
    <2>3. SumOf(b) = SumOf(a) + size
        BY <1>2, <2>1, <2>2, SumOfBump
    <2> QED BY <2>3 DEF a, b
<1>8. Weight(f, t) = Weight(f, s) + size
    BY <1>1, <1>2, <1>7 DEF Weight
<1> QED BY <1>8 DEF t, size

\* A hunk is in one of the chunks, or in none.
Once(chunks, x) ==
    /\ \E i \in DOMAIN chunks : x \in chunks[i].hunks
    /\ \A i, j \in DOMAIN chunks : x \in chunks[i].hunks /\ x \in chunks[j].hunks => i = j

Nowhere(chunks, x) == \A i \in DOMAIN chunks : x \notin chunks[i].hunks

LEMMA ConcatOnce ==
    ASSUME NEW V, NEW s \in Seq(V), NEW t \in Seq(V), NEW x
    PROVE  /\ Once(s, x) /\ Nowhere(t, x) => Once(s \o t, x)
           /\ Nowhere(s, x) /\ Once(t, x) => Once(s \o t, x)
           /\ Nowhere(s, x) /\ Nowhere(t, x) => Nowhere(s \o t, x)
<1> DEFINE u == s \o t
           n == Len(s)
           m == Len(t)
<1>1. n \in Nat /\ m \in Nat /\ DOMAIN s = 1 .. n /\ DOMAIN t = 1 .. m
    OBVIOUS
<1>2. /\ DOMAIN u = 1 .. n + m
      /\ \A i \in 1 .. n + m : u[i] = IF i <= n THEN s[i] ELSE t[i - n]
    BY ConcatProperties
<1> HIDE DEF u, n, m
<1>3. \A i \in 1 .. n : i \in DOMAIN u /\ u[i] = s[i]
    BY <1>1, <1>2
<1>4. \A i \in 1 .. m : n + i \in DOMAIN u /\ u[n + i] = t[i]
    BY <1>1, <1>2
<1>5. \A i \in DOMAIN u : (i \in 1 .. n /\ u[i] = s[i])
                          \/ (i - n \in 1 .. m /\ i = n + (i - n) /\ u[i] = t[i - n])
    BY <1>1, <1>2
<1>6. ASSUME Once(s, x), Nowhere(t, x) PROVE Once(u, x)
    <2>1. \E i \in DOMAIN u : x \in u[i].hunks
        BY <1>1, <1>3, <1>6 DEF Once
    <2>2. \A i \in DOMAIN u : x \in u[i].hunks => i \in 1 .. n /\ x \in s[i].hunks
        BY <1>1, <1>5, <1>6 DEF Nowhere
    <2> QED BY <1>1, <1>6, <2>1, <2>2 DEF Once
<1>7. ASSUME Nowhere(s, x), Once(t, x) PROVE Once(u, x)
    <2>1. \E i \in DOMAIN u : x \in u[i].hunks
        BY <1>1, <1>4, <1>7 DEF Once
    <2>2. \A i \in DOMAIN u : x \in u[i].hunks =>
             i - n \in 1 .. m /\ i = n + (i - n) /\ x \in t[i - n].hunks
        BY <1>1, <1>5, <1>7 DEF Nowhere
    <2>3. ASSUME NEW i \in DOMAIN u, NEW j \in DOMAIN u, x \in u[i].hunks, x \in u[j].hunks
          PROVE  i = j
        <3>1. i - n = j - n
            BY <1>1, <1>7, <2>2, <2>3 DEF Once
        <3> QED BY <2>2, <2>3, <3>1
    <2> QED BY <2>1, <2>3 DEF Once
<1>8. ASSUME Nowhere(s, x), Nowhere(t, x) PROVE Nowhere(u, x)
    BY <1>1, <1>5, <1>8 DEF Nowhere
<1> QED BY <1>6, <1>7, <1>8 DEF u

LEMMA AppendOnce ==
    ASSUME NEW V, NEW s \in Seq(V), NEW c \in V, NEW x
    PROVE  /\ Once(s, x) /\ x \notin c.hunks => Once(Append(s, c), x)
           /\ Nowhere(s, x) /\ x \in c.hunks => Once(Append(s, c), x)
           /\ Nowhere(s, x) /\ x \notin c.hunks => Nowhere(Append(s, c), x)
<1>1. <<c>> \in Seq(V) /\ Append(s, c) = s \o <<c>>
    BY AppendIsConcat
<1>2. DOMAIN <<c>> = {1} /\ <<c>>[1] = c
    OBVIOUS
<1>3. x \in c.hunks => Once(<<c>>, x)
    BY <1>2 DEF Once
<1>4. x \notin c.hunks => Nowhere(<<c>>, x)
    BY <1>2 DEF Nowhere
<1> QED BY <1>1, <1>3, <1>4, ConcatOnce

-----------------------------------------------------------------------------
(* A file of its own chunks *)

\* A chunk made of one section.
Exact(c, f, max) ==
    /\ c.files = <<f.path>> /\ c.size <= max
    /\ ~c.truncated => c.size = Weight(f, c.hunks)
    /\ c.hunks \subseteq Own(f, DOMAIN f.hunks)

LEMMA ChunkOfIs ==
    ASSUME NEW f \in Section, NEW hunks \in SUBSET Nat, NEW size \in Nat,
           NEW truncated \in BOOLEAN, NEW solo \in BOOLEAN
    PROVE  LET c == ChunkOf(f, hunks, size, truncated, solo)
           IN /\ c \in ChunkRecord
              /\ c.files = <<f.path>> /\ c.hunks = Own(f, hunks) /\ c.size = size
              /\ c.truncated = truncated /\ c.solo = solo
              /\ hunks \subseteq DOMAIN f.hunks => c.hunks \subseteq Own(f, DOMAIN f.hunks)
<1> DEFINE c == ChunkOf(f, hunks, size, truncated, solo)
<1>1. /\ c.files = <<f.path>> /\ c.hunks = Own(f, hunks) /\ c.size = size
      /\ c.truncated = truncated /\ c.solo = solo
    BY DEF ChunkOf, Own
<1>2. f.path \in Path
    BY SectionIs
<1>3. /\ Own(f, hunks) \in SUBSET (Path \X Nat)
      /\ hunks \subseteq DOMAIN f.hunks => Own(f, hunks) \subseteq Own(f, DOMAIN f.hunks)
    BY <1>2 DEF Own
<1>4. <<f.path>> \in Seq(Path)
    BY <1>2
<1>5. c = [files |-> <<f.path>>, hunks |-> Own(f, hunks), size |-> size,
           truncated |-> truncated, solo |-> solo]
    BY DEF ChunkOf, Own
<1>6. c \in ChunkRecord
    BY <1>3, <1>4, <1>5 DEF ChunkRecord
<1> HIDE DEF c
<1>7. hunks \subseteq DOMAIN f.hunks => c.hunks \subseteq Own(f, DOMAIN f.hunks)
    BY <1>1, <1>3
<1> QED BY <1>1, <1>6, <1>7 DEF c

Acc == [pieces : Seq(ChunkRecord), open : SUBSET Nat, size : Nat]

\* What _split_oversized_file has made of the first k hunks.
Opened(acc, f, max, k) ==
    /\ acc.open \subseteq 1 .. k
    /\ acc.size = Weight(f, Own(f, acc.open)) /\ acc.size <= max
    /\ \A i \in DOMAIN acc.pieces : acc.pieces[i].solo /\ Exact(acc.pieces[i], f, max)
    /\ \A h \in acc.open : Nowhere(acc.pieces, <<f.path, h>>)
    /\ \A h \in (1 .. k) \ acc.open : Once(acc.pieces, <<f.path, h>>)
    /\ \A h \in DOMAIN f.hunks \ 1 .. k : Nowhere(acc.pieces, <<f.path, h>>)

LEMMA OwnIs ==
    ASSUME NEW f, NEW hunks, NEW h
    PROVE  /\ <<f.path, h>> \in Own(f, hunks) <=> h \in hunks
           /\ Own(f, hunks \cup {h}) = Own(f, hunks) \cup {<<f.path, h>>}
           /\ Own(f, {}) = {}
<1>1. \A g : <<f.path, g>> = <<f.path, h>> => g = h
    OBVIOUS
<1>2. <<f.path, h>> \in Own(f, hunks) <=> h \in hunks
    BY <1>1 DEF Own
<1>3. Own(f, hunks \cup {h}) = Own(f, hunks) \cup {<<f.path, h>>}
    BY DEF Own
<1>4. Own(f, {}) = {}
    BY DEF Own
<1> QED BY <1>2, <1>3, <1>4

\* A piece more.
LEMMA PieceAdded ==
    ASSUME NEW f \in Section, NEW max, NEW pieces \in Seq(ChunkRecord), NEW p \in ChunkRecord,
           \A i \in DOMAIN pieces : pieces[i].solo /\ Exact(pieces[i], f, max),
           p.solo, Exact(p, f, max)
    PROVE  /\ Append(pieces, p) \in Seq(ChunkRecord)
           /\ \A i \in DOMAIN Append(pieces, p) :
                 Append(pieces, p)[i].solo /\ Exact(Append(pieces, p)[i], f, max)
<1> DEFINE more == Append(pieces, p)
<1>1. /\ more \in Seq(ChunkRecord) /\ DOMAIN more = 1 .. Len(pieces) + 1
      /\ more[Len(pieces) + 1] = p /\ \A i \in 1 .. Len(pieces) : more[i] = pieces[i]
      /\ Len(pieces) \in Nat /\ DOMAIN pieces = 1 .. Len(pieces)
    BY AppendProperties
<1> HIDE DEF more
<1>2. \A i \in DOMAIN more : i = Len(pieces) + 1 \/ i \in DOMAIN pieces
    BY <1>1
<1>3. \A i \in DOMAIN more : more[i].solo /\ Exact(more[i], f, max)
    BY <1>1, <1>2
<1> QED BY <1>1, <1>3 DEF more

LEMMA RoomIsMade ==
    ASSUME NEW f \in Section, NEW max \in Nat, f.header < max, NEW acc \in Acc,
           NEW h \in DOMAIN f.hunks, Opened(acc, f, max, h - 1)
    PROVE  LET begun == RoomMade(f, max, acc, h)
           IN /\ begun \in Acc /\ Opened(begun, f, max, h - 1)
              /\ begun.open = {} \/ begun.size + HunkSize(f.hunks[h]) <= max
<1> DEFINE begun == RoomMade(f, max, acc, h)
           fits == acc.open = {} \/ acc.size + HunkSize(f.hunks[h]) <= max
           piece == Piece(f, acc.open, acc.size)
           new == [pieces |-> Append(acc.pieces, piece), open |-> {}, size |-> f.header]
<1>1. begun = IF fits THEN acc ELSE new
    BY DEF RoomMade
<1>2. CASE fits
    BY <1>1, <1>2
<1>3. CASE ~fits
    <2>1. /\ acc.pieces \in Seq(ChunkRecord) /\ acc.open \in SUBSET Nat /\ acc.size \in Nat
        BY DEF Acc
    <2>2. acc.open \in SUBSET DOMAIN f.hunks /\ h \in Nat
        <3>1. h \in 1 .. Len(f.hunks) /\ DOMAIN f.hunks = 1 .. Len(f.hunks) /\ Len(f.hunks) \in Nat
            BY SectionIs
        <3>2. acc.open \subseteq 1 .. h - 1
            BY DEF Opened
        <3>3. 1 .. h - 1 \subseteq 1 .. Len(f.hunks)
            BY <3>1
        <3> QED BY <3>1, <3>2, <3>3
    <2>3. /\ piece \in ChunkRecord
          /\ piece.files = <<f.path>> /\ piece.hunks = Own(f, acc.open) /\ piece.size = acc.size
          /\ piece.truncated = FALSE /\ piece.solo = TRUE
          /\ piece.hunks \subseteq Own(f, DOMAIN f.hunks)
        BY <2>1, <2>2, ChunkOfIs DEF Piece
    <2> HIDE DEF piece
    <2>4. acc.size = Weight(f, Own(f, acc.open)) /\ acc.size <= max
        BY DEF Opened
    <2>5. Exact(piece, f, max) /\ piece.solo
        BY <2>3, <2>4 DEF Exact
    <2>6. /\ Append(acc.pieces, piece) \in Seq(ChunkRecord)
          /\ \A i \in DOMAIN Append(acc.pieces, piece) :
                Append(acc.pieces, piece)[i].solo /\ Exact(Append(acc.pieces, piece)[i], f, max)
        <3>1. \A i \in DOMAIN acc.pieces : acc.pieces[i].solo /\ Exact(acc.pieces[i], f, max)
            BY DEF Opened
        <3> QED BY <2>1, <2>3, <2>5, <3>1, PieceAdded
    <2>7. f.header \in Nat
        BY SectionIs
    <2>8. new \in Acc /\ new.open = {} /\ new.size = f.header /\ new.pieces = Append(acc.pieces, piece)
        BY <2>6, <2>7 DEF Acc
    <2>9. f.header = Weight(f, Own(f, {}))
        BY OwnIs, WeightOfNone
    <2>10. \A g \in acc.open : Once(new.pieces, <<f.path, g>>)
        <3> TAKE g \in acc.open
        <3>1. <<f.path, g>> \in piece.hunks
            BY <2>3, OwnIs
        <3>2. Nowhere(acc.pieces, <<f.path, g>>)
            BY DEF Opened
        <3> QED BY <2>1, <2>3, <2>8, <3>1, <3>2, AppendOnce
    <2>11. \A g \in (1 .. h - 1) \ acc.open : Once(new.pieces, <<f.path, g>>)
        <3> TAKE g \in (1 .. h - 1) \ acc.open
        <3>1. <<f.path, g>> \notin piece.hunks
            BY <2>3, OwnIs
        <3>2. Once(acc.pieces, <<f.path, g>>)
            BY DEF Opened
        <3> QED BY <2>1, <2>3, <2>8, <3>1, <3>2, AppendOnce
    <2>12. \A g \in DOMAIN f.hunks \ 1 .. h - 1 : Nowhere(new.pieces, <<f.path, g>>)
        <3> TAKE g \in DOMAIN f.hunks \ 1 .. h - 1
        <3>1. g \notin acc.open
            BY DEF Opened
        <3>2. <<f.path, g>> \notin piece.hunks
            BY <2>3, <3>1, OwnIs
        <3>3. Nowhere(acc.pieces, <<f.path, g>>)
            BY DEF Opened
        <3> QED BY <2>1, <2>3, <2>8, <3>2, <3>3, AppendOnce
    <2>13. f.header <= max
        BY <2>7
    <2>14. \A i \in DOMAIN new.pieces : new.pieces[i].solo /\ Exact(new.pieces[i], f, max)
        BY <2>6, <2>8
    <2> HIDE DEF new
    <2>15. Opened(new, f, max, h - 1)
        BY <2>8, <2>9, <2>10, <2>11, <2>12, <2>13, <2>14 DEF Opened
    <2> QED BY <1>1, <1>3, <2>8, <2>15
<1> HIDE DEF begun
<1> QED BY <1>2, <1>3 DEF begun

LEMMA HunkIsAdded ==
    ASSUME NEW f \in Section, NEW max \in Nat, f.header < max, NEW acc \in Acc,
           NEW h \in DOMAIN f.hunks, Opened(acc, f, max, h - 1)
    PROVE  AddHunk(f, max, acc, h) \in Acc /\ Opened(AddHunk(f, max, acc, h), f, max, h)
<1> DEFINE begun == RoomMade(f, max, acc, h)
           size == begun.size + HunkSize(f.hunks[h])
           cut == ChunkOf(f, {h}, max, TRUE, TRUE)
           fit == [begun EXCEPT !.open = @ \cup {h}, !.size = size]
           new == [begun EXCEPT !.pieces = Append(@, cut)]
<1>1. AddHunk(f, max, acc, h) = IF size <= max THEN fit ELSE new
    BY DEF AddHunk
<1>2. begun \in Acc /\ Opened(begun, f, max, h - 1)
    BY RoomIsMade
<1> HIDE DEF begun
<1>3. begun.pieces \in Seq(ChunkRecord) /\ begun.open \in SUBSET Nat /\ begun.size \in Nat
    BY <1>2 DEF Acc
<1>4. HunkSize(f.hunks[h]) \in Nat /\ h \in Nat \ {0} /\ h \in 1 .. Len(f.hunks)
    BY SectionIs
<1>5. h \notin 1 .. h - 1 /\ 1 .. h = (1 .. h - 1) \cup {h}
    BY <1>4
<1>6. Nowhere(begun.pieces, <<f.path, h>>)
    BY <1>2, <1>5 DEF Opened
<1>7. h \notin begun.open
    BY <1>2, <1>5 DEF Opened
<1>8. ASSUME size <= max PROVE fit \in Acc /\ Opened(fit, f, max, h)
    <2>1. size \in Nat
        BY <1>3, <1>4
    <2> HIDE DEF size
    <2>2. /\ fit.pieces = begun.pieces /\ fit.open = begun.open \cup {h} /\ fit.size = size
          /\ fit \in Acc
        BY <1>2, <1>3, <1>4, <2>1 DEF Acc
    <2> HIDE DEF fit
    <2>3. size = Weight(f, Own(f, fit.open))
        <3>1. <<f.path, h>> \notin Own(f, begun.open)
            BY <1>7, OwnIs
        <3>2. Weight(f, Own(f, begun.open) \cup {<<f.path, h>>})
                = Weight(f, Own(f, begun.open)) + HunkSize(f.hunks[h])
            BY <3>1, WeightOfMore
        <3>3. Own(f, fit.open) = Own(f, begun.open) \cup {<<f.path, h>>}
            <4>1. Own(f, begun.open \cup {h}) = Own(f, begun.open) \cup {<<f.path, h>>}
                BY DEF Own
            <4> QED BY <2>2, <4>1
        <3>4. begun.size = Weight(f, Own(f, begun.open))
            BY <1>2 DEF Opened
        <3> QED BY <3>2, <3>3, <3>4 DEF size
    <2>4. fit.open \subseteq 1 .. h
        BY <1>2, <1>5, <2>2 DEF Opened
    <2>5. \A g \in fit.open : Nowhere(fit.pieces, <<f.path, g>>)
        BY <1>2, <1>6, <2>2 DEF Opened
    <2>6. \A g \in (1 .. h) \ fit.open : Once(fit.pieces, <<f.path, g>>)
        BY <1>2, <1>5, <2>2 DEF Opened
    <2>7. \A g \in DOMAIN f.hunks \ 1 .. h : Nowhere(fit.pieces, <<f.path, g>>)
        BY <1>2, <1>5, <2>2 DEF Opened
    <2>8. \A i \in DOMAIN fit.pieces : fit.pieces[i].solo /\ Exact(fit.pieces[i], f, max)
        BY <1>2, <2>2 DEF Opened
    <2> QED BY <1>8, <2>2, <2>3, <2>4, <2>5, <2>6, <2>7, <2>8 DEF Opened
<1>9. new \in Acc /\ Opened(new, f, max, h)
    <2>1. /\ cut \in ChunkRecord
          /\ cut.files = <<f.path>> /\ cut.hunks = Own(f, {h}) /\ cut.size = max
          /\ cut.truncated = TRUE /\ cut.solo = TRUE
          /\ cut.hunks \subseteq Own(f, DOMAIN f.hunks)
        <3>1. {h} \in SUBSET Nat /\ {h} \subseteq DOMAIN f.hunks
            BY <1>4
        <3> QED BY <3>1, ChunkOfIs
    <2> HIDE DEF cut
    <2>2. Exact(cut, f, max) /\ cut.solo
        <3>1. cut.size <= max
            BY <2>1
        <3>2. cut.truncated /\ cut.solo
            BY <2>1
        <3> QED BY <2>1, <3>1, <3>2, Zenon DEF Exact
    <2>3. /\ Append(begun.pieces, cut) \in Seq(ChunkRecord)
          /\ \A i \in DOMAIN Append(begun.pieces, cut) :
                Append(begun.pieces, cut)[i].solo /\ Exact(Append(begun.pieces, cut)[i], f, max)
        <3>1. \A i \in DOMAIN begun.pieces : begun.pieces[i].solo /\ Exact(begun.pieces[i], f, max)
            BY <1>2 DEF Opened
        <3> QED BY <1>3, <2>1, <2>2, <3>1, PieceAdded
    <2>4. /\ new.pieces = Append(begun.pieces, cut) /\ new.open = begun.open /\ new.size = begun.size
          /\ new \in Acc
        BY <1>2, <1>3, <2>3 DEF Acc
    <2> HIDE DEF new
    <2>5. ASSUME NEW g, g # h PROVE <<f.path, g>> \notin cut.hunks
        <3>1. <<f.path, g>> \in Own(f, {h}) <=> g \in {h}
            BY OwnIs, Zenon
        <3> QED BY <2>1, <2>5, <3>1
    <2>6. <<f.path, h>> \in cut.hunks
        BY <2>1, OwnIs
    <2>7. new.open \subseteq 1 .. h
        BY <1>2, <1>5, <2>4 DEF Opened
    <2>8. \A g \in new.open : Nowhere(new.pieces, <<f.path, g>>)
        <3> TAKE g \in new.open
        <3>1. Nowhere(begun.pieces, <<f.path, g>>) /\ g # h
            BY <1>2, <1>7, <2>4 DEF Opened
        <3> QED BY <1>3, <2>1, <2>4, <2>5, <3>1, AppendOnce
    <2>9. \A g \in (1 .. h) \ new.open : Once(new.pieces, <<f.path, g>>)
        <3> TAKE g \in (1 .. h) \ new.open
        <3>1. CASE g = h
            BY <1>3, <1>6, <2>1, <2>4, <2>6, <3>1, AppendOnce
        <3>2. CASE g # h
            <4>1. Once(begun.pieces, <<f.path, g>>)
                BY <1>2, <1>5, <2>4, <3>2 DEF Opened
            <4> QED BY <1>3, <2>1, <2>4, <2>5, <3>2, <4>1, AppendOnce
        <3> QED BY <3>1, <3>2
    <2>10. \A g \in DOMAIN f.hunks \ 1 .. h : Nowhere(new.pieces, <<f.path, g>>)
        <3> TAKE g \in DOMAIN f.hunks \ 1 .. h
        <3>1. Nowhere(begun.pieces, <<f.path, g>>) /\ g # h
            BY <1>2, <1>5 DEF Opened
        <3> QED BY <1>3, <2>1, <2>4, <2>5, <3>1, AppendOnce
    <2>11. \A i \in DOMAIN new.pieces : new.pieces[i].solo /\ Exact(new.pieces[i], f, max)
        BY <2>3, <2>4
    <2>12. new.size = Weight(f, Own(f, new.open)) /\ new.size <= max
        BY <1>2, <2>4 DEF Opened
    <2> QED BY <2>4, <2>7, <2>8, <2>9, <2>10, <2>11, <2>12 DEF Opened
<1> QED BY <1>1, <1>8, <1>9

LEMMA AddHunkIs ==
    ASSUME NEW f \in Section, NEW max \in Nat
    PROVE  \A acc \in Acc, h \in DOMAIN f.hunks : AddHunk(f, max, acc, h) \in Acc
<1> TAKE acc \in Acc, h \in DOMAIN f.hunks
<1> DEFINE begun == RoomMade(f, max, acc, h)
           size == begun.size + HunkSize(f.hunks[h])
           cut == ChunkOf(f, {h}, max, TRUE, TRUE)
           fit == [begun EXCEPT !.open = @ \cup {h}, !.size = size]
           new == [begun EXCEPT !.pieces = Append(@, cut)]
           piece == Piece(f, acc.open, acc.size)
<1>1. AddHunk(f, max, acc, h) = IF size <= max THEN fit ELSE new
    BY DEF AddHunk
<1>2. begun \in Acc
    <2>1. acc.pieces \in Seq(ChunkRecord) /\ acc.open \in SUBSET Nat /\ acc.size \in Nat
        BY DEF Acc
    <2>2. piece \in ChunkRecord
        BY <2>1, ChunkOfIs DEF Piece
    <2>3. f.header \in Nat
        BY SectionIs
    <2> HIDE DEF piece
    <2>4. [pieces |-> Append(acc.pieces, piece), open |-> {}, size |-> f.header] \in Acc
        BY <2>1, <2>2, <2>3 DEF Acc
    <2> QED BY <2>4 DEF RoomMade, piece
<1> HIDE DEF begun
<1>3. begun.pieces \in Seq(ChunkRecord) /\ begun.open \in SUBSET Nat /\ begun.size \in Nat
    BY <1>2 DEF Acc
<1>4. cut \in ChunkRecord
    <2>1. {h} \in SUBSET Nat
        BY SectionIs
    <2> QED BY <2>1, ChunkOfIs
<1>5. HunkSize(f.hunks[h]) \in Nat /\ h \in Nat
    BY SectionIs
<1>6. size \in Nat
    BY <1>3, <1>5
<1> HIDE DEF size, cut
<1>7. fit \in Acc
    BY <1>2, <1>3, <1>5, <1>6 DEF Acc
<1>8. new \in Acc
    <2>1. Append(begun.pieces, cut) \in Seq(ChunkRecord)
        BY <1>3, <1>4
    <2> QED BY <1>2, <1>3, <2>1 DEF Acc
<1> QED BY <1>1, <1>7, <1>8

AtFirst(f) == [pieces |-> <<>>, open |-> {}, size |-> f.header]

\* What _split_oversized_file returns when it has seen all hunks.
SplitEnd(f, max, acc) ==
    IF f.hunks = <<>> THEN <<ChunkOf(f, DOMAIN f.hunks, max, TRUE, TRUE)>>
    ELSE acc.pieces \o IF acc.open = {} THEN <<>> ELSE <<Piece(f, acc.open, acc.size)>>

\* The pieces of a file, hunk by hunk.
SplitSteps(g, f, max, places) ==
    /\ g \in [0 .. Len(places) -> Acc]
    /\ g[0] = AtFirst(f)
    /\ SplitOversizedFile(f, max) = SplitEnd(f, max, g[Len(places)])
    /\ \A k \in 1 .. Len(places) : g[k] = AddHunk(f, max, g[k - 1], places[k])

LEMMA SplitStepsExist ==
    ASSUME NEW f \in Section, NEW max \in Nat, f.header < max,
           NEW places, places = [h \in DOMAIN f.hunks |-> h]
    PROVE  \E g : SplitSteps(g, f, max, places)
<1> DEFINE V == Acc
           n == Len(places)
           Table(t) == t = [S \in SUBSET DOMAIN places |->
                              IF S = {} THEN AtFirst(f) ELSE AddHunk(f, max, t[S \ {Max(S)}], places[Max(S)])]
           d == [p \in V \X DOMAIN f.hunks |-> AddHunk(f, max, p[1], p[2])]
           h == CHOOSE t : Table(t)
<1>1. places \in Seq(DOMAIN f.hunks)
    BY SectionIs, ListIs, Zenon
<1>2. n \in Nat /\ DOMAIN places = 1 .. n /\ \A i \in 1 .. n : places[i] \in DOMAIN f.hunks
    BY <1>1
<1>3. AtFirst(f) \in V
    BY SectionIs DEF Acc, AtFirst
<1>4. \A v \in V, x \in DOMAIN f.hunks : AddHunk(f, max, v, x) \in V
    BY AddHunkIs
<1> HIDE DEF V
<1>5. d \in [V \X DOMAIN f.hunks -> V]
    BY <1>4
<1>6. \A v \in V, x \in DOMAIN f.hunks : d[<<v, x>>] = AddHunk(f, max, v, x)
    OBVIOUS
<1> HIDE DEF d
<1>7. PICK t : FoldTable(t, V, AtFirst(f), d, places)
    BY <1>1, <1>3, <1>5, FoldTableExists, Zenon
<1>8. ASSUME NEW S \in SUBSET DOMAIN places, S # {}
      PROVE  d[<<t[S \ {Max(S)}], places[Max(S)]>>] = AddHunk(f, max, t[S \ {Max(S)}], places[Max(S)])
    <2>1. Max(S) \in S
        BY <1>2, <1>8, MaxIs
    <2>2. t[S \ {Max(S)}] \in V /\ places[Max(S)] \in DOMAIN f.hunks
        BY <1>2, <1>7, <2>1 DEF FoldTable
    <2> QED BY <1>6, <2>2
<1>9. Table(t)
    BY <1>7, <1>8 DEF FoldTable
<1>10. Table(h)
    <2> HIDE DEF Table
    <2> QED BY <1>9
<1>11. SplitOversizedFile(f, max) = SplitEnd(f, max, h[DOMAIN places])
    <2> DEFINE last == FoldLeft(LAMBDA acc, x : AddHunk(f, max, acc, x), AtFirst(f), places)
    <2>1. last = h[DOMAIN places]
        BY Zenon DEF FoldLeft, MapThenFoldSet
    <2>2. SplitOversizedFile(f, max) =
            IF f.hunks = <<>> \/ f.header >= max
            THEN <<ChunkOf(f, DOMAIN f.hunks, max, TRUE, TRUE)>>
            ELSE last.pieces \o IF last.open = {} THEN <<>>
                                ELSE <<Piece(f, last.open, last.size)>>
        BY Zenon DEF SplitOversizedFile, AtFirst
    <2>3. ~(f.header >= max)
        BY SectionIs
    <2> HIDE DEF last, h
    <2> QED BY <2>1, <2>2, <2>3, Zenon DEF SplitEnd
<1> HIDE DEF h
<1>12. h[{}] = AtFirst(f)
    BY <1>10
<1>13. ASSUME NEW k \in 1 .. n PROVE h[1 .. k] = AddHunk(f, max, h[1 .. k - 1], places[k])
    <2>1. k \in Nat \ {0} /\ 1 .. k \in SUBSET DOMAIN places
        BY <1>2
    <2>2. h[1 .. k] = AddHunk(f, max, h[(1 .. k) \ {Max(1 .. k)}], places[Max(1 .. k)])
        BY <1>10, <2>1, MaxOfInterval
    <2> QED BY <2>1, <2>2, MaxOfInterval
<1>14. \A k \in 1 .. n : h[1 .. k - 1] \in V => h[1 .. k] = d[<<h[1 .. k - 1], places[k]>>]
    BY <1>2, <1>6, <1>13
<1>15. PICK g : FoldSteps(g, V, AtFirst(f), d, places, h[DOMAIN places])
    BY <1>1, <1>3, <1>5, <1>12, <1>14, FoldStepsExist, Zenon
<1>16. ASSUME NEW k \in 1 .. n PROVE g[k] = AddHunk(f, max, g[k - 1], places[k])
    <2>1. k - 1 \in 0 .. n
        BY <1>2
    <2>2. g[k - 1] \in V
        BY <1>15, <2>1 DEF FoldSteps
    <2> QED BY <1>2, <1>6, <1>15, <2>2 DEF FoldSteps
<1>17. /\ g \in [0 .. n -> Acc] /\ g[0] = AtFirst(f)
       /\ g[n] = h[DOMAIN places]
    BY <1>15 DEF V, FoldSteps
<1>18. SplitOversizedFile(f, max) = SplitEnd(f, max, g[n])
    BY <1>11, <1>17
<1>19. SplitSteps(g, f, max, places)
    BY <1>16, <1>17, <1>18 DEF SplitSteps
<1> QED BY <1>19

\* Chunks made of one section hold all of it.
Covers(chunks, f, max) ==
    /\ chunks \in Seq(ChunkRecord) /\ chunks # <<>>
    /\ \A i \in DOMAIN chunks : Exact(chunks[i], f, max)
    /\ \A h \in DOMAIN f.hunks : Once(chunks, <<f.path, h>>)

LEMMA OneCovers ==
    ASSUME NEW f \in Section, NEW max \in Nat, NEW c \in ChunkRecord, Exact(c, f, max),
           c.hunks = Own(f, DOMAIN f.hunks)
    PROVE  Covers(<<c>>, f, max)
<1>1. <<c>> \in Seq(ChunkRecord) /\ <<c>> # <<>> /\ DOMAIN <<c>> = {1} /\ <<c>>[1] = c
    OBVIOUS
<1>2. ASSUME NEW h \in DOMAIN f.hunks PROVE Once(<<c>>, <<f.path, h>>)
    <2>1. <<f.path, h>> \in c.hunks
        BY OwnIs
    <2> QED BY <1>1, <2>1 DEF Once
<1> QED BY <1>1, <1>2 DEF Covers

LEMMA PiecesCover ==
    ASSUME NEW f \in Section, NEW max \in Nat, f.header < max, f.hunks # <<>>,
           NEW acc \in Acc, Opened(acc, f, max, Len(f.hunks))
    PROVE  LET pieces == acc.pieces \o IF acc.open = {} THEN <<>>
                                       ELSE <<Piece(f, acc.open, acc.size)>>
           IN Covers(pieces, f, max) /\ \A i \in DOMAIN pieces : pieces[i].solo
<1> DEFINE piece == Piece(f, acc.open, acc.size)
           pieces == acc.pieces \o IF acc.open = {} THEN <<>> ELSE <<piece>>
<1>1. acc.pieces \in Seq(ChunkRecord) /\ acc.open \in SUBSET Nat /\ acc.size \in Nat
    BY DEF Acc
<1>2. DOMAIN f.hunks = 1 .. Len(f.hunks) /\ Len(f.hunks) \in Nat /\ Len(f.hunks) # 0
    BY SectionIs, EmptySeq
<1>3. acc.open \subseteq DOMAIN f.hunks
    BY <1>2 DEF Opened
<1>4. /\ piece \in ChunkRecord
      /\ piece.files = <<f.path>> /\ piece.hunks = Own(f, acc.open) /\ piece.size = acc.size
      /\ piece.truncated = FALSE /\ piece.solo = TRUE
      /\ piece.hunks \subseteq Own(f, DOMAIN f.hunks)
    BY <1>1, <1>3, ChunkOfIs DEF Piece
<1> HIDE DEF piece
<1>5. Exact(piece, f, max) /\ piece.solo
    BY <1>4 DEF Exact, Opened
<1>6. \A i \in DOMAIN acc.pieces : acc.pieces[i].solo /\ Exact(acc.pieces[i], f, max)
    BY DEF Opened
<1>7. pieces = IF acc.open = {} THEN acc.pieces ELSE Append(acc.pieces, piece)
    <2>1. Append(acc.pieces, piece) = acc.pieces \o <<piece>>
        BY <1>1, <1>4, AppendIsConcat
    <2>2. acc.pieces \o <<>> = acc.pieces
        BY <1>1, ConcatEmptySeq
    <2> QED BY <2>1, <2>2
<1> HIDE DEF pieces
<1>8. pieces \in Seq(ChunkRecord) /\ \A i \in DOMAIN pieces : pieces[i].solo /\ Exact(pieces[i], f, max)
    <2>1. CASE acc.open = {}
        BY <1>1, <1>6, <1>7, <2>1
    <2>2. CASE acc.open # {}
        BY <1>1, <1>4, <1>5, <1>6, <1>7, <2>2, PieceAdded
    <2> QED BY <2>1, <2>2
<1>9. ASSUME NEW h \in DOMAIN f.hunks PROVE Once(pieces, <<f.path, h>>)
    <2>1. CASE h \in acc.open
        <3>1. Nowhere(acc.pieces, <<f.path, h>>) /\ acc.open # {}
            BY <2>1 DEF Opened
        <3>2. <<f.path, h>> \in piece.hunks
            BY <1>4, <2>1, OwnIs
        <3> QED BY <1>1, <1>4, <1>7, <3>1, <3>2, AppendOnce
    <2>2. CASE h \notin acc.open
        <3>1. Once(acc.pieces, <<f.path, h>>)
            BY <1>2, <2>2 DEF Opened
        <3>2. <<f.path, h>> \notin piece.hunks
            BY <1>4, <2>2, OwnIs
        <3> QED BY <1>1, <1>4, <1>7, <3>1, <3>2, AppendOnce
    <2> QED BY <2>1, <2>2
<1>10. pieces # <<>>
    <2>1. 1 \in DOMAIN f.hunks
        BY <1>2
    <2>2. \E i \in DOMAIN pieces : <<f.path, 1>> \in pieces[i].hunks
        BY <1>9, <2>1 DEF Once
    <2> QED BY <2>2
<1> QED BY <1>8, <1>9, <1>10 DEF Covers, pieces, piece

LEMMA OversizedIsCovered ==
    ASSUME NEW f \in Section, NEW max \in Nat
    PROVE  LET pieces == SplitOversizedFile(f, max)
           IN Covers(pieces, f, max) /\ \A i \in DOMAIN pieces : pieces[i].solo
<1>1. CASE f.hunks = <<>> \/ f.header >= max
    <2> DEFINE cut == ChunkOf(f, DOMAIN f.hunks, max, TRUE, TRUE)
    <2>1. SplitOversizedFile(f, max) = <<cut>>
        BY <1>1, Zenon DEF SplitOversizedFile
    <2>2. DOMAIN f.hunks \in SUBSET Nat
        BY SectionIs
    <2>3. /\ cut \in ChunkRecord
          /\ cut.files = <<f.path>> /\ cut.hunks = Own(f, DOMAIN f.hunks) /\ cut.size = max
          /\ cut.truncated = TRUE /\ cut.solo = TRUE
        BY <2>2, ChunkOfIs
    <2> HIDE DEF cut
    <2>4. Exact(cut, f, max)
        <3>1. cut.size <= max /\ cut.hunks \subseteq Own(f, DOMAIN f.hunks)
            BY <2>3
        <3>2. cut.truncated
            BY <2>3
        <3> QED BY <2>3, <3>1, <3>2, Zenon DEF Exact
    <2>5. Covers(<<cut>>, f, max)
        BY <2>3, <2>4, OneCovers
    <2>6. \A i \in DOMAIN <<cut>> : <<cut>>[i].solo
        BY <2>3
    <2> QED BY <2>1, <2>5, <2>6
<1>2. CASE ~(f.hunks = <<>> \/ f.header >= max)
    <2> DEFINE places == [h \in DOMAIN f.hunks |-> h]
               n == Len(f.hunks)
    <2>1. f.header \in Nat /\ n \in Nat /\ DOMAIN f.hunks = 1 .. n
        BY SectionIs
    <2>2. f.header < max
        BY <1>2, <2>1
    <2>3. Len(places) = n /\ \A k \in 1 .. n : places[k] = k
        BY <2>1
    <2>30. places = [h \in DOMAIN f.hunks |-> h]
        OBVIOUS
    <2> HIDE DEF places
    <2>31. PICK g : SplitSteps(g, f, max, places)
        BY <2>2, <2>30, SplitStepsExist, Zenon
    <2>4. /\ g \in [0 .. n -> Acc]
          /\ g[0] = AtFirst(f)
          /\ \A k \in 1 .. n : g[k] = AddHunk(f, max, g[k - 1], places[k])
        BY <2>3, <2>31 DEF SplitSteps
    <2>32. SplitOversizedFile(f, max) = SplitEnd(f, max, g[n])
        BY <2>3, <2>31 DEF SplitSteps
    <2> DEFINE T == {k \in 0 .. n : Opened(g[k], f, max, k)}
    <2>5. 0 \in T
        <3>1. g[0].pieces = <<>> /\ g[0].open = {} /\ g[0].size = f.header
            BY <2>4 DEF AtFirst
        <3>2. f.header = Weight(f, Own(f, {}))
            BY OwnIs, WeightOfNone
        <3>3. \A h : Nowhere(<<>>, <<f.path, h>>)
            BY DEF Nowhere
        <3>4. f.header <= max
            BY <2>1, <2>2
        <3>5. Opened(g[0], f, max, 0)
            BY <3>1, <3>2, <3>3, <3>4 DEF Opened
        <3> QED BY <2>1, <3>5
    <2>6. ASSUME NEW k \in 1 .. n, k - 1 \in T PROVE k \in T
        <3>1. g[k - 1] \in Acc /\ Opened(g[k - 1], f, max, k - 1) /\ k \in DOMAIN f.hunks
            BY <2>1, <2>3, <2>4, <2>6
        <3>2. Opened(AddHunk(f, max, g[k - 1], k), f, max, k)
            BY <2>2, <3>1, HunkIsAdded
        <3>3. g[k] = AddHunk(f, max, g[k - 1], k)
            BY <2>3, <2>4
        <3> QED BY <2>1, <3>2, <3>3
    <2> HIDE DEF T
    <2>7. \A k \in 0 .. n : k \in T
        BY <2>1, <2>5, <2>6, InductionUpTo, Zenon
    <2> DEFINE acc == g[n]
    <2>8. acc \in Acc /\ Opened(acc, f, max, n)
        BY <2>1, <2>3, <2>4, <2>7 DEF T
    <2>9. SplitOversizedFile(f, max) = acc.pieces \o IF acc.open = {} THEN <<>>
                                                     ELSE <<Piece(f, acc.open, acc.size)>>
        BY <1>2, <2>32 DEF SplitEnd
    <2> HIDE DEF acc
    <2> QED BY <1>2, <2>2, <2>8, <2>9, PiecesCover
<1> QED BY <1>1, <1>2

-----------------------------------------------------------------------------
(* Packing *)

LEMMA SectionSizeIs ==
    ASSUME NEW f \in Section
    PROVE  SectionSize(f) \in Nat /\ SectionSize(f) = Weight(f, Own(f, DOMAIN f.hunks))
<1>1. \A h \in DOMAIN f.hunks : <<f.path, h>> \in Own(f, DOMAIN f.hunks)
    BY OwnIs
<1> QED BY <1>1, WeightOfAll, CountsAre

\* Sorting neither loses nor doubles a file.
LEMMA LargestFirstIs ==
    ASSUME NEW files \in Seq(Section)
    PROVE  /\ LargestFirst(files) \in Seq(Section) /\ Len(LargestFirst(files)) = Len(files)
           /\ \E place \in [1 .. Len(files) -> 1 .. Len(files)] :
                 /\ \A k \in 1 .. Len(files) : LargestFirst(files)[k] = files[place[k]]
                 /\ \A k, l \in 1 .. Len(files) : place[k] = place[l] => k = l
                 /\ \A i \in 1 .. Len(files) : \E k \in 1 .. Len(files) : place[k] = i
<1> DEFINE n == Len(files)
           P == 1 .. n
           size(i) == SectionSize(files[i])
           larger(i, j) == \/ size(i) > size(j)
                           \/ (size(i) = size(j) /\ i < j)
           before == [i \in P |-> {j \in P : larger(j, i)}]
<1>1. n \in Nat /\ DOMAIN files = P /\ \A i \in P : files[i] \in Section
    OBVIOUS
<1>2. IsFiniteSet(P) /\ Cardinality(P) = n
    <2>1. n \in Int /\ 1 \in Int /\ n >= 0
        BY <1>1
    <2> HIDE DEF n
    <2>2. IsFiniteSet(1 .. n) /\ Cardinality(1 .. n) = IF 1 > n THEN 0 ELSE n - 1 + 1
        BY <2>1, FS_Interval, Zenon
    <2> QED BY <2>1, <2>2
<1>3. \A i \in P : size(i) \in Nat /\ i \in Nat
    BY <1>1, SectionSizeIs
<1> HIDE DEF size
<1>4. /\ \A i \in P : ~larger(i, i)
      /\ \A i, k \in P : i # k => larger(i, k) \/ larger(k, i)
      /\ \A i, j, k \in P : larger(j, i) /\ larger(i, k) => larger(j, k)
    BY <1>3
<1> HIDE DEF larger
<1>5. before \in [P -> SUBSET P] /\ \A i \in P : before[i] = {j \in P : larger(j, i)}
    OBVIOUS
<1> HIDE DEF before, n
<1>6. /\ \A i \in P : i \notin before[i]
      /\ \A i, k \in P : i # k => i \in before[k] \/ k \in before[i]
      /\ \A i, k \in P : i \in before[k] => before[i] \subseteq before[k]
    BY <1>4, <1>5
<1> HIDE DEF P
<1>7. PICK place \in [1 .. Cardinality(P) -> P] :
              /\ \A k \in 1 .. Cardinality(P) :
                    place[k] = CHOOSE i \in P : Cardinality(before[i]) = k - 1
              /\ \A k, l \in 1 .. Cardinality(P) : k < l => place[k] \in before[place[l]]
              /\ \A i \in P : \E k \in 1 .. Cardinality(P) : place[k] = i
    BY <1>2, <1>5, <1>6, Ranks
<1>8. P = 1 .. n
    BY DEF P
<1>9. \A k \in P : place[k] = CHOOSE i \in P : Cardinality({j \in P : larger(j, i)}) = k - 1
    <2> TAKE k \in P
    <2>1. \A i \in P : Cardinality(before[i]) = Cardinality({j \in P : larger(j, i)})
        BY <1>5
    <2>2. place[k] = CHOOSE i \in P : Cardinality(before[i]) = k - 1
        BY <1>2, <1>7, <1>8
    <2> QED BY <2>1, <2>2
<1>10. LargestFirst(files) = [k \in P |-> files[place[k]]]
    <2>1. LargestFirst(files) =
            [k \in P |-> files[CHOOSE i \in P : Cardinality({j \in P : larger(j, i)}) = k - 1]]
        <3>1. LargestFirst(files) =
                [k \in DOMAIN files |->
                    files[CHOOSE i \in DOMAIN files :
                             Cardinality({j \in DOMAIN files : larger(j, i)}) = k - 1]]
            BY Zenon DEF LargestFirst, larger, size
        <3>2. DOMAIN files = P
            BY <1>1, <1>8 DEF n
        <3> QED BY <3>1, <3>2
    <2> QED BY <1>9, <2>1
<1>11. \A k \in P : place[k] \in P
    BY <1>2, <1>7, <1>8
<1>12. [k \in P |-> files[place[k]]] \in [1 .. n -> Section]
    BY <1>1, <1>8, <1>11
<1>13. LargestFirst(files) \in Seq(Section) /\ Len(LargestFirst(files)) = n
    <2>1. n \in Nat
        BY <1>1
    <2> DEFINE sorted == [k \in P |-> files[place[k]]]
    <2>2. DOMAIN sorted = 1 .. n
        BY <1>8
    <2> HIDE DEF sorted
    <2>3. sorted \in Seq(Section) /\ Len(sorted) = n
        BY <1>12, <2>1, <2>2 DEF sorted
    <2> QED BY <1>10, <2>3 DEF sorted
<1>14. \A k \in P : LargestFirst(files)[k] = files[place[k]]
    BY <1>10
<1>15. \A k, l \in P : place[k] = place[l] => k = l
    <2> TAKE k \in P, l \in P
    <2>1. k < l => place[k] # place[l]
        BY <1>2, <1>6, <1>7, <1>8, <1>11
    <2>2. l < k => place[k] # place[l]
        BY <1>2, <1>6, <1>7, <1>8, <1>11
    <2>3. k \in Int /\ l \in Int
        BY <1>1, <1>8
    <2> QED BY <2>1, <2>2, <2>3
<1>16. \A i \in P : \E k \in P : place[k] = i
    BY <1>2, <1>7, <1>8
<1>17. place \in [1 .. n -> 1 .. n]
    BY <1>2, <1>7, <1>8
<1> QED BY <1>8, <1>13, <1>14, <1>15, <1>16, <1>17, Zenon DEF n

\* Sections are told apart by their path.
Distinct(files) == \A f, g \in files : f.path = g.path => f = g

SectionAt(files, path) == CHOOSE f \in files : f.path = path

\* What the files of a chunk weigh.
Loads(c, files) ==
    [i \in DOMAIN c.files |-> Weight(SectionAt(files, c.files[i]), c.hunks)]

Known(c, files) == \A i \in DOMAIN c.files : \E f \in files : f.path = c.files[i]

LEMMA SectionAtIs ==
    ASSUME NEW files \in SUBSET Section, Distinct(files), NEW f \in files
    PROVE  SectionAt(files, f.path) = f
BY DEF SectionAt, Distinct

LEMMA LoadsAre ==
    ASSUME NEW files \in SUBSET Section, Distinct(files), NEW c \in ChunkRecord, Known(c, files)
    PROVE  /\ Loads(c, files) \in Seq(Nat) /\ Len(Loads(c, files)) = Len(c.files)
<1>1. c.files \in Seq(Path)
    BY DEF ChunkRecord
<1>2. Len(c.files) \in Nat /\ DOMAIN c.files = 1 .. Len(c.files)
    BY <1>1
<1>3. ASSUME NEW i \in DOMAIN c.files
      PROVE  Weight(SectionAt(files, c.files[i]), c.hunks) \in Nat
    <2>1. PICK f \in files : f.path = c.files[i]
        BY DEF Known
    <2>2. SectionAt(files, c.files[i]) = f
        BY <2>1, SectionAtIs
    <2> QED BY <2>2, CountsAre
<1> DEFINE list == Loads(c, files)
<1>4. list \in [1 .. Len(c.files) -> Nat]
    BY <1>2, <1>3 DEF Loads
<1> HIDE DEF list
<1>5. list \in Seq(Nat) /\ Len(list) = Len(c.files)
    BY <1>2, <1>4
<1> QED BY <1>5 DEF list

LEMMA LoadOfOne ==
    ASSUME NEW files \in SUBSET Section, Distinct(files), NEW c \in ChunkRecord, NEW f \in files,
           c.files = <<f.path>>
    PROVE  SumOf(Loads(c, files)) = Weight(f, c.hunks)
<1>1. SectionAt(files, f.path) = f
    BY SectionAtIs
<1>2. Loads(c, files) = Append(<<>>, Weight(f, c.hunks))
    <2>1. DOMAIN c.files = {1} /\ c.files[1] = f.path
        OBVIOUS
    <2>2. Loads(c, files) = [i \in {1} |-> Weight(f, c.hunks)]
        BY <1>1, <2>1 DEF Loads
    <2> QED BY <2>2
<1>3. Weight(f, c.hunks) \in Nat /\ <<>> \in Seq(Nat)
    BY CountsAre
<1>4. SumOf(Append(<<>>, Weight(f, c.hunks))) = SumOf(<<>>) + Weight(f, c.hunks)
    BY <1>3, SumOfMore
<1> QED BY <1>2, <1>3, <1>4, SumOfNothing

LEMMA LoadOfMore ==
    ASSUME NEW files \in SUBSET Section, Distinct(files), NEW c \in ChunkRecord, Known(c, files),
           NEW f \in files, \A i \in DOMAIN c.files : c.files[i] # f.path,
           NEW d \in ChunkRecord, d.files = Append(c.files, f.path),
           d.hunks = c.hunks \cup Own(f, DOMAIN f.hunks)
    PROVE  SumOf(Loads(d, files)) = SumOf(Loads(c, files)) + SectionSize(f) /\ Known(d, files)
<1> DEFINE a == Loads(c, files)
           b == Loads(d, files)
           n == Len(c.files)
<1>1. c.files \in Seq(Path) /\ f.path \in Path
    <2>1. f \in Section
        OBVIOUS
    <2> QED BY <2>1, SectionIs DEF ChunkRecord
<1>2. /\ n \in Nat /\ DOMAIN c.files = 1 .. n /\ DOMAIN d.files = 1 .. n + 1
      /\ d.files[n + 1] = f.path /\ \A i \in 1 .. n : d.files[i] = c.files[i]
    BY <1>1, AppendProperties
<1>3. Known(d, files)
    <2>1. \A i \in 1 .. n + 1 : i = n + 1 \/ i \in 1 .. n
        BY <1>2
    <2> QED BY <1>2, <2>1 DEF Known
<1>4. a \in Seq(Nat) /\ Len(a) = n
    BY LoadsAre
<1>5. ASSUME NEW i \in 1 .. n PROVE b[i] = a[i]
    <2>1. PICK g \in files : g.path = c.files[i]
        BY <1>2 DEF Known
    <2>2. SectionAt(files, c.files[i]) = g
        BY <2>1, SectionAtIs
    <2>3. ASSUME NEW h PROVE <<g.path, h>> \in d.hunks <=> <<g.path, h>> \in c.hunks
        <3>1. g.path # f.path
            BY <1>2, <2>1
        <3>2. <<g.path, h>> \notin Own(f, DOMAIN f.hunks)
            BY <3>1 DEF Own
        <3> QED BY <3>2
    <2>4. g \in Section
        OBVIOUS
    <2>5. Weight(g, d.hunks) = Weight(g, c.hunks)
        BY <2>3, <2>4, WeightOfSame
    <2>6. a[i] = Weight(g, c.hunks)
        BY <1>2, <2>2 DEF Loads
    <2>7. b[i] = Weight(g, d.hunks)
        <3>1. i \in DOMAIN d.files /\ d.files[i] = c.files[i]
            BY <1>2
        <3> QED BY <2>2, <3>1 DEF Loads
    <2> QED BY <2>5, <2>6, <2>7
<1>6. b[n + 1] = SectionSize(f)
    <2>1. n + 1 \in DOMAIN d.files /\ d.files[n + 1] = f.path
        BY <1>2
    <2>2. b[n + 1] = Weight(f, d.hunks)
        BY <2>1, SectionAtIs DEF Loads
    <2>3. \A h \in DOMAIN f.hunks : <<f.path, h>> \in d.hunks
        BY OwnIs
    <2>4. f \in Section
        OBVIOUS
    <2> QED BY <2>2, <2>3, <2>4, WeightOfAll
<1>7. SectionSize(f) \in Nat
    <2>1. f \in Section
        OBVIOUS
    <2> QED BY <2>1, SectionSizeIs
<1>8. DOMAIN b = 1 .. n + 1
    BY <1>2 DEF Loads
<1>9. b \in Seq(Nat) /\ Len(b) = n + 1
    <2>1. Len(d.files) = n + 1
        BY <1>1, AppendProperties
    <2> QED BY <1>3, <2>1, LoadsAre
<1> HIDE DEF a, b, n
<1>10. b = Append(a, SectionSize(f))
    <2> DEFINE e == Append(a, SectionSize(f))
    <2>1. /\ e \in Seq(Nat) /\ Len(e) = n + 1 /\ e[n + 1] = SectionSize(f)
          /\ \A i \in 1 .. n : e[i] = a[i]
        BY <1>4, <1>7, AppendProperties
    <2> HIDE DEF e
    <2>2. \A i \in 1 .. n + 1 : b[i] = e[i]
        <3>1. \A i \in 1 .. n + 1 : i = n + 1 \/ i \in 1 .. n
            BY <1>2
        <3> QED BY <1>5, <1>6, <2>1, <3>1
    <2>3. b = e
        BY <1>9, <2>1, <2>2, SeqEqual
    <2> QED BY <2>3 DEF e
<1>11. SumOf(b) = SumOf(a) + SectionSize(f)
    BY <1>4, <1>7, <1>10, SumOfMore
<1> QED BY <1>3, <1>11 DEF a, b

LEMMA OwnChunkIs ==
    ASSUME NEW f \in Section
    PROVE  LET c == ChunkOf(f, DOMAIN f.hunks, SectionSize(f), FALSE, FALSE)
           IN /\ c \in ChunkRecord
              /\ c.files = <<f.path>> /\ c.hunks = Own(f, DOMAIN f.hunks) /\ c.size = SectionSize(f)
              /\ c.truncated = FALSE /\ c.solo = FALSE
<1>1. DOMAIN f.hunks \in SUBSET Nat
    BY SectionIs
<1>2. SectionSize(f) \in Nat
    BY SectionSizeIs
<1> QED BY <1>1, <1>2, ChunkOfIs

LEMMA JoinedIs ==
    ASSUME NEW c \in ChunkRecord, NEW f \in Section
    PROVE  LET d == Joined(c, ChunkOf(f, DOMAIN f.hunks, SectionSize(f), FALSE, FALSE))
           IN /\ d \in ChunkRecord
              /\ d.files = Append(c.files, f.path) /\ d.hunks = c.hunks \cup Own(f, DOMAIN f.hunks)
              /\ d.size = c.size + SectionSize(f) /\ d.truncated = c.truncated /\ d.solo = c.solo
<1> DEFINE own == ChunkOf(f, DOMAIN f.hunks, SectionSize(f), FALSE, FALSE)
           d == Joined(c, own)
           files == c.files \o <<f.path>>
           hunks == c.hunks \cup Own(f, DOMAIN f.hunks)
           size == c.size + SectionSize(f)
<1>1. /\ c.files \in Seq(Path) /\ c.hunks \in SUBSET (Path \X Nat) /\ c.size \in Nat
      /\ c.truncated \in BOOLEAN /\ c.solo \in BOOLEAN
    BY DEF ChunkRecord
<1>2. f.path \in Path
    BY SectionIs
<1>3. files \in Seq(Path) /\ files = Append(c.files, f.path)
    BY <1>1, <1>2, AppendIsConcat
<1>4. hunks \in SUBSET (Path \X Nat)
    BY <1>1, OwnChunkIs DEF ChunkRecord
<1>5. size \in Nat
    BY <1>1, SectionSizeIs
<1>6. d = [c EXCEPT !.files = files, !.hunks = hunks, !.size = size]
    <2>1. own.files = <<f.path>> /\ own.hunks = Own(f, DOMAIN f.hunks) /\ own.size = SectionSize(f)
        BY OwnChunkIs
    <2> HIDE DEF own
    <2> QED BY <2>1 DEF Joined
<1> HIDE DEF d, files, hunks, size
<1>7. /\ d.files = files /\ d.hunks = hunks /\ d.size = size
      /\ d.truncated = c.truncated /\ d.solo = c.solo
    BY <1>6 DEF ChunkRecord
<1>8. d \in ChunkRecord
    BY <1>3, <1>4, <1>5, <1>6 DEF ChunkRecord
<1> QED BY <1>3, <1>7, <1>8 DEF d, hunks, size

LEMMA FirstIs ==
    ASSUME NEW V, NEW list \in Seq(V), NEW roomy \in SUBSET DOMAIN list, roomy # {}
    PROVE  (CHOOSE i \in roomy : \A j \in roomy : i <= j) \in roomy
<1>1. roomy \in SUBSET Nat
    OBVIOUS
<1>2. \E i \in roomy : \A j \in roomy : i <= j
    BY <1>1, LeastNatural
<1> QED BY <1>2

\* A file is added in one of three ways.
LEMMA PlaceFileIs ==
    ASSUME NEW f \in Section, NEW max \in Nat, NEW chunks \in Seq(ChunkRecord)
    PROVE  LET placed == PlaceFile(chunks, f, max)
               roomy == {i \in DOMAIN chunks : Roomy(chunks[i], f, max)}
               own == ChunkOf(f, DOMAIN f.hunks, SectionSize(f), FALSE, FALSE)
           IN \/ /\ SectionSize(f) > max
                 /\ placed = chunks \o SplitOversizedFile(f, max)
              \/ /\ SectionSize(f) <= max
                 /\ \E i \in roomy : placed = [chunks EXCEPT ![i] = Joined(chunks[i], own)]
              \/ /\ SectionSize(f) <= max /\ roomy = {}
                 /\ placed = Append(chunks, own)
<1> DEFINE placed == PlaceFile(chunks, f, max)
           roomy == {i \in DOMAIN chunks : Roomy(chunks[i], f, max)}
           first == CHOOSE i \in roomy : \A j \in roomy : i <= j
           own == ChunkOf(f, DOMAIN f.hunks, SectionSize(f), FALSE, FALSE)
           joined == [chunks EXCEPT ![first] = Joined(chunks[first], own)]
<1>1. placed = CASE SectionSize(f) > max -> chunks \o SplitOversizedFile(f, max)
                 [] SectionSize(f) <= max /\ roomy # {} -> joined
                 [] OTHER -> Append(chunks, own)
    BY Zenon DEF PlaceFile
<1>2. SectionSize(f) \in Nat
    BY SectionSizeIs
<1> HIDE DEF placed, own
<1>4. CASE SectionSize(f) > max
    <2>1. placed = chunks \o SplitOversizedFile(f, max)
        <3>1. ~(SectionSize(f) <= max)
            BY <1>2, <1>4
        <3> HIDE DEF joined, roomy
        <3> QED BY <1>1, <1>4, <3>1
    <2> QED BY <1>4, <2>1 DEF placed, own
<1>5. CASE SectionSize(f) <= max /\ roomy # {}
    <2>1. placed = joined
        <3>1. ~(SectionSize(f) > max)
            BY <1>2, <1>5
        <3> HIDE DEF joined, roomy
        <3> QED BY <1>1, <1>5, <3>1
    <2>2. first \in roomy
        <3>1. roomy \in SUBSET DOMAIN chunks
            OBVIOUS
        <3> HIDE DEF roomy
        <3> QED BY <1>5, <3>1, FirstIs, Zenon
    <2> HIDE DEF first
    <2> HIDE DEF joined, roomy
    <2>5. \E i \in roomy : placed = [chunks EXCEPT ![i] = Joined(chunks[i], own)]
        BY <2>1, <2>2 DEF joined
    <2> QED BY <1>5, <2>5 DEF placed, own, roomy
<1>6. CASE SectionSize(f) <= max /\ roomy = {}
    <2>1. placed = Append(chunks, own)
        <3>1. ~(SectionSize(f) > max)
            BY <1>2, <1>6
        <3> HIDE DEF joined, roomy
        <3> QED BY <1>1, <1>6, <3>1
    <2> QED BY <1>6, <2>1 DEF placed, own
<1>7. SectionSize(f) > max \/ SectionSize(f) <= max
    BY <1>2
<1> QED BY <1>4, <1>5, <1>6, <1>7

LEMMA PlacedIsList ==
    ASSUME NEW f \in Section, NEW max \in Nat, NEW chunks \in Seq(ChunkRecord)
    PROVE  PlaceFile(chunks, f, max) \in Seq(ChunkRecord)
<1> DEFINE placed == PlaceFile(chunks, f, max)
           own == ChunkOf(f, DOMAIN f.hunks, SectionSize(f), FALSE, FALSE)
<1>1. own \in ChunkRecord
    BY OwnChunkIs
<1>2. SplitOversizedFile(f, max) \in Seq(ChunkRecord)
    BY OversizedIsCovered DEF Covers
<1>3. ASSUME NEW i \in DOMAIN chunks PROVE [chunks EXCEPT ![i] = Joined(chunks[i], own)] \in Seq(ChunkRecord)
    <2>1. chunks[i] \in ChunkRecord
        OBVIOUS
    <2>2. Joined(chunks[i], own) \in ChunkRecord
        BY <2>1, JoinedIs
    <2> DEFINE d == Joined(chunks[i], own)
    <2>3. d \in ChunkRecord
        BY <2>2
    <2> HIDE DEF d, own
    <2>4. [chunks EXCEPT ![i] = d] \in Seq(ChunkRecord)
        BY <2>3
    <2> QED BY <2>4 DEF d
<1> HIDE DEF own
<1>4. chunks \o SplitOversizedFile(f, max) \in Seq(ChunkRecord) /\ Append(chunks, own) \in Seq(ChunkRecord)
    BY <1>1, <1>2
<1>5. \/ placed = chunks \o SplitOversizedFile(f, max)
      \/ \E i \in DOMAIN chunks : placed = [chunks EXCEPT ![i] = Joined(chunks[i], own)]
      \/ placed = Append(chunks, own)
    BY PlaceFileIs DEF own
<1> HIDE DEF placed
<1>6. placed \in Seq(ChunkRecord)
    BY <1>3, <1>4, <1>5
<1> QED BY <1>6 DEF placed

\* The chunks of a diff, file by file.
PackSteps(g, files, max, sorted) ==
    /\ g \in [0 .. Len(sorted) -> Seq(ChunkRecord)]
    /\ g[0] = <<>>
    /\ g[Len(sorted)] = PackChunks(files, max)
    /\ \A k \in 1 .. Len(sorted) : g[k] = PlaceFile(g[k - 1], sorted[k], max)

LEMMA PackStepsExist ==
    ASSUME NEW files \in Seq(Section), NEW max \in Nat, NEW sorted, sorted = LargestFirst(files)
    PROVE  \E g : PackSteps(g, files, max, sorted)
<1> DEFINE V == Seq(ChunkRecord)
           n == Len(sorted)
           Table(t) == t = [S \in SUBSET DOMAIN sorted |->
                              IF S = {} THEN <<>> ELSE PlaceFile(t[S \ {Max(S)}], sorted[Max(S)], max)]
           d == [p \in V \X Section |-> PlaceFile(p[1], p[2], max)]
           h == CHOOSE t : Table(t)
<1>1. sorted \in Seq(Section)
    BY LargestFirstIs
<1>2. n \in Nat /\ DOMAIN sorted = 1 .. n /\ \A i \in 1 .. n : sorted[i] \in Section
    BY <1>1
<1>3. <<>> \in V
    OBVIOUS
<1>4. \A v \in V, x \in Section : PlaceFile(v, x, max) \in V
    BY PlacedIsList
<1> HIDE DEF V
<1>5. d \in [V \X Section -> V]
    BY <1>4
<1>6. \A v \in V, x \in Section : d[<<v, x>>] = PlaceFile(v, x, max)
    OBVIOUS
<1> HIDE DEF d
<1>7. PICK t : FoldTable(t, V, <<>>, d, sorted)
    BY <1>1, <1>3, <1>5, FoldTableExists, Zenon
<1>8. ASSUME NEW S \in SUBSET DOMAIN sorted, S # {}
      PROVE  d[<<t[S \ {Max(S)}], sorted[Max(S)]>>] = PlaceFile(t[S \ {Max(S)}], sorted[Max(S)], max)
    <2>1. Max(S) \in S
        BY <1>2, <1>8, MaxIs
    <2>2. t[S \ {Max(S)}] \in V /\ sorted[Max(S)] \in Section
        BY <1>2, <1>7, <2>1 DEF FoldTable
    <2> QED BY <1>6, <2>2
<1>9. Table(t)
    BY <1>7, <1>8 DEF FoldTable
<1>10. Table(h)
    <2> HIDE DEF Table
    <2> QED BY <1>9
<1>11. h[DOMAIN sorted] = PackChunks(files, max)
    BY Zenon DEF PackChunks, FoldLeft, MapThenFoldSet
<1> HIDE DEF h
<1>12. h[{}] = <<>>
    BY <1>10
<1>13. ASSUME NEW k \in 1 .. n PROVE h[1 .. k] = PlaceFile(h[1 .. k - 1], sorted[k], max)
    <2>1. k \in Nat \ {0} /\ 1 .. k \in SUBSET DOMAIN sorted
        BY <1>2
    <2>2. h[1 .. k] = PlaceFile(h[(1 .. k) \ {Max(1 .. k)}], sorted[Max(1 .. k)], max)
        BY <1>10, <2>1, MaxOfInterval
    <2> QED BY <2>1, <2>2, MaxOfInterval
<1>14. \A k \in 1 .. n : h[1 .. k - 1] \in V => h[1 .. k] = d[<<h[1 .. k - 1], sorted[k]>>]
    BY <1>2, <1>6, <1>13
<1>15. PICK g : FoldSteps(g, V, <<>>, d, sorted, h[DOMAIN sorted])
    BY <1>1, <1>3, <1>5, <1>12, <1>14, FoldStepsExist, Zenon
<1>16. ASSUME NEW k \in 1 .. n PROVE g[k] = PlaceFile(g[k - 1], sorted[k], max)
    <2>1. k - 1 \in 0 .. n
        BY <1>2
    <2>2. g[k - 1] \in V
        BY <1>15, <2>1 DEF FoldSteps
    <2> QED BY <1>2, <1>6, <1>15, <2>2 DEF FoldSteps
<1>17. /\ g \in [0 .. n -> Seq(ChunkRecord)] /\ g[0] = <<>>
       /\ g[n] = h[DOMAIN sorted]
    BY <1>15 DEF V, FoldSteps
<1>18. g[n] = PackChunks(files, max)
    BY <1>11, <1>17
<1>19. PackSteps(g, files, max, sorted)
    BY <1>16, <1>17, <1>18 DEF PackSteps
<1> QED BY <1>19

\* The files of a diff in the order in which they are packed.
Packing(L, G) ==
    /\ L \in Seq(Section) /\ G \in SUBSET Section /\ Distinct(G)
    /\ \A m \in 1 .. Len(L) : L[m] \in G
    /\ \A m, l \in 1 .. Len(L) : L[m].path = L[l].path => m = l

\* A chunk that tells no less than it holds, all of it of the first k files.
Fine(c, L, G, max, k) ==
    /\ c.size <= max
    /\ ~c.truncated => c.size = SumOf(Loads(c, G))
    /\ ~c.solo => ~c.truncated
    /\ \A j \in DOMAIN c.files : \E m \in 1 .. k : c.files[j] = L[m].path
    /\ \A x \in c.hunks : \E m \in 1 .. k : x \in Own(L[m], DOMAIN L[m].hunks)

\* What pack_chunks has made of the first k files.
Packed(chunks, L, G, max, k) ==
    /\ \A i \in DOMAIN chunks : Fine(chunks[i], L, G, max, k)
    /\ \A m \in 1 .. k : \E i \in DOMAIN chunks : \E j \in DOMAIN chunks[i].files :
          chunks[i].files[j] = L[m].path
    /\ \A m \in 1 .. k : \A h \in DOMAIN L[m].hunks : Once(chunks, <<L[m].path, h>>)
    /\ \A i, j \in DOMAIN chunks : i # j /\ ~chunks[i].solo /\ ~chunks[j].solo =>
          chunks[i].size + chunks[j].size > max

LEMMA FineIsKept ==
    ASSUME NEW c, NEW L, NEW G, NEW max, NEW k \in Nat \ {0}, Fine(c, L, G, max, k - 1)
    PROVE  Fine(c, L, G, max, k)
<1>1. 1 .. k - 1 \subseteq 1 .. k
    OBVIOUS
<1>2. \A j \in DOMAIN c.files : \E m \in 1 .. k : c.files[j] = L[m].path
    BY <1>1 DEF Fine
<1>3. \A x \in c.hunks : \E m \in 1 .. k : x \in Own(L[m], DOMAIN L[m].hunks)
    BY <1>1 DEF Fine
<1> QED BY <1>2, <1>3 DEF Fine

\* No chunk holds anything of a file that comes later.
LEMMA LaterIsNowhere ==
    ASSUME NEW L, NEW G, Packing(L, G), NEW max, NEW k \in 1 .. Len(L), NEW chunks,
           \A i \in DOMAIN chunks : Fine(chunks[i], L, G, max, k - 1), NEW h
    PROVE  Nowhere(chunks, <<L[k].path, h>>)
<1>1. Len(L) \in Nat
    BY DEF Packing
<1>2. ASSUME NEW i \in DOMAIN chunks, <<L[k].path, h>> \in chunks[i].hunks PROVE FALSE
    <2>1. PICK m \in 1 .. k - 1 : <<L[k].path, h>> \in Own(L[m], DOMAIN L[m].hunks)
        BY <1>2 DEF Fine
    <2>2. L[k].path = L[m].path
        BY <2>1 DEF Own
    <2>3. m \in 1 .. Len(L) /\ m # k
        BY <1>1
    <2> QED BY <2>2, <2>3 DEF Packing
<1> QED BY <1>2 DEF Nowhere

\* What a chunk of one file holds is of no other.
LEMMA ExactIsElsewhere ==
    ASSUME NEW L, NEW G, Packing(L, G), NEW max, NEW k \in 1 .. Len(L), NEW m \in 1 .. Len(L), m # k,
           NEW chunks, \A i \in DOMAIN chunks : chunks[i].hunks \subseteq Own(L[k], DOMAIN L[k].hunks),
           NEW h
    PROVE  Nowhere(chunks, <<L[m].path, h>>)
<1>1. <<L[m].path, h>> \notin Own(L[k], DOMAIN L[k].hunks)
    <2>1. L[m].path # L[k].path
        BY DEF Packing
    <2> QED BY <2>1 DEF Own
<1> QED BY <1>1 DEF Nowhere

LEMMA ExactIsFine ==
    ASSUME NEW L, NEW G, Packing(L, G), NEW max \in Nat, NEW k \in 1 .. Len(L),
           NEW c \in ChunkRecord, Exact(c, L[k], max), ~c.solo => ~c.truncated
    PROVE  Fine(c, L, G, max, k)
<1>1. Len(L) \in Nat /\ G \in SUBSET Section /\ Distinct(G) /\ L[k] \in G
    BY DEF Packing
<1>2. k \in 1 .. k
    BY <1>1
<1>3. c.files = <<L[k].path>> /\ c.size <= max /\ c.hunks \subseteq Own(L[k], DOMAIN L[k].hunks)
    BY DEF Exact
<1>4. SumOf(Loads(c, G)) = Weight(L[k], c.hunks)
    BY <1>1, <1>3, LoadOfOne
<1>5. ~c.truncated => c.size = SumOf(Loads(c, G))
    BY <1>4 DEF Exact
<1>6. \A j \in DOMAIN c.files : \E m \in 1 .. k : c.files[j] = L[m].path
    <2>1. \A j \in DOMAIN c.files : c.files[j] = L[k].path
        BY <1>3
    <2> QED BY <1>2, <2>1
<1>7. \A x \in c.hunks : \E m \in 1 .. k : x \in Own(L[m], DOMAIN L[m].hunks)
    BY <1>2, <1>3
<1> QED BY <1>3, <1>5, <1>6, <1>7 DEF Fine

\* A file gets chunks of its own.
LEMMA MoreIsPacked ==
    ASSUME NEW L, NEW G, Packing(L, G), NEW max \in Nat, NEW k \in 1 .. Len(L),
           NEW chunks \in Seq(ChunkRecord), Packed(chunks, L, G, max, k - 1),
           NEW more, Covers(more, L[k], max),
           \A i \in DOMAIN more : ~more[i].solo => ~more[i].truncated,
           \A i, j \in DOMAIN more : ~more[i].solo /\ ~more[j].solo => i = j,
           \A i \in DOMAIN chunks, j \in DOMAIN more : ~chunks[i].solo /\ ~more[j].solo =>
              chunks[i].size + more[j].size > max
    PROVE  Packed(chunks \o more, L, G, max, k)
<1> DEFINE new == chunks \o more
           n == Len(chunks)
           p == Len(more)
<1>1. /\ n \in Nat /\ DOMAIN chunks = 1 .. n
      /\ more \in Seq(ChunkRecord) /\ p \in Nat /\ DOMAIN more = 1 .. p /\ p # 0
      /\ \A i \in 1 .. n : chunks[i] \in ChunkRecord
      /\ \A i \in 1 .. p : more[i] \in ChunkRecord
    BY EmptySeq DEF Covers
<1>2. /\ DOMAIN new = 1 .. n + p
      /\ \A i \in 1 .. n + p : new[i] = IF i <= n THEN chunks[i] ELSE more[i - n]
    BY <1>1, ConcatProperties
<1>3. Len(L) \in Nat /\ k \in Nat \ {0} /\ 1 .. k = (1 .. k - 1) \cup {k}
    <2>1. Len(L) \in Nat
        BY DEF Packing
    <2>2. k \in Nat \ {0}
        BY <2>1
    <2> QED BY <2>1, <2>2
<1> HIDE DEF new, n, p
<1>4. \A i \in 1 .. n : i \in DOMAIN new /\ new[i] = chunks[i]
    BY <1>1, <1>2
<1>5. \A i \in 1 .. p : n + i \in DOMAIN new /\ new[n + i] = more[i]
    BY <1>1, <1>2
<1>6. \A i \in DOMAIN new : \/ i \in 1 .. n /\ new[i] = chunks[i]
                            \/ (i - n \in 1 .. p /\ i = n + (i - n)) /\ new[i] = more[i - n]
    BY <1>1, <1>2
<1>7. \A i \in 1 .. n : Fine(chunks[i], L, G, max, k - 1) /\ Fine(chunks[i], L, G, max, k)
    BY <1>1, <1>3, FineIsKept DEF Packed
<1>8. \A i \in 1 .. p : Exact(more[i], L[k], max) /\ Fine(more[i], L, G, max, k)
    BY <1>1, ExactIsFine DEF Covers
<1>9. \A i \in DOMAIN new : Fine(new[i], L, G, max, k)
    BY <1>6, <1>7, <1>8
<1>10. ASSUME NEW m \in 1 .. k
       PROVE  \E i \in DOMAIN new : \E j \in DOMAIN new[i].files : new[i].files[j] = L[m].path
    <2>1. CASE m = k
        <3>1. 1 \in 1 .. p
            BY <1>1
        <3>2. more[1].files = <<L[k].path>>
            BY <1>8, <3>1 DEF Exact
        <3>3. 1 \in DOMAIN more[1].files /\ more[1].files[1] = L[k].path
            BY <3>2
        <3>4. n + 1 \in DOMAIN new /\ new[n + 1] = more[1]
            BY <1>5, <3>1
        <3> QED BY <2>1, <3>3, <3>4
    <2>2. CASE m \in 1 .. k - 1
        <3>1. PICK i \in DOMAIN chunks : \E j \in DOMAIN chunks[i].files : chunks[i].files[j] = L[m].path
            BY <2>2 DEF Packed
        <3>2. i \in DOMAIN new /\ new[i] = chunks[i]
            BY <1>1, <1>4
        <3> QED BY <3>1, <3>2
    <2> QED BY <1>3, <2>1, <2>2
<1>11. ASSUME NEW m \in 1 .. k, NEW h \in DOMAIN L[m].hunks PROVE Once(new, <<L[m].path, h>>)
    <2>1. CASE m = k
        <3>1. Nowhere(chunks, <<L[m].path, h>>)
            BY <1>1, <1>7, <2>1, LaterIsNowhere
        <3>2. Once(more, <<L[m].path, h>>)
            BY <2>1 DEF Covers
        <3> QED BY <1>1, <3>1, <3>2, ConcatOnce DEF new
    <2>2. CASE m \in 1 .. k - 1
        <3>1. Once(chunks, <<L[m].path, h>>)
            BY <2>2 DEF Packed
        <3>2. m \in 1 .. Len(L) /\ m # k
            BY <1>3, <2>2
        <3>3. \A i \in DOMAIN more : more[i].hunks \subseteq Own(L[k], DOMAIN L[k].hunks)
            BY <1>1, <1>8 DEF Exact
        <3>4. Nowhere(more, <<L[m].path, h>>)
            BY <3>2, <3>3, ExactIsElsewhere
        <3> QED BY <1>1, <3>1, <3>4, ConcatOnce DEF new
    <2> QED BY <1>3, <2>1, <2>2
<1>12. ASSUME NEW i \in DOMAIN new, NEW j \in DOMAIN new, i # j, ~new[i].solo, ~new[j].solo
       PROVE  new[i].size + new[j].size > max
    <2>1. CASE i \in 1 .. n /\ j \in 1 .. n
        BY <1>1, <1>4, <1>12, <2>1 DEF Packed
    <2>2. CASE i \in 1 .. n /\ j - n \in 1 .. p
        <3>1. new[j] = more[j - n] /\ new[i] = chunks[i]
            BY <1>1, <1>4, <1>6, <2>2
        <3>2. chunks[i].size + more[j - n].size > max
            BY <1>1, <1>12, <2>2, <3>1
        <3> QED BY <3>1, <3>2
    <2>3. CASE i - n \in 1 .. p /\ j \in 1 .. n
        <3>1. new[i] = more[i - n] /\ new[j] = chunks[j]
            BY <1>1, <1>4, <1>6, <2>3
        <3>2. chunks[j].size + more[i - n].size > max
            BY <1>1, <1>12, <2>3, <3>1
        <3>3. chunks[j].size \in Nat /\ more[i - n].size \in Nat
            BY <1>1, <2>3 DEF ChunkRecord
        <3> QED BY <3>1, <3>2, <3>3
    <2>4. CASE i - n \in 1 .. p /\ j - n \in 1 .. p
        <3>1. new[i] = more[i - n] /\ new[j] = more[j - n]
            BY <1>1, <1>6, <2>4
        <3>2. i - n = j - n
            BY <1>1, <1>12, <2>4, <3>1
        <3> QED BY <1>1, <1>2, <1>12, <3>2
    <2> QED BY <1>6, <2>1, <2>2, <2>3, <2>4
<1> QED BY <1>9, <1>10, <1>11, <1>12, Zenon DEF Packed, new

\* A file goes to a chunk that has room.
LEMMA JoinedIsPacked ==
    ASSUME NEW L, NEW G, Packing(L, G), NEW max \in Nat, NEW k \in 1 .. Len(L),
           NEW chunks \in Seq(ChunkRecord), Packed(chunks, L, G, max, k - 1),
           NEW i \in DOMAIN chunks, Roomy(chunks[i], L[k], max)
    PROVE  LET own == ChunkOf(L[k], DOMAIN L[k].hunks, SectionSize(L[k]), FALSE, FALSE)
           IN Packed([chunks EXCEPT ![i] = Joined(chunks[i], own)], L, G, max, k)
<1> DEFINE f == L[k]
           c == chunks[i]
           own == ChunkOf(f, DOMAIN f.hunks, SectionSize(f), FALSE, FALSE)
           d == Joined(c, own)
           new == [chunks EXCEPT ![i] = d]
<1>1. /\ Len(L) \in Nat /\ G \in SUBSET Section /\ Distinct(G) /\ f \in G /\ f \in Section
      /\ c \in ChunkRecord
    BY DEF Packing
<1>2. k \in Nat \ {0} /\ 1 .. k = (1 .. k - 1) \cup {k} /\ k \in 1 .. k
    <2>1. k \in Nat \ {0}
        BY <1>1
    <2> QED BY <2>1
<1>3. /\ d \in ChunkRecord
      /\ d.files = Append(c.files, f.path) /\ d.hunks = c.hunks \cup Own(f, DOMAIN f.hunks)
      /\ d.size = c.size + SectionSize(f) /\ d.truncated = c.truncated /\ d.solo = c.solo
    BY <1>1, JoinedIs
<1>4. ~c.solo /\ ~c.truncated /\ c.size + SectionSize(f) <= max
    BY DEF Roomy
<1>5. SectionSize(f) \in Nat /\ c.size \in Nat
    BY <1>1, SectionSizeIs DEF ChunkRecord
<1> HIDE DEF d, own
<1>6. DOMAIN new = DOMAIN chunks /\ new[i] = d /\ \A j \in DOMAIN chunks : j # i => new[j] = chunks[j]
    OBVIOUS
<1> HIDE DEF new
<1>7. Fine(c, L, G, max, k - 1)
    BY DEF Packed
<1>8. c.files \in Seq(Path) /\ f.path \in Path
    BY <1>1, SectionIs DEF ChunkRecord
<1>9. /\ Len(c.files) \in Nat /\ DOMAIN c.files = 1 .. Len(c.files)
      /\ DOMAIN d.files = 1 .. Len(c.files) + 1 /\ d.files[Len(c.files) + 1] = f.path
      /\ \A j \in 1 .. Len(c.files) : d.files[j] = c.files[j]
    BY <1>3, <1>8, AppendProperties
<1>10. \A j \in DOMAIN c.files : \E g \in G : g.path = c.files[j]
    <2>1. \A m \in 1 .. k - 1 : L[m] \in G
        BY <1>1, <1>2 DEF Packing
    <2> QED BY <1>7, <2>1 DEF Fine
<1>11. \A j \in DOMAIN c.files : c.files[j] # f.path
    <2> SUFFICES ASSUME NEW j \in DOMAIN c.files, c.files[j] = f.path PROVE FALSE
        OBVIOUS
    <2>1. PICK m \in 1 .. k - 1 : c.files[j] = L[m].path
        BY <1>7 DEF Fine
    <2>2. m \in 1 .. Len(L) /\ m # k /\ L[m].path = L[k].path
        BY <1>1, <1>2, <2>1
    <2> QED BY <2>2 DEF Packing
<1>12. SumOf(Loads(d, G)) = SumOf(Loads(c, G)) + SectionSize(f)
    <2>1. Known(c, G)
        BY <1>10 DEF Known
    <2> HIDE DEF c, f
    <2> QED BY <1>1, <1>3, <1>11, <2>1, LoadOfMore
<1>13. Fine(d, L, G, max, k)
    <2>1. d.size = SumOf(Loads(d, G))
        <3>1. c.size = SumOf(Loads(c, G))
            BY <1>4, <1>7 DEF Fine
        <3> QED BY <1>3, <1>12, <3>1
    <2>2. \A j \in DOMAIN d.files : \E m \in 1 .. k : d.files[j] = L[m].path
        <3> TAKE j \in DOMAIN d.files
        <3>1. CASE j = Len(c.files) + 1
            BY <1>2, <1>9, <3>1
        <3>2. CASE j \in 1 .. Len(c.files)
            <4>1. PICK m \in 1 .. k - 1 : c.files[j] = L[m].path
                BY <1>7, <1>9, <3>2 DEF Fine
            <4> QED BY <1>2, <1>9, <3>2, <4>1
        <3> QED BY <1>9, <3>1, <3>2
    <2>3. \A x \in d.hunks : \E m \in 1 .. k : x \in Own(L[m], DOMAIN L[m].hunks)
        <3> TAKE x \in d.hunks
        <3>1. CASE x \in Own(f, DOMAIN f.hunks)
            BY <1>2, <3>1
        <3>2. CASE x \in c.hunks
            <4>1. PICK m \in 1 .. k - 1 : x \in Own(L[m], DOMAIN L[m].hunks)
                BY <1>7, <3>2 DEF Fine
            <4> QED BY <1>2, <4>1
        <3> QED BY <1>3, <3>1, <3>2
    <2>4. d.size <= max /\ ~d.truncated
        BY <1>3, <1>4
    <2> QED BY <2>1, <2>2, <2>3, <2>4 DEF Fine
<1>14. \A j \in DOMAIN new : Fine(new[j], L, G, max, k)
    <2>1. \A j \in DOMAIN chunks : Fine(chunks[j], L, G, max, k)
        BY <1>2, FineIsKept DEF Packed
    <2> QED BY <1>6, <1>13, <2>1
<1>15. ASSUME NEW m \in 1 .. k
       PROVE  \E j \in DOMAIN new : \E l \in DOMAIN new[j].files : new[j].files[l] = L[m].path
    <2>1. CASE m = k
        BY <1>6, <1>9, <2>1
    <2>2. CASE m \in 1 .. k - 1
        <3>0. PICK j \in DOMAIN chunks : \E l \in DOMAIN chunks[j].files : chunks[j].files[l] = L[m].path
            BY <2>2 DEF Packed
        <3>1. PICK l \in DOMAIN chunks[j].files : chunks[j].files[l] = L[m].path
            BY <3>0
        <3>2. CASE j = i
            <4>1. l \in 1 .. Len(c.files)
                BY <1>9, <3>2
            <4>2. l \in DOMAIN new[i].files /\ new[i].files[l] = L[m].path
                BY <1>6, <1>9, <3>1, <3>2, <4>1
            <4> QED BY <1>6, <4>2
        <3>3. CASE j # i
            BY <1>6, <3>1, <3>3
        <3> QED BY <3>2, <3>3
    <2> QED BY <1>2, <2>1, <2>2
<1>16. ASSUME NEW m \in 1 .. k, NEW h \in DOMAIN L[m].hunks PROVE Once(new, <<L[m].path, h>>)
    <2> DEFINE x == <<L[m].path, h>>
    <2>1. CASE m = k
        <3>1. Nowhere(chunks, x)
            <4>1. \A j \in DOMAIN chunks : Fine(chunks[j], L, G, max, k - 1)
                BY DEF Packed
            <4> QED BY <2>1, <4>1, LaterIsNowhere
        <3>2. x \in d.hunks
            BY <1>3, <2>1, OwnIs
        <3> QED BY <1>6, <3>1, <3>2 DEF Nowhere, Once
    <2>2. CASE m \in 1 .. k - 1
        <3>1. Once(chunks, x)
            BY <2>2 DEF Packed
        <3>2. x \notin Own(f, DOMAIN f.hunks)
            <4>1. m \in 1 .. Len(L) /\ m # k
                BY <1>1, <1>2, <2>2
            <4>2. L[m].path # f.path
                BY <4>1 DEF Packing
            <4> QED BY <4>2 DEF Own
        <3>3. \A j \in DOMAIN new : x \in new[j].hunks <=> x \in chunks[j].hunks
            BY <1>3, <1>6, <3>2
        <3> HIDE DEF x
        <3> QED BY <1>6, <3>1, <3>3 DEF Once, x
    <2> QED BY <1>2, <2>1, <2>2
<1>17. ASSUME NEW j \in DOMAIN new, NEW l \in DOMAIN new, j # l, ~new[j].solo, ~new[l].solo
       PROVE  new[j].size + new[l].size > max
    <2>1. \A m \in DOMAIN chunks : ~new[m].solo => ~chunks[m].solo
        BY <1>3, <1>4, <1>6
    <2>2. chunks[j].size + chunks[l].size > max
        BY <1>6, <1>17, <2>1 DEF Packed
    <2>3. \A m \in DOMAIN chunks : chunks[m].size \in Nat
        <3>1. \A m \in DOMAIN chunks : chunks[m] \in ChunkRecord
            OBVIOUS
        <3> QED BY <3>1 DEF ChunkRecord
    <2>4. CASE j = i
        <3>1. new[j].size = chunks[j].size + SectionSize(f) /\ new[l].size = chunks[l].size
            BY <1>3, <1>6, <1>17, <2>4
        <3> QED BY <1>5, <1>6, <2>2, <2>3, <3>1
    <2>5. CASE l = i
        <3>1. new[l].size = chunks[l].size + SectionSize(f) /\ new[j].size = chunks[j].size
            BY <1>3, <1>6, <1>17, <2>5
        <3> QED BY <1>5, <1>6, <2>2, <2>3, <3>1
    <2>6. CASE j # i /\ l # i
        BY <1>6, <2>2, <2>6
    <2> QED BY <2>4, <2>5, <2>6
<1> QED BY <1>14, <1>15, <1>16, <1>17, Zenon DEF Packed, new, d, own

LEMMA FileIsPacked ==
    ASSUME NEW L, NEW G, Packing(L, G), NEW max \in Nat, NEW k \in 1 .. Len(L),
           NEW chunks \in Seq(ChunkRecord), Packed(chunks, L, G, max, k - 1)
    PROVE  Packed(PlaceFile(chunks, L[k], max), L, G, max, k)
<1> DEFINE f == L[k]
           placed == PlaceFile(chunks, f, max)
           roomy == {i \in DOMAIN chunks : Roomy(chunks[i], f, max)}
           own == ChunkOf(f, DOMAIN f.hunks, SectionSize(f), FALSE, FALSE)
           pieces == SplitOversizedFile(f, max)
<1>1. f \in Section
    BY DEF Packing
<1>2. \/ SectionSize(f) > max /\ placed = chunks \o pieces
      \/ \E i \in roomy : placed = [chunks EXCEPT ![i] = Joined(chunks[i], own)]
      \/ (SectionSize(f) <= max /\ roomy = {}) /\ placed = Append(chunks, own)
    <2> HIDE DEF f, own, placed, pieces, roomy
    <2>1. \/ /\ SectionSize(f) > max
             /\ placed = chunks \o pieces
          \/ /\ SectionSize(f) <= max
             /\ \E i \in roomy : placed = [chunks EXCEPT ![i] = Joined(chunks[i], own)]
          \/ /\ SectionSize(f) <= max /\ roomy = {}
             /\ placed = Append(chunks, own)
        BY <1>1, PlaceFileIs DEF own, placed, pieces, roomy
    <2> QED BY <2>1
<1>3. CASE placed = chunks \o pieces
    <2>1. Covers(pieces, f, max) /\ \A i \in DOMAIN pieces : pieces[i].solo
        BY <1>1, OversizedIsCovered
    <2> HIDE DEF pieces, placed
    <2>2. Packed(chunks \o pieces, L, G, max, k)
        BY <2>1, MoreIsPacked
    <2> QED BY <1>3, <2>2 DEF placed
<1>4. ASSUME NEW i \in roomy, placed = [chunks EXCEPT ![i] = Joined(chunks[i], own)]
      PROVE  Packed(placed, L, G, max, k)
    <2>1. i \in DOMAIN chunks /\ Roomy(chunks[i], f, max)
        OBVIOUS
    <2> HIDE DEF placed
    <2>2. Packed([chunks EXCEPT ![i] = Joined(chunks[i], own)], L, G, max, k)
        BY <2>1, JoinedIsPacked
    <2> QED BY <1>4, <2>2
<1>5. CASE (SectionSize(f) <= max /\ roomy = {}) /\ placed = Append(chunks, own)
    <2>1. /\ own \in ChunkRecord
          /\ own.files = <<f.path>> /\ own.hunks = Own(f, DOMAIN f.hunks) /\ own.size = SectionSize(f)
          /\ own.truncated = FALSE /\ own.solo = FALSE
        BY <1>1, OwnChunkIs
    <2> HIDE DEF own, placed
    <2>2. own.size = Weight(f, own.hunks)
        <3>1. \A h \in DOMAIN f.hunks : <<f.path, h>> \in own.hunks
            BY <2>1, OwnIs
        <3> QED BY <1>1, <2>1, <3>1, WeightOfAll
    <2>3. Exact(own, f, max)
        BY <1>5, <2>1, <2>2 DEF Exact
    <2>4. Covers(<<own>>, f, max)
        BY <1>1, <2>1, <2>3, OneCovers
    <2>5. DOMAIN <<own>> = {1} /\ <<own>>[1] = own
        OBVIOUS
    <2>6. \A i \in DOMAIN chunks : ~chunks[i].solo => chunks[i].size + own.size > max
        <3> SUFFICES ASSUME NEW i \in DOMAIN chunks, ~chunks[i].solo
                     PROVE  chunks[i].size + own.size > max
            OBVIOUS
        <3>1. ~Roomy(chunks[i], f, max)
            BY <1>5
        <3>2. ~chunks[i].truncated
            BY DEF Packed, Fine
        <3>3. ~(chunks[i].size + SectionSize(f) <= max)
            BY <3>1, <3>2 DEF Roomy
        <3>4. chunks[i].size \in Nat /\ SectionSize(f) \in Nat
            <4>1. chunks[i] \in ChunkRecord
                OBVIOUS
            <4> QED BY <1>1, <4>1, SectionSizeIs DEF ChunkRecord
        <3> QED BY <2>1, <3>3, <3>4
    <2>7. Packed(chunks \o <<own>>, L, G, max, k)
        <3> DEFINE more == <<own>>
        <3>1. Covers(more, f, max)
            BY <2>4
        <3>2. \A i \in DOMAIN more : ~more[i].solo => ~more[i].truncated
            BY <2>1, <2>5
        <3>3. \A i, j \in DOMAIN more : ~more[i].solo /\ ~more[j].solo => i = j
            BY <2>5
        <3>4. \A i \in DOMAIN chunks, j \in DOMAIN more : ~chunks[i].solo /\ ~more[j].solo =>
                 chunks[i].size + more[j].size > max
            BY <2>5, <2>6
        <3> HIDE DEF more
        <3>5. Packed(chunks \o more, L, G, max, k)
            BY <3>1, <3>2, <3>3, <3>4, MoreIsPacked
        <3> QED BY <3>5 DEF more
    <2>8. Append(chunks, own) = chunks \o <<own>>
        BY <2>1, AppendIsConcat
    <2> QED BY <1>5, <2>7, <2>8 DEF placed
<1> HIDE DEF placed, roomy, own, pieces, f
<1>6. Packed(placed, L, G, max, k)
    BY <1>2, <1>3, <1>4, <1>5 DEF placed, f
<1> QED BY <1>6 DEF placed, f

LEMMA PackIs ==
    ASSUME NEW files \in Seq(Section), NEW G, NEW max \in Nat,
           Packing(LargestFirst(files), G)
    PROVE  /\ PackChunks(files, max) \in Seq(ChunkRecord)
           /\ Packed(PackChunks(files, max), LargestFirst(files), G, max, Len(files))
<1> DEFINE L == LargestFirst(files)
           n == Len(files)
<1>1. Len(L) = n /\ n \in Nat
    BY LargestFirstIs
<1>2. L = LargestFirst(files)
    OBVIOUS
<1> HIDE DEF L
<1>3. PICK g : PackSteps(g, files, max, L)
    BY <1>2, PackStepsExist, Zenon
<1> HIDE DEF n
<1>4. /\ g \in [0 .. n -> Seq(ChunkRecord)] /\ g[0] = <<>> /\ g[n] = PackChunks(files, max)
      /\ \A k \in 1 .. n : g[k] = PlaceFile(g[k - 1], L[k], max)
    BY <1>1, <1>3 DEF PackSteps
<1> DEFINE T == {k \in 0 .. n : Packed(g[k], L, G, max, k)}
<1>5. 0 \in T
    <2>1. DOMAIN g[0] = {}
        BY <1>4
    <2>2. Packed(g[0], L, G, max, 0)
        BY <2>1 DEF Packed
    <2> QED BY <1>1, <2>2
<1>6. ASSUME NEW k \in 1 .. n, k - 1 \in T PROVE k \in T
    <2>1. k - 1 \in 0 .. n /\ k \in 0 .. n
        BY <1>1
    <2>2. g[k - 1] \in Seq(ChunkRecord) /\ Packed(g[k - 1], L, G, max, k - 1)
        BY <1>4, <1>6, <2>1
    <2>3. k \in 1 .. Len(L) /\ Packing(L, G)
        BY <1>1, <1>2
    <2>4. Packed(PlaceFile(g[k - 1], L[k], max), L, G, max, k)
        BY <2>2, <2>3, FileIsPacked
    <2> QED BY <1>4, <2>1, <2>4
<1> HIDE DEF T
<1>7. \A k \in 0 .. n : k \in T
    BY <1>1, <1>5, <1>6, InductionUpTo, Zenon
<1>8. n \in 0 .. n
    BY <1>1
<1>9. Packed(g[n], L, G, max, n)
    BY <1>7, <1>8 DEF T
<1>10. g[n] \in Seq(ChunkRecord)
    BY <1>4, <1>8
<1> QED BY <1>4, <1>9, <1>10 DEF L, n

-----------------------------------------------------------------------------
(* The split *)

LEMMA FullSizeIs ==
    ASSUME NEW files, NEW c
    PROVE  FullSize(c, files) = SumOf(Loads(c, ToSet(files)))
<1> DEFINE f(i) == SectionAt(ToSet(files), c.files[i])
           own(i) == {h \in DOMAIN f(i).hunks : <<f(i).path, h>> \in c.hunks}
           counts(i) == [h \in DOMAIN f(i).hunks |->
                            IF h \in own(i) THEN HunkSize(f(i).hunks[h]) ELSE 0]
<1>1. FullSize(c, files) = SumOf([i \in DOMAIN c.files |-> f(i).header + SumOf(counts(i))])
    BY Zenon DEF FullSize, SectionAt
<1>2. \A i \in DOMAIN c.files : counts(i) = Counts(f(i), c.hunks)
    <2> TAKE i \in DOMAIN c.files
    <2> DEFINE g == f(i)
    <2>1. counts(i) = [h \in DOMAIN g.hunks |->
              IF h \in {j \in DOMAIN g.hunks : <<g.path, j>> \in c.hunks} THEN HunkSize(g.hunks[h]) ELSE 0]
        OBVIOUS
    <2> HIDE DEF counts, own, g
    <2>2. counts(i) = Counts(g, c.hunks)
        BY <2>1 DEF Counts
    <2> QED BY <2>2 DEF g
<1>3. \A i \in DOMAIN c.files : f(i).header + SumOf(counts(i)) = Weight(f(i), c.hunks)
    <2> HIDE DEF counts, f
    <2> QED BY <1>2 DEF Weight
<1>4. Loads(c, ToSet(files)) = [i \in DOMAIN c.files |-> Weight(f(i), c.hunks)]
    BY DEF Loads
<1> HIDE DEF f, own, counts
<1>5. [i \in DOMAIN c.files |-> f(i).header + SumOf(counts(i))] = [i \in DOMAIN c.files |-> Weight(f(i), c.hunks)]
    BY <1>3
<1> QED BY <1>1, <1>4, <1>5

Offered(listed, path, own, budget) ==
    IF path \in own \/ Len(listed) + 1 <= budget THEN Append(listed, path) ELSE listed

\* The listing of the files, path by path.
ListedSteps(g, manifest, own, budget) ==
    /\ g \in [0 .. Len(manifest) -> Seq(Path)]
    /\ g[0] = <<>>
    /\ g[Len(manifest)] = Listed(manifest, own, budget)
    /\ \A k \in 1 .. Len(manifest) : g[k] = Offered(g[k - 1], manifest[k], own, budget)

LEMMA ListedStepsExist ==
    ASSUME NEW manifest \in Seq(Path), NEW own, NEW budget \in Nat
    PROVE  \E g : ListedSteps(g, manifest, own, budget)
<1> DEFINE V == Seq(Path)
           n == Len(manifest)
           Table(t) == t = [S \in SUBSET DOMAIN manifest |->
                              IF S = {} THEN <<>> ELSE Offered(t[S \ {Max(S)}], manifest[Max(S)], own, budget)]
           d == [p \in V \X Path |-> Offered(p[1], p[2], own, budget)]
           h == CHOOSE t : Table(t)
<1>1. manifest \in Seq(Path)
    OBVIOUS
<1>2. n \in Nat /\ DOMAIN manifest = 1 .. n /\ \A i \in 1 .. n : manifest[i] \in Path
    BY <1>1
<1>3. <<>> \in V
    OBVIOUS
<1>4. \A v \in V, x \in Path : Offered(v, x, own, budget) \in V
    BY DEF Offered
<1> HIDE DEF V
<1>5. d \in [V \X Path -> V]
    BY <1>4
<1>6. \A v \in V, x \in Path : d[<<v, x>>] = Offered(v, x, own, budget)
    OBVIOUS
<1> HIDE DEF d
<1>7. PICK t : FoldTable(t, V, <<>>, d, manifest)
    BY <1>1, <1>3, <1>5, FoldTableExists, Zenon
<1>8. ASSUME NEW S \in SUBSET DOMAIN manifest, S # {}
      PROVE  d[<<t[S \ {Max(S)}], manifest[Max(S)]>>] = Offered(t[S \ {Max(S)}], manifest[Max(S)], own, budget)
    <2>1. Max(S) \in S
        BY <1>2, <1>8, MaxIs
    <2>2. t[S \ {Max(S)}] \in V /\ manifest[Max(S)] \in Path
        BY <1>2, <1>7, <2>1 DEF FoldTable
    <2> QED BY <1>6, <2>2
<1>9. Table(t)
    BY <1>7, <1>8 DEF FoldTable
<1>10. Table(h)
    <2> HIDE DEF Table
    <2> QED BY <1>9
<1>11. h[DOMAIN manifest] = Listed(manifest, own, budget)
    BY Zenon DEF Listed, Offered, FoldLeft, MapThenFoldSet
<1> HIDE DEF h
<1>12. h[{}] = <<>>
    BY <1>10
<1>13. ASSUME NEW k \in 1 .. n PROVE h[1 .. k] = Offered(h[1 .. k - 1], manifest[k], own, budget)
    <2>1. k \in Nat \ {0} /\ 1 .. k \in SUBSET DOMAIN manifest
        BY <1>2
    <2>2. h[1 .. k] = Offered(h[(1 .. k) \ {Max(1 .. k)}], manifest[Max(1 .. k)], own, budget)
        BY <1>10, <2>1, MaxOfInterval
    <2> QED BY <2>1, <2>2, MaxOfInterval
<1>14. \A k \in 1 .. n : h[1 .. k - 1] \in V => h[1 .. k] = d[<<h[1 .. k - 1], manifest[k]>>]
    BY <1>2, <1>6, <1>13
<1>15. PICK g : FoldSteps(g, V, <<>>, d, manifest, h[DOMAIN manifest])
    BY <1>1, <1>3, <1>5, <1>12, <1>14, FoldStepsExist, Zenon
<1>16. ASSUME NEW k \in 1 .. n PROVE g[k] = Offered(g[k - 1], manifest[k], own, budget)
    <2>1. k - 1 \in 0 .. n
        BY <1>2
    <2>2. g[k - 1] \in V
        BY <1>15, <2>1 DEF FoldSteps
    <2> QED BY <1>2, <1>6, <1>15, <2>2 DEF FoldSteps
<1>17. /\ g \in [0 .. n -> Seq(Path)] /\ g[0] = <<>>
       /\ g[n] = h[DOMAIN manifest]
    BY <1>15 DEF V, FoldSteps
<1>18. g[n] = Listed(manifest, own, budget)
    BY <1>11, <1>17
<1>19. ListedSteps(g, manifest, own, budget)
    BY <1>16, <1>17, <1>18 DEF ListedSteps
<1> QED BY <1>19

LEMMA OwnAreListed ==
    ASSUME NEW manifest \in Seq(Path), NEW own, NEW budget \in Nat
    PROVE  \A i \in DOMAIN manifest : manifest[i] \in own =>
              manifest[i] \in ToSet(Listed(manifest, own, budget))
<1> DEFINE n == Len(manifest)
<1>1. n \in Nat /\ DOMAIN manifest = 1 .. n /\ \A i \in 1 .. n : manifest[i] \in Path
    OBVIOUS
<1>2. PICK g : ListedSteps(g, manifest, own, budget)
    BY ListedStepsExist, Zenon
<1>3. /\ g \in [0 .. n -> Seq(Path)] /\ g[n] = Listed(manifest, own, budget)
      /\ \A k \in 1 .. n : g[k] = IF manifest[k] \in own \/ Len(g[k - 1]) + 1 <= budget
                                  THEN Append(g[k - 1], manifest[k]) ELSE g[k - 1]
    BY <1>2 DEF ListedSteps, Offered
<1> HIDE DEF n
<1> DEFINE Has(k) == \A i \in 1 .. k : manifest[i] \in own => \E j \in DOMAIN g[k] : g[k][j] = manifest[i]
           T == {k \in 0 .. n : Has(k)}
<1>4. 0 \in T
    BY <1>1
<1>5. ASSUME NEW k \in 1 .. n, k - 1 \in T PROVE k \in T
    <2>1. k - 1 \in 0 .. n /\ k \in 0 .. n /\ 1 .. k = (1 .. k - 1) \cup {k} /\ k \in Nat
        BY <1>1
    <2> DEFINE a == g[k - 1]
    <2>2. a \in Seq(Path)
        BY <1>3, <2>1
    <2>3. /\ Len(a) \in Nat /\ DOMAIN a = 1 .. Len(a)
          /\ DOMAIN Append(a, manifest[k]) = 1 .. Len(a) + 1
          /\ Append(a, manifest[k])[Len(a) + 1] = manifest[k]
          /\ \A j \in 1 .. Len(a) : Append(a, manifest[k])[j] = a[j]
        BY <1>1, <2>2, AppendProperties
    <2>4. Has(k - 1)
        BY <1>5
    <2>5. ASSUME NEW i \in 1 .. k, manifest[i] \in own PROVE \E j \in DOMAIN g[k] : g[k][j] = manifest[i]
        <3>1. CASE i = k
            <4>1. g[k] = Append(a, manifest[k])
                BY <1>3, <2>5, <3>1
            <4> HIDE DEF a
            <4>2. Len(a) + 1 \in DOMAIN g[k] /\ g[k][Len(a) + 1] = manifest[i]
                BY <2>3, <3>1, <4>1
            <4> QED BY <4>2
        <3>2. CASE i \in 1 .. k - 1
            <4>1. PICK j \in DOMAIN a : a[j] = manifest[i]
                BY <2>4, <2>5, <3>2
            <4>2. g[k] = Append(a, manifest[k]) \/ g[k] = a
                BY <1>3
            <4> HIDE DEF a
            <4>3. j \in DOMAIN g[k] /\ g[k][j] = manifest[i]
                BY <2>3, <4>1, <4>2
            <4> QED BY <4>3
        <3> QED BY <2>1, <3>1, <3>2
    <2>6. Has(k)
        BY <2>5
    <2> HIDE DEF Has
    <2> QED BY <2>1, <2>6
<1> HIDE DEF T
<1>6. \A k \in 0 .. n : k \in T
    BY <1>1, <1>4, <1>5, InductionUpTo, Zenon
<1>7. n \in T
    BY <1>1, <1>6
<1>8. \A i \in 1 .. n : manifest[i] \in own => \E j \in DOMAIN g[n] : g[n][j] = manifest[i]
    BY <1>7 DEF T
<1> QED BY <1>1, <1>3, <1>8 DEF ToSet

LEMMA PickedAreDistinct ==
    ASSUME NEW list \in Seq(Section), OneSectionEach(list), NEW kept
    PROVE  Only(list, kept) \in Seq(Section) /\ OneSectionEach(Only(list, kept))
<1> DEFINE picked == Only(list, kept)
<1>1. picked \in Seq(Section) /\ Picks(picked, list, kept)
    BY OnlyPicks
<1> HIDE DEF picked
<1>2. PICK from \in [DOMAIN picked -> DOMAIN list] :
        /\ \A k \in DOMAIN picked : picked[k] = list[from[k]] /\ picked[k] \in kept
        /\ \A k, l \in DOMAIN picked : k < l => from[k] < from[l]
        /\ \A i \in DOMAIN list : list[i] \in kept => \E k \in DOMAIN picked : from[k] = i
    BY <1>1 DEF Picks
<1>3. ASSUME NEW k \in DOMAIN picked, NEW l \in DOMAIN picked, picked[k].path = picked[l].path
      PROVE  k = l
    <2>1. from[k] = from[l]
        BY <1>2, <1>3 DEF OneSectionEach
    <2>2. from[k] \in Nat /\ from[l] \in Nat /\ k \in Nat /\ l \in Nat
        <3>1. \A i \in DOMAIN list : i \in Nat
            OBVIOUS
        <3>2. \A i \in DOMAIN picked : i \in Nat
            BY <1>1
        <3>3. from[k] \in DOMAIN list /\ from[l] \in DOMAIN list
            OBVIOUS
        <3> QED BY <3>1, <3>2, <3>3
    <2>3. ~(k < l) /\ ~(l < k)
        BY <1>2, <2>1, <2>2
    <2> QED BY <2>2, <2>3
<1>4. OneSectionEach(picked)
    BY <1>3 DEF OneSectionEach
<1> QED BY <1>1, <1>4 DEF picked

LEMMA FilesArePacking ==
    ASSUME NEW files \in Seq(Section), OneSectionEach(files)
    PROVE  Packing(LargestFirst(files), ToSet(files))
<1> DEFINE L == LargestFirst(files)
           G == ToSet(files)
           n == Len(files)
<1>1. n \in Nat /\ DOMAIN files = 1 .. n /\ \A i \in 1 .. n : files[i] \in Section
    OBVIOUS
<1>2. /\ L \in Seq(Section) /\ Len(L) = n
      /\ \E place \in [1 .. n -> 1 .. n] :
            /\ \A k \in 1 .. n : L[k] = files[place[k]]
            /\ \A k, l \in 1 .. n : place[k] = place[l] => k = l
            /\ \A i \in 1 .. n : \E k \in 1 .. n : place[k] = i
    BY LargestFirstIs, Zenon
<1> HIDE DEF L
<1>3. PICK place \in [1 .. n -> 1 .. n] :
            /\ \A k \in 1 .. n : L[k] = files[place[k]]
            /\ \A k, l \in 1 .. n : place[k] = place[l] => k = l
    BY <1>2
<1>4. G \in SUBSET Section
    BY <1>1 DEF ToSet
<1>5. Distinct(G)
    BY DEF OneSectionEach, Distinct, ToSet
<1>6. \A m \in 1 .. n : L[m] \in G
    BY <1>1, <1>3 DEF ToSet
<1>7. \A m, l \in 1 .. n : L[m].path = L[l].path => m = l
    BY <1>1, <1>3 DEF OneSectionEach
<1> HIDE DEF G, n
<1>8. Packing(L, G)
    BY <1>2, <1>4, <1>5, <1>6, <1>7 DEF Packing
<1> QED BY <1>8 DEF L, G

LEMMA OnceIsOne ==
    ASSUME NEW chunks, NEW x, Once(chunks, x)
    PROVE  Cardinality({i \in DOMAIN chunks : x \in chunks[i].hunks}) = 1
<1>1. PICK i \in DOMAIN chunks : x \in chunks[i].hunks
    BY DEF Once
<1>2. {j \in DOMAIN chunks : x \in chunks[j].hunks} = {i}
    BY <1>1 DEF Once
<1> QED BY <1>2, FS_Singleton

\* Whatever files are packed, in chunks of whatever size.
LEMMA FilesAreSplit ==
    ASSUME NEW files \in Seq(Section), OneSectionEach(files), NEW max \in Nat, NEW budget \in Nat
    PROVE  LET paths == {f.path : f \in ToSet(files)}
               manifest == [i \in DOMAIN files |-> files[i].path]
               chunks == PackChunks(files, max)
               listed(i) == Listed(manifest, ToSet(chunks[i].files), budget)
               shared == {i \in DOMAIN chunks : ~chunks[i].solo}
           IN /\ \A f \in ToSet(files) : \A h \in DOMAIN f.hunks :
                    Cardinality({i \in DOMAIN chunks : <<f.path, h>> \in chunks[i].hunks}) = 1
              /\ UNION {ToSet(chunks[i].files) : i \in DOMAIN chunks} = paths
              /\ \A i \in DOMAIN chunks :
                    /\ chunks[i].size <= max
                    /\ ~chunks[i].truncated => chunks[i].size = FullSize(chunks[i], files)
                    /\ ToSet(chunks[i].files) \subseteq ToSet(listed(i))
              /\ \A i, j \in shared : i # j => chunks[i].size + chunks[j].size > max
<1> DEFINE L == LargestFirst(files)
           G == ToSet(files)
           n == Len(files)
           chunks == PackChunks(files, max)
           paths == {f.path : f \in G}
           manifest == [i \in DOMAIN files |-> files[i].path]
           listed(i) == Listed(manifest, ToSet(chunks[i].files), budget)
           shared == {i \in DOMAIN chunks : ~chunks[i].solo}
<1>1. n \in Nat /\ DOMAIN files = 1 .. n /\ \A i \in 1 .. n : files[i] \in Section
    OBVIOUS
<1>2. Packing(L, G)
    BY FilesArePacking
<1>3. chunks \in Seq(ChunkRecord) /\ Packed(chunks, L, G, max, n)
    BY <1>2, PackIs
<1>4. /\ Len(L) = n
      /\ \E place \in [1 .. n -> 1 .. n] :
            /\ \A k \in 1 .. n : L[k] = files[place[k]]
            /\ \A k, l \in 1 .. n : place[k] = place[l] => k = l
            /\ \A i \in 1 .. n : \E k \in 1 .. n : place[k] = i
    BY LargestFirstIs, Zenon
<1> HIDE DEF L, chunks
<1>5. \A m \in 1 .. n : L[m] \in G
    BY <1>2, <1>4 DEF Packing
<1>6. \A f \in G : \E m \in 1 .. n : L[m] = f
    <2>1. PICK place \in [1 .. n -> 1 .. n] :
            /\ \A k \in 1 .. n : L[k] = files[place[k]]
            /\ \A i \in 1 .. n : \E k \in 1 .. n : place[k] = i
        BY <1>4
    <2>2. \A f \in G : \E i \in 1 .. n : files[i] = f
        BY <1>1 DEF ToSet
    <2> TAKE f \in G
    <2>3. PICK i \in 1 .. n : files[i] = f
        BY <2>2
    <2>4. PICK k \in 1 .. n : place[k] = i
        BY <2>1
    <2>5. L[k] = f
        BY <2>1, <2>3, <2>4
    <2> QED BY <2>5
<1>7. \A p \in paths : \E m \in 1 .. n : L[m].path = p
    BY <1>6
<1>8. \A m \in 1 .. n : L[m].path \in paths
    BY <1>5
<1>9. \A p \in paths : \E i \in 1 .. n : manifest[i] = p
    BY <1>1 DEF ToSet
<1>10. manifest \in Seq(Path) /\ DOMAIN manifest = 1 .. n
    <2>1. \A i \in 1 .. n : files[i].path \in Path
        BY <1>1, SectionIs
    <2>2. manifest \in [1 .. n -> Path]
        BY <1>1, <2>1
    <2> HIDE DEF manifest
    <2> QED BY <1>1, <2>2
<1> HIDE DEF G, paths, manifest, n
<1>11. ASSUME NEW f \in G, NEW h \in DOMAIN f.hunks
       PROVE  Cardinality({i \in DOMAIN chunks : <<f.path, h>> \in chunks[i].hunks}) = 1
    <2>1. PICK m \in 1 .. n : L[m] = f
        BY <1>6
    <2>2. Once(chunks, <<L[m].path, h>>)
        BY <1>3, <2>1 DEF Packed
    <2> QED BY <2>1, <2>2, OnceIsOne
<1>12. \A i \in DOMAIN chunks : Fine(chunks[i], L, G, max, n)
    BY <1>3 DEF Packed
<1>13. \A i \in DOMAIN chunks : \A j \in DOMAIN chunks[i].files : chunks[i].files[j] \in paths
    <2> TAKE i \in DOMAIN chunks
    <2> TAKE j \in DOMAIN chunks[i].files
    <2>1. \E m \in 1 .. n : chunks[i].files[j] = L[m].path
        BY <1>12 DEF Fine
    <2> QED BY <1>8, <2>1
<1>14. UNION {ToSet(chunks[i].files) : i \in DOMAIN chunks} = paths
    <2>1. \A i \in DOMAIN chunks : ToSet(chunks[i].files) \subseteq paths
        BY <1>13 DEF ToSet
    <2>2. ASSUME NEW p \in paths PROVE \E i \in DOMAIN chunks : p \in ToSet(chunks[i].files)
        <3>1. PICK m \in 1 .. n : L[m].path = p
            BY <1>7
        <3>2. \E i \in DOMAIN chunks : \E j \in DOMAIN chunks[i].files : chunks[i].files[j] = L[m].path
            BY <1>3 DEF Packed
        <3> QED BY <3>1, <3>2 DEF ToSet
    <2> QED BY <2>1, <2>2
<1>15. ASSUME NEW i \in DOMAIN chunks
       PROVE  /\ chunks[i].size <= max
              /\ ~chunks[i].truncated => chunks[i].size = FullSize(chunks[i], files)
              /\ ToSet(chunks[i].files) \subseteq ToSet(listed(i))
    <2>1. FullSize(chunks[i], files) = SumOf(Loads(chunks[i], G))
        BY FullSizeIs DEF G
    <2>2. /\ chunks[i].size <= max
          /\ ~chunks[i].truncated => chunks[i].size = FullSize(chunks[i], files)
        BY <1>12, <2>1 DEF Fine
    <2>3. ASSUME NEW p \in ToSet(chunks[i].files) PROVE p \in ToSet(listed(i))
        <3>1. p \in paths
            BY <1>13 DEF ToSet
        <3>2. PICK j \in 1 .. n : manifest[j] = p
            BY <1>9, <3>1
        <3> DEFINE own == ToSet(chunks[i].files)
        <3>3. p \in own
            OBVIOUS
        <3> HIDE DEF own
        <3>4. \A l \in DOMAIN manifest : manifest[l] \in own =>
                 manifest[l] \in ToSet(Listed(manifest, own, budget))
            BY <1>10, OwnAreListed
        <3> QED BY <1>10, <3>2, <3>3, <3>4 DEF own
    <2> HIDE DEF listed
    <2> QED BY <2>2, <2>3
<1>16. \A i, j \in shared : i # j => chunks[i].size + chunks[j].size > max
    BY <1>3 DEF Packed
<1> HIDE DEF shared, listed
<1>17. /\ \A f \in G : \A h \in DOMAIN f.hunks :
             Cardinality({i \in DOMAIN chunks : <<f.path, h>> \in chunks[i].hunks}) = 1
       /\ UNION {ToSet(chunks[i].files) : i \in DOMAIN chunks} = paths
       /\ \A i \in DOMAIN chunks :
             /\ chunks[i].size <= max
             /\ ~chunks[i].truncated => chunks[i].size = FullSize(chunks[i], files)
             /\ ToSet(chunks[i].files) \subseteq ToSet(listed(i))
       /\ \A i, j \in shared : i # j => chunks[i].size + chunks[j].size > max
    BY <1>11, <1>14, <1>15, <1>16
<1> QED BY <1>17, Zenon DEF shared, listed, manifest, paths, chunks, G

LEMMA SplitsAreExact == SplitIsExact
<1>1. ASSUME NEW d \in Diffs
      PROVE  LET files == KeptFiles(SplitUnifiedDiff(d))
             IN files \in Seq(Section) /\ OneSectionEach(files)
    <2>1. d \in Seq(Section) /\ OneSectionEach(d)
        BY SplitAssumption
    <2>2. SplitUnifiedDiff(d) \in Seq(Section) /\ OneSectionEach(SplitUnifiedDiff(d))
        BY <2>1, PickedAreDistinct DEF SplitUnifiedDiff
    <2> QED BY <2>2, PickedAreDistinct DEF KeptFiles
<1>2. MaxSize \in Nat /\ Budget \in Nat
    BY SplitAssumption
<1>3. ChunksHoldTheDiff
    <2> SUFFICES ASSUME NEW d \in Diffs
        PROVE LET files == KeptFiles(SplitUnifiedDiff(d))
                  paths == {f.path : f \in ToSet(files)}
                  manifest == [i \in DOMAIN files |-> files[i].path]
                  chunks == PackChunks(files, MaxSize)
                  listed(i) == Listed(manifest, ToSet(chunks[i].files), Budget)
              IN /\ \A f \in ToSet(files) : \A h \in DOMAIN f.hunks :
                        Cardinality({i \in DOMAIN chunks : <<f.path, h>> \in chunks[i].hunks}) = 1
                 /\ UNION {ToSet(chunks[i].files) : i \in DOMAIN chunks} = paths
                 /\ \A i \in DOMAIN chunks :
                       /\ chunks[i].size <= MaxSize
                       /\ ~chunks[i].truncated => chunks[i].size = FullSize(chunks[i], files)
                       /\ ToSet(chunks[i].files) \subseteq ToSet(listed(i))
        BY Zenon DEF ChunksHoldTheDiff
    <2> DEFINE files == KeptFiles(SplitUnifiedDiff(d))
    <2>1. files \in Seq(Section) /\ OneSectionEach(files)
        BY <1>1
    <2> HIDE DEF files
    <2> QED BY <1>2, <2>1, FilesAreSplit, Zenon DEF files
<1>4. NoCallWasted
    <2> SUFFICES ASSUME NEW d \in Diffs
        PROVE LET chunks == PackChunks(KeptFiles(SplitUnifiedDiff(d)), MaxSize)
                  shared == {i \in DOMAIN chunks : ~chunks[i].solo}
              IN \A i, j \in shared : i # j => chunks[i].size + chunks[j].size > MaxSize
        BY Zenon DEF NoCallWasted
    <2> DEFINE files == KeptFiles(SplitUnifiedDiff(d))
    <2>1. files \in Seq(Section) /\ OneSectionEach(files)
        BY <1>1
    <2> HIDE DEF files
    <2> QED BY <1>2, <2>1, FilesAreSplit, Zenon DEF files
<1> QED BY <1>3, <1>4 DEF SplitIsExact

\* Every diff is split so that each of its hunks is in one chunk, each chunk within the
\* limit, told of if it is cut and listing its own files, and no two chunks of whole files
\* would have fitted in one (split_unified_diff, pack_chunks, render_chunk_preamble).
THEOREM SplitsKeepTheDiff == Spec => []SplitIsExact
<1>1. SplitIsExact
    BY SplitsAreExact
<1> QED BY <1>1, PTL

-----------------------------------------------------------------------------
(* The rows of a section *)

Row == [at : Nat \X Nat, sign : LineKind, old : Nat, new : Nat]
Rowing == [rows : Seq(Row), old : Nat, new : Nat]
LinesAt(f, h) == [i \in DOMAIN f.hunks[h].lines |-> <<h, i>>]
Begun(f, rows, h) == [rows |-> rows, old |-> f.hunks[h].old, new |-> f.hunks[h].new]

LEMMA HunkIs ==
    ASSUME NEW f \in Section, NEW h \in DOMAIN f.hunks
    PROVE  LET lines == f.hunks[h].lines
           IN /\ f.hunks[h].old \in Nat /\ f.hunks[h].new \in Nat
              /\ lines \in Seq(LineKind) /\ Len(lines) \in Nat /\ DOMAIN lines = 1 .. Len(lines)
              /\ \A i \in 1 .. Len(lines) : lines[i] \in LineKind
              /\ h \in Nat
<1>1. f.hunks[h] \in Hunk /\ h \in Nat
    BY SectionIs
<1>2. f.hunks[h].old \in Nat /\ f.hunks[h].new \in Nat /\ f.hunks[h].lines \in Seq(LineKind)
    BY <1>1 DEF Hunk
<1> QED BY <1>1, <1>2

LEMMA LinesAtAre ==
    ASSUME NEW f \in Section, NEW h \in DOMAIN f.hunks
    PROVE  /\ LinesAt(f, h) \in Seq({h} \X DOMAIN f.hunks[h].lines)
           /\ Len(LinesAt(f, h)) = Len(f.hunks[h].lines)
           /\ \A i \in 1 .. Len(f.hunks[h].lines) : LinesAt(f, h)[i] = <<h, i>>
<1> DEFINE lines == f.hunks[h].lines
           list == LinesAt(f, h)
<1>1. Len(lines) \in Nat /\ DOMAIN lines = 1 .. Len(lines)
    BY HunkIs
<1>2. list \in [1 .. Len(lines) -> {h} \X DOMAIN lines] /\ \A i \in 1 .. Len(lines) : list[i] = <<h, i>>
    BY <1>1 DEF LinesAt
<1> HIDE DEF list, lines
<1>3. list \in Seq({h} \X DOMAIN lines)
    BY <1>1, <1>2, ListIs, Zenon
<1>4. Len(list) = Len(lines)
    BY <1>1, <1>2
<1> QED BY <1>2, <1>3, <1>4 DEF list, lines

LEMMA LineIsAdded ==
    ASSUME NEW f \in Section, NEW h \in DOMAIN f.hunks
    PROVE  \A acc \in Rowing, at \in {h} \X DOMAIN f.hunks[h].lines : AddLine(f, acc, at) \in Rowing
<1> TAKE acc \in Rowing, at \in {h} \X DOMAIN f.hunks[h].lines
<1>1. PICK i \in DOMAIN f.hunks[h].lines : at = <<h, i>>
    OBVIOUS
<1> DEFINE kind == f.hunks[h].lines[i]
           row == [at |-> at, sign |-> kind, old |-> acc.old, new |-> acc.new]
           more == Append(acc.rows, row)
           old == IF kind = "+" THEN acc.old ELSE acc.old + 1
           new == IF kind = "-" THEN acc.new ELSE acc.new + 1
<1>2. at[1] = h /\ at[2] = i /\ kind \in LineKind /\ at \in Nat \X Nat
    BY <1>1, HunkIs
<1>3. acc.rows \in Seq(Row) /\ acc.old \in Nat /\ acc.new \in Nat
    BY DEF Rowing
<1> HIDE DEF kind
<1>4. row \in Row
    BY <1>2, <1>3 DEF Row
<1> HIDE DEF row
<1>5. more \in Seq(Row)
    BY <1>3, <1>4
<1>6. old \in Nat /\ new \in Nat
    BY <1>3
<1>7. AddLine(f, acc, at) = IF kind \notin {" ", "+", "-"} THEN acc
                            ELSE [rows |-> more, old |-> old, new |-> new]
    BY <1>2, Zenon DEF AddLine, kind, row
<1> HIDE DEF more, old, new
<1>8. [rows |-> more, old |-> old, new |-> new] \in Rowing
    BY <1>5, <1>6 DEF Rowing
<1> QED BY <1>7, <1>8

\* The rows of a hunk, line by line.
RowSteps(g, f, rows, h, list) ==
    /\ g \in [0 .. Len(list) -> Rowing]
    /\ g[0] = Begun(f, rows, h)
    /\ AddRows(f, rows, h) = g[Len(list)].rows
    /\ \A k \in 1 .. Len(list) : g[k] = AddLine(f, g[k - 1], list[k])

LEMMA RowStepsExist ==
    ASSUME NEW f \in Section, NEW rows \in Seq(Row), NEW h \in DOMAIN f.hunks, NEW list, list = LinesAt(f, h)
    PROVE  \E g : RowSteps(g, f, rows, h, list)
<1> DEFINE V == Rowing
           n == Len(list)
           Table(t) == t = [S \in SUBSET DOMAIN list |->
                              IF S = {} THEN Begun(f, rows, h) ELSE AddLine(f, t[S \ {Max(S)}], list[Max(S)])]
           d == [p \in V \X ({h} \X DOMAIN f.hunks[h].lines) |-> AddLine(f, p[1], p[2])]
           done == CHOOSE t : Table(t)
<1>1. list \in Seq(({h} \X DOMAIN f.hunks[h].lines))
    BY LinesAtAre
<1>2. n \in Nat /\ DOMAIN list = 1 .. n /\ \A i \in 1 .. n : list[i] \in ({h} \X DOMAIN f.hunks[h].lines)
    BY <1>1
<1>3. Begun(f, rows, h) \in V
    BY HunkIs DEF Rowing, Begun
<1>4. \A v \in V, x \in ({h} \X DOMAIN f.hunks[h].lines) : AddLine(f, v, x) \in V
    BY LineIsAdded
<1> HIDE DEF V
<1>5. d \in [V \X ({h} \X DOMAIN f.hunks[h].lines) -> V]
    BY <1>4
<1>6. \A v \in V, x \in ({h} \X DOMAIN f.hunks[h].lines) : d[<<v, x>>] = AddLine(f, v, x)
    OBVIOUS
<1> HIDE DEF d
<1>7. PICK t : FoldTable(t, V, Begun(f, rows, h), d, list)
    BY <1>1, <1>3, <1>5, FoldTableExists, Zenon
<1>8. ASSUME NEW S \in SUBSET DOMAIN list, S # {}
      PROVE  d[<<t[S \ {Max(S)}], list[Max(S)]>>] = AddLine(f, t[S \ {Max(S)}], list[Max(S)])
    <2>1. Max(S) \in S
        BY <1>2, <1>8, MaxIs
    <2>2. t[S \ {Max(S)}] \in V /\ list[Max(S)] \in ({h} \X DOMAIN f.hunks[h].lines)
        BY <1>2, <1>7, <2>1 DEF FoldTable
    <2> QED BY <1>6, <2>2
<1>9. Table(t)
    BY <1>7, <1>8 DEF FoldTable
<1>10. Table(done)
    <2> HIDE DEF Table
    <2> QED BY <1>9
<1>11. AddRows(f, rows, h) = done[DOMAIN list].rows
    BY Zenon DEF AddRows, LinesAt, Begun, FoldLeft, MapThenFoldSet
<1> HIDE DEF done
<1>12. done[{}] = Begun(f, rows, h)
    BY <1>10
<1>13. ASSUME NEW k \in 1 .. n PROVE done[1 .. k] = AddLine(f, done[1 .. k - 1], list[k])
    <2>1. k \in Nat \ {0} /\ 1 .. k \in SUBSET DOMAIN list
        BY <1>2
    <2>2. done[1 .. k] = AddLine(f, done[(1 .. k) \ {Max(1 .. k)}], list[Max(1 .. k)])
        BY <1>10, <2>1, MaxOfInterval
    <2> QED BY <2>1, <2>2, MaxOfInterval
<1>14. \A k \in 1 .. n : done[1 .. k - 1] \in V => done[1 .. k] = d[<<done[1 .. k - 1], list[k]>>]
    BY <1>2, <1>6, <1>13
<1>15. PICK g : FoldSteps(g, V, Begun(f, rows, h), d, list, done[DOMAIN list])
    BY <1>1, <1>3, <1>5, <1>12, <1>14, FoldStepsExist, Zenon
<1>16. ASSUME NEW k \in 1 .. n PROVE g[k] = AddLine(f, g[k - 1], list[k])
    <2>1. k - 1 \in 0 .. n
        BY <1>2
    <2>2. g[k - 1] \in V
        BY <1>15, <2>1 DEF FoldSteps
    <2> QED BY <1>2, <1>6, <1>15, <2>2 DEF FoldSteps
<1>17. /\ g \in [0 .. n -> Rowing] /\ g[0] = Begun(f, rows, h)
       /\ g[n] = done[DOMAIN list]
    BY <1>15 DEF V, FoldSteps
<1>18. AddRows(f, rows, h) = g[n].rows
    BY <1>11, <1>17
<1>19. RowSteps(g, f, rows, h, list)
    BY <1>16, <1>17, <1>18 DEF RowSteps
<1> QED BY <1>19

LEMMA RowsAreAdded ==
    ASSUME NEW f \in Section, NEW rows \in Seq(Row), NEW h \in DOMAIN f.hunks
    PROVE  AddRows(f, rows, h) \in Seq(Row)
<1> DEFINE list == LinesAt(f, h)
<1>1. PICK g : RowSteps(g, f, rows, h, list)
    BY RowStepsExist, Zenon
<1>2. Len(list) \in Nat
    BY LinesAtAre, HunkIs
<1>3. g[Len(list)] \in Rowing /\ AddRows(f, rows, h) = g[Len(list)].rows
    BY <1>1, <1>2 DEF RowSteps
<1> QED BY <1>3 DEF Rowing

\* The rows of a section, hunk by hunk.
SectionSteps(g, f, list) ==
    /\ g \in [0 .. Len(list) -> Seq(Row)]
    /\ g[0] = <<>>
    /\ RowsOf(f) = g[Len(list)]
    /\ \A k \in 1 .. Len(list) : g[k] = AddRows(f, g[k - 1], list[k])

LEMMA SectionStepsExist ==
    ASSUME NEW f \in Section, NEW list, list = [h \in DOMAIN f.hunks |-> h]
    PROVE  \E g : SectionSteps(g, f, list)
<1> DEFINE V == Seq(Row)
           n == Len(list)
           Table(t) == t = [S \in SUBSET DOMAIN list |->
                              IF S = {} THEN <<>> ELSE AddRows(f, t[S \ {Max(S)}], list[Max(S)])]
           d == [p \in V \X DOMAIN f.hunks |-> AddRows(f, p[1], p[2])]
           h == CHOOSE t : Table(t)
<1>1. list \in Seq(DOMAIN f.hunks)
    BY SectionIs, ListIs, Zenon
<1>2. n \in Nat /\ DOMAIN list = 1 .. n /\ \A i \in 1 .. n : list[i] \in DOMAIN f.hunks
    BY <1>1
<1>3. <<>> \in V
    OBVIOUS
<1>4. \A v \in V, x \in DOMAIN f.hunks : AddRows(f, v, x) \in V
    BY RowsAreAdded
<1> HIDE DEF V
<1>5. d \in [V \X DOMAIN f.hunks -> V]
    BY <1>4
<1>6. \A v \in V, x \in DOMAIN f.hunks : d[<<v, x>>] = AddRows(f, v, x)
    OBVIOUS
<1> HIDE DEF d
<1>7. PICK t : FoldTable(t, V, <<>>, d, list)
    BY <1>1, <1>3, <1>5, FoldTableExists, Zenon
<1>8. ASSUME NEW S \in SUBSET DOMAIN list, S # {}
      PROVE  d[<<t[S \ {Max(S)}], list[Max(S)]>>] = AddRows(f, t[S \ {Max(S)}], list[Max(S)])
    <2>1. Max(S) \in S
        BY <1>2, <1>8, MaxIs
    <2>2. t[S \ {Max(S)}] \in V /\ list[Max(S)] \in DOMAIN f.hunks
        BY <1>2, <1>7, <2>1 DEF FoldTable
    <2> QED BY <1>6, <2>2
<1>9. Table(t)
    BY <1>7, <1>8 DEF FoldTable
<1>10. Table(h)
    <2> HIDE DEF Table
    <2> QED BY <1>9
<1>11. RowsOf(f) = h[DOMAIN list]
    BY Zenon DEF RowsOf, FoldLeft, MapThenFoldSet
<1> HIDE DEF h
<1>12. h[{}] = <<>>
    BY <1>10
<1>13. ASSUME NEW k \in 1 .. n PROVE h[1 .. k] = AddRows(f, h[1 .. k - 1], list[k])
    <2>1. k \in Nat \ {0} /\ 1 .. k \in SUBSET DOMAIN list
        BY <1>2
    <2>2. h[1 .. k] = AddRows(f, h[(1 .. k) \ {Max(1 .. k)}], list[Max(1 .. k)])
        BY <1>10, <2>1, MaxOfInterval
    <2> QED BY <2>1, <2>2, MaxOfInterval
<1>14. \A k \in 1 .. n : h[1 .. k - 1] \in V => h[1 .. k] = d[<<h[1 .. k - 1], list[k]>>]
    BY <1>2, <1>6, <1>13
<1>15. PICK g : FoldSteps(g, V, <<>>, d, list, h[DOMAIN list])
    BY <1>1, <1>3, <1>5, <1>12, <1>14, FoldStepsExist, Zenon
<1>16. ASSUME NEW k \in 1 .. n PROVE g[k] = AddRows(f, g[k - 1], list[k])
    <2>1. k - 1 \in 0 .. n
        BY <1>2
    <2>2. g[k - 1] \in V
        BY <1>15, <2>1 DEF FoldSteps
    <2> QED BY <1>2, <1>6, <1>15, <2>2 DEF FoldSteps
<1>17. /\ g \in [0 .. n -> Seq(Row)] /\ g[0] = <<>>
       /\ g[n] = h[DOMAIN list]
    BY <1>15 DEF V, FoldSteps
<1>18. RowsOf(f) = g[n]
    BY <1>11, <1>17
<1>19. SectionSteps(g, f, list)
    BY <1>16, <1>17, <1>18 DEF SectionSteps
<1> QED BY <1>19

Counted == {" ", "+"}

\* The number that a line of the new side is given.
NumberAt(f, at) ==
    f.hunks[at[1]].new
        + Cardinality({i \in 1 .. at[2] - 1 : f.hunks[at[1]].lines[i] \in Counted})

RowIs(f, r) ==
    /\ r.at \in LinesOf(f) /\ r.sign = f.hunks[r.at[1]].lines[r.at[2]]
    /\ r.sign \in {" ", "+", "-"} /\ r.new = NumberAt(f, r.at)

\* The rows are those of the first h - 1 hunks and of the first k lines of the next.
Rowed(rows, f, h, k) ==
    /\ \A j \in DOMAIN rows : RowIs(f, rows[j])
    /\ \A at \in LinesOf(f) :
          (at[1] < h \/ (at[1] = h /\ at[2] <= k)) /\ f.hunks[at[1]].lines[at[2]] \in {" ", "+", "-"} =>
             \E j \in DOMAIN rows : rows[j].at = at

LEMMA CountedIs ==
    ASSUME NEW m \in Nat, NEW lines
    PROVE  /\ IsFiniteSet({i \in 1 .. m : lines[i] \in Counted})
           /\ Cardinality({i \in 1 .. m : lines[i] \in Counted}) \in Nat
<1>1. IsFiniteSet(1 .. m)
    BY FS_Interval
<1>2. {i \in 1 .. m : lines[i] \in Counted} \in SUBSET (1 .. m)
    OBVIOUS
<1>3. IsFiniteSet({i \in 1 .. m : lines[i] \in Counted})
    BY <1>1, <1>2, FS_Subset
<1> QED BY <1>3, FS_CardinalityType

LEMMA NumberOfFirst ==
    ASSUME NEW f \in Section, NEW h \in DOMAIN f.hunks
    PROVE  NumberAt(f, <<h, 1>>) = f.hunks[h].new
<1>1. {i \in 1 .. 1 - 1 : f.hunks[h].lines[i] \in Counted} = {}
    OBVIOUS
<1>2. f.hunks[h].new \in Nat
    BY HunkIs
<1>3. NumberAt(f, <<h, 1>>) = f.hunks[h].new + Cardinality({})
    BY <1>1 DEF NumberAt
<1> QED BY <1>2, <1>3, FS_EmptySet

LEMMA NumberOfNext ==
    ASSUME NEW f \in Section, NEW h \in DOMAIN f.hunks, NEW k \in Nat \ {0}
    PROVE  /\ NumberAt(f, <<h, k>>) \in Nat
           /\ NumberAt(f, <<h, k + 1>>) = IF f.hunks[h].lines[k] \in Counted
                                          THEN NumberAt(f, <<h, k>>) + 1 ELSE NumberAt(f, <<h, k>>)
<1> DEFINE lines == f.hunks[h].lines
           S == {i \in 1 .. k - 1 : lines[i] \in Counted}
           T == {i \in 1 .. k : lines[i] \in Counted}
<1>1. f.hunks[h].new \in Nat
    BY HunkIs
<1>2. IsFiniteSet(S) /\ Cardinality(S) \in Nat
    <2>1. k - 1 \in Nat
        OBVIOUS
    <2> QED BY <2>1, CountedIs, Zenon
<1>3. k \notin S /\ T = IF lines[k] \in Counted THEN S \cup {k} ELSE S
    <2>1. 1 .. k = (1 .. k - 1) \cup {k} /\ k \notin 1 .. k - 1
        OBVIOUS
    <2> QED BY <2>1
<1>4. NumberAt(f, <<h, k>>) = f.hunks[h].new + Cardinality(S)
    BY DEF NumberAt
<1>5. NumberAt(f, <<h, k + 1>>) = f.hunks[h].new + Cardinality(T)
    <2>1. (k + 1) - 1 = k
        OBVIOUS
    <2> QED BY <2>1 DEF NumberAt
<1> HIDE DEF S, T
<1>6. Cardinality(S \cup {k}) = Cardinality(S) + 1
    BY <1>2, <1>3, FS_AddElement
<1> QED BY <1>1, <1>2, <1>3, <1>4, <1>5, <1>6

LEMMA LinesOfIs ==
    ASSUME NEW f \in Section
    PROVE  /\ \A at \in LinesOf(f) : /\ at[1] \in DOMAIN f.hunks /\ at[2] \in DOMAIN f.hunks[at[1]].lines
                                     /\ at = <<at[1], at[2]>> /\ at[1] \in Nat /\ at[2] \in Nat
           /\ \A h \in DOMAIN f.hunks : \A i \in DOMAIN f.hunks[h].lines : <<h, i>> \in LinesOf(f)
<1>1. \A h \in DOMAIN f.hunks : \A i \in DOMAIN f.hunks[h].lines : <<h, i>> \in LinesOf(f)
    BY DEF LinesOf
<1>2. ASSUME NEW at \in LinesOf(f)
      PROVE  /\ at[1] \in DOMAIN f.hunks /\ at[2] \in DOMAIN f.hunks[at[1]].lines
             /\ at = <<at[1], at[2]>> /\ at[1] \in Nat /\ at[2] \in Nat
    <2>1. PICK h \in DOMAIN f.hunks : at \in {<<h, i>> : i \in DOMAIN f.hunks[h].lines}
        BY DEF LinesOf
    <2>2. PICK i \in DOMAIN f.hunks[h].lines : at = <<h, i>>
        BY <2>1
    <2>3. h \in Nat /\ i \in Nat
        BY HunkIs
    <2> QED BY <2>2, <2>3
<1> QED BY <1>1, <1>2

LEMMA LineIsRowed ==
    ASSUME NEW f \in Section, NEW h \in DOMAIN f.hunks, NEW k \in DOMAIN f.hunks[h].lines,
           NEW acc \in Rowing, Rowed(acc.rows, f, h, k - 1), acc.new = NumberAt(f, <<h, k>>)
    PROVE  LET next == AddLine(f, acc, <<h, k>>)
           IN Rowed(next.rows, f, h, k) /\ next.new = NumberAt(f, <<h, k + 1>>)
<1> DEFINE kind == f.hunks[h].lines[k]
           row == [at |-> <<h, k>>, sign |-> kind, old |-> acc.old, new |-> acc.new]
           new == IF kind = "-" THEN acc.new ELSE acc.new + 1
           old == IF kind = "+" THEN acc.old ELSE acc.old + 1
           next == AddLine(f, acc, <<h, k>>)
<1>1. /\ kind \in LineKind /\ k \in Nat \ {0} /\ h \in Nat
    BY HunkIs
<1>2. acc.rows \in Seq(Row) /\ acc.old \in Nat /\ acc.new \in Nat
    BY DEF Rowing
<1>3. next = IF kind \notin {" ", "+", "-"} THEN acc
             ELSE [rows |-> Append(acc.rows, row), old |-> old, new |-> new]
    BY Zenon DEF AddLine
<1>4. NumberAt(f, <<h, k + 1>>) = IF kind \in Counted THEN acc.new + 1 ELSE acc.new
    BY <1>1, NumberOfNext
<1>5. <<h, k>> \in LinesOf(f) /\ <<h, k>>[1] = h /\ <<h, k>>[2] = k
    BY LinesOfIs
<1>6. \A at \in LinesOf(f) : at[1] \in Nat /\ at[2] \in Nat /\ at = <<at[1], at[2]>>
    BY LinesOfIs
<1>7. ASSUME NEW at \in LinesOf(f), at[1] < h \/ (at[1] = h /\ at[2] <= k)
      PROVE  at = <<h, k>> \/ at[1] < h \/ (at[1] = h /\ at[2] <= k - 1)
    <2>1. CASE at[1] = h /\ at[2] = k
        BY <1>6, <2>1
    <2>2. CASE ~(at[1] = h /\ at[2] = k)
        BY <1>1, <1>6, <1>7, <2>2
    <2> QED BY <2>1, <2>2
<1> HIDE DEF next
<1>8. CASE kind \notin {" ", "+", "-"}
    <2>1. next = acc
        BY <1>3, <1>8
    <2>2. next.new = NumberAt(f, <<h, k + 1>>)
        BY <1>4, <1>8, <2>1 DEF Counted
    <2>3. Rowed(next.rows, f, h, k)
        <3>1. ASSUME NEW at \in LinesOf(f), at[1] < h \/ (at[1] = h /\ at[2] <= k),
                     f.hunks[at[1]].lines[at[2]] \in {" ", "+", "-"}
              PROVE  \E j \in DOMAIN acc.rows : acc.rows[j].at = at
            <4>1. at # <<h, k>>
                BY <1>5, <1>8, <3>1
            <4> QED BY <1>7, <3>1, <4>1 DEF Rowed
        <3> QED BY <2>1, <3>1 DEF Rowed
    <2> QED BY <2>2, <2>3 DEF next
<1>9. CASE kind \in {" ", "+", "-"}
    <2> DEFINE more == Append(acc.rows, row)
    <2>1. row.at = <<h, k>> /\ row.sign = kind /\ row.new = acc.new
        OBVIOUS
    <2>2. row \in Row
        BY <1>1, <1>2 DEF Row
    <2> HIDE DEF row
    <2>3. /\ Len(acc.rows) \in Nat /\ DOMAIN acc.rows = 1 .. Len(acc.rows)
          /\ DOMAIN more = 1 .. Len(acc.rows) + 1 /\ more[Len(acc.rows) + 1] = row
          /\ \A j \in 1 .. Len(acc.rows) : more[j] = acc.rows[j]
        BY <1>2, <2>2, AppendProperties
    <2> HIDE DEF more, old, new
    <2>4. next.rows = more /\ next.new = new
        BY <1>3, <1>9 DEF more
    <2>5. next.new = NumberAt(f, <<h, k + 1>>)
        BY <1>4, <1>9, <2>4 DEF Counted, new
    <2>6. RowIs(f, row)
        BY <1>5, <1>9, <2>1 DEF RowIs
    <2>7. \A j \in DOMAIN more : RowIs(f, more[j])
        <3>1. \A j \in DOMAIN more : j = Len(acc.rows) + 1 \/ j \in 1 .. Len(acc.rows)
            BY <2>3
        <3> QED BY <2>3, <2>6, <3>1 DEF Rowed
    <2>8. ASSUME NEW at \in LinesOf(f), at[1] < h \/ (at[1] = h /\ at[2] <= k),
                 f.hunks[at[1]].lines[at[2]] \in {" ", "+", "-"}
          PROVE  \E j \in DOMAIN more : more[j].at = at
        <3>1. CASE at = <<h, k>>
            <4>1. Len(acc.rows) + 1 \in DOMAIN more /\ more[Len(acc.rows) + 1].at = at
                BY <2>1, <2>3, <3>1
            <4> QED BY <4>1
        <3>2. CASE at # <<h, k>>
            <4>1. PICK j \in DOMAIN acc.rows : acc.rows[j].at = at
                BY <1>7, <2>8, <3>2 DEF Rowed
            <4>2. j \in DOMAIN more /\ more[j].at = at
                BY <2>3, <4>1
            <4> QED BY <4>2
        <3> QED BY <3>1, <3>2
    <2>9. Rowed(more, f, h, k)
        BY <2>7, <2>8 DEF Rowed
    <2> QED BY <2>4, <2>5, <2>9 DEF next
<1> QED BY <1>8, <1>9

LEMMA HunkIsRowed ==
    ASSUME NEW f \in Section, NEW h \in DOMAIN f.hunks, NEW rows \in Seq(Row), Rowed(rows, f, h, 0)
    PROVE  Rowed(AddRows(f, rows, h), f, h + 1, 0)
<1> DEFINE list == LinesAt(f, h)
           n == Len(f.hunks[h].lines)
<1>1. /\ n \in Nat /\ DOMAIN f.hunks[h].lines = 1 .. n /\ h \in Nat /\ f.hunks[h].new \in Nat
    BY HunkIs
<1>2. Len(list) = n /\ \A i \in 1 .. n : list[i] = <<h, i>>
    BY LinesAtAre
<1>3. PICK g : RowSteps(g, f, rows, h, list)
    BY RowStepsExist, Zenon
<1> HIDE DEF list
<1>4. /\ g \in [0 .. n -> Rowing] /\ g[0] = Begun(f, rows, h)
      /\ AddRows(f, rows, h) = g[n].rows
      /\ \A k \in 1 .. n : g[k] = AddLine(f, g[k - 1], <<h, k>>)
    BY <1>2, <1>3 DEF RowSteps
<1> DEFINE Good(k) == Rowed(g[k].rows, f, h, k) /\ g[k].new = NumberAt(f, <<h, k + 1>>)
           T == {k \in 0 .. n : Good(k)}
<1>5. 0 \in T
    <2>1. g[0].rows = rows /\ g[0].new = f.hunks[h].new
        BY <1>4 DEF Begun
    <2>2. g[0].new = NumberAt(f, <<h, 0 + 1>>)
        BY <2>1, NumberOfFirst
    <2> QED BY <1>1, <2>1, <2>2
<1> HIDE DEF n
<1>6. ASSUME NEW k \in 1 .. n, k - 1 \in T PROVE k \in T
    <2>1. k - 1 \in 0 .. n /\ k \in 0 .. n /\ (k - 1) + 1 = k
        BY <1>1
    <2>2. g[k - 1] \in Rowing /\ Rowed(g[k - 1].rows, f, h, k - 1) /\ g[k - 1].new = NumberAt(f, <<h, k>>)
        BY <1>4, <1>6, <2>1
    <2>3. k \in DOMAIN f.hunks[h].lines
        BY <1>1
    <2>4. g[k] = AddLine(f, g[k - 1], <<h, k>>)
        BY <1>4
    <2>5. Good(k)
        BY <2>2, <2>3, <2>4, LineIsRowed
    <2> HIDE DEF Good
    <2> QED BY <2>1, <2>5
<1> HIDE DEF T
<1>7. \A k \in 0 .. n : k \in T
    BY <1>1, <1>5, <1>6, InductionUpTo, Zenon
<1>8. n \in 0 .. n
    BY <1>1
<1>9. Rowed(g[n].rows, f, h, n)
    BY <1>7, <1>8 DEF T
<1>10. ASSUME NEW at \in LinesOf(f), at[1] < h + 1 \/ (at[1] = h + 1 /\ at[2] <= 0)
       PROVE  at[1] < h \/ (at[1] = h /\ at[2] <= n)
    <2>1. at[1] \in Nat /\ at[2] \in Nat /\ at[2] \in DOMAIN f.hunks[at[1]].lines /\ at[1] \in DOMAIN f.hunks
        BY LinesOfIs
    <2>2. at[2] # 0
        BY <2>1, HunkIs
    <2>3. at[1] < h \/ at[1] = h
        BY <1>1, <1>10, <2>1, <2>2
    <2>4. at[1] = h => at[2] <= n
        BY <1>1, <2>1
    <2> QED BY <2>3, <2>4
<1>11. Rowed(g[n].rows, f, h + 1, 0)
    BY <1>9, <1>10 DEF Rowed
<1> QED BY <1>4, <1>11

\* The rows of a section are the lines that do not read as something else, each with
\* the number that counts those before it.
LEMMA RowsAre ==
    ASSUME NEW f \in Section
    PROVE  /\ RowsOf(f) \in Seq(Row)
           /\ \A j \in DOMAIN RowsOf(f) : RowIs(f, RowsOf(f)[j])
           /\ \A at \in LinesOf(f) : f.hunks[at[1]].lines[at[2]] \in {" ", "+", "-"} =>
                 \E j \in DOMAIN RowsOf(f) : RowsOf(f)[j].at = at
<1> DEFINE list == [h \in DOMAIN f.hunks |-> h]
           n == Len(f.hunks)
<1>1. n \in Nat /\ DOMAIN f.hunks = 1 .. n
    BY SectionIs
<1>2. Len(list) = n /\ \A h \in 1 .. n : list[h] = h
    BY <1>1
<1>3. PICK g : SectionSteps(g, f, list)
    BY SectionStepsExist, Zenon
<1> HIDE DEF list, n
<1>4. /\ g \in [0 .. n -> Seq(Row)] /\ g[0] = <<>> /\ RowsOf(f) = g[n]
      /\ \A h \in 1 .. n : g[h] = AddRows(f, g[h - 1], h)
    BY <1>2, <1>3 DEF SectionSteps
<1> DEFINE T == {h \in 0 .. n : Rowed(g[h], f, h + 1, 0)}
<1>5. 0 \in T
    <2>1. DOMAIN g[0] = {}
        BY <1>4
    <2>2. ASSUME NEW at \in LinesOf(f) PROVE ~(at[1] < 1 \/ (at[1] = 1 /\ at[2] <= 0))
        <3>1. at[1] \in DOMAIN f.hunks /\ at[2] \in DOMAIN f.hunks[at[1]].lines
              /\ at[1] \in Nat /\ at[2] \in Nat
            BY LinesOfIs
        <3>2. at[2] # 0
            BY <3>1, HunkIs
        <3>3. at[1] # 0
            BY <1>1, <3>1
        <3> QED BY <3>1, <3>2, <3>3
    <2>3. Rowed(g[0], f, 1, 0)
        BY <2>1, <2>2 DEF Rowed
    <2>4. 0 + 1 = 1
        OBVIOUS
    <2> QED BY <1>1, <2>3, <2>4
<1>6. ASSUME NEW h \in 1 .. n, h - 1 \in T PROVE h \in T
    <2>1. h - 1 \in 0 .. n /\ h \in 0 .. n /\ (h - 1) + 1 = h
        BY <1>1
    <2>2. g[h - 1] \in Seq(Row) /\ Rowed(g[h - 1], f, h, 0)
        BY <1>4, <1>6, <2>1
    <2>3. h \in DOMAIN f.hunks
        BY <1>1
    <2>4. Rowed(AddRows(f, g[h - 1], h), f, h + 1, 0)
        BY <2>2, <2>3, HunkIsRowed
    <2> QED BY <1>4, <2>1, <2>4
<1> HIDE DEF T
<1>7. \A h \in 0 .. n : h \in T
    BY <1>1, <1>5, <1>6, InductionUpTo, Zenon
<1>8. n \in 0 .. n
    BY <1>1
<1>9. Rowed(g[n], f, n + 1, 0)
    BY <1>7, <1>8 DEF T
<1>10. \A at \in LinesOf(f) : at[1] < n + 1
    <2> TAKE at \in LinesOf(f)
    <2>1. at[1] \in 1 .. n
        BY <1>1, LinesOfIs
    <2> QED BY <1>1, <2>1
<1>11. /\ \A j \in DOMAIN g[n] : RowIs(f, g[n][j])
       /\ \A at \in LinesOf(f) : f.hunks[at[1]].lines[at[2]] \in {" ", "+", "-"} =>
             \E j \in DOMAIN g[n] : g[n][j].at = at
    BY <1>9, <1>10 DEF Rowed
<1>12. g[n] \in Seq(Row)
    BY <1>4, <1>8
<1> QED BY <1>4, <1>11, <1>12

LEMMA UpToIsFinite ==
    ASSUME NEW n \in Nat
    PROVE  IsFiniteSet(1 .. n)
BY FS_Interval

SidePlaces(f, h) == {i \in DOMAIN f.hunks[h].lines : f.hunks[h].lines[i] \in NewSide}

\* A line of the new side is numbered from that of its hunk, and before that of the next.
LEMMA NumbersAre ==
    ASSUME NEW f \in Section, NEW at \in LinesOf(f)
    PROVE  LET h == at[1]
           IN /\ f.hunks[h].new \in Nat /\ NumberAt(f, at) \in Nat /\ NumberAt(f, at) >= f.hunks[h].new
              /\ f.hunks[h].lines[at[2]] \in Counted =>
                    NumberAt(f, at) < f.hunks[h].new + Cardinality(SidePlaces(f, h))
<1> DEFINE h == at[1]
           k == at[2]
           lines == f.hunks[h].lines
           S == {i \in 1 .. k - 1 : lines[i] \in Counted}
           W == SidePlaces(f, h)
<1>1. h \in DOMAIN f.hunks /\ k \in DOMAIN lines /\ k \in Nat
    BY LinesOfIs
<1>2. f.hunks[h].new \in Nat /\ Len(lines) \in Nat /\ DOMAIN lines = 1 .. Len(lines) /\ k # 0
    BY <1>1, HunkIs
<1>3. IsFiniteSet(S) /\ Cardinality(S) \in Nat
    <2>1. k - 1 \in Nat
        BY <1>1, <1>2
    <2> QED BY <2>1, CountedIs, Zenon
<1>4. NumberAt(f, at) = f.hunks[h].new + Cardinality(S)
    BY DEF NumberAt
<1>5. IsFiniteSet(W)
    <2>1. IsFiniteSet(1 .. Len(lines))
        BY <1>2, UpToIsFinite
    <2>2. W \in SUBSET (1 .. Len(lines))
        BY <1>2 DEF SidePlaces
    <2> HIDE DEF W
    <2> QED BY <2>1, <2>2, FS_Subset
<1>6. ASSUME lines[k] \in Counted PROVE Cardinality(S) < Cardinality(W)
    <2>1. S \cup {k} \subseteq W
        <3>1. \A i \in 1 .. k - 1 : i \in DOMAIN lines
            BY <1>1, <1>2
        <3> QED BY <1>1, <1>6, <3>1 DEF SidePlaces, Counted, NewSide
    <2>2. k \notin S
        BY <1>1
    <2> HIDE DEF S, W
    <2>3. Cardinality(S \cup {k}) = Cardinality(S) + 1
        BY <1>3, <2>2, FS_AddElement
    <2>4. Cardinality(S \cup {k}) <= Cardinality(W) /\ Cardinality(W) \in Nat
        BY <1>5, <2>1, FS_Subset, FS_CardinalityType
    <2> QED BY <1>3, <2>3, <2>4
<1>7. Cardinality(W) \in Nat
    BY <1>5, FS_CardinalityType
<1> HIDE DEF S, W
<1> QED BY <1>2, <1>3, <1>4, <1>6, <1>7 DEF W

\* Of two lines of a hunk the later one has the larger number.
LEMMA NumbersGrow ==
    ASSUME NEW f \in Section, NEW h \in DOMAIN f.hunks, NEW i \in DOMAIN f.hunks[h].lines,
           NEW j \in DOMAIN f.hunks[h].lines, i < j, f.hunks[h].lines[i] \in Counted
    PROVE  NumberAt(f, <<h, i>>) < NumberAt(f, <<h, j>>)
<1> DEFINE lines == f.hunks[h].lines
           S == {k \in 1 .. i - 1 : lines[k] \in Counted}
           T == {k \in 1 .. j - 1 : lines[k] \in Counted}
<1>1. f.hunks[h].new \in Nat /\ i \in Nat /\ j \in Nat /\ i # 0 /\ j # 0
    BY HunkIs
<1>2. IsFiniteSet(S) /\ Cardinality(S) \in Nat /\ IsFiniteSet(T) /\ Cardinality(T) \in Nat
    <2>1. i - 1 \in Nat /\ j - 1 \in Nat
        BY <1>1
    <2> QED BY <2>1, CountedIs, Zenon
<1>3. S \cup {i} \subseteq T /\ i \notin S
    BY <1>1
<1>4. /\ NumberAt(f, <<h, i>>) = f.hunks[h].new + Cardinality(S)
      /\ NumberAt(f, <<h, j>>) = f.hunks[h].new + Cardinality(T)
    BY DEF NumberAt
<1> HIDE DEF S, T
<1>5. Cardinality(S \cup {i}) = Cardinality(S) + 1
    BY <1>2, <1>3, FS_AddElement
<1>6. Cardinality(S \cup {i}) <= Cardinality(T)
    BY <1>2, <1>3, FS_Subset
<1> QED BY <1>1, <1>2, <1>4, <1>5, <1>6

\* No two lines of the new side have one number.
LEMMA NumbersTell ==
    ASSUME NEW f \in Section, HunksAscend(f), NEW a \in LinesOf(f), NEW b \in LinesOf(f),
           f.hunks[a[1]].lines[a[2]] \in Counted, f.hunks[b[1]].lines[b[2]] \in Counted,
           NumberAt(f, a) = NumberAt(f, b)
    PROVE  a = b
<1>1. \A at \in LinesOf(f) : /\ at[1] \in DOMAIN f.hunks /\ at[2] \in DOMAIN f.hunks[at[1]].lines
                             /\ at = <<at[1], at[2]>> /\ at[1] \in Nat /\ at[2] \in Nat
    BY LinesOfIs
<1>2. ASSUME NEW c \in LinesOf(f), NEW d \in LinesOf(f), c[1] < d[1],
             f.hunks[c[1]].lines[c[2]] \in Counted
      PROVE  NumberAt(f, c) < NumberAt(f, d)
    <2>1. f.hunks[c[1]].new + Cardinality(SidePlaces(f, c[1])) <= f.hunks[d[1]].new
        BY <1>1, <1>2 DEF HunksAscend, SidePlaces
    <2>2. /\ f.hunks[c[1]].new \in Nat /\ NumberAt(f, c) \in Nat
          /\ NumberAt(f, c) < f.hunks[c[1]].new + Cardinality(SidePlaces(f, c[1]))
        BY <1>2, NumbersAre
    <2>3. f.hunks[d[1]].new \in Nat /\ NumberAt(f, d) \in Nat /\ NumberAt(f, d) >= f.hunks[d[1]].new
        BY NumbersAre
    <2>4. Cardinality(SidePlaces(f, c[1])) \in Nat
        <3>1. /\ Len(f.hunks[c[1]].lines) \in Nat
              /\ DOMAIN f.hunks[c[1]].lines = 1 .. Len(f.hunks[c[1]].lines)
            BY <1>1, HunkIs
        <3>2. IsFiniteSet(1 .. Len(f.hunks[c[1]].lines))
            BY <3>1, UpToIsFinite
        <3>3. SidePlaces(f, c[1]) \in SUBSET (1 .. Len(f.hunks[c[1]].lines))
            BY <3>1 DEF SidePlaces
        <3> QED BY <3>2, <3>3, FS_Subset, FS_CardinalityType
    <2> QED BY <2>1, <2>2, <2>3, <2>4
<1>3. ASSUME NEW c \in LinesOf(f), NEW d \in LinesOf(f), c[1] = d[1], c[2] < d[2],
             f.hunks[c[1]].lines[c[2]] \in Counted
      PROVE  NumberAt(f, c) < NumberAt(f, d)
    <2>1. NumberAt(f, <<c[1], c[2]>>) < NumberAt(f, <<c[1], d[2]>>)
        BY <1>1, <1>3, NumbersGrow
    <2>2. c = <<c[1], c[2]>> /\ d = <<c[1], d[2]>>
        BY <1>1, <1>3
    <2> QED BY <2>1, <2>2
<1>4. NumberAt(f, a) \in Nat /\ NumberAt(f, b) \in Nat
    BY NumbersAre
<1>5. ~(a[1] < b[1]) /\ ~(b[1] < a[1])
    BY <1>2, <1>4
<1>6. a[1] = b[1]
    BY <1>1, <1>5
<1>7. ~(a[2] < b[2]) /\ ~(b[2] < a[2])
    BY <1>3, <1>4, <1>6
<1>8. a[2] = b[2]
    BY <1>1, <1>7
<1>9. a = <<a[1], a[2]>> /\ b = <<b[1], b[2]>>
    BY <1>1
<1> QED BY <1>6, <1>8, <1>9

\* Where no line reads as something else the number is that of the definition.
LEMMA NumberIsLineNumber ==
    ASSUME NEW f \in Section, NEW at \in LinesOf(f), ~OddUpTo(f, at)
    PROVE  /\ NumberAt(f, at) = LineNumber(f, at)
           /\ f.hunks[at[1]].lines[at[2]] \in NewSide => f.hunks[at[1]].lines[at[2]] \in Counted
           /\ f.hunks[at[1]].lines[at[2]] \in Counted => f.hunks[at[1]].lines[at[2]] \in NewSide
<1> DEFINE lines == f.hunks[at[1]].lines
<1>1. at[1] \in DOMAIN f.hunks /\ at[2] \in DOMAIN lines /\ at[2] \in Nat
    BY LinesOfIs
<1>2. at[2] # 0
    BY <1>1, HunkIs
<1>3. \A i \in 1 .. at[2] : lines[i] \notin Odd
    BY DEF OddUpTo
<1>4. \A i \in 1 .. at[2] : lines[i] \in NewSide <=> lines[i] \in Counted
    BY <1>3 DEF Odd, NewSide, Counted
<1>5. \A i \in 1 .. at[2] - 1 : i \in 1 .. at[2]
    BY <1>1
<1>6. at[2] \in 1 .. at[2]
    BY <1>1, <1>2
<1>7. {i \in 1 .. at[2] - 1 : lines[i] \in NewSide} = {i \in 1 .. at[2] - 1 : lines[i] \in Counted}
    BY <1>4, <1>5
<1>8. NumberAt(f, at) = LineNumber(f, at)
    BY <1>7 DEF NumberAt, LineNumber
<1> QED BY <1>4, <1>6, <1>8

\* A part of a list around one of its places.
LEMMA AroundIs ==
    ASSUME NEW V, NEW s \in Seq(V), NEW first \in DOMAIN s, NEW context \in Nat
    PROVE  LET low == IF first - context < 1 THEN 1 ELSE first - context
               high == IF first + context > Len(s) THEN Len(s) ELSE first + context
               part == SubSeq(s, low, high)
           IN \E i \in DOMAIN part : part[i] = s[first] /\ i - 1 <= context /\ Len(part) - i <= context
<1> DEFINE low == IF first - context < 1 THEN 1 ELSE first - context
           high == IF first + context > Len(s) THEN Len(s) ELSE first + context
           part == SubSeq(s, low, high)
<1>1. Len(s) \in Nat /\ first \in 1 .. Len(s)
    OBVIOUS
<1>2. /\ low \in 1 .. Len(s) /\ high \in 1 .. Len(s) /\ low <= first /\ first <= high
      /\ first - low <= context /\ high - first <= context
    BY <1>1
<1> HIDE DEF low, high
<1>3. Len(part) = high - low + 1 /\ \A i \in 1 .. high - low + 1 : part[i] = s[low + i - 1]
    BY <1>1, <1>2
<1>4. DOMAIN part = 1 .. high - low + 1
    BY <1>1, <1>2
<1> HIDE DEF part
<1>5. first - low + 1 \in DOMAIN part /\ low + (first - low + 1) - 1 = first
    BY <1>1, <1>2, <1>4
<1>6. part[first - low + 1] = s[first]
    BY <1>3, <1>4, <1>5
<1>7. (first - low + 1) - 1 <= context /\ Len(part) - (first - low + 1) <= context
    BY <1>1, <1>2, <1>3
<1> QED BY <1>5, <1>6, <1>7 DEF part, low, high

LEMMA FindingsAreShown == FindingIsShown
<1> SUFFICES ASSUME NEW f \in Sections, NEW line \in Lines, NEW context \in Contexts
    PROVE LET rows == ExtractHunkRows(f, line, context)
              at == {l \in LinesOf(f) : f.hunks[l[1]].lines[l[2]] \in NewSide /\ LineNumber(f, l) = line}
          IN /\ rows # <<>> /\ ~(\E l \in LinesOf(f) : f.hunks[l[1]].lines[l[2]] \in Odd) => at # {}
             /\ \A l \in at : ~OddUpTo(f, l) =>
                   \E i \in DOMAIN rows :
                      /\ rows[i].at = l
                      /\ i - 1 <= context /\ Len(rows) - i <= context
    BY Zenon DEF FindingIsShown
<1> DEFINE all == RowsOf(f)
           targets == TargetRows(all, line)
           first == CHOOSE i \in targets : \A j \in targets : i <= j
           low == IF first - context < 1 THEN 1 ELSE first - context
           high == IF first + context > Len(all) THEN Len(all) ELSE first + context
           rows == ExtractHunkRows(f, line, context)
           at == {l \in LinesOf(f) : f.hunks[l[1]].lines[l[2]] \in NewSide /\ LineNumber(f, l) = line}
<1>1. f \in Section /\ HunksAscend(f) /\ context \in Nat
    BY SplitAssumption
<1>2. /\ all \in Seq(Row)
      /\ \A j \in DOMAIN all : RowIs(f, all[j])
      /\ \A l \in LinesOf(f) : f.hunks[l[1]].lines[l[2]] \in {" ", "+", "-"} =>
            \E j \in DOMAIN all : all[j].at = l
    BY <1>1, RowsAre
<1>3. rows = IF targets = {} THEN <<>> ELSE SubSeq(all, low, high)
    BY Zenon DEF ExtractHunkRows
<1>4. \A i \in targets : i \in DOMAIN all /\ all[i].sign # "-" /\ all[i].new = line
    BY DEF TargetRows
<1>5. \A i \in DOMAIN all : all[i].sign # "-" /\ all[i].new = line => i \in targets
    BY DEF TargetRows
<1>6. targets # {} => first \in targets
    <2>1. targets \in SUBSET DOMAIN all
        BY <1>4
    <2> HIDE DEF targets
    <2> QED BY <1>2, <2>1, FirstIs, Zenon
<1> HIDE DEF all, targets, first, rows
<1>7. ASSUME NEW i \in targets
      PROVE  /\ all[i].at \in LinesOf(f) /\ f.hunks[all[i].at[1]].lines[all[i].at[2]] \in Counted
             /\ NumberAt(f, all[i].at) = line
    <2>1. RowIs(f, all[i]) /\ all[i].sign # "-" /\ all[i].new = line
        BY <1>2, <1>4
    <2> QED BY <2>1 DEF RowIs, Counted
<1>8. ASSUME rows # <<>>, ~(\E l \in LinesOf(f) : f.hunks[l[1]].lines[l[2]] \in Odd)
      PROVE  at # {}
    <2>1. first \in targets
        BY <1>3, <1>6, <1>8
    <2> DEFINE l == all[first].at
    <2>2. l \in LinesOf(f) /\ f.hunks[l[1]].lines[l[2]] \in Counted /\ NumberAt(f, l) = line
        BY <1>7, <2>1
    <2> HIDE DEF l
    <2>3. ~OddUpTo(f, l)
        <3>1. l[1] \in DOMAIN f.hunks /\ l[2] \in DOMAIN f.hunks[l[1]].lines
            BY <1>1, <2>2, LinesOfIs
        <3>2. \A i \in 1 .. l[2] : i \in DOMAIN f.hunks[l[1]].lines
            BY <1>1, <3>1, HunkIs
        <3>3. \A i \in 1 .. l[2] : <<l[1], i>> \in LinesOf(f) /\ <<l[1], i>>[1] = l[1] /\ <<l[1], i>>[2] = i
            BY <1>1, <3>1, <3>2, LinesOfIs
        <3> QED BY <1>8, <3>3 DEF OddUpTo
    <2>4. l \in at
        BY <1>1, <2>2, <2>3, NumberIsLineNumber
    <2> QED BY <2>4
<1>9. ASSUME NEW l \in at, ~OddUpTo(f, l)
      PROVE  \E i \in DOMAIN rows :
                /\ rows[i].at = l
                /\ i - 1 <= context /\ Len(rows) - i <= context
    <2>1. l \in LinesOf(f) /\ f.hunks[l[1]].lines[l[2]] \in NewSide /\ LineNumber(f, l) = line
        OBVIOUS
    <2>2. f.hunks[l[1]].lines[l[2]] \in Counted /\ NumberAt(f, l) = line
        BY <1>1, <1>9, <2>1, NumberIsLineNumber
    <2>3. PICK j \in DOMAIN all : all[j].at = l
        BY <1>2, <2>1, <2>2 DEF Counted
    <2>4. j \in targets
        <3>1. RowIs(f, all[j])
            BY <1>2
        <3>2. all[j].sign # "-" /\ all[j].new = line
            BY <2>2, <2>3, <3>1 DEF RowIs, Counted
        <3> QED BY <1>5, <3>2
    <2>5. first \in targets
        BY <1>6, <2>4
    <2>6. all[first].at = l
        <3> DEFINE other == all[first].at
        <3>1. /\ other \in LinesOf(f) /\ f.hunks[other[1]].lines[other[2]] \in Counted
              /\ NumberAt(f, other) = line
            BY <1>7, <2>5
        <3> HIDE DEF other
        <3>2. other = l
            BY <1>1, <2>1, <2>2, <3>1, NumbersTell
        <3> QED BY <3>2 DEF other
    <2>7. rows = SubSeq(all, low, high)
        BY <1>3, <2>4
    <2>8. first \in DOMAIN all /\ context \in Nat
        BY <1>1, <1>4, <2>5
    <2>9. \E i \in DOMAIN SubSeq(all, low, high) :
             /\ SubSeq(all, low, high)[i] = all[first]
             /\ i - 1 <= context /\ Len(SubSeq(all, low, high)) - i <= context
        BY <1>2, <2>8, AroundIs, Zenon
    <2> QED BY <2>6, <2>7, <2>9
<1> QED BY <1>8, <1>9, Zenon DEF rows, at

\* A finding is shown in its place: a line of the new side is found, with no more rows
\* around it than asked for, unless a line before it in its hunk reads as the header of a
\* file, and no other line is (extract_hunk_rows).
THEOREM FindingsAreFound == Spec => []FindingIsShown
<1>1. FindingIsShown
    BY FindingsAreShown
<1> QED BY <1>1, PTL
=============================================================================
