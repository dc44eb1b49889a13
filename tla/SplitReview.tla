------------------------------ MODULE SplitReview ------------------------------
(***************************************************************************)
(* One review of a diff by ReviewService (app/services/review_service.py), *)
(* from _review_diff_text to the saved review, and the caller that may     *)
(* disconnect at any of its events.  A large diff is split in chunks that  *)
(* are reviewed by one asyncio task each, under a semaphore; the tasks     *)
(* send their events and a final sentinel through one queue to the         *)
(* generator that merges them.  The caller can be incremental_review,      *)
(* which reviews what changed and puts it together with the saved review.  *)
(***************************************************************************)
EXTENDS Integers, Sequences, FiniteSets, DiffSplit, Findings

CONSTANTS
    NChunks,          \* how many chunks pack_chunks makes of the diff
    MaxConcurrency,   \* review_max_concurrency
    Synthesis,        \* review_synthesis
    Providers,        \* what the service is given: "switchable", which main.py
                      \* wires in, or "adapter", a CLI adapter itself
    MaxEvents,        \* bound: events a chunk's AI call emits
    Diffs, Sections,  \* diffs, and single files, to split and to show
    MaxSize, Budget,  \* review_diff_max_chars and the manifest's budget, in lines
    Lines, Contexts,  \* lines to be shown, and how many rows around them
    Reports           \* what each chunk's call reports when it succeeds

ASSUME SplitAssumption ==
    /\ NChunks \in Nat \ {0}
    /\ MaxConcurrency \in Nat \ {0}
    /\ Synthesis \in BOOLEAN
    /\ Providers \subseteq {"switchable", "adapter"}
    /\ MaxEvents \in Nat
    /\ MaxSize \in Nat /\ Budget \in Nat
    /\ Lines \subseteq Nat /\ Contexts \subseteq Nat
    /\ Reports \subseteq [1 .. NChunks -> Seq(Finding)]
    /\ \A d \in Diffs : d \in Seq(Section) /\ OneSectionEach(d)
    /\ \A f \in Sections : f \in Section /\ HunksAscend(f)

Chunk == 1 .. NChunks

VARIABLES
    phase,      \* where the generator is
    pc,         \* where each chunk's task is
    reply,      \* what became of each chunk: of its AI call, or of the diff as a whole
    cancelled,  \* tasks that have been cancelled
    permits,    \* the semaphore
    queue,      \* events and sentinels, first in first out
    emitted,    \* how many events a chunk's task has queued
    received,   \* how many of them the caller has been given
    results,    \* chunks in the order their sentinels were taken
    merged,     \* chunks whose findings are in the merged review
    answer,     \* what came of the second pass
    saved       \* what _finalize_review wrote: {} or one record

taskVars == <<pc, reply, cancelled, permits, queue, emitted>>
mergeVars == <<received, results, merged, answer, saved>>
vars == <<phase, taskVars, mergeVars>>

Event(c) == [chunk |-> c, sentinel |-> FALSE]
Sentinel(c) == [chunk |-> c, sentinel |-> TRUE]

Active(c) == pc[c] \in {"waiting", "running"}
Succeeded == {c \in Chunk : reply[c] = "review"}

\* The phases at which the generator waits: the caller can be gone by then.
Suspended == {"start", "single", "split", "collect", "merge", "synthesis", "result"}

\* The outcomes of the second pass that keep the mechanical merge.
Fallback == {"not asked", "no result", "error", "unusable"}

Init ==
    /\ phase = "start"
    /\ pc = [c \in Chunk |-> "absent"]
    /\ reply = [c \in Chunk |-> "none"]
    /\ cancelled = {}
    /\ permits = MaxConcurrency
    /\ queue = <<>>
    /\ emitted = [c \in Chunk |-> 0]
    /\ received = [c \in Chunk |-> 0]
    /\ results = <<>>
    /\ merged = {}
    /\ answer = "none"
    /\ saved = {}

-----------------------------------------------------------------------------
(* Choosing a path, and the diff that fits in one call *)

\* Every file matches the ignore globs: an empty review, no provider involved.
AllIgnored ==
    /\ phase = "start"
    /\ phase' = "final"
    /\ reply' = [c \in Chunk |-> "ignored"]
    /\ UNCHANGED <<pc, cancelled, permits, queue, emitted, mergeVars>>

\* A diff above review_diff_max_chars in which no section of a file can be told is
\* packed into no chunk at all: no call is made, and what is merged is empty.
SplitOfNothing ==
    /\ phase = "start"
    /\ phase' = "final"
    /\ reply' = [c \in Chunk |-> "skipped"]
    /\ UNCHANGED <<pc, cancelled, permits, queue, emitted, mergeVars>>

\* One call for a diff of at most review_diff_max_chars, else chunks: there can
\* be a single one, when one file is all there is and had to be truncated.
Route ==
    /\ phase = "start"
    /\ \/ phase' = "single"
       \/ phase' = "split"
    /\ UNCHANGED <<taskVars, mergeVars>>

SingleResult ==
    /\ phase = "single"
    /\ phase' = "final"
    /\ reply' = [c \in Chunk |-> "review"]
    /\ merged' = Chunk
    /\ UNCHANGED <<pc, cancelled, permits, queue, emitted, received, results, answer, saved>>

\* The provider raises; the review ends there and nothing is saved.
SingleFails ==
    /\ phase = "single"
    /\ phase' = "failed"
    /\ UNCHANGED <<taskVars, mergeVars>>

\* The call ends with neither.  A review of the whole diff then ends as well, and
\* nothing is saved; incremental_review goes on (FinalizeIncremental).
SingleEnds ==
    /\ phase = "single"
    /\ phase' = "unanswered"
    /\ UNCHANGED <<taskVars, mergeVars>>

EndUnanswered ==
    /\ phase = "unanswered"
    /\ phase' = "failed"
    /\ UNCHANGED <<taskVars, mergeVars>>

-----------------------------------------------------------------------------
(* Chunk tasks (run_one) *)

CreateTasks ==
    /\ phase = "split"
    /\ phase' = "collect"
    /\ pc' = [c \in Chunk |-> "waiting"]
    /\ UNCHANGED <<reply, cancelled, permits, queue, emitted, mergeVars>>

Put(c, items) ==
    /\ queue' = queue \o items
    /\ emitted' = [emitted EXCEPT ![c] =
                     @ + Cardinality({i \in DOMAIN items : ~items[i].sentinel})]

\* The semaphore serves the tasks in the order they were created.
Start(c) ==
    /\ pc[c] = "waiting" /\ c \notin cancelled
    /\ permits > 0
    /\ \A d \in 1 .. c - 1 : pc[d] # "waiting"
    /\ pc' = [pc EXCEPT ![c] = "running"]
    /\ permits' = permits - 1
    /\ Put(c, <<Event(c)>>)
    /\ UNCHANGED <<phase, reply, cancelled, mergeVars>>

Emit(c) ==
    /\ pc[c] = "running" /\ c \notin cancelled
    /\ emitted[c] <= MaxEvents
    /\ Put(c, <<Event(c)>>)
    /\ UNCHANGED <<phase, pc, reply, cancelled, permits, mergeVars>>

\* (a bug to catch: the sentinel overtakes the task's last event)
FinishSentinelFirst(c) ==
    /\ pc[c] = "running" /\ c \notin cancelled
    /\ pc' = [pc EXCEPT ![c] = "ended"]
    /\ permits' = permits + 1
    /\ reply' = [reply EXCEPT ![c] = "review"]
    /\ Put(c, <<Sentinel(c), Event(c)>>)
    /\ UNCHANGED <<phase, cancelled, mergeVars>>

\* (a bug to catch: a chunk that fails puts no sentinel)
FinishSilently(c) ==
    /\ pc[c] = "running" /\ c \notin cancelled
    /\ pc' = [pc EXCEPT ![c] = "ended"]
    /\ permits' = permits + 1
    /\ \/ reply' = [reply EXCEPT ![c] = "review"] /\ Put(c, <<Event(c), Sentinel(c)>>)
       \/ reply' = [reply EXCEPT ![c] = "error"] /\ Put(c, <<Event(c)>>)
    /\ UNCHANGED <<phase, cancelled, mergeVars>>

\* The AI call ends with a review, an exception, or neither; the last event and
\* the sentinel follow without an await in between.
Finish(c) ==
    /\ pc[c] = "running" /\ c \notin cancelled
    /\ pc' = [pc EXCEPT ![c] = "ended"]
    /\ permits' = permits + 1
    /\ \/ /\ \E r \in {"review", "error"} : reply' = [reply EXCEPT ![c] = r]
          /\ Put(c, <<Event(c), Sentinel(c)>>)
       \/ UNCHANGED reply /\ Put(c, <<Sentinel(c)>>)
    /\ UNCHANGED <<phase, cancelled, mergeVars>>

\* CancelledError in the task: only its `finally` clauses run, and not even
\* those if the task had not yet begun.
Unwind(c) ==
    /\ Active(c) /\ c \in cancelled
    /\ pc' = [pc EXCEPT ![c] = "ended"]
    /\ permits' = IF pc[c] = "running" THEN permits + 1 ELSE permits
    /\ \/ Put(c, <<Sentinel(c)>>)
       \/ pc[c] = "waiting" /\ UNCHANGED <<queue, emitted>>
    /\ UNCHANGED <<phase, reply, cancelled, mergeVars>>

TaskStep(c) == Start(c) \/ Emit(c) \/ Finish(c) \/ Unwind(c)

-----------------------------------------------------------------------------
(* The generator *)

\* An event is passed on to the caller.
TakeEvent ==
    /\ phase = "collect"
    /\ queue # <<>> /\ ~Head(queue).sentinel
    /\ queue' = Tail(queue)
    /\ received' = [received EXCEPT ![Head(queue).chunk] = @ + 1]
    /\ UNCHANGED <<phase, pc, reply, cancelled, permits, emitted, results, merged, answer, saved>>

TakeSentinel ==
    /\ phase = "collect"
    /\ queue # <<>> /\ Head(queue).sentinel
    /\ queue' = Tail(queue)
    /\ results' = Append(results, Head(queue).chunk)
    /\ phase' = IF Len(results') = NChunks THEN "merge" ELSE "collect"
    /\ UNCHANGED <<pc, reply, cancelled, permits, emitted, received, merged, answer, saved>>

\* Failures are told, the findings of the other chunks are put together.  Two
\* successes, two findings and an input that is not too large (neither of which
\* is modelled) are worth a second pass.
Merge ==
    /\ phase = "merge"
    /\ merged' = Succeeded
    /\ \/ /\ Synthesis /\ Cardinality(Succeeded) >= 2
          /\ phase' = "synthesis"
       \/ phase' = "final"
    /\ UNCHANGED <<taskVars, received, results, answer, saved>>

\* SwitchableAIProvider forwards the methods it overrides to the active adapter
\* and inherits the others from AIProvider; an adapter implements them all.
Forwarded(provider) ==
    {"stream_review", "analyze_comments", "stream_fix", "generate_text"} \cup
    IF provider = "adapter" THEN {"stream_synthesis"} ELSE {}

\* (a bug to catch: an empty answer replaces the mechanical merge)
SynthesizeTrusting ==
    /\ phase = "synthesis"
    /\ phase' = "final"
    /\ \E a \in Fallback \cup {"usable"}, provider \in Providers :
          /\ answer' = a
          /\ (a = "not asked") <=> ("stream_synthesis" \notin Forwarded(provider))
          /\ merged' \in IF a \in {"usable", "unusable"} THEN SUBSET merged ELSE {merged}
    /\ UNCHANGED <<taskVars, received, results, saved>>

\* A usable answer replaces the merge and consolidates its findings: which ones
\* are kept is up to the model.  Any other outcome keeps the mechanical merge.
Synthesize ==
    /\ phase = "synthesis"
    /\ phase' = "final"
    /\ \E a \in Fallback \cup {"usable"}, provider \in Providers :
          /\ answer' = a
          /\ (a = "not asked") <=> ("stream_synthesis" \notin Forwarded(provider))
          /\ merged' \in IF a = "usable" THEN SUBSET merged \ {{}} ELSE {merged}
    /\ UNCHANGED <<taskVars, received, results, saved>>

\* What is missing from the review: every part that was not left out on purpose
\* and that no call has reviewed.
Missing == {c \in Chunk : reply[c] \notin {"review", "ignored"}}

\* What the code counts as missing: the chunks that reported and had no review.
Failures == {results[i] : i \in DOMAIN results} \ Succeeded

Unsplit == \E c \in Chunk : reply[c] = "skipped"

Saved == [reviewed |-> merged, failed |-> Cardinality(Failures),
          scope |-> IF Unsplit THEN "raw" ELSE "all"]

\* (a bug to catch: the result is handed out and saved afterwards)
FinalizeLate ==
    /\ phase = "final"
    /\ phase' = "result"
    /\ UNCHANGED <<taskVars, mergeVars>>

\* _finalize_review, with no await between it and the result event.
Finalize ==
    /\ phase = "final"
    /\ saved' = {Saved}
    /\ phase' = "result"
    /\ UNCHANGED <<taskVars, received, results, merged, answer>>

\* incremental_review counts no failures, whatever became of the chunks, and takes
\* a call without a result for a review without findings.
FinalizeIncremental ==
    /\ phase \in {"final", "unanswered"}
    /\ saved' = {[Saved EXCEPT !.failed = 0, !.scope = "changed"]}
    /\ phase' = "updated"
    /\ UNCHANGED <<taskVars, received, results, merged, answer>>

\* The cache file cannot be written.
FinalizeFails ==
    /\ phase = "final"
    /\ phase' = "failed"
    /\ UNCHANGED <<taskVars, mergeVars>>

Deliver ==
    /\ phase \in {"result", "updated"}
    /\ phase' = "done"
    /\ UNCHANGED <<taskVars, mergeVars>>

-----------------------------------------------------------------------------
(* The caller goes away *)

\* Nobody asks the generator for another event; its tasks do not know yet.
Disconnect ==
    /\ phase \in Suspended
    /\ phase = "merge" => Succeeded # Chunk
    /\ phase' = "abandoned"
    /\ UNCHANGED <<taskVars, mergeVars>>

\* The event loop closes the generator: its `finally` cancels the tasks ...
Close ==
    /\ phase = "abandoned"
    /\ phase' = "closing"
    /\ cancelled' = {c \in Chunk : Active(c)}
    /\ UNCHANGED <<pc, reply, permits, queue, emitted, mergeVars>>

\* ... and waits for them.
Closed ==
    /\ phase = "closing"
    /\ \A c \in Chunk : ~Active(c)
    /\ phase' = "closed"
    /\ UNCHANGED <<taskVars, mergeVars>>

GeneratorStep ==
    \/ AllIgnored \/ SplitOfNothing \/ Route
    \/ SingleResult \/ SingleFails \/ SingleEnds \/ EndUnanswered
    \/ CreateTasks \/ TakeEvent \/ TakeSentinel \/ Merge \/ Synthesize
    \/ Finalize \/ FinalizeIncremental \/ FinalizeFails \/ Deliver \/ Close \/ Closed

Next == GeneratorStep \/ Disconnect \/ \E c \in Chunk : TaskStep(c)

Spec == Init /\ [][Next]_vars

\* Ready coroutines run; an AI call ends (its inactivity timeout sees to it).
Fairness ==
    /\ WF_vars(GeneratorStep)
    /\ \A c \in Chunk : WF_vars(Start(c)) /\ WF_vars(Finish(c)) /\ WF_vars(Unwind(c))

FairSpec == Spec /\ Fairness

-----------------------------------------------------------------------------
(* Properties *)

Phases == Suspended \cup
    {"unanswered", "final", "updated", "done", "failed", "abandoned", "closing", "closed"}
Replies == {"none", "review", "error", "ignored", "skipped"}
Scopes == {"all", "raw", "changed"}
Item == [chunk : Chunk, sentinel : BOOLEAN]

\* Every variable keeps its type.
TypeOK ==
    /\ phase \in Phases
    /\ pc \in [Chunk -> {"absent", "waiting", "running", "ended"}]
    /\ reply \in [Chunk -> Replies]
    /\ cancelled \subseteq Chunk
    /\ permits \in 0 .. MaxConcurrency
    /\ queue \in Seq(Item)
    /\ emitted \in [Chunk -> Nat] /\ received \in [Chunk -> Nat]
    /\ results \in Seq(Chunk)
    /\ merged \subseteq Chunk
    /\ answer \in Fallback \cup {"none", "usable"}
    /\ saved \subseteq [reviewed : SUBSET Chunk, failed : Nat, scope : Scopes]

\* When the generator starts to merge, every chunk has reported exactly once and
\* the caller has been given every event: none is left behind a last sentinel.
NothingLeftInQueue ==
    results # <<>> /\ phase \in {"merge", "synthesis", "final", "result", "done"} =>
        /\ queue = <<>>
        /\ {results[i] : i \in DOMAIN results} = Chunk /\ Len(results) = NChunks
        /\ received = emitted

\* No more than review_max_concurrency AI calls of a review run at once.
ConcurrencyBounded ==
    Cardinality({c \in Chunk : pc[c] = "running"}) <= MaxConcurrency

\* When the generator is gone, so are its tasks: no AI call goes on unattended.
NoOrphanTasks == phase \in {"closed", "done", "failed"} => \A c \in Chunk : ~Active(c)

\* However the chunks end and whenever the caller leaves, the generator leaves neither
\* event, result nor task behind and keeps to its cap; and every variable keeps its type.
NothingLeftBehind == TypeOK /\ NothingLeftInQueue /\ ConcurrencyBounded /\ NoOrphanTasks

\* A failed, empty or unusable second pass never loses findings: the review saved
\* holds those of every chunk that succeeded and of no other.  A review of the whole
\* diff is saved with the number of all parts that are missing from it.  The two
\* reviews that are not: an incremental one ("changed"), which counts none, not even
\* if its only call brought no result; and that of a large diff in which no section
\* can be told ("raw"), which is saved as if there had been nothing to review.
SavedIsExact ==
    answer # "usable" =>
        \A r \in saved : /\ r.reviewed = Succeeded
                         /\ r.scope = "all" => r.failed = Cardinality(Missing)

\* The generator always comes to an end: it never waits for a sentinel that no
\* task is going to send.
EventuallyOver == <>(phase \in {"done", "failed", "closed"})

\* Split or not, a review keeps the contract.
Outcome ==
    CASE phase \in {"result", "updated"} -> "saved"
      [] phase = "done" -> "returned"
      [] phase = "failed" -> "failed"
      [] phase \in {"abandoned", "closing", "closed"} -> "abandoned"
      [] OTHER -> "running"

Contract == INSTANCE ReviewContract
              WITH Part <- Chunk, Scope <- Scopes, Counted <- {"all"},
                   outcome <- Outcome, review <- saved, unread <- Missing
ImplementsContract == Contract!Spec

-----------------------------------------------------------------------------
(* Properties of what the generator computes, for every diff and report     *)

FullSize(chunk, files) ==
    LET f(i) == CHOOSE g \in ToSet(files) : g.path = chunk.files[i]
        own(i) == {h \in DOMAIN f(i).hunks : <<f(i).path, h>> \in chunk.hunks}
    IN SumOf([i \in DOMAIN chunk.files |->
                f(i).header + SumOf([h \in DOMAIN f(i).hunks |->
                                        IF h \in own(i) THEN HunkSize(f(i).hunks[h]) ELSE 0])])

\* When a diff is split every hunk of every file that is neither ignored nor
\* unreadable is in exactly one chunk, every file in at least one, each chunk is
\* within the limit and knows its files, and only chunks told of are cut.
ChunksHoldTheDiff ==
    phase = "split" => \A d \in Diffs :
        LET files == KeptFiles(SplitUnifiedDiff(d))
            paths == {f.path : f \in ToSet(files)}
            manifest == [i \in DOMAIN files |-> files[i].path]
            chunks == PackChunks(files, MaxSize)
            listed(i) == Listed(manifest, ToSet(chunks[i].files), Budget)
        IN /\ \A f \in ToSet(files) : \A h \in DOMAIN f.hunks :
                    Cardinality({i \in DOMAIN chunks : <<f.path, h>> \in chunks[i].hunks}) = 1
           /\ UNION {ToSet(chunks[i].files) : i \in DOMAIN chunks} = paths
           /\ \A i \in DOMAIN chunks :
                 /\ chunks[i].size <= MaxSize
                 /\ ~chunks[i].truncated => chunks[i].size = FullSize(chunks[i], files)
                 /\ ToSet(chunks[i].files) \subseteq ToSet(listed(i))

\* No call is wasted: of the chunks that are made of whole files no two would fit
\* in one.
NoCallWasted ==
    phase = "split" => \A d \in Diffs :
        LET chunks == PackChunks(KeptFiles(SplitUnifiedDiff(d)), MaxSize)
            shared == {i \in DOMAIN chunks : ~chunks[i].solo}
        IN \A i, j \in shared : i # j => chunks[i].size + chunks[j].size > MaxSize

\* A split keeps the whole diff and makes no more calls than it has to.
SplitIsExact == ChunksHoldTheDiff /\ NoCallWasted

\* The number of a line on the new side, by definition.
LineNumber(f, at) ==
    f.hunks[at[1]].new
        + Cardinality({i \in 1 .. at[2] - 1 : f.hunks[at[1]].lines[i] \in NewSide})

LinesOf(f) == UNION {{<<h, i>> : i \in DOMAIN f.hunks[h].lines} : h \in DOMAIN f.hunks}

Odd == {"++", "--"}
OddUpTo(f, at) == \E i \in 1 .. at[2] : f.hunks[at[1]].lines[i] \in Odd

\* The diff around a finding, which the page asks for at any time: the line is
\* found, between at most `context` rows on either side, exactly if it is on the
\* new side - but for lines that follow one in their hunk that reads as a file
\* header, such as an added "++i".
FindingIsShown ==
    phase = "start" => \A f \in Sections, line \in Lines, context \in Contexts :
        LET rows == ExtractHunkRows(f, line, context)
            at == {l \in LinesOf(f) : /\ f.hunks[l[1]].lines[l[2]] \in NewSide
                                      /\ LineNumber(f, l) = line}
        IN /\ rows # <<>> /\ ~(\E l \in LinesOf(f) : f.hunks[l[1]].lines[l[2]] \in Odd) => at # {}
           /\ \A l \in at : ~OddUpTo(f, l) =>
                 \E i \in DOMAIN rows :
                    /\ rows[i].at = l
                    /\ i - 1 <= context /\ Len(rows) - i <= context

\* `list` holds each key that `all` reports, once, as urgent as it was ever
\* reported; urgent ones come first, others stay in the order of first report.
Consolidates(list, all) ==
    LET firstOf(k) == CHOOSE i \in DOMAIN all :
                         all[i].key = k /\ \A j \in 1 .. i - 1 : all[j].key # k
    IN /\ {list[i].key : i \in DOMAIN list} = {all[i].key : i \in DOMAIN all}
       /\ \A i \in DOMAIN list :
             /\ list[i] \in ToSet(all)
             /\ \A j \in DOMAIN all : all[j].key = list[i].key =>
                    list[i].priority <= all[j].priority
       /\ \A i, j \in DOMAIN list : i < j =>
             \/ list[i].priority < list[j].priority
             \/ /\ list[i].priority = list[j].priority
                /\ firstOf(list[i].key) < firstOf(list[j].key)

Reviewed == Only(results, Succeeded)

\* Whatever the order in which the chunks came to an end and whichever failed,
\* the merge consolidates what the others report.
MergeConsolidates ==
    phase = "merge" => \A reported \in Reports :
        LET reviews == [i \in DOMAIN Reviewed |-> reported[Reviewed[i]]]
        IN Consolidates(MergedFindings(reviews), FlattenSeq(reviews))

\* An incremental review keeps the saved findings on files that did not change,
\* takes back those on files that did, and adds what is reported now.
UpdateKeepsTheRest ==
    phase = "updated" => \A reported \in Reports, n \in Chunk :
        LET cached == FlattenSeq([i \in 1 .. n |-> reported[i]])
            new == FlattenSeq([i \in 1 .. NChunks - n |-> reported[n + i]])
            kept == Only(cached, {f \in ToSet(cached) : f.key[1] # "changed"})
        IN Consolidates(MergeIncremental(cached, {"changed"}, new), kept \o new)

\* Merged or carried over, no finding is lost, doubled or made less urgent.
MergeIsExact == MergeConsolidates /\ UpdateKeepsTheRest
=============================================================================
