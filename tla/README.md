# Formal verification of my-gh-app

TLA+ modules, TLC configurations and TLAPS proofs for *my-gh-app*: a local web
application that lists the pull requests of GitHub repositories, reviews them
with an AI command-line tool (Claude Code or OpenCode), publishes the findings,
and lets the user apply a fix in a git worktree.  The back end is one asyncio
process (FastAPI), the front end a Svelte page.  Paths are relative to `src/`.

Contents: 1 the system, 2 the modules and how they correspond to the code,
3 the runs, 4 the proofs, 5 where the code and its texts disagree, 6 what is not
modelled, 7 the plan.

## 1. The system

| Component | Where | State it keeps | Operations |
|---|---|---|---|
| Live-review watcher | `app/services/live_review_service.py` | the poll task, the registry of review tasks, a semaphore, a ring of 500 events | start, stop, poll cycle, decision per PR, launching and running a review, reading events |
| Review service | `app/services/review_service.py` | none of its own; it writes the review cache | full review, cached-or-run, incremental review, staleness, badge estimate, split review of large diffs, synthesis pass |
| AI command-line adapters | `app/adapters/ai/` | per call: one subprocess, three helper tasks, one fan-in queue | stream the output of a CLI with an inactivity timeout, clean up |
| Provider switch | `app/main.py` (`SwitchableAIProvider`) | the active provider | delegate, switch |
| Diff splitter | `app/services/_diff_splitter.py` | none | split by file, filter, pack into chunks, truncate |
| Fix flow | `app/services/fix_service.py` | none of its own | stream a fix, push it, open a PR from it |
| Worktree manager | `app/adapters/worktree/git_worktree_adapter.py` | on disk: a bare clone per repository, a worktree per PR | create (or reset), stage, commit and push, branch and push, remove |
| GitHub adapter | `app/adapters/vcs/github_cli_adapter.py` | none; GitHub's | read PRs, diffs and heads; post reviews with retries and fallbacks, comments, replies |
| Comment service | `app/services/comment_service.py` | none | post, reply, classify |
| JSON cache | `app/adapters/cache/json_file_cache.py` | JSON files: repositories, reviews, visits | read, write, remove |
| Settings store | `app/services/settings_store.py` | one JSON file | get, save, reset |
| HTTP layer | `app/main.py` | cached service instances | one handler per operation above, SSE streams |
| Metrics and logs | `app/services/metrics.py`, `app/log_buffer.py` | append-only records | append, read |
| Front-end sessions and queue | `frontend/src/stores/reviewSessions.ts`, `reviewQueue.ts`, `frontend/src/lib/sse.ts` | one session per PR with its event stream; pending and running PRs, a cap | start, stop, events, hydrate, incremental; enqueue, pump, stop all |
| Front-end live feed | `frontend/src/stores/liveReview.ts`, `reviewStatus.ts` | a list of events, the status, the last event seen | backfill, append, toast, refresh of the badges |
| Front-end views and stores | `frontend/src/components`, `frontend/src/stores` | PR list, comments, staged findings, preferences | rendering, refresh |

**How they interact.**  The browser opens an SSE stream; the handler iterates the
generator of the review service, which iterates that of an AI adapter, which
reads a subprocess.  Closing the stream closes the chain.  The watcher runs the
same review service from tasks of its own; the two meet in the review cache (one
file per PR, the last save wins) and nowhere else.  All fixes of a PR meet in its
worktree, all worktrees of a repository in one bare clone.  In the browser the
session store tells the queue of every change, and the queue starts sessions.  The watcher
tells the page of what it does through a ring of events that a stream polls.

**What is hard.**
- *Awaits.*  Everything between two awaits is atomic and nothing else is: the
  watcher reads a cached review and awaits the head; a review reads the diff and
  awaits the head SHA; a push looks at the worktree and awaits a commit message.
- *Cancellation.*  A disconnect, a stop or a timeout can end a coroutine at any
  await or `yield`; helper tasks, permits, registry entries and subprocesses have
  to be given back.
- *Pipes.*  Three bounded pipes to a process that can stop reading, stop writing,
  linger after closing stdout, or leave a descendant holding stderr.
- *GitHub moves.*  Commits, comments and merges arrive between any two steps;
  `updated_at` changes for all of them.
- *Partial failure.*  A commit without its push, one chunk of several failing,
  an AI answer that cannot be parsed.
- *Threads.*  Handlers that are not coroutines run in worker threads and share JSON
  files without a lock; a file is emptied when it is opened for writing.
- *Answers that lie.*  A request to GitHub can succeed and answer with an error, or
  not at all; the code retries and falls back.
- *Reconnection.*  An event stream is polled, breaks, is opened again by the browser,
  and its events also come by a request whose answer can be late.
- *Re-entrancy.*  A Svelte store tells its subscribers inside the assignment, so
  that `pump` runs inside `pump`.

**What makes each component correct.**
- Watcher: permits and registry are given back on every path; no PR is reviewed
  twice at once by the watcher; a reviewed PR is reviewed again when, and only
  when, commits were pushed; no PR waits for ever.
- Review service: the stamp of a saved review is that of its diff; a review is
  saved once, whole, or not at all; a split review waits for every chunk, respects
  its cap, leaves no task behind and records what failed.
- Adapters: no line is lost; success is reported only if earned; neither helper
  nor child outlives the call; the call ends.
- Fix flow: what is pushed is what the user was shown; what is reported pushed is
  on GitHub; no commit on GitHub is ever taken away.
- Splitter and merge: every hunk reviewed exists in exactly one chunk, cuts are told,
  a finding is shown at its line; merging and carrying over lose, double and
  downgrade nothing.
- Publishing: what the page is told is what stands on the PR, once; what is staged is
  not dropped; a fallback is used only where nothing better is possible.
- Comments: a comment of another user is marked as new once, and a thread with a new
  reply says so.
- Files: requests that do not overlap leave what was asked for; a crash or a full
  disk does not silently change what is read.
- Live feed: an event is shown in one row and with one toast; badges and status follow.
- Sessions and queue: a running review has its stream, and a stream its running
  review; the cap holds; no queued PR is lost or started for ever.

## 2. Modules

| Module | Models | Extends / instantiates |
|---|---|---|
| `LiveReview` | the watcher, reviews run by hand beside it, the cache they share, GitHub | |
| `ReviewContract` | what a caller may rely on about one review | |
| `Lists` | the part of a list that is in a set, which the filters of the code pick | |
| `DiffSplit` | the diff splitter, as operators | `Lists` |
| `Findings` | deduplication, merge and carrying over of findings, as operators | `Lists` |
| `SplitReview` | one review from diff to cache: single call, or chunks and merge, synthesis; the save of an incremental review | `DiffSplit`, `Findings`; `ReviewContract` as its refinement |
| `CliStream` | one run of an AI CLI: adapter, helper tasks, pipes, child | |
| `FixFlow` | all fixes of one PR: service, worktree, bare clone, GitHub | |
| `Publish` | findings of one PR on their way to GitHub: staging, modal, cards, backend | |
| `Comments` | the comments of one PR, who wrote them, what is new since the last visit | |
| `Store` | the JSON files and the worker threads that change them | |
| `ReviewQueue` | sessions, event streams and the queue in the browser | |
| `LiveFeed` | the ring of the watcher's events, its stream and what a page makes of it | `Lists` |
| `MC...` | instances for TLC | the module of the same name |
| `...Proofs` | theorems about the module of the same name (section 4): `LiveReviewProofs`, `SplitReviewProofs` (with `DiffSplit` and `Findings`), `CliStreamProofs`, `FixFlowProofs`, `StoreProofs`, `ReviewQueueProofs`, `LiveFeedProofs`; `CommentProofs` is about `Publish` and `Comments` | that module, TLAPS and the library's theorems about finite sets, sequences and well-founded orders |

**LiveReview.**  `poll` and its companions (`todo`, `listed`, `current`, `seen`)
are the local variables of `_poll_loop`, `poll_once` and `_trigger_reason` at
their awaits; `pc`, `target`, `diffOf`, `headOf` those of a review, whether it
runs in a watcher task (`Task`) or for a client (`Client`: the SSE endpoint and
the rerun and incremental endpoints).  `waiters` is the semaphore's queue,
`inFlight` the keys of `_review_tasks`.  `head`, `updated` and `status` are
GitHub's, `cache` the cached review of each PR: the head it was made of (`of`),
the SHA it is stamped with (`sha`) and its `created_at` (`at`).  SHAs are numbers
in the order they were pushed, so that "older" is `<`; the code compares SHAs for
equality only, and so does the model.  A second has `Tick` ticks of the clock: a
review is saved at a tick, as `created_at` has microseconds, and GitHub stamps
`updated_at` with the second the tick lies in.  Each action
goes from one await to the next.  `overtaken` is a history variable: the PRs that
were pushed to while a review of them ran.

**SplitReview.**  `phase` is where the generator of `_review_diff_text` waits,
`pc` where each chunk's task is.  The queue, the semaphore and the sentinels are
those of the split path.  `Disconnect` may happen wherever the generator is
suspended.  In the state a merged review is the set of chunks whose findings it
holds; what the merge does with their findings is computed by `Findings`, for the
order in which the chunks came to an end and every report of each
(`MergeIsExact`).  `reply` says what became of each part of the diff: reviewed, failed,
left out on purpose, or, when no section can be told in a diff above the limit, never
asked about; a diff that is reviewed in one call has one reply for all parts.
`Missing` is what nobody has reviewed, `Failures` what the code counts: the sentinels
that came without a review.  `saved` is what `_finalize_review` or
`incremental_review` wrote.

**ReviewContract** has three variables: what came of the review (running, saved,
returned, failed or abandoned), what was saved, and which parts are still unread.  Parts
are read until the review is saved.  It is saved once, before it is returned, and holds
only parts that were read; its scope is "all", "changed" (an incremental one) or "raw" (a
large diff without sections), and in the first it has the exact number of the parts
unread.  Nothing is saved after it has failed or its caller has gone.

**DiffSplit, Findings.**  A diff is a sequence of sections, a section a header and
hunks of lines, a line what it starts with; sizes are counted in lines instead of
characters.  `parsed` and `ignored` stand for the outcome of the two regular
expressions and of the globs.  A finding is its key (file, line, normalised title)
and its priority.  `Path` and `Key` are whatever tells sections and findings apart.
They hold no state: the actions of `SplitReview` reach them at the
phases in which the code calls them, and the properties quantify over every diff,
section, line asked for, context and report of the instance (`Diffs`, `Sections`,
`Lines`, `Contexts`, `Reports`).  The loops of the code are folds, each with its body
as an operator of its own (`AddHunk`, `PlaceFile`, `AddLine`, `AddRows`); a sort is
told by rank (`LargestFirst`: the n-th is the one that n - 1 come before) and a filter by
the set it keeps (`Only`), so that both can be proved about.

**CliStream.**  The feeders, the writer and the main loop are one disjunct each;
lines are counted.  `Faults` says what the child may do that the code does not
expect: write an overlong or undecodable line, leave stderr to a descendant, or go on
after closing stdout, stderr or both.  The kill at a timeout can itself fail, on a
process that is gone already.

**FixFlow.**  A run is a click on *Generate Fix*.  `tree` is the worktree (its
branch, index and files as sets of runs whose edits they hold), `local` the
branches of the bare clone, `remote` those on GitHub, each a sequence of commits.
The git commands between two awaits are one step; those that can fail half-way
(commit, then push) have one action per outcome.  `shown` is the diff a run's user has
been shown while its push is still possible: which edits, and whether they are all of
it, since a diff is cut at 10,000 characters.  `sent` is a `Report`: the branch the user
is told, the branch git pushed to, and the edits.  `mixed` is a history variable: the
runs begun while another was open, and those they were begun on.

**Publish.**  `job` is the request of each caller (the modal, and each card) with the
backend thread that serves it: the payload (`inline`, `body`), retries and fallback of
`create_review`.  Every post to GitHub is answered by a success, a refusal of the
payload, a transient status or another error (a time limit among them) and, apart from
the answer, taken or not.  The adapter looks for "422" in the text of an error, which can
be there without a refusal (`Stray`): an error that quotes such a number, or a head that
was rewritten after it was asked for.  `github` is what stands on the PR.

**Comments.**  A request is a worker thread with two steps, between which anything
may happen: read the last visit; fetch, compare and record the visit (`log` keeps the
answers).  GitHub stamps whole seconds, the visit has microseconds: `Tick` clock
ticks make a second.  Only comments on lines are `Dated`: the others come with fields
that nothing maps to `created_at`.

**Store.**  A thread serves one request in up to four steps: read, open (which
empties the file), close (which writes it), unlink.  `truth` is what each file would
hold if acknowledged requests were single steps, `overlapped` the files two of whose
requests were open at once, `broken` those a crash or a failing write may have left
empty.  `Effective` is what a reader gets for a key: stored, environment or default.

**ReviewQueue.**  JavaScript runs a turn to its end, but a Svelte store tells its
subscribers during the assignment.  `stack` is therefore the stack of calls under
way: a `pump` with its private copies of `items` and `runningKeys`, the call that
is telling subscribers, a `stopQueue`.  A session's `by` says in whose name its review
runs: the user's, the queue's, or that of a queue which was just being stopped.
`notices` counts what Svelte's `subscriber_queue` holds: only the outermost call
empties it.  A status of
"connecting" and one of "streaming" are both "running", as they are for every
test in the code.

**LiveFeed.**  `stream` is the connection: the local variables of `event_stream`
(`last_seq`, the batch being yielded, `last_status`) and what has been sent and not
yet received (`wire`).  `Poll`, `Yield` and `YieldStatus` are the tick and its yields,
between which events are emitted.  `backfill` is the request for the events so far and
its answer.  A number is that of one run of the backend (`boot`): after a restart the
numbers begin at 1 again, and the page compares numbers only.  JavaScript's `filter` is
`Only` of `Lists`.

## 3. Runs

Each property is a conjunction of named parts where it says more than one thing; a
part has its own comment in the module.

| Run | Instance | Shows |
|---|---|---|
| `live_review` | 2 PRs, 2 watcher tasks, 2 permits, seconds of 2 ticks, 1 failure | `TypeOK`, `PermitsAccountForRuns`, `RegistryInv` (`RegistryIsExact`, `OneTaskPerPR`), `ReviewsNeverRegress` |
| `live_review_manual` | 1 PR, 2 watcher tasks and a user, 4 ticks of half a second, 1 failure | `StampNotBehindDiff`, `OnlyPushesRetrigger`, `PrefilterHidesNoPush` |
| `live_review_live` | 2 PRs, 2 tasks, 1 permit, 1 failure, fairness | `WatchedPRsGetReviewed`, `QueuedReviewsEnd` |
| `live_review_missed_push` | 1 PR, 1 task, fairness | **violated**: `WatchedPRsCatchUp` |
| `split_review` | 3 chunks, 2 permits, synthesis, both wirings, 1 event per chunk, fairness; over 800 diffs against a limit of 5 lines, over 700 sections, 343 reports | `NothingLeftBehind` (types, `NothingLeftInQueue`, `ConcurrencyBounded`, `NoOrphanTasks`), `SavedIsExact`, `SplitIsExact` (`ChunksHoldTheDiff`, `NoCallWasted`), `FindingIsShown`, `MergeIsExact` (`MergeConsolidates`, `UpdateKeepsTheRest`), `EventuallyOver`; `SplitReview` implements `ReviewContract` |
| `cli_stream` | strict and lenient, pipes of 1 unit, prompt of 2, 2 stdout lines, 1 stderr line, every fault, fairness | `OutputIsComplete` (types, `NothingLost`, `LateWarningsShown`), `NothingOutlives` (`NoHelperOutlives`, `OrphanIsExplained`), `OverUnlessStarved` |
| `fix_flow` | 3 runs of which two may overlap, a follow-up branch, a commit by the author, 1 failure, 1 diff too long to be shown | `ReportsAreSound` (types, `ReportIsTrue`), `HistoryKept`, `PushedIsShown` |
| `publish` | 3 findings (a P1, a placed one, one without a place), 2 commands, 1 misleading answer, fairness | `PublishIsExact` (types, `AnswerIsTrue`, `FailedLeavesNothing`, `PostedOnce`), `NoNeedlessFallback`, `StagedNeverDropped`, `EveryPublishEnds` |
| `comments` | 2 requests, 2 comments, 1 deletion, 2 visits, a clock of one second in two ticks | `NewOnce` (types, `UnmarkedIsExplained`, `MarkedOnce`), `ThreadTellsReplies` |
| `store` | 2 threads, 2 repositories, 2 keys, 3 requests, 1 crash or full disk | `NothingGarbled` (types, `ReposExactOrUnreadable`, `SavedOrDefault`), `SerialIsExact`, `NoListWithoutRepo` |
| `review_queue` | 2 PRs, cap 1 or 2, 2 requests under way, fairness | `SlotsAreExact` (types, `RunningIsConnected`, `NothingTwice`), `LiveStaysShown`, `CapRespected`, `NoneForgotten`, `QueuedGetTheirTurn` |
| `live_feed` | 3 events and a change of status, ring of 3, 2 per tick, feed of 2, 1 break, restart or reload, fairness | `ShownOnce` (types, `FeedKeysUnique`, `NoneLost`, `ToastedOnce`), `PageFollows` (`BadgesFollowFeed`, `StatusIsShown`), `NoToastIsExplained`, `OwedAreShown` |

**Bounds, and why they are enough.**
- `MaxClock` (what happens on GitHub, and saves), `MaxFaults` (gh and CLI failures):
  two PRs and two tasks contend for the registry and the permits; three ticks let a
  review, a push and a second review of the same PR overlap in every order, and four
  ticks of half a second put them in one second or in two.  One
  failure reaches every error path, since no state remembers a failure.
- `MaxEvents`, `NChunks`: three chunks over two permits make one wait; one event
  per chunk lets an event lie behind another chunk's sentinel.
- `Diffs`, `MaxSize`, `Budget`: up to three files of nine shapes, below, at and above
  the limit, with hunks that fit alone and ones that do not and headers at the limit:
  every branch of the packing, each before and after every other.  `Sections`: every
  hunk of up to three lines of every kind, followed by a second hunk; `Lines` 1 to 12 are
  the numbers before, in, between and after the hunks, `Contexts` 0 and 1 a window at its
  smallest and one that meets the ends of the section.
- `Reports`: each chunk reports nothing or one of three keys in two files, as most or
  least urgent: duplicates in every order, with and without a change of priority.
- `PipeSize` 1 with a prompt of 2: the writer blocks, which is the deadlock the
  helper tasks are there to avoid.  Two lines let stdout be read while stderr is not.
- `MaxRuns`, `MaxNames`, `MaxAuthor`, `MaxMixed`, `MaxCut`: the third fix meets the worktree the
  second left after a follow-up branch, after a failed push, or removed; two runs at
  once give every order of the steps of two users (three at once take hours).
- `MaxPublish`, `MaxMisled`: the second command repeats what the first failed to do, or
  what it did without being told; one answer misleads about a post taken, or about a
  refusal that was none.
- `MaxComments`, `MaxVisits`, `Tick`, `MaxClock`: a comment and a reply, two answers,
  before and after a visit in the same second.
- `MaxRequests`, `MaxFaults` in `Store`: two overlapping requests and a third that
  meets what they left, a crash at any of their steps.
- `Capacity`, `Limit`, `FeedCap`, `MaxEvents` in `LiveFeed`: three events fill the
  ring, overflow the feed and exceed a tick.
- `MaxOrphans`, `MaxAsked`: event streams beside those of the sessions, and requests
  under way, 0 and 2: a cached review does not replace a session in the moment
  between its `result` and its `done` event.  `Caps` is what the setting can be
  changed to; with two PRs, 1 makes one wait and 2 makes pumps nest without waiting.

Symmetry is declared for interchangeable task, thread, request and repository
identities and, where no liveness is checked, PRs.  `CHECK_DEADLOCK FALSE` stands
where a run ends (a review, a CLI call, requests, users who stop clicking).  The
watcher polls, the user of the queue may click for ever, and a live page asks again:
there deadlock is checked.

**Fairness.**  The asyncio loop runs every ready coroutine: weak fairness for the
steps of a generator or a helper task, strong fairness in `LiveReview`, where a
coroutine is only enabled while no other holds the loop.  AI calls end because of
the inactivity timeout, which `CliStream` models: there the child may stop at any
point, and only the adapter's tasks and timers are assumed to go on.  What the timeout
does not end is named by `OverUnlessStarved` below; for the modules above it such a call
is one that does not come back, which they take to end.  In `Publish` every call of `gh` has a
time limit and its thread goes on.  In the browser a turn runs to its end, each
stream ends whatever else happens (the server ends it or the connection is lost), and
an `EventSource` without a terminal event is opened again by the browser (`Connect` of
`LiveFeed`).  Nothing makes a user act, a network fail or GitHub change.

**What is assumed.**  The publish modal covers the cards while it is open: nothing in the
code keeps the keyboard from reaching them.  The list of findings stays as it is while
cards are published: a card's `published` is its own and belongs to a place in the list
(`ReviewTab.svelte:178`, `FindingCard.svelte:49`), so that after filtering it can be that
of another finding.  No two repositories have files of one name: `_slug`
(`json_file_cache.py:11-12`) makes `a_b_c` of `a/b_c` and of `a_b/c`, which needs an owner
with an underscore.  A line of a diff holds no form feed, U+2028 or lone carriage return,
at which `splitlines()` (`_diff_splitter.py:125`) would break it.  The clocks
of GitHub and the backend agree.  A refresh of a PR list is asked for by a page whose
list of repositories is the acknowledged one.  A file has one section in a diff
(`OneSectionEach`), and its hunks are in the order of the lines of the new side, none of
which is in two (`HunksAscend`): so git writes a diff with its lines of context around
each change.  Every watcher event of `LiveFeed` is one that is worth a toast and a refresh,
and one request for the past events is under way at a time.

**What some properties leave out, and why.**
- `ReviewsNeverRegress` speaks of the watcher alone (`Client = {}`): two reviews of
  a PR that a user and the watcher run at once are saved in the order they finish.
- `PrefilterHidesNoPush` speaks of PRs not pushed to during a review; with such a
  push it fails, which is the divergence 1 below.  It names the second of the save: a
  push in it looks older than the review (divergence 10).
- `OverUnlessStarved` names the two ways a CLI call does not end: a feeder that
  dies on a line it cannot read, and a stderr that stays open when stdout has ended,
  with the child or with a process it started (divergence 11).
- `OrphanIsExplained` names the two ways a process is left behind: a generator closed
  at a yield, and a child that has closed its outputs and stays.
- `LiveStaysShown` names the two events that end a running session too early: an
  incremental review begun before a re-run, and the end of another stream of the PR.
- `PushedIsShown` leaves out runs in whose worktree another is begun (divergence 3), and
  of a diff that was cut it demands only that what was shown is pushed (divergence 12).
- `ReportIsTrue` names a fix that is told to be on the PR branch and stands on the
  follow-up branch its worktree was left on (divergence 13).
- `NoNeedlessFallback` names an error whose text holds "422" and that is no refusal of
  the payload.
- `CapRespected` counts every running review that was started for the queue, whatever
  the queue still knows of it, but for those a pump starts inside `stopQueue`
  (divergence 5).
- `PostedOnce` and `FailedLeavesNothing` speak of posts whose answer arrived: a post
  taken without an answer can be repeated (divergence 6).
- `MarkedOnce` leaves out two answers that had both read the visit before either
  recorded its own; `UnmarkedIsExplained` names the comments that are never marked: those
  of a second, those that failed to come, and all that are on no line (divergence 14).
- `SerialIsExact` and `ReposExactOrUnreadable` leave out files two of whose requests
  overlap: one of two updates is lost (divergence 7).
- `FindingIsShown` leaves out lines behind one that reads as a file header
  (divergence 8).
- In `LiveFeed` `ThisRun` leaves out a page older than the run of the backend, and
  `stale` a status put back by a late answer (both under 5).
- `SavedIsExact` and `ReviewContract` demand the number of missing parts of a review of
  the whole diff: not of an incremental one (divergence 9), nor of a diff above the limit
  in which no section can be told (divergence 15).

## 4. Proofs

The theorems hold for every value of the constants that satisfies the assumptions the
modules name: bounds are naturals, sets of identities finite where they are counted
(`Task`, `Key`), `MaxConcurrent`, `Tick` and `Limit` positive, an answer of the live feed
no larger than its ring, sentinels (`NoStream`, `Missing`, `Empty`, `NoStatus`, `None`)
distinct from the values they stand beside.  Of the inputs two are restricted: the diffs
and the sections of `SplitReview` are those git writes (`OneSectionEach`, `HunksAscend`,
section 3).

Each proof has the same shape.  `Inv` is a conjunction of named parts, the strengthening;
`Init => Inv`; `Inv /\ [Next]_vars => Inv'`, one lemma per part with a case per action;
the property follows from `Inv` (for an action property, from `Inv` and the step), and a
temporal step combines the three.  Before that lie lemmas about the operators of the
model, stated once: what a queue, a list or a pipe holds after each operation on it.
TLC has checked every strengthening as an invariant of the run of its module.
(For `StoreInv` it compares only the domains of `file`, `truth` and `job`, and a job's `pc` with
`Idle.pc`: a file's content may be a set, a function or the string "data", values TLC
does not compare with one another.)

**LiveReviewProofs** (the invariants build on each other in this order)

| Theorem | States | Strengthening it needs |
|---|---|---|
| `QueueCorrect` | `[](TypeOK /\ WaitersAreQueued)` | `WaitersAreQueued`: a task is in the semaphore's queue exactly while it waits, once.  Without it, waking the head of the queue could give a permit to a task that does not wait. |
| `RegistryCorrect` | `[]RegistryInv` | its two parts together: that a new task is alone follows from its key not being registered, that its key is not registered from the registry being exact |
| `PermitsCorrect` | `[]PermitsAccountForRuns` | cardinality of the set of holders, which one step changes by one task at most |
| `StampCorrect` | `[]StampNotBehindDiff` | `HeadInv`: what a running review, the cache and the watcher's lookup know is never ahead of GitHub |
| `RetriggerCorrect` | `OnlyPushesRetrigger` | `HeadInv` again: a lookup that found a difference found an older SHA |
| `PrefilterCorrect` | `[]PrefilterHidesNoPush` | `QuietInv`: no date is ahead of the clock, and the SHA of a running review of a PR not overtaken is still its head; that rounding to seconds keeps the order of dates is a lemma |
| `NeverRegresses` | `ReviewsNeverRegress` | `StampsLeadCache`: with the watcher alone the one review of a PR that runs is at least as new as its cached one, which rests on the registry |

**SplitReviewProofs**

| Theorem | States | Strengthening it needs |
|---|---|---|
| `NothingIsLeftBehind` | `[]NothingLeftBehind` | `PermitsHeld`: permits and running calls add up; `QueueInOrder`: a chunk's sentinel is the last of its items and is taken once, so that as many sentinels as chunks mean an empty queue; `ResultsAreCounted`; `TasksAreOver` and `NothingBegun` before and after the split phase |
| `SavedReviewIsExact` | `[]SavedIsExact` | `MergedIsExact`: what the merge holds, is said while the second pass and the save are still to come; `FailuresAreMissing`: when the last sentinel is taken every chunk has reported, so that the failures the code counts are all that is missing; `SavedAtTheEnd` |
| `ReviewKeepsTheContract` | `ImplementsContract` | the refinement: the initial state maps to that of `ReviewContract`, and each action to reading, saving, returning, failing, abandoning or a stutter.  That what is missing only becomes less comes from `RepliesAreCalls` (a task has no reply before its end), that it stays as counted after the save from `TasksAreOver`, the count from `FailuresAreMissing` |
| `MergesLoseNothing` | `[]MergeIsExact` | of the state its types only; the rest is about the operators: what `Dedupe` has kept after each finding (`Deduped`), and that the parts of one priority put behind one another are sorted and stable (`Ranked`) |
| `SplitsKeepTheDiff` | `[]SplitIsExact` | invariants of the two loops of the packing.  Of the hunks of an oversized file: those seen are in one piece each or open, what is open fits, and a piece that is not cut is as large as what it holds.  Of the files: the same of those placed, and any two chunks that may still take files exceed the limit together |
| `FindingsAreFound` | `[]FindingIsShown` | an invariant of the loop over the lines: the rows are the lines that do not read as headers, in order, and a row whose hunk has had no such line bears the number of its line.  Numbers ascend along the hunks, so that no other row has the number asked for |

The last three are about pure functions: folds over the findings, hunks, files and lines
they are given.  That a fold goes through its list one step at a time is itself proved, by
a table that holds the accumulator after each step (`FoldTable`, `FoldSteps`); the
invariant of a loop is then an induction along the table.  The library's induction rules
take an operator for what is to be proved, which no installed prover can instantiate;
`InductionOnSet` and `InductionUpTo` take a set of numbers instead, and follow from the
library's fact that the naturals are well-founded.

**CliStreamProofs**

| Theorem | States | Strengthening it needs |
|---|---|---|
| `AllOutputIsGiven` | `[]OutputIsComplete` | `LinesFirst`: a stream's DONE item is behind its lines in the fan-in queue; `LinesCounted`: lines in the pipe, in the queue and with the caller add up to those written; `OutDone`, `ErrDone`: a DONE item is put when nobody can write any more; `LoopLeft`, `WarningsKept` for the drain after the loop |
| `NothingOutlivesTheRun` | `[]NothingOutlives` | `HelpersAreOver`, `NotSpawned`, and `TimeoutKills`: after a timeout the child has been killed before the generator ends |

**FixFlowProofs**

| Theorem | States | Strengthening it needs |
|---|---|---|
| `ReportsAreTrue` | `[]ReportsAreSound` | `Shapes`, `LocalPR`: the branch the worktree is on exists in the bare clone, of which a push sends the commits; `OnNamed`: it is the PR's branch or one made for a follow-up PR, so that what is told to be on the PR's branch is there or on such a one |
| `PushesOnlyAdd` | `HistoryKept` | a push without force is taken only if it extends what is on GitHub: prefixes are transitive |
| `ShownIsPushed` | `PushedIsShown` | `TogetherAreMixed`, `IndexIsShown`: in a worktree of its own the index of a run is what its user was shown, from the diff until the commit, as far as the diff was shown |

**CommentProofs**

| Theorem | States | Strengthening it needs |
|---|---|---|
| `ExactlyPublished` | `[]PublishIsExact` | `JobOK`: at every step of a request its payload holds all that was sent (`PayloadOK`), and only one that ended well has an item whose answer came (`ToldOK`); `IdsAreFresh` |
| `FallbacksAreNeeded` | `[]NoNeedlessFallback` | `PayloadOK`: each fallback remembers what GitHub refuses, or that an error was taken for a refusal |
| `NothingStagedIsDropped` | `StagedNeverDropped` | `ModalCovers`: while the modal's request is under way, what is staged is what was sent |
| `CommentsAreNewOnce` | `[]NewOnce` | `VisitIsLogged`, `ReadingOK`: the last visit a request has read is that of an earlier answer, and what the request fetches beyond that answer was written later or had failed to come; `LogOK`: no answer holds a comment written after its visit was recorded, and one misses only what was deleted or failed to come.  A comment without a time is in no list of new ones |
| `ThreadsTellTheirReplies` | `[]ThreadTellsReplies` | `LogOK` for the comments an answer can hold; that the root of a thread, a recursive function along the parents, is defined for each of them and is its own root is an induction on the ids, a parent being older than its replies |

**StoreProofs**

| Theorem | States | Strengthening it needs |
|---|---|---|
| `RequestsAreExact` | `[]SerialIsExact` | `OneAtATime`: a file without overlap has one request at most; `FoundEmpty`, `WritesPromised`: it finds the file as it emptied it and is about to write what a single step would; `HoldsTruth` |
| `ReadersAreNotMisled` | `[]NothingGarbled` | `HoldsTruth` says it of broken files too: a document has lost keys and gained none, the list of repositories is exact or empty |
| `NoListIsLeft` | `[]NoListWithoutRepo` | `ListsBelong`: the PR list of a repository that was taken off the list is gone or about to be unlinked |

**ReviewQueueProofs**

| Theorem | States | Strengthening it needs |
|---|---|---|
| `SlotsStayExact` | `[]SlotsAreExact` | `SessionsOK`, `StackOK`: somebody is telling subscribers as long as notices wait; `PumpsArePruned`, `QueueIsPruned` |
| `TheCapHolds` | `CapRespected` | `CopiesAgree`: of the queue and the private copies of all pumps under way, any two lie on one line, the one having started what the other still holds; without it a pump that comes back could count fewer reviews than run.  `SameCount`: outside a `stopQueue` the queue and its pumps count all that runs for it; `StoppedInTurn`: a `stopQueue` under way has that still to stop; `StepsInCap`: a pump has got further than another only within the cap |
| `QueueForgetsNone` | `NoneForgotten` | `CopiesAgree` again: what a pump writes over the queue has lost only what was started |
| `LiveReviewsAreShown` | `LiveStaysShown` | `SessionsOK`: a running session has a stream of its own |

**LiveFeedProofs**

| Theorem | States | Strengthening it needs |
|---|---|---|
| `NothingIsShownTwice` | `[]ShownOnce` | `StreamOK`: what is on the wire, in the batch and not yet polled is in the order of its numbers; `OwedOK`: what is owed is among it; `ToastsOK`: what had its toast is not; `FeedOK` |
| `PageKeepsUp` | `[]PageFollows` | `BadgesOK`: the badges were asked for after the last event that counts as seen; `StatusOK`: once the present status has been said it is the last one on the wire, or shown |
| `MissingToastsAreExplained` | `NoToastIsExplained` | `OvertakenOK`, `BackfillOK`: a later event is on the page before one that is still coming only through an answer that had both, or had no room for it |

**Only model-checked.**  Every liveness property (`WatchedPRsGetReviewed`,
`QueuedReviewsEnd`, `EventuallyOver`, `OverUnlessStarved`, `EveryPublishEnds`,
`QueuedGetTheirTurn`, `OwedAreShown`): the prover has no support for fairness and ENABLED
here.  The violated property of `live_review_missed_push` is refuted by TLC and needs no
proof.  Every safety invariant, every action property and the refinement that the runs
check are theorems.

Some definitions are written for the proofs, without changing what they say:
`Only` and `LargestFirst` do not go through `SelectSeq` and `SortSeq`, whose argument is an
operator; the bodies of the loops in `DiffSplit` have names of their own; and the part of
`MergeIsExact` about an update quantifies over the reports and the number of chunks that
were cached before, instead of building the concatenations first.

## 5. Where the code and its texts disagree

The first is a run that TLC finds violated.  In the others the property that holds
names the exception; without it TLC finds the behaviour described.

1. *A push during a review is missed for ever* (`live_review_missed_push`).
   `created_at` is the time a review is saved (`review_service.py:325`), its diff
   and SHA are read when it starts; a push in between is older than the review, and
   the pre-filter (`live_review_service.py:212`) skips the PR.  README line 201
   promises a review for new commits.  The badge, which uses the same comparison,
   hides the PR as well.
2. *A closed generator leaves its process* (`_base.py:430`; `OrphanIsExplained`).
   `GeneratorExit` is neither a `CancelledError` nor an `Exception`: only the `finally`
   of `stream_cli` runs, and it does not kill the child.
   `tests/unit/test_base_cli_adapter.py:449-451` and `CHANGELOG.md:102-106` say that it
   is killed; the test cancels the pending `__anext__` first and so never closes at a
   yield.  Nor is a child killed that has closed its outputs and stays (line 415).
3. *What is pushed may not be what was shown* (`fix_service.py:96`;
   `PushedIsShown`).  All fixes of a PR share a worktree; a second one resets it while
   the first waits for its commit message.
4. *The second pass is never asked for* (`main.py:138`).  `SwitchableAIProvider` does
   not forward `stream_synthesis`: in the wiring of `main.py` the action `Synthesize`
   has the outcome "not asked" only.
5. *Stop all starts a review* (`reviewQueue.ts:73`, against lines 70-71).  Stopping a
   review frees its slot, and the subscriber fills it from the items that are about to
   be dropped.  Line 74 then forgets the review that this started: it goes on beside the
   next ones, which makes more than `concurrency` (line 15, `settings_store.py:39-40`).
   `CapRespected` counts what runs for the queue and not what the queue remembers, and
   leaves out these reviews by who started them.
6. *A retry called safe can publish twice* (`github_cli_adapter.py:16`).  A 5xx, or an
   answer that does not come in time, does not say that nothing was created.
7. *Concurrent changes of `repos.json` and of the settings lose one of them*
   (`json_file_cache.py:49`, `settings_store.py:191`).  One review file that cannot
   be parsed fails the list of all reviews of its repository.
8. *A mini-diff can be one line off* (`_diff_splitter.py:131`, against lines 98-100).
   An added line whose text begins with "++" reads as a file header and is skipped
   without being counted.
9. *An incremental review counts no failures* (`review_service.py:258`, against
   203-204).  It is saved with the new head SHA, and recorded with `failed_chunks` 0,
   although changed files were not reviewed.  So it is when its only call ended without a
   result: the update is then saved as empty (lines 240-241).
10. *A push in the second of a save is missed for ever* (`live_review_service.py:212`;
   `PrefilterHidesNoPush`).  `updated_at` has whole seconds and `created_at` microseconds
   (`review_service.py:325`): the push looks older than the review although it came
   after it.  README line 201 promises a review for new commits here too.
11. *A stream can hang without a timeout* (`_base.py:330`, `735`; `OverUnlessStarved`).
   Only the feeder of stdout has a timer.  A child, or a process it started, that closes
   stdout and keeps stderr keeps the generator waiting for the last item of stderr; so
   does a child whose overlong line has ended a feeder.  `main.py:791` and
   `ports/ai_provider.py:74` speak of an inactivity timeout of the call.
12. *What is pushed may be more than what was shown* (`fix_service.py:15`, `64`;
   `PushedIsShown`).  The diff is cut at 10,000 characters and the push commits the whole
   index.  README line 22 says: review the diff, then push.
13. *A fix on a follow-up branch is told to be on the PR branch* (`fix_service.py:82`,
   `CommentCard.svelte:88`, `181`; `ReportIsTrue`).  A follow-up PR leaves the worktree
   on its own branch, and a later fix in it is pushed there.
14. *Comments on no line are never new* (`comment_service.py:63`, `72`;
   `UnmarkedIsExplained`).  PR-level comments and the bodies of reviews come with
   `createdAt` or `submittedAt` (`github_cli_adapter.py:103-108`), which nothing maps to
   `created_at` (line 104 of the service); lines 47-48 promise every comment of others
   since the last visit.
15. *A diff that is too long and has no section is recorded as reviewed*
   (`review_service.py:150-152`, `180`, `193`; `SavedIsExact`).  It is sent to the split,
   which finds nothing to pack: a review is saved with `failed_chunks` 0 and nothing of
   the diff was read, where line 151 says that the raw diff is reviewed as it is.
16. *A review is repeated although its commit was reviewed*
   (`live_review_service.py:225`, against 8-9; `OnlyPushesRetrigger`).  A review that
   finishes during the watcher's lookup is not the one the lookup is compared with.
   The property compares with the review the watcher read.
17. *A review is stamped with a commit newer than its diff* (`models.py:22`, which says
   the commit the review was run against; `StampNotBehindDiff`).  Diff and SHA come from
   two `gh` calls, and a push between them makes the stamp newer.  The property speaks
   of the other direction.

Seen while modelling, without a text that rules them out:
- a lenient adapter that ends as a success after a timeout without output; a kill of a
  child that has just gone, whose `ProcessLookupError` is the caller's (`_base.py:370`);
- a commit whose push failed, which cannot be pushed again;
- an error that passes and whose text holds "422", or a head that moved between its
  lookup and the post, which costs the banner or the inline comments
  (`github_cli_adapter.py:248`, `269`; `NoNeedlessFallback` names it);
- a review that `enqueueReviews` starts is started twice, the first stream being closed
  at once; a connection lost between `result` and `done`, which shows an error over a
  finished review;
- files with a space in their name are skipped by the splitter without a word; what
  precedes the first section counts towards no chunk; the hunk around a finding is
  looked up by the old path of a renamed file;
- a comment written in the second of a visit, after its fetch, is never marked as new;
  comments on lines that failed to come are never marked; the comments of a PR just
  opened are fetched twice, and the second answer replaces the marks of the first;
- a full disk empties the settings and the save is answered as done; a refresh beside
  a removal leaves the PR list of a repository that is gone;
- the feed of a page that outlives a restart of the backend drops events whose number
  it has, shows no toasts and asks for no badges until the numbers pass the old ones;
  an event between the answer to the first request and the start of the stream, or in
  a gap of the connection, is shown at the next visit of the page only; a late answer
  puts back an older status.

## 6. Not modelled

- Metrics, logs, static files, start-up scripts, themes and rendering: they decide
  nothing.
- The texts of prompts, commits and PRs; how an AI answer or `gh` output is parsed.
- GitHub's clock against the one of the backend.
- `_stream_json_review` and the single calls `generate_text` and `run_text`; the
  classification of comments by such a call.
- Switching the provider at run time; provider detection.
- The answers of the start and stop buttons of the live page, which set the status
  too; the timer of the badges.
- Which of two late answers about different PRs the page shows.

## 7. Plan

Written, in this order: the watcher, on which most else depends, then one review, the
call it makes, the fix flow and the queue; then publishing, comments and files, the
splitter and the merge inside a review, and the live feed; then the proofs, of every
safety property and of the refinement, the pure functions of the splitter and the merge
last.  What remains:

1. Larger instances of `LiveReview` and `Publish` for the liveness properties, which
   only TLC can check.
2. `_stream_json_review`, the layer between `CliStream` and `SplitReview`: which of the
   lines of a CLI make a review, and which of its ends count as a success.
3. The parts of the HTTP layer and of the front end that section 6 leaves out, should
   they come to decide more than what is shown.
