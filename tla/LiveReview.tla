------------------------------ MODULE LiveReview ------------------------------
(***************************************************************************)
(* The live-review watcher (app/services/live_review_service.py), the      *)
(* review runs it and the HTTP handlers start (review_service.py), the     *)
(* per-PR review cache they share, and the GitHub repository they read.    *)
(*                                                                         *)
(* All coroutines run on one asyncio event loop: a coroutine that has not  *)
(* reached an await keeps the loop (LoopFree is FALSE) and only GitHub and *)
(* the handlers that run in the thread pool move meanwhile.  The backend   *)
(* stamps a review with the time to the microsecond, the tick of `clock`,  *)
(* GitHub a PR's `updated_at` with the second, of `Tick` ticks.            *)
(***************************************************************************)
EXTENDS Naturals, Sequences, FiniteSets

CONSTANTS
    PR,               \* pull requests of the tracked organisation
    Repo,             \* repositories they belong to
    RepoOf,           \* [PR -> Repo]
    NoPR,             \* no pull request
    Task,             \* identities of the watcher's review tasks
    Client,           \* HTTP requests that run a review (SSE, POST, rerun)
    MaxConcurrent,    \* _MAX_CONCURRENT_REVIEWS
    Tick,             \* ticks of the clock in a second
    MaxClock,         \* bound: GitHub events (pushes, comments, status changes) and
                      \* ticks without one
    MaxFaults         \* bound: gh, AI or cache calls that fail

ASSUME RepoOfAssumption == RepoOf \in [PR -> Repo] /\ NoPR \notin PR
ASSUME TaskAssumption == IsFiniteSet(Task) /\ Task \cap Client = {}
ASSUME BoundAssumption ==
    /\ MaxConcurrent \in Nat \ {0}
    /\ Tick \in Nat \ {0}
    /\ MaxClock \in Nat
    /\ MaxFaults \in Nat

VARIABLES
    head,        \* GitHub: the PR's head commit, 1, 2, ... in push order
    updated,     \* GitHub: the PR's updated_at
    status,      \* GitHub: "open", "draft" or "closed"
    clock,       \* the time
    overtaken,   \* PRs pushed to while they were under review: history, for
                 \* the properties only
    faults,      \* failed calls so far
    registered,  \* repos.json: the repositories being tracked
    cache,       \* the review cache, per PR
    poll,        \* where the poll loop is; "off" when there is no poll task
    todo,        \* poll_once: repositories left in this cycle
    listed,      \* poll_once: snapshots of the listed PRs still to decide
    current,     \* _trigger_reason: the PR whose head is being looked up
    seen,        \* _trigger_reason: the cached review it has read
    inFlight,    \* keys of _review_tasks
    waiters,     \* tasks waiting for the semaphore, first come first served
    permits,     \* value of the semaphore
    pc,          \* where each review run is
    target,      \* the PR a run reviews
    diffOf,      \* the head commit whose diff the run has fetched
    headOf       \* the head SHA it will stamp; 0 for None

githubVars == <<head, updated, status, clock, overtaken>>
pollVars == <<poll, todo, listed, current, seen>>
taskVars == <<inFlight, waiters, permits>>
runVars == <<pc, target, diffOf, headOf>>
vars == <<githubVars, faults, registered, cache, pollVars, taskVars, runVars>>

Run == Task \cup Client
Sha == Nat \ {0}
NoReview == [of |-> 0, sha |-> 0, at |-> 0]

PCs == {"free", "queued", "diffed", "reviewing", "done"}
Polls == {"off", "cycle", "list", "listed", "deciding", "lookup", "found", "asleep"}

-----------------------------------------------------------------------------
(* Derived state *)

Second(t) == t - (t % Tick)

Running == poll # "off"
Reviewed(p) == cache[p] # NoReview
Stamped(p) == cache[p].sha # 0

\* No coroutine is between two awaits.
LoopFree == poll # "deciding" /\ \A r \in Run : pc[r] # "diffed"

\* The semaphore is held from the start of a run to its end.
Holding(t) == pc[t] \in {"diffed", "reviewing"}
Holders == {t \in Task : Holding(t)}
Live(t) == pc[t] # "free"

\* The review a run would save now.
ReviewOf(r) == [of |-> diffOf[r], sha |-> headOf[r], at |-> clock]

\* ReviewService.is_review_stale and needs_review_estimate (the sidebar badge).
IsStale(p) == Stamped(p) /\ cache[p].sha # head[p]
NeedsReviewEstimate(p) ==
    ~Reviewed(p) \/ (Stamped(p) /\ updated[p] > cache[p].at)

Init ==
    /\ head = [p \in PR |-> 1]
    /\ updated = [p \in PR |-> 0]
    /\ status \in [PR -> {"open", "draft"}]
    /\ clock = 0
    /\ overtaken = {}
    /\ faults = 0
    /\ registered = Repo
    /\ cache = [p \in PR |-> NoReview]
    /\ poll = "off" /\ todo = {} /\ listed = {}
    /\ current = NoPR /\ seen = NoReview
    /\ inFlight = {} /\ waiters = <<>> /\ permits = MaxConcurrent
    /\ pc = [r \in Run |-> "free"]
    /\ target = [r \in Run |-> NoPR]
    /\ diffOf = [r \in Run |-> 0]
    /\ headOf = [r \in Run |-> 0]

\* A gh call, the AI or a cache read fails.
Fault == faults < MaxFaults /\ faults' = faults + 1

-----------------------------------------------------------------------------
(* GitHub, and the handlers that run in the thread pool *)

Tock ==
    /\ clock < MaxClock
    /\ clock' = clock + 1
    /\ UNCHANGED <<head, updated, status, overtaken, faults, registered, cache, pollVars,
                   taskVars, runVars>>

Touch(p) ==
    /\ clock < MaxClock
    /\ clock' = clock + 1
    /\ updated' = [updated EXCEPT ![p] = Second(clock + 1)]
    /\ UNCHANGED <<faults, registered, cache, pollVars, taskVars, runVars>>

UnderReview(p) ==
    \E r \in Run : target[r] = p /\ pc[r] \in {"diffed", "reviewing"}

Push(p) ==
    /\ status[p] # "closed"
    /\ head' = [head EXCEPT ![p] = @ + 1]
    /\ overtaken' = IF UnderReview(p) THEN overtaken \cup {p} ELSE overtaken
    /\ Touch(p)
    /\ UNCHANGED status

\* Anybody's comment, or a review this tool publishes.
Comment(p) == Touch(p) /\ UNCHANGED <<head, status, overtaken>>

ChangeStatus(p) ==
    /\ \E s \in {"open", "draft", "closed"} \ {status[p]} :
          status' = [status EXCEPT ![p] = s]
    /\ Touch(p)
    /\ UNCHANGED <<head, overtaken>>

ToggleRepo(r) ==
    /\ registered' = IF r \in registered THEN registered \ {r}
                                         ELSE registered \cup {r}
    /\ UNCHANGED <<githubVars, faults, cache, pollVars, taskVars, runVars>>

ClearCache(p) ==
    /\ Reviewed(p)
    /\ cache' = [cache EXCEPT ![p] = NoReview]
    /\ UNCHANGED <<githubVars, faults, registered, pollVars, taskVars, runVars>>

-----------------------------------------------------------------------------
(* The poll loop *)

StartWatcher ==
    /\ ~Running /\ LoopFree
    /\ poll' = "cycle"
    /\ UNCHANGED <<githubVars, faults, registered, cache, todo, listed,
                   current, seen, taskVars, runVars>>

\* Cancels the poll task at whichever await it is; the reviews go on.
StopWatcher ==
    /\ Running /\ LoopFree
    /\ poll' = "off" /\ todo' = {} /\ listed' = {}
    /\ current' = NoPR /\ seen' = NoReview
    /\ UNCHANGED <<githubVars, faults, registered, cache, taskVars, runVars>>

BeginCycle ==
    /\ poll = "cycle" /\ LoopFree
    /\ \/ /\ todo' = registered
          /\ poll' = IF registered = {} THEN "asleep" ELSE "list"
          /\ UNCHANGED faults
       \/ Fault /\ poll' = "asleep" /\ UNCHANGED todo
    /\ UNCHANGED <<githubVars, registered, cache, listed, current, seen,
                   taskVars, runVars>>

\* Where the loop goes when `rest` is left to decide and `repos` to list.
Continue(rest, repos) ==
    /\ poll' = IF rest # {} THEN "deciding"
               ELSE IF repos # {} THEN "list" ELSE "asleep"
    /\ listed' = rest
    /\ current' = NoPR /\ seen' = NoReview

\* list_prs runs in a worker thread; it reads GitHub when it reads it.
ListPRs(r) ==
    LET prs == {[pr |-> p, draft |-> status[p] = "draft", updated |-> updated[p]] :
                   p \in {q \in PR : RepoOf[q] = r /\ status[q] # "closed"}}
    IN
    /\ poll = "list" /\ r \in todo
    /\ todo' = todo \ {r}
    /\ \/ /\ prs # {}
          /\ poll' = "listed" /\ listed' = prs
          /\ UNCHANGED <<current, seen, faults>>
       \/ prs = {} /\ Continue({}, todo \ {r}) /\ UNCHANGED faults
       \/ Fault /\ Continue({}, todo \ {r})
    /\ UNCHANGED <<githubVars, registered, cache, taskVars, runVars>>

\* The loop decides about one listed PR, without an await since the last one.
Deciding(e) ==
    /\ \/ poll = "listed" /\ LoopFree
       \/ poll = "deciding"
    /\ e \in listed

Untouched(e) == e.updated <= cache[e.pr].at

Skip(e) ==
    /\ Deciding(e)
    /\ \/ /\ \/ e.draft
             \/ Reviewed(e.pr) /\ ~Stamped(e.pr)
             \/ Reviewed(e.pr) /\ Untouched(e)
          /\ UNCHANGED faults
       \/ ~e.draft /\ Fault
    /\ Continue(listed \ {e}, todo)
    /\ UNCHANGED <<githubVars, registered, cache, todo, taskVars, runVars>>

\* (a bug to catch: the guard on the registry is dropped)
LaunchUnguarded(p) ==
    /\ \E t \in Task :
          /\ pc[t] = "free"
          /\ pc' = [pc EXCEPT ![t] = "queued"]
          /\ target' = [target EXCEPT ![t] = p]
          /\ waiters' = Append(waiters, t)
    /\ inFlight' = inFlight \cup {p}
    /\ UNCHANGED <<permits, diffOf, headOf>>

Launch(p) ==
    \/ p \in inFlight /\ UNCHANGED <<taskVars, runVars>>
    \/ /\ p \notin inFlight
       /\ \E t \in Task :
             /\ pc[t] = "free"
             /\ pc' = [pc EXCEPT ![t] = "queued"]
             /\ target' = [target EXCEPT ![t] = p]
             /\ waiters' = Append(waiters, t)
       /\ inFlight' = inFlight \cup {p}
       /\ UNCHANGED <<permits, diffOf, headOf>>

LaunchNew(e) ==
    /\ Deciding(e) /\ ~e.draft /\ ~Reviewed(e.pr)
    /\ Launch(e.pr)
    /\ Continue(listed \ {e}, todo)
    /\ UNCHANGED <<githubVars, faults, registered, cache, todo>>

\* get_pr_head_sha runs in a worker thread; the cached review is remembered.
BeginLookup(e) ==
    /\ Deciding(e) /\ ~e.draft /\ Stamped(e.pr) /\ ~Untouched(e)
    /\ poll' = "lookup"
    /\ listed' = listed \ {e}
    /\ current' = e.pr
    /\ seen' = cache[e.pr]
    /\ UNCHANGED <<githubVars, faults, registered, cache, todo, taskVars, runVars>>

\* Up to date, or the lookup failed.
LookupSkips ==
    /\ poll = "lookup" /\ LoopFree
    /\ \/ head[current] = seen.sha /\ UNCHANGED faults
       \/ Fault
    /\ Continue(listed, todo)
    /\ UNCHANGED <<githubVars, registered, cache, todo, taskVars, runVars>>

\* (a bug to catch: any update of the PR counts as new commits)
LookupAlwaysFinds ==
    /\ poll = "lookup"
    /\ poll' = "found"
    /\ UNCHANGED <<githubVars, faults, registered, cache, todo, listed, current,
                   seen, taskVars, runVars>>

\* The lookup has read a head other than the one remembered.
LookupFinds ==
    /\ poll = "lookup" /\ head[current] # seen.sha
    /\ poll' = "found"
    /\ UNCHANGED <<githubVars, faults, registered, cache, todo, listed, current,
                   seen, taskVars, runVars>>

LaunchUpdated ==
    /\ poll = "found" /\ LoopFree
    /\ Launch(current)
    /\ Continue(listed, todo)
    /\ UNCHANGED <<githubVars, faults, registered, cache, todo>>

Wake ==
    /\ poll = "asleep" /\ LoopFree
    /\ poll' = "cycle"
    /\ UNCHANGED <<githubVars, faults, registered, cache, todo, listed, current,
                   seen, taskVars, runVars>>

PollStep ==
    \/ BeginCycle \/ LookupSkips \/ LookupFinds \/ LaunchUpdated \/ Wake
    \/ \E r \in Repo : ListPRs(r)
    \/ \E e \in listed : Skip(e) \/ LaunchNew(e) \/ BeginLookup(e)

-----------------------------------------------------------------------------
(* Review runs *)

\* A task takes a permit and fetches the diff, or fails to and gives it back.
Acquire(t) ==
    /\ LoopFree
    /\ waiters # <<>> /\ Head(waiters) = t
    /\ permits > 0
    /\ waiters' = Tail(waiters)
    /\ \/ /\ permits' = permits - 1
          /\ pc' = [pc EXCEPT ![t] = "diffed"]
          /\ diffOf' = [diffOf EXCEPT ![t] = head[target[t]]]
          /\ UNCHANGED faults
       \/ Fault /\ pc' = [pc EXCEPT ![t] = "done"] /\ UNCHANGED <<permits, diffOf>>
    /\ UNCHANGED <<githubVars, registered, cache, pollVars, inFlight, target, headOf>>

\* A handler runs a full review: get_or_run_review on a miss, rerun, or SSE.
ClientReview(c, p) ==
    /\ LoopFree
    /\ pc[c] = "free"
    /\ pc' = [pc EXCEPT ![c] = "diffed"]
    /\ target' = [target EXCEPT ![c] = p]
    /\ diffOf' = [diffOf EXCEPT ![c] = head[p]]
    /\ UNCHANGED <<githubVars, faults, registered, cache, pollVars, taskVars, headOf>>

\* (a bug to catch: the merged review keeps the SHA of the one it extends)
ClientIncrementalKeepsBase(c, p) ==
    /\ LoopFree
    /\ pc[c] = "free"
    /\ IsStale(p)
    /\ pc' = [pc EXCEPT ![c] = "reviewing"]
    /\ target' = [target EXCEPT ![c] = p]
    /\ diffOf' = [diffOf EXCEPT ![c] = head[p]]
    /\ headOf' = [headOf EXCEPT ![c] = cache[p].sha]
    /\ UNCHANGED <<githubVars, faults, registered, cache, pollVars, taskVars>>

\* incremental_review of a stamped review: the compare diff ends at the head
\* it has looked up, so what it reviews and what it stamps are the same commit.
ClientIncremental(c, p) ==
    /\ LoopFree
    /\ pc[c] = "free"
    /\ IsStale(p)
    /\ pc' = [pc EXCEPT ![c] = "reviewing"]
    /\ target' = [target EXCEPT ![c] = p]
    /\ diffOf' = [diffOf EXCEPT ![c] = head[p]]
    /\ headOf' = [headOf EXCEPT ![c] = head[p]]
    /\ UNCHANGED <<githubVars, faults, registered, cache, pollVars, taskVars>>

\* (a bug to catch: the head is looked up before the diff is fetched)
FetchHeadFirst(r) ==
    /\ pc[r] = "diffed"
    /\ pc' = [pc EXCEPT ![r] = "reviewing"]
    /\ headOf' = [headOf EXCEPT ![r] = diffOf[r]]
    /\ diffOf' = [diffOf EXCEPT ![r] = head[target[r]]]
    /\ UNCHANGED <<githubVars, faults, registered, cache, pollVars, taskVars, target>>

\* stream_review looks the head up after the diff; the AI then runs.
FetchHead(r) ==
    /\ pc[r] = "diffed"
    /\ pc' = [pc EXCEPT ![r] = "reviewing"]
    /\ \/ headOf' = [headOf EXCEPT ![r] = head[target[r]]] /\ UNCHANGED faults
       \/ Fault /\ headOf' = [headOf EXCEPT ![r] = 0]
    /\ UNCHANGED <<githubVars, registered, cache, pollVars, taskVars, target, diffOf>>

\* (bugs to catch: the permit is not released; the task forgets its key)
EndKeepsPermit(r) ==
    /\ pc' = [pc EXCEPT ![r] = IF r \in Task THEN "done" ELSE "free"]
    /\ target' = [target EXCEPT ![r] = IF r \in Task THEN @ ELSE NoPR]
    /\ diffOf' = [diffOf EXCEPT ![r] = 0]
    /\ headOf' = [headOf EXCEPT ![r] = 0]
    /\ UNCHANGED taskVars

EndForgetsKey(r) ==
    /\ pc' = [pc EXCEPT ![r] = IF r \in Task THEN "done" ELSE "free"]
    /\ target' = [target EXCEPT ![r] = NoPR]
    /\ diffOf' = [diffOf EXCEPT ![r] = 0]
    /\ headOf' = [headOf EXCEPT ![r] = 0]
    /\ permits' = IF r \in Task THEN permits + 1 ELSE permits
    /\ UNCHANGED <<inFlight, waiters>>

\* The run ends: a task releases the semaphore but stays registered until its
\* done-callback runs, a request is simply over.
End(r) ==
    /\ pc' = [pc EXCEPT ![r] = IF r \in Task THEN "done" ELSE "free"]
    /\ target' = [target EXCEPT ![r] = IF r \in Task THEN @ ELSE NoPR]
    /\ diffOf' = [diffOf EXCEPT ![r] = 0]
    /\ headOf' = [headOf EXCEPT ![r] = 0]
    /\ permits' = IF r \in Task THEN permits + 1 ELSE permits
    /\ UNCHANGED <<inFlight, waiters>>

Save(r) ==
    /\ pc[r] = "reviewing" /\ LoopFree
    /\ cache' = [cache EXCEPT ![target[r]] = ReviewOf(r)]
    /\ End(r)
    /\ UNCHANGED <<githubVars, faults, registered, pollVars>>

\* The provider raises: nothing is saved.
Fail(r) ==
    /\ pc[r] = "reviewing" /\ LoopFree
    /\ Fault
    /\ End(r)
    /\ UNCHANGED <<githubVars, registered, cache, pollVars>>

\* The browser closes the SSE stream, which cancels the request's review.
Disconnect(c) ==
    /\ pc[c] = "reviewing" /\ LoopFree
    /\ End(c)
    /\ UNCHANGED <<githubVars, faults, registered, cache, pollVars>>

\* (a bug to catch: the key is left in the registry)
TaskDoneLeaks(t) ==
    /\ pc[t] = "done" /\ LoopFree
    /\ pc' = [pc EXCEPT ![t] = "free"]
    /\ target' = [target EXCEPT ![t] = NoPR]
    /\ UNCHANGED <<githubVars, faults, registered, cache, pollVars, taskVars,
                   diffOf, headOf>>

\* The done-callback of _launch_review, scheduled when the task ends.
TaskDone(t) ==
    /\ pc[t] = "done" /\ LoopFree
    /\ inFlight' = inFlight \ {target[t]}
    /\ pc' = [pc EXCEPT ![t] = "free"]
    /\ target' = [target EXCEPT ![t] = NoPR]
    /\ UNCHANGED <<githubVars, faults, registered, cache, pollVars, waiters,
                   permits, diffOf, headOf>>

RunStep(r) == FetchHead(r) \/ Save(r) \/ Fail(r)
TaskStep(t) == Acquire(t) \/ RunStep(t) \/ TaskDone(t)
ClientStep(c) ==
    \/ RunStep(c) \/ Disconnect(c)
    \/ \E p \in PR : ClientReview(c, p) \/ ClientIncremental(c, p)

Environment ==
    \/ Tock
    \/ \E p \in PR : Push(p) \/ Comment(p) \/ ChangeStatus(p) \/ ClearCache(p)
    \/ \E r \in Repo : ToggleRepo(r)

Next ==
    \/ Environment
    \/ StartWatcher \/ StopWatcher \/ PollStep
    \/ \E t \in Task : TaskStep(t)
    \/ \E c \in Client : ClientStep(c)

Spec == Init /\ [][Next]_vars

\* The event loop runs every ready coroutine in turn, but a coroutine can be
\* ready and the loop taken: strong fairness.  The AI CLI ends, or is killed by
\* its inactivity timeout; sleep() returns; gh answers or fails.  Nothing makes
\* a user start, stop or clear anything, or GitHub change.
Fairness ==
    /\ SF_vars(PollStep)
    /\ \A t \in Task : SF_vars(TaskStep(t))
    /\ \A c \in Client : SF_vars(RunStep(c))

FairSpec == Spec /\ Fairness

-----------------------------------------------------------------------------
(* Properties *)

Review == [of : Nat, sha : Nat, at : Nat]
Snapshot == [pr : PR, draft : BOOLEAN, updated : Nat]

SharedTypeOK ==
    /\ head \in [PR -> Sha] /\ updated \in [PR -> Nat]
    /\ status \in [PR -> {"open", "draft", "closed"}]
    /\ clock \in Nat /\ faults \in Nat /\ overtaken \subseteq PR
    /\ registered \subseteq Repo
    /\ cache \in [PR -> Review]

PollTypeOK ==
    /\ poll \in Polls
    /\ todo \subseteq Repo
    /\ listed \subseteq Snapshot
    /\ current \in PR \cup {NoPR}
    /\ seen \in Review
    /\ poll \in {"lookup", "found"} => current \in PR

RunTypeOK ==
    /\ inFlight \subseteq PR /\ waiters \in Seq(Task) /\ permits \in Nat
    /\ pc \in [Run -> PCs]
    /\ target \in [Run -> PR \cup {NoPR}]
    /\ diffOf \in [Run -> Nat] /\ headOf \in [Run -> Nat]
    /\ \A r \in Run : Live(r) => target[r] \in PR

\* Every variable keeps its type, and a lookup or a run under way knows its PR.
TypeOK == SharedTypeOK /\ PollTypeOK /\ RunTypeOK

\* However often the watcher is stopped and restarted over running reviews, and
\* however reviews end, no more than _MAX_CONCURRENT_REVIEWS watcher reviews run,
\* and no permit is lost: the cap does not shrink either.
PermitsAccountForRuns == permits + Cardinality(Holders) = MaxConcurrent

\* _review_tasks is exact: a key is registered if and only if a task for that PR
\* is alive.  A leaked key would keep the PR from ever being reviewed again, a
\* lost one would let a second review of the PR start beside the first.
RegistryIsExact == inFlight = {target[t] : t \in {u \in Task : Live(u)}}

\* Never two watcher reviews of the same PR at once, across stop and start.
OneTaskPerPR ==
    \A t, u \in Task : Live(t) /\ Live(u) /\ target[t] = target[u] => t = u

\* The registry is exact and no PR is reviewed twice at once, whatever is started,
\* stopped or ends: each of the two rests on the other.
RegistryInv == RegistryIsExact /\ OneTaskPerPR

\* A saved review never claims a commit older than the diff it was made from, so
\* the SHA comparison never asks for a re-review of commits it already covers.
StampNotBehindDiff == \A p \in PR : Stamped(p) => cache[p].of <= cache[p].sha

\* The updated_at pre-filter, and the sidebar badge that uses the same test, hide
\* no new commit of a PR never pushed to during a review: a review older than its
\* head looks older than updated_at - unless whatever happened to the PR since the
\* review happened in the second of its save, which updated_at does not tell from
\* before.
PrefilterHidesNoPush ==
    \A p \in PR \ overtaken :
        IsStale(p) => NeedsReviewEstimate(p) \/ updated[p] = Second(cache[p].at)

Launched(p) == p \notin inFlight /\ p \in inFlight'

\* Comment activity alone never triggers a review (it would loop the watcher on
\* the comments it publishes): a PR that was reviewed is queued only when commits
\* were pushed after the review the watcher looked at.
OnlyPushesRetrigger ==
    [][\A p \in PR :
         Launched(p) => ~Reviewed(p) \/ (current = p /\ seen.sha < head[p])]_vars

\* When the watcher is the only one to run reviews, a review of an older commit
\* never replaces the review of a newer one.
ReviewsNeverRegress ==
    [][Client = {} =>
         \A p \in PR : Stamped(p) /\ cache'[p].sha # 0
                          => cache[p].sha <= cache'[p].sha]_vars

Watched(p) == Running /\ RepoOf[p] \in registered /\ status[p] = "open"

\* A PR the watcher goes on watching does not stay without a review.
WatchedPRsGetReviewed ==
    \A p \in PR : <>[]Watched(p) => []<>Reviewed(p)

\* A PR the watcher goes on watching does not stay behind its head (README:
\* "received new commits since its last review"), unless its review has no SHA.
WatchedPRsCatchUp ==
    \A p \in PR :
        <>[](Watched(p) /\ Stamped(p)) => []<>~IsStale(p)

\* A queued review gets its turn and its key is freed, whatever the others do.
QueuedReviewsEnd == \A t \in Task : Live(t) ~> ~Live(t)
=============================================================================
