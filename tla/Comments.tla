----------------------------- MODULE Comments ------------------------------
(***************************************************************************)
(* The comments of one PR and what is new in them.  Each time the page asks*)
(* for the PR (GET /api/pr/...) a worker thread reads when the PR was last *)
(* visited, fetches its comments, marks as new those of others written     *)
(* since, and records the visit.  Others go on writing, the user deletes   *)
(* and answers, and two requests may overlap: the tab and the page both    *)
(* load the comments of a PR just opened.                                  *)
(***************************************************************************)
EXTENDS Naturals, Sequences, FiniteSets

CONSTANTS
    Request,       \* requests that may be open at once
    None,          \* no visit yet
    Tick,          \* clock ticks of one second: GitHub's stamps are whole seconds
    MaxClock,      \* bound: ticks
    MaxComments,   \* bound: comments written
    MaxDeleted,    \* bound: comments deleted
    MaxVisits      \* bound: requests answered

ASSUME CommentsAssumption ==
    /\ Tick \in Nat \ {0}
    /\ MaxClock \in Nat
    /\ MaxComments \in Nat \ {0}                \* one may be there from the start
    /\ MaxDeleted \in Nat
    /\ MaxVisits \in Nat
    /\ None \notin Nat

VARIABLES
    clock,
    comments,   \* all comments written, by id
    deleted,    \* ids of those deleted
    visit,      \* the visits file of the PR: the time of the last visit or None
    reading,    \* the thread of each request
    log         \* answers given, in the order in which visits were recorded

commentVars == <<clock, comments, deleted, visit, reading, log>>

Id == 1..MaxComments
Time == 0..MaxClock
Second(t) == t - (t % Tick)                \* created_at, as GitHub stamps it

(***************************************************************************)
(* Only comments on a line ("review" comments) have replies, to the first  *)
(* of their thread or to one another; parent 0 is none.                    *)
(***************************************************************************)
Comment == [author : {"us", "them"}, kind : {"pr", "review"}, parent : 0..MaxComments, born : Time]

(***************************************************************************)
(* last: the visit read; seen: the comments fetched; upto: how many had    *)
(* been written by then; partial: the comments on lines failed to come and *)
(* count as none.                                                          *)
(***************************************************************************)
NotReading == [pc |-> "idle", last |-> None, seen |-> {}, upto |-> 0, partial |-> FALSE]
Reading == [pc : {"idle", "read", "fetched"}, last : Time \cup {None},
            seen : SUBSET Id, upto : 0..MaxComments, partial : BOOLEAN]

\* A visit before the comments in question, with nothing to see.
Before == [last |-> None, seen |-> {}, upto |-> 0, partial |-> FALSE,
           stamp |-> 0, given |-> FALSE]

\* The PR was opened before or not, and there may be a comment of ours on a line.
CommentsInit ==
    /\ clock = 0
    /\ comments \in {<<>>, <<[author |-> "us", kind |-> "review", parent |-> 0, born |-> 0]>>}
    /\ deleted = {}
    /\ \/ visit = None /\ log = <<>>
       \/ visit = 0 /\ log = <<Before>>
    /\ reading = [r \in Request |-> NotReading]

-----------------------------------------------------------------------------
(* What enrich_comments makes of the comments S and the visit `last`. *)

\* The root of each comment, following replies as far as S has their targets.
RootOf(S) ==
    LET root[c \in S] == IF comments[c].parent \in S THEN root[comments[c].parent] ELSE c
    IN root

Ours(c) == comments[c].author = "us"

(***************************************************************************)
(* created_at is known of the comments on lines only: what gh pr view says *)
(* of the others, and of the texts of reviews, names it otherwise.         *)
(***************************************************************************)
Dated(c) == comments[c].kind = "review"

IsNew(c, last) ==
    /\ last # None
    /\ Dated(c)
    /\ Second(comments[c].born) > last
    /\ ~Ours(c)

NewCommentIds(S, last) == {c \in S : IsNew(c, last)}

\* Mutant: our own replies count too.
NewRepliesOfAll(S, last, root) ==
    {c \in S : /\ RootOf(S)[c] = root /\ c # root
               /\ last # None /\ Dated(c) /\ Second(comments[c].born) > last}

\* Replies of others in the thread of `root`, new since the visit.
NewReplies(S, last, root) ==
    {c \in S : RootOf(S)[c] = root /\ c # root /\ IsNew(c, last)}

IsNewReply(S, last, c) ==
    LET root == RootOf(S)[c] IN Ours(root) /\ c # root /\ IsNew(c, last)

HasNewReplies(S, last, c) ==
    /\ RootOf(S)[c] = c
    /\ Ours(c)
    /\ NewReplies(S, last, c) # {}

-----------------------------------------------------------------------------
(* GitHub and its users, until the last answer of the bound is given. *)

Answers == Len(SelectSeq(log, LAMBDA v : v.given))

Tock ==
    /\ clock < MaxClock
    /\ Answers < MaxVisits
    /\ clock' = clock + 1
    /\ UNCHANGED <<comments, deleted, visit, reading, log>>

Present == DOMAIN comments \ deleted

Write(author, kind, parent) ==
    /\ Len(comments) < MaxComments
    /\ Answers < MaxVisits
    /\ parent # 0 => /\ kind = "review"
                     /\ parent \in Present
                     /\ comments[parent].kind = "review"
    /\ comments' = Append(comments, [author |-> author, kind |-> kind,
                                     parent |-> parent, born |-> clock])
    /\ UNCHANGED <<clock, deleted, visit, reading, log>>

\* The replies keep naming a comment that is gone.
Delete(c) ==
    /\ c \in Present
    /\ Cardinality(deleted) < MaxDeleted
    /\ Answers < MaxVisits
    /\ deleted' = deleted \cup {c}
    /\ UNCHANGED <<clock, comments, visit, reading, log>>

-----------------------------------------------------------------------------
(* get_pr_detail.  An error of gh ends it with nothing recorded. *)

\* The last visit is read (the login before it is asked for once and cached).
Begin(r) ==
    /\ reading[r].pc = "idle"
    /\ Answers < MaxVisits
    /\ reading' = [reading EXCEPT ![r] = [NotReading EXCEPT !.pc = "read", !.last = visit]]
    /\ UNCHANGED <<clock, comments, deleted, visit, log>>

\* get_comments makes two calls; an error of the second is no error of the whole.
FetchComments(r) ==
    /\ reading[r].pc = "read"
    /\ \E partial \in BOOLEAN :
          reading' = [reading EXCEPT ![r] =
                    [@ EXCEPT !.pc = "fetched",
                              !.seen = {c \in Present : partial => comments[c].kind = "pr"},
                              !.upto = Len(comments),
                              !.partial = partial]]
    /\ UNCHANGED <<clock, comments, deleted, visit, log>>

\* Mutant: the visit is recorded although the comments did not come.
FetchFailsVisited(r) ==
    /\ reading[r].pc = "read"
    /\ visit' = clock
    /\ reading' = [reading EXCEPT ![r] = NotReading]
    /\ UNCHANGED <<clock, comments, deleted, log>>

FetchFails(r) ==
    /\ reading[r].pc = "read"
    /\ reading' = [reading EXCEPT ![r] = NotReading]
    /\ UNCHANGED <<clock, comments, deleted, visit, log>>

Visit(r) == [last |-> reading[r].last, seen |-> reading[r].seen, upto |-> reading[r].upto,
             partial |-> reading[r].partial, stamp |-> clock, given |-> TRUE]

\* The visit is recorded and the answer given.
SetLastVisited(r) ==
    /\ reading[r].pc = "fetched"
    /\ visit' = clock
    /\ log' = Append(log, Visit(r))
    /\ reading' = [reading EXCEPT ![r] = NotReading]
    /\ UNCHANGED <<clock, comments, deleted>>

CommentsNext ==
    \/ Tock
    \/ \E a \in {"us", "them"}, k \in {"pr", "review"}, p \in 0..MaxComments : Write(a, k, p)
    \/ \E c \in Id : Delete(c)
    \/ \E r \in Request : Begin(r) \/ FetchComments(r) \/ FetchFails(r) \/ SetLastVisited(r)

CommentsSpec == CommentsInit /\ [][CommentsNext]_commentVars

-----------------------------------------------------------------------------

CommentsTypeOK ==
    /\ clock \in Time
    /\ comments \in Seq(Comment) /\ Len(comments) <= MaxComments
    /\ \A c \in DOMAIN comments : comments[c].parent < c
    /\ deleted \subseteq DOMAIN comments
    /\ visit \in Time \cup {None}
    /\ reading \in [Request -> Reading]
    /\ \A n \in DOMAIN log : log[n].seen \subseteq DOMAIN comments

New(v) == NewCommentIds(v.seen, v.last)

(***************************************************************************)
(* A comment on a line, by another user, that an answer does not mark as   *)
(* new was in the answer whose visit it is compared with, or that answer   *)
(* could not have it: it was written after the fetch and no later than the *)
(* second in which the visit was recorded, or the comments on lines failed *)
(* to come.  A comment on the PR, or the text of a review, is never marked:*)
(* its date is lost.                                                       *)
(***************************************************************************)
UnmarkedIsExplained ==
    \A n \in DOMAIN log : log[n].last # None =>
        \A c \in log[n].seen \ New(log[n]) : Ours(c) \/ ~Dated(c) \/
            \E k \in 1..(n - 1) :
                /\ log[k].stamp = log[n].last
                /\ \/ c \in log[k].seen
                   \/ /\ c > log[k].upto
                      /\ Second(comments[c].born) <= log[k].stamp
                   \/ log[k].partial

(***************************************************************************)
(* A comment is marked as new by one answer only, unless both had read the *)
(* last visit before either recorded its own.                              *)
(***************************************************************************)
MarkedOnce ==
    \A n, k \in DOMAIN log : k < n /\ New(log[n]) \cap New(log[k]) # {} =>
        log[n].last # None /\ log[n].last < log[k].stamp

(***************************************************************************)
(* Over any sequence of visits, overlapping ones included, each comment on *)
(* a line, by another user, is marked as new once, but for what is named   *)
(* above; and every variable keeps its type.                               *)
(***************************************************************************)
NewOnce == CommentsTypeOK /\ UnmarkedIsExplained /\ MarkedOnce

(***************************************************************************)
(* The dot on a thread of ours and the marks on its replies agree, and a   *)
(* reply marked so is among the new comments counted on the tab.           *)
(***************************************************************************)
ThreadTellsReplies ==
    \A n \in DOMAIN log :
        LET S == log[n].seen
            last == log[n].last
        IN /\ \A c \in S : IsNewReply(S, last, c) =>
                 c \in New(log[n]) /\ HasNewReplies(S, last, RootOf(S)[c])
           /\ \A c \in S : HasNewReplies(S, last, c) =>
                 \E d \in S : d # c /\ RootOf(S)[d] = c /\ IsNewReply(S, last, d)
=============================================================================
