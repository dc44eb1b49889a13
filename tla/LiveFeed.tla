------------------------------- MODULE LiveFeed -------------------------------
(***************************************************************************)
(* The events of the live review watcher on their way to one page: the     *)
(* ring the backend keeps them in (live_review_service.py), the stream     *)
(* that polls it and the endpoint that answers with its end (main.py), and *)
(* what the page makes of both: the feed, the toasts and the status        *)
(* (stores/liveReview.ts), and the refreshes of the badges                 *)
(* (stores/reviewStatus.ts).  The connection breaks and is opened again by *)
(* the browser; a restart of the backend counts events from 1 again.       *)
(* Every event here is one that is worth a toast and a refresh.            *)
(***************************************************************************)
EXTENDS Naturals, Sequences, FiniteSets, SequencesExt, Lists

CONSTANTS
    Capacity,      \* events the ring holds
    Limit,         \* events an answer, or a tick of the stream, holds at most
    FeedCap,       \* events the feed holds
    NoStatus,
    MaxEvents,     \* bound: events of one run of the backend
    MaxChanges,    \* bound: changes of the watcher's status
    MaxFaults      \* bound: broken connections, restarts and reloads of the page

ASSUME FeedAssumption ==
    /\ Capacity \in Nat /\ Limit \in 1 .. Capacity
    /\ FeedCap \in Nat \ {0}
    /\ MaxEvents \in Nat /\ MaxChanges \in Nat /\ MaxFaults \in Nat
    /\ NoStatus \notin Nat

VARIABLES
    boot, last,    \* the run of the backend and the number of its last event
    status,        \* the watcher's status, as the number of its last change
    stream,        \* the connection: server side, and what is under way in it
    backfill,      \* the request for the events so far, and its answer
    feed,          \* the events the page shows
    told,          \* the status the page shows
    toasts,        \* the events the page has shown a toast for
    badges,        \* lastSeenSeq, and the last event when the badges were last asked for
    opened,        \* the run of the backend when the page was loaded
    owed,          \* events emitted while the stream is up and not on the page yet
    stale,         \* whether an answer put back a status older than the one shown
    faults

server == <<boot, last, status>>
page == <<feed, told, toasts, badges, stale>>
vars == <<server, stream, backfill, page, opened, owed, faults>>

Event(b, n) == [boot |-> b, seq |-> n]
EventSet == [boot : 0 .. MaxFaults, seq : 1 .. MaxEvents]

EventItem(e) == [event |-> {e}, status |-> NoStatus]
StatusItem(s) == [event |-> {}, status |-> s]

Down == [up |-> FALSE, sent |-> 0, batch |-> <<>>, due |-> FALSE, said |-> NoStatus, wire |-> <<>>]
NoRequest == [answered |-> FALSE, events |-> <<>>, status |-> NoStatus]

\* A page that has just been loaded asks for the badges at once.
Loaded == [seen |-> 0, asked |-> Event(boot, last)]

Init ==
    /\ boot = 0 /\ last = 0 /\ status = 0
    /\ stream = Down
    /\ backfill = NoRequest
    /\ feed = <<>> /\ told = NoStatus /\ toasts = <<>>
    /\ badges = Loaded
    /\ opened = 0 /\ owed = {} /\ stale = FALSE
    /\ faults = 0

-----------------------------------------------------------------------------
(* The backend *)

LastOf(events, n) ==
    IF Len(events) > n THEN SubSeq(events, Len(events) - n + 1, Len(events)) ELSE events

Ring == LastOf([n \in 1 .. last |-> Event(boot, n)], Capacity)

\* Mutant: the event after the last one sent is taken for sent.
EventsAfterNext(after) == LastOf(LastOf(Ring, last - after - 1), Limit)

\* Those with a later number, which are the last ones of the ring, as it holds events
\* in the order of their numbers; of them the newest, oldest first.
EventsAfter(after) == LastOf(LastOf(Ring, last - after), Limit)

Emit ==
    /\ last < MaxEvents
    /\ last' = last + 1
    /\ owed' = IF stream.up THEN owed \cup {Event(boot, last')} ELSE owed
    /\ UNCHANGED <<boot, status, stream, backfill, page, opened, faults>>

ChangeStatus ==
    /\ status < MaxChanges
    /\ status' = status + 1
    /\ UNCHANGED <<boot, last, stream, backfill, page, opened, owed, faults>>

-----------------------------------------------------------------------------
(* The stream *)

\* A stream begins with what is emitted from then on; so does one opened again.
Connect ==
    /\ ~stream.up
    /\ stream' = [Down EXCEPT !.up = TRUE, !.sent = last]
    /\ UNCHANGED <<server, backfill, page, opened, owed, faults>>

\* A tick; what is not among the newest ones will never be sent.
Poll ==
    LET batch == EventsAfter(stream.sent) IN
    /\ stream.up /\ ~stream.due
    /\ batch # <<>> \/ status # stream.said
    /\ stream' = [stream EXCEPT !.batch = batch, !.due = TRUE,
                                !.sent = IF batch = <<>> THEN @ ELSE Last(batch).seq]
    /\ owed' = {e \in owed : e.seq <= stream.sent \/ e \in ToSet(batch)}
    /\ UNCHANGED <<server, backfill, page, opened, faults>>

\* Mutant: when a batch is through, everything counts as sent.
YieldAndSkip ==
    /\ stream.batch # <<>>
    /\ stream' = [stream EXCEPT !.batch = Tail(@), !.wire = Append(@, EventItem(Head(stream.batch))),
                                !.sent = IF Len(stream.batch) = 1 THEN last ELSE @]
    /\ UNCHANGED <<server, backfill, page, opened, owed, faults>>

Yield ==
    /\ stream.batch # <<>>
    /\ stream' = [stream EXCEPT !.batch = Tail(@), !.wire = Append(@, EventItem(Head(stream.batch)))]
    /\ UNCHANGED <<server, backfill, page, opened, owed, faults>>

\* After the events of a tick the status, if it is not the one last sent.
YieldStatus ==
    /\ stream.due /\ stream.batch = <<>>
    /\ stream' = [stream EXCEPT !.due = FALSE, !.said = status,
                     !.wire = IF status = stream.said THEN @ ELSE Append(@, StatusItem(status))]
    /\ UNCHANGED <<server, backfill, page, opened, owed, faults>>

-----------------------------------------------------------------------------
(* The page *)

\* Events whose number is not in the feed come behind it.
Appended(events) ==
    LET unseen == {e \in ToSet(events) : \A i \in DOMAIN feed : feed[i].seq # e.seq}
    IN LastOf(feed \o Only(events, unseen), FeedCap)

\* Mutant: what is new is decided after it has been appended.
IsNewAfterwards(e) == e.seq > Last(Appended(<<e>>)).seq

IsNew(e) == feed = <<>> \/ e.seq > Last(feed).seq

\* Mutant: the badges are asked for when the feed grows.
RefreshedOnGrowth(list) ==
    IF Len(list) > Len(feed)
    THEN [seen |-> Last(list).seq, asked |-> Event(boot, last)] ELSE badges

\* The feed changes: the badges are asked for again if it holds a later event than
\* any seen so far.
Refreshed(list) ==
    LET fresh == Only(list, {e \in ToSet(list) : e.seq > badges.seen})
    IN IF fresh = <<>> THEN badges ELSE [seen |-> Last(fresh).seq, asked |-> Event(boot, last)]

Show(events) ==
    /\ feed' = Appended(events)
    /\ badges' = Refreshed(feed')
    /\ owed' = owed \ ToSet(feed')

ReceiveEvent ==
    /\ stream.wire # <<>>
    /\ \E e \in Head(stream.wire).event :
          /\ toasts' = IF IsNew(e) THEN Append(toasts, e) ELSE toasts
          /\ Show(<<e>>)
    /\ stream' = [stream EXCEPT !.wire = Tail(@)]
    /\ UNCHANGED <<server, backfill, told, stale, opened, faults>>

ReceiveStatus ==
    /\ stream.wire # <<>> /\ Head(stream.wire).event = {}
    /\ told' = Head(stream.wire).status
    /\ stale' = FALSE
    /\ stream' = [stream EXCEPT !.wire = Tail(@)]
    /\ UNCHANGED <<server, backfill, feed, toasts, badges, opened, owed, faults>>

\* The app and each visit of the Live Review page ask for the events so far; the
\* answer is what they are when the backend gets to it.
AnswerBackfill ==
    /\ ~backfill.answered
    /\ backfill' = [answered |-> TRUE, events |-> EventsAfter(0), status |-> status]
    /\ UNCHANGED <<server, stream, page, opened, owed, faults>>

TakeBackfill ==
    /\ backfill.answered
    /\ IF backfill.events = <<>> THEN UNCHANGED <<feed, badges, owed>> ELSE Show(backfill.events)
    /\ told' = backfill.status
    /\ stale' = (stale \/ (told # NoStatus /\ backfill.status < told))
    /\ backfill' = NoRequest
    /\ UNCHANGED <<server, stream, toasts, opened, faults>>

-----------------------------------------------------------------------------
(* What goes wrong *)

\* The connection breaks; the request for the events so far may fail with it.
Break ==
    /\ faults < MaxFaults /\ faults' = faults + 1
    /\ stream.up \/ backfill.answered
    /\ stream' = Down /\ owed' = {}
    /\ backfill' \in {backfill, NoRequest}
    /\ UNCHANGED <<server, page, opened>>

Restart ==
    /\ faults < MaxFaults /\ faults' = faults + 1
    /\ boot' = boot + 1 /\ last' = 0
    /\ \E s \in status .. status + 1 : s <= MaxChanges /\ status' = s
    /\ stream' = Down /\ owed' = {}
    /\ backfill' = NoRequest
    /\ UNCHANGED <<page, opened>>

Reload ==
    /\ faults < MaxFaults /\ faults' = faults + 1
    /\ feed' = <<>> /\ told' = NoStatus /\ toasts' = <<>> /\ badges' = Loaded /\ stale' = FALSE
    /\ opened' = boot
    /\ stream' = Down /\ owed' = {}
    /\ backfill' = NoRequest
    /\ UNCHANGED server

StreamStep == Poll \/ Yield \/ YieldStatus
PageStep == ReceiveEvent \/ ReceiveStatus

Next ==
    \/ Emit \/ ChangeStatus
    \/ Connect \/ StreamStep \/ PageStep
    \/ AnswerBackfill \/ TakeBackfill
    \/ Break \/ Restart \/ Reload

Spec == Init /\ [][Next]_vars

\* The stream's loop ticks, what it sends arrives unless the connection breaks, and
\* the browser opens it again.
Fairness == WF_vars(Connect) /\ WF_vars(StreamStep) /\ WF_vars(PageStep)

FairSpec == Spec /\ Fairness

-----------------------------------------------------------------------------
(* Properties *)

Status == 0 .. MaxChanges
Events == Seq(EventSet)

\* Every variable keeps its type and the feed its limit.
TypeOK ==
    /\ boot \in 0 .. MaxFaults /\ last \in 0 .. MaxEvents /\ status \in Status
    /\ stream.up \in BOOLEAN /\ stream.due \in BOOLEAN
    /\ stream.sent \in 0 .. MaxEvents /\ stream.said \in Status \cup {NoStatus}
    /\ stream.batch \in Events
    /\ \A i \in DOMAIN stream.wire :
          \/ stream.wire[i].event = {} /\ stream.wire[i].status \in Status
          \/ \E e \in EventSet : stream.wire[i] = EventItem(e)
    /\ ~stream.up => stream = Down
    /\ backfill.answered \in BOOLEAN /\ backfill.events \in Events
    /\ feed \in Events /\ Len(feed) <= FeedCap
    /\ told \in Status \cup {NoStatus} /\ toasts \in Events
    /\ badges.seen \in 0 .. MaxEvents
    /\ opened \in 0 .. boot /\ owed \subseteq EventSet /\ stale \in BOOLEAN
    /\ faults \in 0 .. MaxFaults

\* No two rows of the feed have one number, by which the page keys them.
FeedKeysUnique ==
    \A i, j \in DOMAIN feed : feed[i].seq = feed[j].seq => i = j

ThisRun(e) == e.boot = opened

UnderWay(e) ==
    \/ e.seq > stream.sent
    \/ e \in ToSet(stream.batch)
    \/ EventItem(e) \in ToSet(stream.wire)

\* An event emitted while the stream is up is on its way to the page until it is
\* shown, unless so many follow within a tick that it is not among the newest ones;
\* the backend has not been restarted since the page was loaded.
NoneLost == \A e \in owed : ThisRun(e) => UnderWay(e)

\* No event gets a second toast, however often the connection breaks and whatever
\* the events so far are asked for in between.
ToastedOnce == \A i, j \in DOMAIN toasts : toasts[i] = toasts[j] => i = j

\* What the stream owes the page reaches it, in one row and with one toast; and every
\* variable keeps its type.
ShownOnce == TypeOK /\ FeedKeysUnique /\ NoneLost /\ ToastedOnce

\* The stream brings an event that gets no toast only if the page has it already,
\* or had it (the feed is full, or the request brought later ones only), or the
\* backend was restarted ("toasts for auto-triggered reviews fire even while the
\* user is on another view").
NoToastIsExplained ==
    [][\A e \in EventSet :
          /\ stream.wire # <<>> /\ stream'.up /\ stream'.wire = Tail(stream.wire)
          /\ Head(stream.wire).event = {e} /\ ThisRun(e) /\ e \notin ToSet(toasts')
          => \/ e \in ToSet(feed)
             \/ Len(feed) = FeedCap
             \/ last - e.seq >= Limit]_vars

\* The badges have been asked for since each event in the feed was emitted
\* ("Refreshed ... promptly whenever the watcher triggers or finishes a review"),
\* the backend not having been restarted since the page was loaded.
BadgesFollowFeed ==
    \A e \in ToSet(feed) : ThisRun(e) =>
        badges.asked.boot > e.boot \/ badges.asked.seq >= e.seq

\* When nothing is under way the page shows the watcher's status, unless an answer
\* that was overtaken by the stream has put back an older one.
StatusIsShown ==
    stream.up /\ ~stream.due /\ stream.said = status /\ stream.wire = <<>> /\ ~stale =>
        told = status

\* The badges and the status of the page follow the watcher.
PageFollows == BadgesFollowFeed /\ StatusIsShown

\* Time and again the stream owes the page nothing: what is emitted while it is up is
\* shown, or passed over for later events, the backend not having been restarted since
\* the page was loaded (the page takes a later run's numbers for ones it has).
OwedAreShown == []<>(\A e \in owed : ~ThisRun(e))

=============================================================================
