------------------------------ MODULE ReviewQueue ------------------------------
(***************************************************************************)
(* Reviews in the browser: the session of each PR and the event stream     *)
(* that feeds it (stores/reviewSessions.ts, lib/sse.ts), and the queue     *)
(* that starts sessions under a cap (stores/reviewQueue.ts).               *)
(*                                                                         *)
(* JavaScript runs one turn at a time, but a turn is no atomic step here:  *)
(* setting a Svelte store runs its subscribers at once, inside the update  *)
(* of another store if need be, and one of the subscribers starts          *)
(* reviews.  `stack` holds the calls under way, innermost last.            *)
(***************************************************************************)
EXTENDS Naturals, Sequences, FiniteSets, SequencesExt

CONSTANTS
    Key,       \* pull requests
    Caps,      \* values the setting review_max_concurrency takes
    NoStream,  \* a session without an event stream
    MaxOrphans, \* bound: event streams open beside those of the sessions
    MaxAsked    \* bound: requests under way at once, event streams apart

ASSUME CapsAssumption == Caps # {} /\ Caps \subseteq Nat \ {0}

\* A page lists finitely many PRs; event streams are numbered.
ASSUME KeyAssumption == IsFiniteSet(Key)
ASSUME StreamAssumption == NoStream \notin Nat

ASSUME BoundsAssumption == MaxOrphans \in Nat /\ MaxAsked \in Nat \ {0}

VARIABLES
    session,    \* the session of each PR: status, stream, who started its running review
    streams,    \* the event sources that are open
    queue,      \* pending PRs, and the ones the queue has started
    cap,        \* concurrency
    stack,      \* the calls under way
    notices,    \* subscribers that wait to be told (subscriber_queue)
    fetching,   \* PRs whose cached review is being fetched
    posting     \* PRs with an incremental review under way

askVars == <<fetching, posting>>
vars == <<session, streams, queue, cap, stack, notices, askVars>>

NoSession == [status |-> "none", stream |-> NoStream, by |-> "nobody"]

Running(k) == session[k].status = "running"
Idle == stack = <<>>
Top == Last(stack)
Return == stack' = Front(stack)

StreamsOf(k) == {s \in streams : s.key = k}

\* A number for a new event source of k.
Fresh(k) ==
    CHOOSE n \in 1 .. Cardinality(streams) + 1 : \A s \in StreamsOf(k) : s.id # n

Init ==
    /\ session = [k \in Key |-> NoSession]
    /\ streams = {}
    /\ queue = [items |-> <<>>, running |-> {}]
    /\ cap \in Caps
    /\ stack = <<>> /\ notices = 0
    /\ fetching = {} /\ posting = {}

-----------------------------------------------------------------------------
(* Stores and their subscribers *)

Call(name) == [call |-> name, items |-> <<>>, running |-> {}]

\* reviewSessions is set: its subscribers are told now, by this call, unless a
\* call further out is telling subscribers already.
Notify(calls) ==
    /\ notices' = notices + 1
    /\ stack' = IF \E i \in DOMAIN calls : calls[i].call = "tell"
                THEN calls ELSE Append(calls, Call("tell"))

\* (a bug to catch: reviews that have ended keep their slots)
PumpUnpruned(q) == [call |-> "pump", items |-> q.items, running |-> q.running]

\* pump works on a copy of the queue.
Pump(q) ==
    [call |-> "pump", items |-> q.items, running |-> {k \in q.running : Running(k)}]

\* The subscriber of reviewQueue.ts.
Tell ==
    /\ ~Idle /\ Top.call = "tell" /\ notices > 0
    /\ notices' = notices - 1
    /\ stack' = IF queue.items = <<>> /\ queue.running = {} THEN stack
                ELSE Append(stack, Pump(queue))
    /\ UNCHANGED <<session, streams, queue, cap, askVars>>

Told ==
    /\ ~Idle /\ Top.call = "tell" /\ notices = 0
    /\ Return
    /\ UNCHANGED <<session, streams, queue, cap, notices, askVars>>

-----------------------------------------------------------------------------
(* Sessions *)

\* startReview closes the stream of the session it replaces and opens another.
Start(k, who) ==
    /\ streams' = {s \in streams : s.key # k \/ s.id # session[k].stream}
                  \cup {[key |-> k, id |-> Fresh(k), over |-> FALSE]}
    /\ session' = [session EXCEPT ![k] = [status |-> "running", stream |-> Fresh(k), by |-> who]]

\* stopReview, of a running review.
Stop(k) ==
    /\ streams' = {s \in streams : s.key # k \/ s.id # session[k].stream}
    /\ session' = [session EXCEPT ![k] = NoSession]

\* patchSession, when a review ends: nothing happens to a session that is gone.
\* A session whose stream is closed counts as one without a stream.
Patch(k, what, closed) ==
    session' =
        IF session[k] = NoSession THEN session
        ELSE [session EXCEPT ![k].status = what,
                             ![k].stream = IF @ \in closed THEN NoStream ELSE @,
                             ![k].by = "nobody"]

\* The buttons of a PR: Run or Re-run when no review is running, Stop when one is.
StartReview(k) ==
    /\ Idle /\ ~Running(k)
    /\ Start(k, "user")
    /\ Notify(<<>>)
    /\ UNCHANGED <<queue, cap, askVars>>

StopReview(k) ==
    /\ Idle /\ Running(k)
    /\ Stop(k)
    /\ Notify(<<>>)
    /\ UNCHANGED <<queue, cap, askVars>>

\* handleEvent, for the events that come before the result ...
Chunk(s) ==
    /\ Idle /\ ~s.over
    /\ Notify(<<>>)
    /\ UNCHANGED <<session, streams, queue, cap, askVars>>

\* ... the result ...
Result(s) ==
    /\ Idle /\ ~s.over
    /\ Patch(s.key, "done", {})
    /\ streams' = (streams \ {s}) \cup {[s EXCEPT !.over = TRUE]}
    /\ Notify(<<>>)
    /\ UNCHANGED <<queue, cap, askVars>>

\* ... `done`, which closes the stream and may come without a result ...
Done(s) ==
    /\ Idle
    /\ Patch(s.key, IF session[s.key].status = "error" THEN "error" ELSE "done", {s.id})
    /\ streams' = streams \ {s}
    /\ Notify(<<>>)
    /\ UNCHANGED <<queue, cap, askVars>>

\* (a bug to catch: the session is not told)
ErrorUntold(s) ==
    /\ Idle
    /\ streams' = streams \ {s}
    /\ UNCHANGED <<session, queue, cap, stack, notices, askVars>>

\* ... and `error`, from the server or because the connection is lost.
Error(s) ==
    /\ Idle
    /\ Patch(s.key, "error", {s.id})
    /\ streams' = streams \ {s}
    /\ Notify(<<>>)
    /\ UNCHANGED <<queue, cap, askVars>>

Orphans == {s \in streams : s.id # session[s.key].stream}

MayOrphan(k) ==
    Running(k) \/ session[k].stream = NoStream \/ Cardinality(Orphans) < MaxOrphans

MayAsk == Cardinality(fetching) + Cardinality(posting) < MaxAsked

\* hydrateReview: opening a PR fetches its cached review ...
Open(k) ==
    /\ Idle /\ ~Running(k) /\ k \notin fetching /\ MayAsk
    /\ fetching' = fetching \cup {k}
    /\ UNCHANGED <<session, streams, queue, cap, stack, notices, posting>>

\* (a bug to catch: a review started meanwhile is not looked for)
HydrateBlindly(k) ==
    /\ Idle /\ k \in fetching /\ MayOrphan(k)
    /\ fetching' = fetching \ {k}
    /\ session' = [session EXCEPT ![k] = [NoSession EXCEPT !.status = "done"]]
    /\ Notify(<<>>)
    /\ UNCHANGED <<streams, queue, cap, posting>>

\* ... which becomes the session, unless a review is running by then ...
Hydrate(k) ==
    /\ Idle /\ k \in fetching /\ MayOrphan(k)
    /\ fetching' = fetching \ {k}
    /\ session' = IF Running(k) THEN session
                  ELSE [session EXCEPT ![k] = [NoSession EXCEPT !.status = "done"]]
    /\ Notify(<<>>)
    /\ UNCHANGED <<streams, queue, cap, posting>>

\* ... if there is one.
HydrateNothing(k) ==
    /\ Idle /\ k \in fetching
    /\ fetching' = fetching \ {k}
    /\ UNCHANGED <<session, streams, queue, cap, stack, notices, posting>>

\* hydrateRepoReviews, when its answer comes.
HydrateRepo ==
    /\ Idle
    /\ \E cached \in SUBSET Key :
          session' = [k \in Key |-> IF k \in cached /\ session[k] = NoSession
                                    THEN [NoSession EXCEPT !.status = "done"]
                                    ELSE session[k]]
    /\ Notify(<<>>)
    /\ UNCHANGED <<streams, queue, cap, askVars>>

\* runIncrementalReview: a request that goes on while the PR can be re-run.
Increment(k) ==
    /\ Idle /\ session[k].status = "done" /\ k \notin posting /\ MayAsk
    /\ posting' = posting \cup {k}
    /\ UNCHANGED <<session, streams, queue, cap, stack, notices, fetching>>

\* Its result is folded into whatever session there is.
Incremented(k) ==
    /\ Idle /\ k \in posting
    /\ posting' = posting \ {k}
    /\ session' = [session EXCEPT ![k].status = "done", ![k].by = "nobody"]
    /\ Notify(<<>>)
    /\ UNCHANGED <<streams, queue, cap, fetching>>

IncrementFails(k) ==
    /\ Idle /\ k \in posting
    /\ posting' = posting \ {k}
    /\ UNCHANGED <<session, streams, queue, cap, stack, notices, fetching>>

-----------------------------------------------------------------------------
(* The queue *)

\* (a bug to catch: the pending ones are replaced)
EnqueueInstead(chosen) ==
    /\ Idle
    /\ \E fresh \in SetToSeqs(chosen \ (ToSet(queue.items) \cup queue.running)) :
          queue' = [queue EXCEPT !.items = fresh]
    /\ stack' = <<Pump(queue')>>
    /\ UNCHANGED <<session, streams, cap, notices, askVars>>

\* enqueueReviews: the chosen PRs the queue does not know of, then a pump.
Enqueue(chosen) ==
    /\ Idle
    /\ \E fresh \in SetToSeqs(chosen \ (ToSet(queue.items) \cup queue.running)) :
          queue' = [queue EXCEPT !.items = @ \o fresh]
    /\ stack' = <<Pump(queue')>>
    /\ UNCHANGED <<session, streams, cap, notices, askVars>>

\* The settings are loaded or saved; their subscribers are being told.
SetCap ==
    /\ Idle
    /\ cap' \in Caps
    /\ stack' = <<Call("tell"), Pump(queue)>>
    /\ UNCHANGED <<session, streams, queue, notices, askVars>>

Stopping == \E i \in DOMAIN stack : stack[i].call = "stop"

\* In whose name a pump starts a review.
Starter == IF Stopping THEN "stopped queue" ELSE "queue"

\* (a bug to catch: one review too many)
PumpOneMore ==
    /\ ~Idle /\ Top.call = "pump" /\ Top.items # <<>>
    /\ Cardinality(Top.running) <= cap
    /\ LET k == Head(Top.items) IN
          /\ Start(k, Starter)
          /\ Notify([stack EXCEPT ![Len(stack)].items = Tail(@),
                                  ![Len(stack)].running = @ \cup {k}])
    /\ UNCHANGED <<queue, cap, askVars>>

\* A slot is free: pump starts the next review, and the subscribers of the
\* sessions are told before it goes on, while the queue is still the old one.
PumpNext ==
    /\ ~Idle /\ Top.call = "pump" /\ Top.items # <<>>
    /\ Cardinality(Top.running) < cap
    /\ LET k == Head(Top.items) IN
          /\ Start(k, Starter)
          /\ Notify([stack EXCEPT ![Len(stack)].items = Tail(@),
                                  ![Len(stack)].running = @ \cup {k}])
    /\ UNCHANGED <<queue, cap, askVars>>

PumpReturns ==
    /\ ~Idle /\ Top.call = "pump"
    /\ Top.items = <<>> \/ Cardinality(Top.running) >= cap
    /\ queue' = [items |-> Top.items, running |-> Top.running]
    /\ Return
    /\ UNCHANGED <<session, streams, cap, notices, askVars>>

\* stopQueue: the reviews the queue has started are stopped one after the other ...
StopQueue ==
    /\ Idle
    /\ queue.items # <<>> \/ queue.running # {}
    /\ stack' = <<[Call("stop") EXCEPT !.running = queue.running]>>
    /\ UNCHANGED <<session, streams, queue, cap, notices, askVars>>

StopNext ==
    /\ ~Idle /\ Top.call = "stop"
    /\ \E k \in Top.running :
          LET calls == [stack EXCEPT ![Len(stack)].running = @ \ {k}] IN
          IF Running(k)
          THEN Stop(k) /\ Notify(calls)
          ELSE stack' = calls /\ UNCHANGED <<session, streams, notices>>
    /\ UNCHANGED <<queue, cap, askVars>>

\* ... and then the queue is emptied.
StopReturns ==
    /\ ~Idle /\ Top.call = "stop" /\ Top.running = {}
    /\ queue' = [items |-> <<>>, running |-> {}]
    /\ Return
    /\ UNCHANGED <<session, streams, cap, notices, askVars>>

-----------------------------------------------------------------------------

Turn == Tell \/ Told \/ PumpNext \/ PumpReturns \/ StopNext \/ StopReturns

StreamEnds(k) == \E s \in StreamsOf(k) : Result(s) \/ Done(s) \/ Error(s)

User ==
    \/ \E k \in Key : StartReview(k) \/ StopReview(k) \/ Open(k) \/ Increment(k)
    \/ \E chosen \in (SUBSET Key) \ {{}} : Enqueue(chosen)
    \/ StopQueue \/ SetCap

Server ==
    \/ \E s \in streams : Chunk(s)
    \/ HydrateRepo
    \/ \E k \in Key : \/ StreamEnds(k)
                      \/ Hydrate(k) \/ HydrateNothing(k)
                      \/ Incremented(k) \/ IncrementFails(k)

Next == Turn \/ User \/ Server

Spec == Init /\ [][Next]_vars

\* A turn runs to its end, and every stream comes to its end, whatever else keeps
\* happening in the browser.
Fairness ==
    /\ WF_vars(Turn)
    /\ \A k \in Key : SF_vars(StreamEnds(k))

FairSpec == Spec /\ Fairness

-----------------------------------------------------------------------------
(* Properties *)

Stream == [key : Key, id : Nat \ {0}, over : BOOLEAN]
Session == [status : {"none", "running", "done", "error"},
            stream : Nat \cup {NoStream}, by : {"nobody", "user", "queue", "stopped queue"}]
Frame == [call : {"tell", "pump", "stop"}, items : Seq(Key), running : SUBSET Key]

\* Every variable keeps its type, a running session has a stream, and somebody is
\* telling subscribers as long as some wait.
TypeOK ==
    /\ session \in [Key -> Session]
    /\ \A k \in Key : Running(k) => session[k].stream # NoStream
    /\ streams \subseteq Stream
    /\ queue \in [items : Seq(Key), running : SUBSET Key]
    /\ cap \in Caps
    /\ stack \in Seq(Frame) /\ notices \in Nat
    /\ notices > 0 => \E i \in DOMAIN stack : stack[i].call = "tell"
    /\ fetching \subseteq Key /\ posting \subseteq Key

Live(s) == s \in streams /\ ~s.over
Shown(s) == Running(s.key) /\ session[s.key].stream = s.id

\* A review shown to be running has a live event stream, whatever was started,
\* stopped, fetched or lost: without one it would be shown to run for ever.
RunningIsConnected ==
    \A k \in Key : Running(k) => \E s \in StreamsOf(k) : Live(s) /\ Shown(s)

\* And while the AI is at work for a session, the session shows it: a live stream
\* stays that of a running review until it ends or is closed.  Two things end the
\* session too early: an incremental review that ends over a running one, and the
\* last events of another stream of the PR, whose session was replaced by a cached
\* review while it was open.
LiveStaysShown ==
    [][\A s \in streams :
          Live(s) /\ Shown(s) /\ Live(s)' =>
              \/ Shown(s)'
              \/ s.key \in posting \ posting'
              \/ \E t \in StreamsOf(s.key) \ streams' : t # s]_vars

\* What the queue holds, in the store or in a copy of a pump, holds no PR twice: no
\* PR is waiting while it runs for the queue.
NothingTwice ==
    \A q \in {queue} \cup {stack[i] : i \in DOMAIN stack} :
        IsInjective(q.items) /\ ToSet(q.items) \cap q.running = {}

\* However calls nest, sessions, streams and the queue agree on what runs and what
\* waits; and every variable keeps its type.
SlotsAreExact == TypeOK /\ RunningIsConnected /\ NothingTwice

\* The reviews started for the queue that are running.  One kind is left out: a
\* review that is started while stopQueue stops the others, since each that stops
\* frees a slot and tells the queue's own subscriber, which pumps the pending ones;
\* stopQueue then empties the queue, and that review goes on beside the cap.
Started == {k \in Key : Running(k) /\ session[k].by = "queue"}

\* Whatever the nesting of pumps, and whatever the queue still counts, a review is
\* started for the queue only while fewer than the cap run for it.
CapRespected ==
    [][~(Started' \subseteq Started) => Cardinality(Started') <= cap]_vars

\* A pending PR leaves the queue only when its review has been started, or when all
\* are stopped: no pump overwrites what another has queued.
NoneForgotten ==
    [][\A k \in ToSet(queue.items) \ ToSet(queue'.items) :
          Running(k) \/ (~Idle /\ Top.call = "stop")]_vars

\* Every queued PR gets its turn.
QueuedGetTheirTurn ==
    \A k \in Key : k \in ToSet(queue.items) ~> k \notin ToSet(queue.items)

=============================================================================
