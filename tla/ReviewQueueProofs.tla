--------------------------- MODULE ReviewQueueProofs ---------------------------
(***************************************************************************)
(* Proofs about ReviewQueue, for any number of PRs, any caps and any       *)
(* number of event streams and requests under way.                         *)
(***************************************************************************)
EXTENDS ReviewQueue, FiniteSetTheorems, SequenceTheorems, TLAPS

-----------------------------------------------------------------------------
(* The inductive invariant *)

\* What is said of the sessions and their event streams alone.
SessionsOK ==
    /\ session \in [Key -> Session]
    /\ streams \subseteq Stream /\ IsFiniteSet(streams)
    /\ fetching \subseteq Key /\ posting \subseteq Key
    /\ RunningIsConnected

\* A call to stop all is the outermost call, and somebody is telling subscribers as
\* long as some wait.
StackOK ==
    /\ queue \in [items : Seq(Key), running : SUBSET Key]
    /\ cap \in Caps
    /\ stack \in Seq(Frame) /\ notices \in Nat
    /\ notices > 0 => \E i \in DOMAIN stack : stack[i].call = "tell"
    /\ \A i \in DOMAIN stack : stack[i].call = "stop" => i = 1

\* A pump holds reviews that run; the queue does once it has been pumped.
PumpsArePruned ==
    \A i \in DOMAIN stack :
        stack[i].call = "pump" => \A k \in stack[i].running : Running(k)

QueueIsPruned ==
    \/ \A k \in queue.running : Running(k)
    \/ notices > 0
    \/ \E i \in DOMAIN stack : stack[i].call = "pump"

\* The queue and the private copies of the pumps under way: of two of them, one has
\* got further than the other, or as far, on the same way.
Alive(S) == {k \in S : Running(k)}

Follows(p, q) ==
    \E n \in 0 .. Len(p.items) :
        /\ Len(q.items) = Len(p.items) - n
        /\ \A i \in 1 .. Len(q.items) : q.items[i] = p.items[n + i]
        /\ Alive(q.running) = Alive(p.running) \cup {p.items[i] : i \in 1..n}
        /\ \A i \in 1..n : Running(p.items[i])

Copies == {queue} \cup {stack[i] : i \in {j \in DOMAIN stack : stack[j].call = "pump"}}

CopiesAgree == \A p, q \in Copies : Follows(p, q) \/ Follows(q, p)

QueueInv ==
    /\ SessionsOK /\ StackOK
    /\ NothingTwice
    /\ PumpsArePruned /\ QueueIsPruned
    /\ CopiesAgree

-----------------------------------------------------------------------------
(* Sessions and their event streams *)

\* There is a free number for a new stream, since finitely many are taken.
LEMMA FreshIsFree ==
    ASSUME streams \subseteq Stream, IsFiniteSet(streams), NEW k \in Key
    PROVE  Fresh(k) \in Nat \ {0} /\ \A s \in StreamsOf(k) : s.id # Fresh(k)
<1> DEFINE S == StreamsOf(k)
           number == [s \in S |-> s.id]
           ids == {s.id : s \in S}
           bound == Cardinality(streams) + 1
<1>1. IsFiniteSet(S) /\ Cardinality(S) <= Cardinality(streams)
  BY FS_Subset DEF StreamsOf
<1>2. Cardinality(streams) \in Nat /\ Cardinality(S) \in Nat
  BY <1>1, FS_CardinalityType
<1>3. number \in Surjection(S, ids)
  BY DEF Surjection
<1>4. IsFiniteSet(ids) /\ Cardinality(ids) <= Cardinality(S)
  BY <1>1, <1>3, FS_Surjection
<1>5. Cardinality(1..bound) = bound
  BY <1>2, FS_Interval
<1>6. Cardinality(ids) \in Nat
  BY <1>4, FS_CardinalityType
<1>7. ~(1..bound \subseteq ids)
  <2>1. ASSUME 1..bound \subseteq ids PROVE Cardinality(1..bound) <= Cardinality(ids)
    BY <1>4, <2>1, FS_Subset
  <2> QED
    BY <1>1, <1>2, <1>4, <1>5, <1>6, <2>1
<1>8. \E m \in 1..bound : \A s \in S : s.id # m
  BY <1>7
<1>9. Fresh(k) \in 1..bound /\ \A s \in S : s.id # Fresh(k)
  BY <1>8 DEF Fresh
<1> QED
  BY <1>2, <1>9

\* Streams are added one at a time.
LEMMA StreamsStayFinite ==
    ASSUME IsFiniteSet(streams), NEW s, streams' \subseteq streams \cup {s}
    PROVE  IsFiniteSet(streams')
<1>1. IsFiniteSet(streams \cup {s})
  BY FS_AddElement
<1> QED
  BY <1>1, FS_Subset

\* A review is started: its session shows the one stream that is new.
LEMMA StartStep ==
    ASSUME SessionsOK, NEW k \in Key, NEW who \in {"user", "queue", "stopped queue"},
           Start(k, who), UNCHANGED askVars
    PROVE  SessionsOK' /\ session'[k].status = "running"
<1> DEFINE new == [key |-> k, id |-> Fresh(k), over |-> FALSE]
           shown == [status |-> "running", stream |-> Fresh(k), by |-> who]
<1>1. Fresh(k) \in Nat \ {0}
  BY FreshIsFree DEF SessionsOK
<1>2. Fresh(k) # NoStream
  BY <1>1, StreamAssumption
<1>3. new \in Stream /\ shown \in Session
  BY <1>1 DEF Stream, Session
<1>4. /\ new.key = k /\ new.id = Fresh(k) /\ new.over = FALSE
      /\ shown.status = "running" /\ shown.stream = Fresh(k)
  OBVIOUS
<1>5. /\ streams' = {s \in streams : s.key # k \/ s.id # session[k].stream} \cup {new}
      /\ session' = [session EXCEPT ![k] = shown]
  BY DEF Start
<1> HIDE DEF new, shown
<1>6. session' \in [Key -> Session] /\ session'[k] = shown
  BY <1>3, <1>5 DEF SessionsOK
<1>7. streams' \subseteq Stream /\ IsFiniteSet(streams')
  <2>1. streams' \subseteq streams \cup {new}
    BY <1>5
  <2> QED
    BY <1>3, <2>1, StreamsStayFinite DEF SessionsOK
<1>8. ASSUME NEW j \in Key, Running(j)'
      PROVE  (\E s \in StreamsOf(j) : Live(s) /\ Shown(s))'
  <2>1. CASE j = k
    <3>1. new \in streams' /\ new \in StreamsOf(j)'
      BY <1>4, <1>5, <2>1 DEF StreamsOf
    <3> QED
      BY <1>4, <1>6, <2>1, <3>1 DEF Live, Shown, Running
  <2>2. CASE j # k
    <3>1. session'[j] = session[j]
      BY <1>5, <2>2 DEF SessionsOK
    <3>2. PICK s \in StreamsOf(j) : Live(s) /\ Shown(s)
      BY <1>8, <3>1 DEF SessionsOK, RunningIsConnected, Running
    <3>3. s \in streams' /\ s.key = j
      BY <1>5, <2>2, <3>2 DEF StreamsOf
    <3> QED
      BY <1>8, <3>1, <3>2, <3>3 DEF StreamsOf, Live, Shown, Running
  <2> QED
    BY <2>1, <2>2
<1>9. RunningIsConnected'
  BY <1>8 DEF RunningIsConnected
<1> QED
  BY <1>4, <1>6, <1>7, <1>9 DEF SessionsOK, askVars

\* A review is stopped or ends, a cached one is shown: sessions that still run are as
\* they were, and so are their streams.
LEMMA EndStep ==
    ASSUME SessionsOK, session' \in [Key -> Session],
           streams' \subseteq Stream, NEW t, streams' \subseteq streams \cup {t},
           fetching' \subseteq Key, posting' \subseteq Key,
           \A k \in Key : Running(k)' =>
              session'[k] = session[k] /\ \A s \in StreamsOf(k) : s \in streams'
    PROVE  SessionsOK'
<1>1. IsFiniteSet(streams')
  BY StreamsStayFinite DEF SessionsOK
<1>2. ASSUME NEW k \in Key, Running(k)'
      PROVE  (\E s \in StreamsOf(k) : Live(s) /\ Shown(s))'
  <2>1. session'[k] = session[k] /\ \A s \in StreamsOf(k) : s \in streams'
    BY <1>2
  <2>2. PICK s \in StreamsOf(k) : Live(s) /\ Shown(s)
    BY <1>2, <2>1 DEF SessionsOK, RunningIsConnected, Running
  <2>3. s \in streams' /\ s.key = k
    BY <2>1, <2>2 DEF StreamsOf
  <2> QED
    BY <1>2, <2>1, <2>2, <2>3 DEF StreamsOf, Live, Shown, Running
<1> QED
  BY <1>1, <1>2 DEF SessionsOK, RunningIsConnected

-----------------------------------------------------------------------------
(* What each kind of step changes *)

\* A turn begins with a change of the sessions and tells the subscribers.
TurnBegins ==
    /\ Idle /\ notices' = notices + 1
    /\ stack' = <<Call("tell")>>
    /\ UNCHANGED <<queue, cap>>

LEMMA NotifyWhenIdle ==
    ASSUME Idle, Notify(<<>>), UNCHANGED <<queue, cap>>
    PROVE  TurnBegins
<1>1. ~\E i \in DOMAIN <<>> : <<>>[i].call = "tell"
  OBVIOUS
<1>2. Append(<<>>, Call("tell")) = <<Call("tell")>>
  OBVIOUS
<1> QED
  BY <1>1, <1>2 DEF Notify, TurnBegins

\* The steps in which a review is over or a cached one is shown, nothing is started.
Ending ==
    \/ \E k \in Key : StopReview(k) \/ StreamEnds(k) \/ Hydrate(k) \/ Incremented(k)
    \/ \E s \in streams : Chunk(s)
    \/ HydrateRepo

\* A request is made, or comes to nothing.
Asking ==
    /\ UNCHANGED <<session, streams, queue, cap, stack, notices>>
    /\ fetching' \subseteq Key /\ posting' \subseteq Key

LEMMA StepCases ==
    ASSUME SessionsOK, [Next]_vars
    PROVE  \/ Asking
           \/ Ending
           \/ \E k \in Key : StartReview(k)
           \/ \E chosen \in SUBSET Key : Enqueue(chosen)
           \/ SetCap \/ StopQueue
           \/ Tell \/ Told \/ PumpNext \/ PumpReturns \/ StopNext \/ StopReturns
<1>1. ASSUME \/ UNCHANGED vars
             \/ \E k \in Key : Open(k) \/ HydrateNothing(k) \/ Increment(k) \/ IncrementFails(k)
      PROVE  Asking
  BY <1>1 DEF Asking, SessionsOK, vars, askVars, Open, HydrateNothing, Increment,
     IncrementFails
<1>2. CASE Turn
  BY <1>2 DEF Turn
<1>3. CASE User
  BY <1>1, <1>3 DEF User, Ending
<1>4. CASE Server
  BY <1>1, <1>4 DEF Server, Ending
<1> QED
  BY <1>1, <1>2, <1>3, <1>4 DEF Next

LEMMA EndingTells ==
    ASSUME Ending
    PROVE  TurnBegins
<1>1. Idle /\ Notify(<<>>) /\ UNCHANGED <<queue, cap>>
  BY DEF Ending, StopReview, StreamEnds, Result, Done, Error, Hydrate, Incremented, Chunk,
     HydrateRepo
<1> QED
  BY <1>1, NotifyWhenIdle

\* Each of them leaves the sessions that still run, and their streams, alone.
LEMMA PatchKeeps ==
    ASSUME SessionsOK, NEW k \in Key, NEW what \in {"done", "error"}, NEW closed,
           Patch(k, what, closed)
    PROVE  /\ session' \in [Key -> Session]
           /\ \A j \in Key : Running(j)' => j # k /\ session'[j] = session[j]
<1> DEFINE new == [session[k] EXCEPT !.status = what,
                                     !.stream = IF @ \in closed THEN NoStream ELSE @,
                                     !.by = "nobody"]
<1>1. CASE session[k] = NoSession
  BY <1>1 DEF SessionsOK, Patch, Running, NoSession
<1>2. CASE session[k] # NoSession
  <2>1. session[k] \in Session
    BY DEF SessionsOK
  <2>2. new \in Session /\ new.status = what
    BY <2>1 DEF Session
  <2>3. session' = [session EXCEPT ![k] = new]
    BY <1>2 DEF Patch
  <2> HIDE DEF new
  <2> QED
    BY <2>2, <2>3 DEF SessionsOK, Running
<1> QED
  BY <1>1, <1>2

LEMMA EndingStep ==
    ASSUME SessionsOK, Ending
    PROVE  /\ SessionsOK'
           /\ \A k \in Key : Running(k)' => session'[k] = session[k]
<1> DEFINE Quiet == \A k \in Key : Running(k)' => session'[k] = session[k]
           Cached == [NoSession EXCEPT !.status = "done"]
<1>0. Cached \in Session /\ Cached.status = "done" /\ NoSession \in Session
  BY DEF NoSession, Session
<1> HIDE DEF Cached
<1>1. ASSUME NEW k \in Key, StopReview(k) PROVE SessionsOK' /\ Quiet
  <2>1. session' = [session EXCEPT ![k] = NoSession] /\ UNCHANGED askVars
    BY <1>1 DEF StopReview, Stop
  <2>2. session' \in [Key -> Session]
    BY <1>0, <2>1 DEF SessionsOK
  <2>3. streams' = {s \in streams : s.key # k \/ s.id # session[k].stream}
    BY <1>1 DEF StopReview, Stop
  <2>4. \A j \in Key : Running(j)' => j # k /\ session'[j] = session[j]
    BY <2>1 DEF SessionsOK, Running, NoSession
  <2>5. \A j \in Key : Running(j)' => \A s \in StreamsOf(j) : s \in streams'
    BY <2>3, <2>4 DEF StreamsOf
  <2>6. streams' \subseteq Stream /\ streams' \subseteq streams \cup {0}
    BY <2>3 DEF SessionsOK
  <2>7. fetching' \subseteq Key /\ posting' \subseteq Key
    BY <2>1 DEF SessionsOK, askVars
  <2> QED
    BY <2>2, <2>4, <2>5, <2>6, <2>7, EndStep
<1>2. ASSUME NEW k \in Key, NEW s \in StreamsOf(k), Result(s) \/ Done(s) \/ Error(s)
      PROVE  SessionsOK' /\ Quiet
  <2> DEFINE ended == [s EXCEPT !.over = TRUE]
  <2>1. s \in streams /\ s.key = k /\ s \in Stream
    BY DEF StreamsOf, SessionsOK
  <2>2. ended \in Stream
    BY <2>1 DEF Stream
  <2>3. streams' = (streams \ {s}) \cup {ended} \/ streams' = streams \ {s}
    BY <1>2 DEF Result, Done, Error
  <2>4. UNCHANGED askVars
    BY <1>2 DEF Result, Done, Error
  <2>5. \E what \in {"done", "error"}, closed \in {{}, {s.id}} : Patch(k, what, closed)
    BY <1>2, <2>1 DEF Result, Done, Error
  <2>6. /\ session' \in [Key -> Session]
        /\ \A j \in Key : Running(j)' => j # k /\ session'[j] = session[j]
    BY <2>5, PatchKeeps
  <2> HIDE DEF ended
  <2>7. \A j \in Key : Running(j)' => \A t \in StreamsOf(j) : t \in streams'
    BY <2>1, <2>3, <2>6 DEF StreamsOf
  <2>8. streams' \subseteq Stream /\ streams' \subseteq streams \cup {ended}
    BY <2>2, <2>3 DEF SessionsOK
  <2>9. fetching' \subseteq Key /\ posting' \subseteq Key
    BY <2>4 DEF SessionsOK, askVars
  <2> QED
    BY <2>6, <2>7, <2>8, <2>9, EndStep
<1>3. ASSUME UNCHANGED streams, session' \in [Key -> Session],
             fetching' \subseteq Key, posting' \subseteq Key, Quiet
      PROVE  SessionsOK' /\ Quiet
  <2>1. streams' \subseteq Stream /\ streams' \subseteq streams \cup {0}
    BY <1>3 DEF SessionsOK
  <2>2. \A k \in Key : \A s \in StreamsOf(k) : s \in streams'
    BY <1>3 DEF StreamsOf
  <2> QED
    BY <1>3, <2>1, <2>2, EndStep
<1>4. ASSUME NEW k \in Key, Hydrate(k) PROVE SessionsOK' /\ Quiet
  <2>1. session' = IF Running(k) THEN session ELSE [session EXCEPT ![k] = Cached]
    BY <1>4 DEF Hydrate, Cached
  <2>2. session' \in [Key -> Session] /\ Quiet
    BY <1>0, <2>1 DEF SessionsOK, Running
  <2>3. UNCHANGED streams /\ fetching' \subseteq Key /\ posting' \subseteq Key
    BY <1>4 DEF Hydrate, SessionsOK
  <2> QED
    BY <1>3, <2>2, <2>3
<1>5. ASSUME NEW k \in Key, Incremented(k) PROVE SessionsOK' /\ Quiet
  <2> DEFINE new == [session[k] EXCEPT !.status = "done", !.by = "nobody"]
  <2>1. session[k] \in Session
    BY DEF SessionsOK
  <2>2. new \in Session /\ new.status = "done"
    BY <2>1 DEF Session
  <2>3. session' = [session EXCEPT ![k] = new]
    BY <1>5 DEF Incremented
  <2> HIDE DEF new
  <2>4. session' \in [Key -> Session] /\ Quiet
    BY <2>2, <2>3 DEF SessionsOK, Running
  <2>5. UNCHANGED streams /\ fetching' \subseteq Key /\ posting' \subseteq Key
    BY <1>5 DEF Incremented, SessionsOK
  <2> QED
    BY <1>3, <2>4, <2>5
<1>6. ASSUME NEW s \in streams, Chunk(s) PROVE SessionsOK' /\ Quiet
  BY <1>3, <1>6 DEF Chunk, SessionsOK, askVars
<1>7. ASSUME HydrateRepo PROVE SessionsOK' /\ Quiet
  <2>1. PICK cached \in SUBSET Key :
           session' = [k \in Key |-> IF k \in cached /\ session[k] = NoSession
                                     THEN Cached ELSE session[k]]
    BY <1>7 DEF HydrateRepo, Cached
  <2>2. session' \in [Key -> Session]
    BY <1>0, <2>1 DEF SessionsOK
  <2>3. Quiet
    BY <1>0, <2>1 DEF Running
  <2>4. UNCHANGED streams /\ fetching' \subseteq Key /\ posting' \subseteq Key
    BY <1>7 DEF HydrateRepo, SessionsOK, askVars
  <2> QED
    BY <1>3, <2>2, <2>3, <2>4
<1> QED
  BY <1>1, <1>2, <1>4, <1>5, <1>6, <1>7 DEF Ending, StreamEnds

-----------------------------------------------------------------------------
(* The stack of calls *)

LEMMA CallType ==
    ASSUME NEW name \in {"tell", "pump", "stop"}
    PROVE  /\ Call(name) \in Frame
           /\ Call(name).call = name /\ Call(name).items = <<>> /\ Call(name).running = {}
<1>1. <<>> \in Seq(Key)
  OBVIOUS
<1> QED
  BY <1>1 DEF Call, Frame

LEMMA PumpType ==
    ASSUME NEW q, q.items \in Seq(Key), q.running \subseteq Key
    PROVE  /\ Pump(q) \in Frame
           /\ Pump(q).call = "pump" /\ Pump(q).items = q.items
           /\ Pump(q).running = Alive(q.running)
  BY DEF Pump, Frame, Alive

LEMMA TopOfStack ==
    ASSUME stack \in Seq(Frame), ~Idle
    PROVE  /\ Len(stack) \in Nat \ {0}
           /\ Top = stack[Len(stack)] /\ Top \in Frame
           /\ Front(stack) \in Seq(Frame) /\ Len(Front(stack)) = Len(stack) - 1
           /\ \A i \in 1 .. Len(stack) - 1 : Front(stack)[i] = stack[i]
<1>1. Len(stack) \in Nat \ {0}
  BY DEF Idle
<1>2. Top = stack[Len(stack)] /\ Top \in Frame
  BY <1>1 DEF Top, Last
<1>3. Front(stack) = SubSeq(stack, 1, Len(stack) - 1)
  BY DEF Front
<1>4. SubSeq(stack, 1, Len(stack) - 1) \in Seq(Frame)
  BY <1>1
<1>5. Len(SubSeq(stack, 1, Len(stack) - 1)) = Len(stack) - 1
  <2> DEFINE n == Len(stack) - 1
             front == SubSeq(stack, 1, n)
  <2>1. n \in Nat /\ \A i \in 1 .. n : stack[i] \in Frame
    BY <1>1
  <2> HIDE DEF n
  <2>2. Len(front) = IF 1 <= n THEN n - 1 + 1 ELSE 0
    BY <2>1, SubSeqProperties
  <2> HIDE DEF front
  <2>3. Len(front) = n
    BY <2>1, <2>2
  <2> QED
    BY <2>3 DEF n, front
<1>6. \A i \in 1 .. Len(stack) - 1 : SubSeq(stack, 1, Len(stack) - 1)[i] = stack[i]
  BY <1>1
<1> QED
  BY <1>1, <1>2, <1>3, <1>4, <1>5, <1>6

\* Calls go on below a tell that is added, if there is none.
LEMMA NotifyStep ==
    ASSUME NEW calls \in Seq(Frame), Notify(calls)
    PROVE  /\ stack' \in Seq(Frame)
           /\ \A i \in DOMAIN calls : i \in DOMAIN stack' /\ stack'[i] = calls[i]
           /\ \A i \in DOMAIN stack' : i \in DOMAIN calls \/ stack'[i].call = "tell"
           /\ \E i \in DOMAIN stack' : stack'[i].call = "tell"
           /\ notices' = notices + 1
<1>1. CASE \E i \in DOMAIN calls : calls[i].call = "tell"
  BY <1>1 DEF Notify
<1>2. CASE ~\E i \in DOMAIN calls : calls[i].call = "tell"
  <2>1. stack' = Append(calls, Call("tell"))
    BY <1>2 DEF Notify
  <2>2. Call("tell") \in Frame /\ Call("tell").call = "tell"
    BY CallType
  <2> HIDE DEF Call
  <2>3. /\ stack' \in Seq(Frame) /\ Len(stack') = Len(calls) + 1
        /\ stack'[Len(calls) + 1] = Call("tell")
        /\ \A i \in 1 .. Len(calls) : stack'[i] = calls[i]
    BY <2>1, <2>2
  <2> QED
    BY <2>2, <2>3 DEF Notify
<1> QED
  BY <1>1, <1>2 DEF Notify

LEMMA PumpNextStep ==
    ASSUME StackOK, PumpNext
    PROVE  \E p \in Frame, new \in Frame, k \in Key :
             /\ ~Idle /\ p = stack[Len(stack)] /\ p.call = "pump"
             /\ p.items # <<>> /\ k = Head(p.items)
             /\ Cardinality(p.running) < cap
             /\ new.call = "pump" /\ new.items = Tail(p.items) /\ new.running = p.running \cup {k}
             /\ Start(k, Starter) /\ Notify([stack EXCEPT ![Len(stack)] = new])
             /\ [stack EXCEPT ![Len(stack)] = new] \in Seq(Frame)
             /\ UNCHANGED <<queue, cap, askVars>>
<1> DEFINE p == stack[Len(stack)]
           k == Head(p.items)
           new == [p EXCEPT !.items = Tail(@), !.running = @ \cup {k}]
           calls == [stack EXCEPT ![Len(stack)].items = Tail(@),
                                  ![Len(stack)].running = @ \cup {k}]
<1>1. /\ ~Idle /\ Top.call = "pump" /\ Top.items # <<>>
      /\ Cardinality(Top.running) < cap
  BY DEF PumpNext
<1>2. Len(stack) \in Nat \ {0} /\ Top = p /\ p \in Frame /\ stack \in Seq(Frame)
  BY <1>1, TopOfStack DEF StackOK
<1>3. p.items \in Seq(Key) /\ p.items # <<>> /\ p.running \subseteq Key
  BY <1>1, <1>2 DEF Frame
<1>4. k \in Key /\ Tail(p.items) \in Seq(Key)
  BY <1>3
<1>5. /\ new \in Frame
      /\ new.call = "pump" /\ new.items = Tail(p.items) /\ new.running = p.running \cup {k}
  BY <1>1, <1>2, <1>3, <1>4 DEF Frame
<1>6. calls = [stack EXCEPT ![Len(stack)] = new]
  BY <1>2 DEF Frame
<1>7. [stack EXCEPT ![Len(stack)] = new] \in Seq(Frame)
  <2> HIDE DEF new
  <2> QED
    BY <1>2, <1>5
<1>8. Start(k, Starter) /\ Notify(calls) /\ UNCHANGED <<queue, cap, askVars>>
  BY <1>2 DEF PumpNext
<1> HIDE DEF new, calls, k, p
<1>9. Notify([stack EXCEPT ![Len(stack)] = new])
  BY <1>6, <1>8
<1> QED
  BY <1>1, <1>2, <1>3, <1>4, <1>5, <1>7, <1>8, <1>9 DEF p, k

LEMMA StopNextStep ==
    ASSUME StackOK, StopNext
    PROVE  \E k \in Key, new \in Frame :
             /\ stack \in Seq(Frame) /\ Len(stack) = 1 /\ stack[1].call = "stop"
             /\ new.call = "stop" /\ <<new>> \in Seq(Frame)
             /\ new.items = stack[1].items /\ new.running = stack[1].running \ {k}
             /\ \/ Running(k) /\ Stop(k) /\ Notify(<<new>>)
                \/ ~Running(k) /\ stack' = <<new>> /\ UNCHANGED <<session, streams, notices>>
             /\ UNCHANGED <<queue, cap, askVars>>
<1>1. ~Idle /\ Top.call = "stop"
  BY DEF StopNext
<1>2. Len(stack) \in Nat \ {0} /\ Top = stack[Len(stack)] /\ Top \in Frame /\ stack \in Seq(Frame)
  BY <1>1, TopOfStack DEF StackOK
<1>3. Len(stack) = 1
  <2>1. Len(stack) \in DOMAIN stack
    BY <1>2
  <2> QED
    BY <1>1, <1>2, <2>1 DEF StackOK
<1>4. PICK k \in Top.running :
        LET calls == [stack EXCEPT ![Len(stack)].running = @ \ {k}] IN
        IF Running(k)
        THEN Stop(k) /\ Notify(calls)
        ELSE stack' = calls /\ UNCHANGED <<session, streams, notices>>
  BY DEF StopNext
<1> DEFINE new == [stack[1] EXCEPT !.running = @ \ {k}]
<1>5. /\ new \in Frame /\ new.call = "stop" /\ k \in Key
      /\ new.items = stack[1].items /\ new.running = stack[1].running \ {k}
  BY <1>1, <1>2, <1>3, <1>4 DEF Frame
<1>6. [stack EXCEPT ![Len(stack)].running = @ \ {k}] = <<new>>
  <2>1. stack = <<stack[1]>>
    BY <1>2, <1>3
  <2> QED
    BY <1>3, <2>1
<1>7. \/ Running(k) /\ Stop(k) /\ Notify(<<new>>)
      \/ ~Running(k) /\ stack' = <<new>> /\ UNCHANGED <<session, streams, notices>>
  BY <1>4, <1>6
<1>8. UNCHANGED <<queue, cap, askVars>>
  BY DEF StopNext
<1> HIDE DEF new
<1> QED
  BY <1>1, <1>2, <1>3, <1>5, <1>7, <1>8

LEMMA SessionsStep ==
    ASSUME SessionsOK, StackOK, [Next]_vars
    PROVE  SessionsOK'
<1>1. CASE Ending
  BY <1>1, EndingStep
<1>2. CASE \E k \in Key : StartReview(k)
  BY <1>2, StartStep DEF StartReview
<1>3. CASE PumpNext
  <2>1. Starter \in {"user", "queue", "stopped queue"}
    BY DEF Starter
  <2> QED
    BY <1>3, <2>1, PumpNextStep, StartStep
<1>4. CASE StopNext
  <2>1. PICK k \in Key : \/ Stop(k)
                         \/ UNCHANGED <<session, streams>>
    BY <1>4, StopNextStep
  <2>2. UNCHANGED askVars
    BY <1>4 DEF StopNext
  <2>3. fetching' \subseteq Key /\ posting' \subseteq Key
    BY <2>2 DEF SessionsOK, askVars
  <2>4. CASE Stop(k)
    <3>1. /\ session' = [session EXCEPT ![k] = NoSession]
          /\ streams' = {s \in streams : s.key # k \/ s.id # session[k].stream}
      BY <2>4 DEF Stop
    <3>2. NoSession \in Session /\ NoSession.status # "running"
      BY DEF NoSession, Session
    <3>3. session' \in [Key -> Session]
      BY <3>1, <3>2 DEF SessionsOK
    <3>4. \A j \in Key : Running(j)' => j # k /\ session'[j] = session[j]
      BY <3>1, <3>2 DEF SessionsOK, Running
    <3>5. \A j \in Key : Running(j)' => \A s \in StreamsOf(j) : s \in streams'
      BY <3>1, <3>4 DEF StreamsOf
    <3>6. streams' \subseteq Stream /\ streams' \subseteq streams \cup {0}
      BY <3>1 DEF SessionsOK
    <3> QED
      BY <2>3, <3>3, <3>4, <3>5, <3>6, EndStep
  <2>5. CASE UNCHANGED <<session, streams>>
    BY <2>3, <2>5 DEF SessionsOK, RunningIsConnected, StreamsOf, Live, Shown, Running
  <2> QED
    BY <2>1, <2>4, <2>5
<1>5. CASE UNCHANGED <<session, streams>> /\ fetching' \subseteq Key /\ posting' \subseteq Key
  BY <1>5 DEF SessionsOK, RunningIsConnected, StreamsOf, Live, Shown, Running
<1>6. CASE \/ \E chosen \in SUBSET Key : Enqueue(chosen)
           \/ SetCap \/ StopQueue \/ Tell \/ Told \/ PumpReturns \/ StopReturns
  <2>1. UNCHANGED <<session, streams, askVars>>
    BY <1>6 DEF Enqueue, SetCap, StopQueue, Tell, Told, PumpReturns, StopReturns
  <2> QED
    BY <1>5, <2>1 DEF SessionsOK, askVars
<1> QED
  BY <1>1, <1>2, <1>3, <1>4, <1>5, <1>6, StepCases DEF Asking

\* The chosen PRs are queued behind the others, each of them once.
LEMMA EnqueueStep ==
    ASSUME StackOK, NothingTwice, NEW chosen \in SUBSET Key, Enqueue(chosen)
    PROVE  /\ queue'.items \in Seq(Key) /\ queue'.running = queue.running
           /\ ToSet(queue.items) \subseteq ToSet(queue'.items)
           /\ IsInjective(queue'.items) /\ ToSet(queue'.items) \cap queue'.running = {}
<1> DEFINE S == chosen \ (ToSet(queue.items) \cup queue.running)
           old == queue.items
<1>1. PICK fresh \in SetToSeqs(S) : queue' = [queue EXCEPT !.items = @ \o fresh]
  BY DEF Enqueue
<1>2. S \subseteq Key /\ IsFiniteSet(S)
  BY KeyAssumption, FS_Subset
<1>3. Cardinality(S) \in Nat
  BY <1>2, FS_CardinalityType
<1>4. /\ fresh \in [1..Cardinality(S) -> S]
      /\ \A i, j \in 1..Cardinality(S) : i # j => fresh[i] # fresh[j]
  BY <1>1 DEF SetToSeqs
<1>5. fresh \in Seq(Key) /\ Len(fresh) = Cardinality(S)
  <2> HIDE DEF S
  <2>1. fresh \in [1..Cardinality(S) -> Key]
    BY <1>2, <1>4
  <2> QED
    BY <1>3, <2>1
<1>6. /\ old \in Seq(Key) /\ queue'.items = old \o fresh /\ queue'.running = queue.running
      /\ queue.running \subseteq Key
  BY <1>1 DEF StackOK
<1>7. IsInjective(old) /\ ToSet(old) \cap queue.running = {}
  BY DEF NothingTwice
<1>8. \A i \in 1 .. Len(fresh) : fresh[i] \notin ToSet(old) /\ fresh[i] \notin queue.running
  BY <1>4, <1>5
<1> HIDE DEF S
<1>9. /\ queue'.items \in Seq(Key) /\ Len(queue'.items) = Len(old) + Len(fresh)
      /\ Len(old) \in Nat /\ Len(fresh) \in Nat
      /\ \A i \in 1 .. Len(old) : queue'.items[i] = old[i]
      /\ \A i \in Len(old) + 1 .. Len(old) + Len(fresh) : queue'.items[i] = fresh[i - Len(old)]
  <2>1. Len(old) \in Nat /\ Len(fresh) \in Nat
    BY <1>5, <1>6
  <2> HIDE DEF old
  <2>2. old \o fresh \in Seq(Key) /\ Len(old \o fresh) = Len(old) + Len(fresh)
    BY <1>5, <1>6, ConcatProperties
  <2>3. \A i \in 1 .. Len(old) : (old \o fresh)[i] = old[i]
    BY <1>5, <1>6, <2>1
  <2>4. \A i \in Len(old) + 1 .. Len(old) + Len(fresh) : (old \o fresh)[i] = fresh[i - Len(old)]
    BY <1>5, <1>6, <2>1
  <2> QED
    BY <1>6, <2>1, <2>2, <2>3, <2>4 DEF old
<1>10. \A i \in 1 .. Len(old) + Len(fresh) :
          \/ i \in 1 .. Len(old)
          \/ i \in Len(old) + 1 .. Len(old) + Len(fresh) /\ i - Len(old) \in 1 .. Len(fresh)
  BY <1>9
<1>11. ToSet(old) \subseteq ToSet(queue'.items)
  <2>1. DOMAIN old = 1 .. Len(old) /\ 1 .. Len(old) \subseteq DOMAIN queue'.items
    BY <1>6, <1>9
  <2> QED
    BY <1>9, <2>1 DEF ToSet
<1>12. IsInjective(queue'.items)
  <2>1. SUFFICES ASSUME NEW i \in 1 .. Len(old) + Len(fresh), NEW j \in 1 .. Len(old) + Len(fresh),
                        queue'.items[i] = queue'.items[j]
                 PROVE  i = j
    <3>1. DOMAIN queue'.items = 1 .. Len(old) + Len(fresh)
      BY <1>9
    <3> QED
      BY <3>1 DEF IsInjective
  <2>2. DOMAIN old = 1 .. Len(old)
    BY <1>6
  <2>3. CASE i \in 1 .. Len(old) /\ j \in 1 .. Len(old)
    BY <1>7, <1>9, <2>1, <2>2, <2>3 DEF IsInjective
  <2>a. ASSUME NEW a \in 1 .. Len(old), NEW b \in 1 .. Len(old) + Len(fresh), b \notin 1 .. Len(old)
        PROVE  queue'.items[a] # queue'.items[b]
    <3>1. queue'.items[a] \in ToSet(old)
      BY <1>9, <2>2 DEF ToSet
    <3>2. b - Len(old) \in 1 .. Len(fresh) /\ queue'.items[b] = fresh[b - Len(old)]
      BY <1>9, <1>10, <2>a
    <3> QED
      BY <1>8, <3>1, <3>2
  <2>4. CASE i \in 1 .. Len(old) /\ j \notin 1 .. Len(old)
    BY <2>1, <2>4, <2>a
  <2>5. CASE i \notin 1 .. Len(old) /\ j \in 1 .. Len(old)
    BY <2>1, <2>5, <2>a
  <2>6. CASE i \notin 1 .. Len(old) /\ j \notin 1 .. Len(old)
    <3>1. /\ i - Len(old) \in 1 .. Len(fresh) /\ j - Len(old) \in 1 .. Len(fresh)
          /\ fresh[i - Len(old)] = fresh[j - Len(old)]
      BY <1>9, <1>10, <2>1, <2>6
    <3>2. i - Len(old) = j - Len(old)
      BY <1>4, <1>5, <3>1
    <3> QED
      BY <1>9, <3>2
  <2> QED
    BY <2>3, <2>4, <2>5, <2>6
<1>13. ToSet(queue'.items) \cap queue.running = {}
  <2>1. DOMAIN queue'.items = 1 .. Len(old) + Len(fresh) /\ DOMAIN old = 1 .. Len(old)
    BY <1>6, <1>9
  <2>2. ASSUME NEW i \in 1 .. Len(old) + Len(fresh) PROVE queue'.items[i] \notin queue.running
    <3>1. CASE i \in 1 .. Len(old)
      BY <1>7, <1>9, <2>1, <3>1 DEF ToSet
    <3>2. CASE i \notin 1 .. Len(old)
      BY <1>8, <1>9, <1>10, <3>2
    <3> QED
      BY <3>1, <3>2
  <2> QED
    BY <2>1, <2>2 DEF ToSet
<1> QED
  BY <1>6, <1>9, <1>11, <1>12, <1>13

LEMMA StackStep ==
    ASSUME SessionsOK, StackOK, NothingTwice, [Next]_vars
    PROVE  StackOK'
<1>0. /\ queue \in [items : Seq(Key), running : SUBSET Key] /\ cap \in Caps
      /\ stack \in Seq(Frame) /\ notices \in Nat
  BY DEF StackOK
<1>a. Idle => notices = 0
  BY <1>0 DEF StackOK, Idle
<1>1. CASE Asking
  BY <1>1 DEF Asking, StackOK
<1>2. CASE Ending \/ \E k \in Key : StartReview(k)
  <2>1. TurnBegins
    BY <1>2, EndingTells, NotifyWhenIdle DEF StartReview
  <2>2. Call("tell") \in Frame /\ Call("tell").call = "tell"
    BY CallType
  <2>3. stack' = <<Call("tell")>> /\ notices' \in Nat /\ UNCHANGED <<queue, cap>>
    BY <1>0, <2>1 DEF TurnBegins
  <2> HIDE DEF Call
  <2>4. stack' \in Seq(Frame) /\ DOMAIN stack' = {1} /\ stack'[1].call = "tell"
    BY <2>2, <2>3
  <2> QED
    BY <1>0, <2>3, <2>4 DEF StackOK
<1>3. CASE \E chosen \in SUBSET Key : Enqueue(chosen)
  <2>1. queue' \in [items : Seq(Key), running : SUBSET Key]
    <3>1. queue'.items \in Seq(Key) /\ queue'.running = queue.running
      BY <1>3, EnqueueStep
    <3>2. \E x : queue' = [queue EXCEPT !.items = x]
      BY <1>3 DEF Enqueue
    <3> QED
      BY <1>0, <3>1, <3>2
  <2>2. stack' = <<Pump(queue')>> /\ UNCHANGED <<cap, notices>> /\ Idle
    BY <1>3 DEF Enqueue
  <2>3. Pump(queue') \in Frame /\ Pump(queue').call = "pump"
    BY <2>1, PumpType
  <2> HIDE DEF Pump
  <2>4. stack' \in Seq(Frame) /\ DOMAIN stack' = {1} /\ stack'[1].call = "pump"
    BY <2>2, <2>3
  <2> QED
    BY <1>0, <1>a, <2>1, <2>2, <2>4 DEF StackOK
<1>4. CASE SetCap
  <2>1. /\ stack' = <<Call("tell"), Pump(queue)>> /\ UNCHANGED <<queue, notices>> /\ Idle
        /\ cap' \in Caps
    BY <1>4 DEF SetCap
  <2>2. /\ Pump(queue) \in Frame /\ Pump(queue).call = "pump"
        /\ Call("tell") \in Frame /\ Call("tell").call = "tell"
    BY <1>0, PumpType, CallType
  <2> HIDE DEF Call, Pump
  <2>3. /\ stack' \in Seq(Frame) /\ DOMAIN stack' = 1..2
        /\ stack'[1].call = "tell" /\ stack'[2].call = "pump"
    BY <2>1, <2>2
  <2> QED
    BY <1>0, <1>a, <2>1, <2>3 DEF StackOK
<1>5. CASE StopQueue
  <2> DEFINE new == [Call("stop") EXCEPT !.running = queue.running]
  <2>1. stack' = <<new>> /\ UNCHANGED <<queue, cap, notices>> /\ Idle
    BY <1>5 DEF StopQueue
  <2>2. new \in Frame /\ new.call = "stop"
    BY <1>0, CallType DEF Frame
  <2> HIDE DEF new
  <2>3. stack' \in Seq(Frame) /\ DOMAIN stack' = {1} /\ stack'[1].call = "stop"
    BY <2>1, <2>2
  <2> QED
    BY <1>0, <1>a, <2>1, <2>3 DEF StackOK
<1>6. CASE Tell
  <2>1. /\ ~Idle /\ Top.call = "tell" /\ notices > 0 /\ notices' = notices - 1
        /\ UNCHANGED <<queue, cap>>
        /\ stack' = stack \/ stack' = Append(stack, Pump(queue))
    BY <1>6 DEF Tell
  <2>2. notices' \in Nat
    BY <1>0, <2>1
  <2>3. Pump(queue) \in Frame /\ Pump(queue).call = "pump"
    BY <1>0, PumpType
  <2> HIDE DEF Pump
  <2>4. stack' \in Seq(Frame)
    BY <1>0, <2>1, <2>3
  <2>5. /\ \A i \in DOMAIN stack : i \in DOMAIN stack' /\ stack'[i] = stack[i]
        /\ \A i \in DOMAIN stack' : i \in DOMAIN stack \/ stack'[i].call = "pump"
    BY <1>0, <2>1, <2>3
  <2>6. \E i \in DOMAIN stack' : stack'[i].call = "tell"
    BY <2>1, <2>5 DEF StackOK
  <2>7. \A i \in DOMAIN stack' : stack'[i].call = "stop" => i = 1
    BY <2>5 DEF StackOK
  <2> QED
    BY <1>0, <2>1, <2>2, <2>4, <2>6, <2>7 DEF StackOK
<1>7. CASE Told \/ PumpReturns \/ StopReturns
  <2>1. /\ ~Idle /\ stack' = Front(stack) /\ UNCHANGED <<cap, notices>>
        /\ notices = 0 \/ Top.call # "tell"
    BY <1>7 DEF Told, PumpReturns, StopReturns, Return
  <2>2. /\ Len(stack) \in Nat \ {0} /\ Top = stack[Len(stack)] /\ Top \in Frame
        /\ stack' \in Seq(Frame) /\ Len(stack') = Len(stack) - 1
        /\ \A i \in 1 .. Len(stack) - 1 : stack'[i] = stack[i]
    BY <1>0, <2>1, TopOfStack
  <2>3. DOMAIN stack' = 1 .. Len(stack) - 1 /\ DOMAIN stack = 1 .. Len(stack)
    BY <1>0, <2>2
  <2>4. queue' \in [items : Seq(Key), running : SUBSET Key]
    <3>1. CASE Told
      BY <1>0, <3>1 DEF Told
    <3>2. CASE PumpReturns
      BY <2>2, <3>2 DEF PumpReturns, Frame
    <3>3. CASE StopReturns
      <4>1. <<>> \in Seq(Key)
        OBVIOUS
      <4> QED
        BY <3>3, <4>1 DEF StopReturns
    <3> QED
      BY <1>7, <3>1, <3>2, <3>3
  <2>5. ASSUME notices > 0 PROVE \E i \in DOMAIN stack' : stack'[i].call = "tell"
    <3>1. PICK i \in DOMAIN stack : stack[i].call = "tell"
      BY <2>5 DEF StackOK
    <3>2. i # Len(stack)
      BY <1>0, <2>1, <2>2, <2>5, <3>1
    <3>3. i \in 1 .. Len(stack) - 1
      BY <2>2, <2>3, <3>2
    <3> QED
      BY <2>2, <2>3, <3>1, <3>3
  <2>6. \A i \in DOMAIN stack' : stack'[i].call = "stop" => i = 1
    <3>1. \A i \in DOMAIN stack' : i \in DOMAIN stack
      BY <2>2, <2>3
    <3> QED
      BY <2>2, <2>3, <3>1 DEF StackOK
  <2> QED
    BY <1>0, <2>1, <2>2, <2>4, <2>5, <2>6 DEF StackOK
<1>8. CASE PumpNext
  <2>1. PICK p \in Frame, new \in Frame :
             /\ ~Idle /\ p = stack[Len(stack)] /\ p.call = "pump" /\ new.call = "pump"
             /\ Notify([stack EXCEPT ![Len(stack)] = new])
             /\ [stack EXCEPT ![Len(stack)] = new] \in Seq(Frame)
             /\ UNCHANGED <<queue, cap, askVars>>
    BY <1>8, PumpNextStep
  <2> DEFINE calls == [stack EXCEPT ![Len(stack)] = new]
  <2>2. DOMAIN calls = DOMAIN stack
    OBVIOUS
  <2>3. /\ stack' \in Seq(Frame)
        /\ \A i \in DOMAIN calls : i \in DOMAIN stack' /\ stack'[i] = calls[i]
        /\ \A i \in DOMAIN stack' : i \in DOMAIN calls \/ stack'[i].call = "tell"
        /\ \E i \in DOMAIN stack' : stack'[i].call = "tell"
        /\ notices' = notices + 1
    <3> HIDE DEF calls
    <3> QED
      BY <2>1, NotifyStep DEF calls
  <2>4. \A i \in DOMAIN stack' : stack'[i].call = "stop" => i = 1
    <3>1. \A i \in DOMAIN stack : calls[i].call = "stop" => stack[i].call = "stop"
      BY <2>1
    <3> QED
      BY <2>2, <2>3, <3>1 DEF StackOK
  <2> QED
    BY <1>0, <2>1, <2>3, <2>4 DEF StackOK
<1>9. CASE StopNext
  <2>1. PICK new \in Frame :
             /\ Len(stack) = 1 /\ stack[1].call = "stop"
             /\ new.call = "stop" /\ <<new>> \in Seq(Frame)
             /\ \/ Notify(<<new>>)
                \/ stack' = <<new>> /\ UNCHANGED notices
             /\ UNCHANGED <<queue, cap>>
    BY <1>9, StopNextStep
  <2>2. DOMAIN <<new>> = {1} /\ <<new>>[1] = new
    OBVIOUS
  <2>3. CASE Notify(<<new>>)
    <3>1. /\ stack' \in Seq(Frame)
          /\ \A i \in DOMAIN stack' : i \in DOMAIN <<new>> \/ stack'[i].call = "tell"
          /\ \E i \in DOMAIN stack' : stack'[i].call = "tell"
          /\ notices' = notices + 1
      BY <2>1, <2>3, NotifyStep
    <3> QED
      BY <1>0, <2>1, <2>2, <3>1 DEF StackOK
  <2>4. CASE stack' = <<new>> /\ UNCHANGED notices
    <3>1. notices = 0
      BY <1>0, <2>1 DEF StackOK
    <3> QED
      BY <1>0, <2>1, <2>2, <2>4, <3>1 DEF StackOK
  <2> QED
    BY <2>1, <2>3, <2>4
<1> QED
  BY <1>1, <1>2, <1>3, <1>4, <1>5, <1>6, <1>7, <1>8, <1>9, StepCases

-----------------------------------------------------------------------------
(* No PR twice *)

Clean(q) == IsInjective(q.items) /\ ToSet(q.items) \cap q.running = {}

LEMMA CleanParts == NothingTwice <=> Clean(queue) /\ \A i \in DOMAIN stack : Clean(stack[i])
  BY DEF NothingTwice, Clean

\* The first PR is started: it is no longer among the items, once and for all.
LEMMA CleanHead ==
    ASSUME NEW p, p.items \in Seq(Key), p.items # <<>>, Clean(p)
    PROVE  LET k == Head(p.items) IN
           /\ k = p.items[1] /\ k \in ToSet(p.items) /\ k \notin p.running
           /\ IsInjective(Tail(p.items))
           /\ ToSet(Tail(p.items)) \cap (p.running \cup {k}) = {}
<1> DEFINE s == p.items
           t == Tail(s)
<1>1. /\ Len(s) \in Nat /\ Len(s) >= 1 /\ DOMAIN s = 1 .. Len(s)
      /\ Len(t) = Len(s) - 1 /\ DOMAIN t = 1 .. Len(t)
      /\ \A i \in 1 .. Len(t) : t[i] = s[i + 1]
      /\ Head(s) = s[1]
  <2>1. t \in Seq(Key) /\ Len(t) = Len(s) - 1 /\ \A i \in 1 .. Len(t) : t[i] = s[i + 1]
    BY HeadTailProperties
  <2> QED
    BY <2>1
<1>2. IsInjective(s) /\ ToSet(s) \cap p.running = {}
  BY DEF Clean
<1> HIDE DEF s, t
<1>3. s[1] \in ToSet(s)
  BY <1>1 DEF ToSet
<1>4. IsInjective(t)
  <2>1. \A i, j \in 1 .. Len(t) : t[i] = t[j] => i = j
    BY <1>1, <1>2 DEF IsInjective
  <2> QED
    BY <1>1, <2>1 DEF IsInjective
<1>5. \A i \in 1 .. Len(t) : t[i] # s[1] /\ t[i] \in ToSet(s)
  <2>1. ASSUME NEW i \in 1 .. Len(t) PROVE t[i] # s[1] /\ t[i] \in ToSet(s)
    <3>1. i + 1 \in DOMAIN s /\ 1 \in DOMAIN s /\ t[i] = s[i + 1] /\ i + 1 # 1
      BY <1>1
    <3> QED
      BY <1>2, <3>1 DEF IsInjective, ToSet
  <2> QED
    BY <2>1
<1>6. ToSet(t) \cap (p.running \cup {s[1]}) = {}
  BY <1>1, <1>2, <1>5 DEF ToSet
<1> QED
  BY <1>1, <1>2, <1>3, <1>4, <1>6 DEF s, t

LEMMA CleanEmpty == ASSUME NEW q, q.items = <<>> PROVE Clean(q)
<1>1. DOMAIN <<>> = {}
  OBVIOUS
<1> QED
  BY <1>1 DEF Clean, IsInjective, ToSet

LEMMA CleanPump ==
    ASSUME NEW q, q.items \in Seq(Key), q.running \subseteq Key, Clean(q)
    PROVE  Clean(Pump(q))
  BY PumpType DEF Clean, Alive

LEMMA CleanStep ==
    ASSUME SessionsOK, StackOK, NothingTwice, [Next]_vars
    PROVE  NothingTwice'
<1>0. Clean(queue) /\ (\A i \in DOMAIN stack : Clean(stack[i])) /\ stack \in Seq(Frame)
  BY CleanParts DEF StackOK
<1>a. ASSUME Clean(queue'), \A i \in DOMAIN stack' : Clean(stack'[i])
      PROVE  NothingTwice'
  BY <1>a DEF NothingTwice, Clean
<1>b. queue.items \in Seq(Key) /\ queue.running \subseteq Key
  BY DEF StackOK
<1>c. Call("tell").items = <<>>
  BY CallType
<1> HIDE DEF Call
<1>1. CASE Asking
  BY <1>0, <1>1, <1>a DEF Asking
<1>2. CASE Ending \/ \E k \in Key : StartReview(k)
  <2>1. TurnBegins
    BY <1>2, EndingTells, NotifyWhenIdle DEF StartReview
  <2>2. stack' = <<Call("tell")>> /\ queue' = queue
    BY <2>1 DEF TurnBegins
  <2>3. \A i \in DOMAIN stack' : stack'[i] = Call("tell")
    BY <2>2
  <2> QED
    BY <1>0, <1>a, <1>c, <2>2, <2>3, CleanEmpty
<1>3. CASE \E chosen \in SUBSET Key : Enqueue(chosen)
  <2>1. queue'.items \in Seq(Key) /\ queue'.running \subseteq Key /\ Clean(queue')
    BY <1>3, <1>b, EnqueueStep DEF Clean
  <2>2. stack' = <<Pump(queue')>>
    BY <1>3 DEF Enqueue
  <2>3. Clean(Pump(queue'))
    BY <2>1, CleanPump
  <2> HIDE DEF Pump
  <2>4. \A i \in DOMAIN stack' : stack'[i] = Pump(queue')
    BY <2>2
  <2> QED
    BY <1>a, <2>1, <2>3, <2>4
<1>4. CASE SetCap
  <2>1. stack' = <<Call("tell"), Pump(queue)>> /\ UNCHANGED queue
    BY <1>4 DEF SetCap
  <2>2. Clean(Pump(queue)) /\ Clean(Call("tell"))
    BY <1>0, <1>b, <1>c, CleanPump, CleanEmpty
  <2> HIDE DEF Pump
  <2>3. \A i \in DOMAIN stack' : stack'[i] \in {Call("tell"), Pump(queue)}
    BY <2>1
  <2> QED
    BY <1>0, <1>a, <2>1, <2>2, <2>3
<1>5. CASE StopQueue
  <2> DEFINE new == [Call("stop") EXCEPT !.running = queue.running]
  <2>1. stack' = <<new>> /\ UNCHANGED queue
    BY <1>5 DEF StopQueue
  <2>2. new.items = <<>>
    BY DEF Call
  <2> HIDE DEF new
  <2>3. \A i \in DOMAIN stack' : stack'[i].items = <<>>
    BY <2>1, <2>2
  <2> QED
    BY <1>0, <1>a, <2>1, <2>3, CleanEmpty
<1>6. CASE Tell
  <2>1. UNCHANGED queue /\ (stack' = stack \/ stack' = Append(stack, Pump(queue)))
    BY <1>6 DEF Tell
  <2>2. Clean(Pump(queue)) /\ Pump(queue) \in Frame
    BY <1>0, <1>b, CleanPump, PumpType
  <2> HIDE DEF Pump
  <2>3. \A i \in DOMAIN stack' : (i \in DOMAIN stack /\ stack'[i] = stack[i]) \/ stack'[i] = Pump(queue)
    BY <1>0, <2>1, <2>2
  <2> QED
    BY <1>0, <1>a, <2>1, <2>2, <2>3
<1>7. CASE Told \/ PumpReturns \/ StopReturns
  <2>1. ~Idle /\ stack' = Front(stack)
    BY <1>7 DEF Told, PumpReturns, StopReturns, Return
  <2>2. /\ Len(stack) \in Nat \ {0} /\ Top = stack[Len(stack)]
        /\ stack' \in Seq(Frame) /\ Len(stack') = Len(stack) - 1
        /\ \A i \in 1 .. Len(stack) - 1 : stack'[i] = stack[i]
    BY <1>0, <2>1, TopOfStack
  <2>3. DOMAIN stack' = 1 .. Len(stack) - 1 /\ DOMAIN stack = 1 .. Len(stack)
    BY <1>0, <2>2
  <2>4. \A i \in DOMAIN stack' : i \in DOMAIN stack /\ stack'[i] = stack[i]
    BY <2>2, <2>3
  <2>5. Clean(Top)
    BY <1>0, <2>2, <2>3
  <2>6. Clean(queue')
    <3>1. CASE Told
      BY <1>0, <3>1 DEF Told
    <3>2. CASE PumpReturns
      BY <2>5, <3>2 DEF PumpReturns, Clean
    <3>3. CASE StopReturns
      BY <3>3, CleanEmpty DEF StopReturns
    <3> QED
      BY <1>7, <3>1, <3>2, <3>3
  <2> QED
    BY <1>0, <1>a, <2>4, <2>6
<1>8. CASE PumpNext
  <2>1. PICK p \in Frame, new \in Frame, k \in Key :
             /\ ~Idle /\ p = stack[Len(stack)]
             /\ p.items # <<>> /\ k = Head(p.items)
             /\ new.items = Tail(p.items) /\ new.running = p.running \cup {k}
             /\ Notify([stack EXCEPT ![Len(stack)] = new])
             /\ [stack EXCEPT ![Len(stack)] = new] \in Seq(Frame)
             /\ UNCHANGED queue
    BY <1>8, PumpNextStep
  <2> DEFINE calls == [stack EXCEPT ![Len(stack)] = new]
  <2>2. stack' = calls \/ stack' = Append(calls, Call("tell"))
    BY <2>1 DEF Notify
  <2>3. DOMAIN calls = DOMAIN stack /\ Len(stack) \in DOMAIN stack
    BY <1>0, <2>1, TopOfStack
  <2>4. Clean(new)
    <3>1. p.items \in Seq(Key) /\ Clean(p)
      BY <1>0, <2>1, <2>3 DEF Frame
    <3> QED
      BY <2>1, <3>1, CleanHead DEF Clean
  <2>5. \A i \in DOMAIN calls : Clean(calls[i])
    BY <1>0, <2>3, <2>4
  <2>6. Call("tell") \in Frame
    BY CallType
  <2> HIDE DEF calls
  <2>7. \A i \in DOMAIN stack' :
           (i \in DOMAIN calls /\ stack'[i] = calls[i]) \/ stack'[i] = Call("tell")
    BY <2>1, <2>2, <2>6 DEF calls
  <2> QED
    BY <1>0, <1>a, <1>c, <2>1, <2>5, <2>7, CleanEmpty
<1>9. CASE StopNext
  <2>1. PICK k \in Key, new \in Frame :
             /\ Len(stack) = 1 /\ <<new>> \in Seq(Frame)
             /\ new.items = stack[1].items /\ new.running \subseteq stack[1].running
             /\ Notify(<<new>>) \/ stack' = <<new>>
             /\ UNCHANGED queue
    BY <1>9, StopNextStep
  <2>2. Clean(new)
    <3>1. 1 \in DOMAIN stack
      BY <1>0, <2>1
    <3> QED
      BY <1>0, <2>1, <3>1 DEF Clean
  <2>3. stack' = <<new>> \/ stack' = Append(<<new>>, Call("tell"))
    BY <2>1 DEF Notify
  <2>4. \A i \in DOMAIN stack' : stack'[i] \in {new, Call("tell")}
    BY <2>3
  <2> QED
    BY <1>0, <1>a, <1>c, <2>1, <2>2, <2>4, CleanEmpty
<1> QED
  BY <1>1, <1>2, <1>3, <1>4, <1>5, <1>6, <1>7, <1>8, <1>9, StepCases

-----------------------------------------------------------------------------
(* What runs for the queue *)

\* A start lets one more review run, or starts one over.
LEMMA StartRuns ==
    ASSUME SessionsOK, NEW k \in Key, NEW who, Start(k, who)
    PROVE  \A j \in Key : Running(j)' <=> Running(j) \/ j = k
  BY DEF SessionsOK, Start, Running

LEMMA IdleIsPruned ==
    ASSUME StackOK, QueueIsPruned, Idle
    PROVE  notices = 0 /\ \A k \in queue.running : Running(k)
<1>1. DOMAIN stack = {}
  BY DEF Idle
<1>2. notices = 0
  BY <1>1 DEF StackOK
<1> QED
  BY <1>1, <1>2 DEF QueueIsPruned

LEMMA PrunedStep ==
    ASSUME SessionsOK, StackOK, PumpsArePruned, QueueIsPruned, [Next]_vars
    PROVE  PumpsArePruned' /\ QueueIsPruned'
<1>0. /\ queue.items \in Seq(Key) /\ queue.running \subseteq Key
      /\ stack \in Seq(Frame) /\ notices \in Nat
  BY DEF StackOK
<1>a. Call("tell") \in Frame /\ Call("tell").call = "tell"
  BY CallType
<1>b. /\ Pump(queue) \in Frame /\ Pump(queue).call = "pump"
      /\ \A k \in Pump(queue).running : Running(k)
  BY <1>0, PumpType DEF Alive
<1>c. \A k \in Key : session' = session => (Running(k)' <=> Running(k))
  BY DEF Running
<1>d. \A i \in DOMAIN stack : stack[i].running \subseteq Key
  <2>1. \A i \in DOMAIN stack : stack[i] \in Frame
    BY <1>0
  <2> QED
    BY <2>1 DEF Frame
<1> HIDE DEF Call
<1>1. CASE Asking
  BY <1>1 DEF Asking, PumpsArePruned, QueueIsPruned, Running
<1>2. CASE Ending \/ \E k \in Key : StartReview(k)
  <2>1. TurnBegins
    BY <1>2, EndingTells, NotifyWhenIdle DEF StartReview
  <2>2. stack' = <<Call("tell")>> /\ notices' > 0
    BY <1>0, <2>1 DEF TurnBegins
  <2>3. \A i \in DOMAIN stack' : stack'[i].call = "tell"
    BY <1>a, <2>2
  <2> QED
    BY <2>2, <2>3 DEF PumpsArePruned, QueueIsPruned
<1>3. CASE \E chosen \in SUBSET Key : Enqueue(chosen)
  <2>1. PICK x : queue' = [queue EXCEPT !.items = x]
    BY <1>3 DEF Enqueue
  <2>2. stack' = <<Pump(queue')>> /\ UNCHANGED session /\ Idle
    BY <1>3 DEF Enqueue
  <2>3. Pump(queue').call = "pump" /\ Pump(queue').running = Alive(queue'.running)
    BY DEF Pump, Alive
  <2>4. queue'.running = queue.running
    BY <2>1 DEF StackOK
  <2> HIDE DEF Pump
  <2>5. \A i \in DOMAIN stack' : stack'[i] = Pump(queue')
    BY <2>2
  <2>6. PumpsArePruned'
    BY <1>0, <1>c, <2>2, <2>3, <2>4, <2>5 DEF PumpsArePruned, Alive
  <2>7. QueueIsPruned'
    BY <1>0, <1>c, <2>2, <2>4, IdleIsPruned DEF QueueIsPruned
  <2> QED
    BY <2>6, <2>7
<1>4. CASE SetCap
  <2>1. stack' = <<Call("tell"), Pump(queue)>> /\ UNCHANGED <<queue, session>> /\ Idle
    BY <1>4 DEF SetCap
  <2> HIDE DEF Pump
  <2>2. \A i \in DOMAIN stack' : stack'[i] \in {Call("tell"), Pump(queue)}
    BY <2>1
  <2>3. Pump(queue).running \subseteq Key
    BY <1>b DEF Frame
  <2>4. PumpsArePruned'
    BY <1>a, <1>b, <1>c, <2>1, <2>2, <2>3 DEF PumpsArePruned
  <2>5. QueueIsPruned'
    BY <1>0, <1>c, <2>1, IdleIsPruned DEF QueueIsPruned
  <2> QED
    BY <2>4, <2>5
<1>5. CASE StopQueue
  <2> DEFINE new == [Call("stop") EXCEPT !.running = queue.running]
  <2>1. stack' = <<new>> /\ UNCHANGED <<queue, session>> /\ Idle
    BY <1>5 DEF StopQueue
  <2>2. new.call = "stop"
    BY DEF Call
  <2> HIDE DEF new
  <2>3. \A i \in DOMAIN stack' : stack'[i].call = "stop"
    BY <2>1, <2>2
  <2> QED
    BY <1>0, <1>c, <2>1, <2>3, IdleIsPruned DEF PumpsArePruned, QueueIsPruned
<1>6. CASE Tell
  <2>1. /\ ~Idle /\ notices > 0 /\ UNCHANGED <<queue, session>>
        /\ \/ stack' = stack /\ queue.running = {}
           \/ stack' = Append(stack, Pump(queue))
    BY <1>6 DEF Tell
  <2> HIDE DEF Pump
  <2>2. \A i \in DOMAIN stack' : (i \in DOMAIN stack /\ stack'[i] = stack[i]) \/ stack'[i] = Pump(queue)
    BY <1>0, <1>b, <2>1
  <2>3. Pump(queue).running \subseteq Key
    BY <1>b DEF Frame
  <2>4. PumpsArePruned'
    BY <1>b, <1>c, <1>d, <2>1, <2>2, <2>3 DEF PumpsArePruned
  <2>5. CASE stack' = stack /\ queue.running = {}
    <3>1. queue'.running = {}
      BY <2>1, <2>5
    <3> QED
      BY <2>4, <3>1 DEF QueueIsPruned
  <2>6. CASE stack' = Append(stack, Pump(queue))
    <3>1. Len(stack) + 1 \in DOMAIN stack' /\ stack'[Len(stack) + 1] = Pump(queue)
      BY <1>0, <1>b, <2>6
    <3>2. stack'[Len(stack) + 1].call = "pump"
      BY <1>b, <3>1
    <3>3. \E i \in DOMAIN stack' : stack'[i].call = "pump"
      BY <3>1, <3>2
    <3> QED
      BY <2>4, <3>3 DEF QueueIsPruned
  <2> QED
    BY <2>1, <2>4, <2>5, <2>6
<1>7. CASE Told \/ PumpReturns \/ StopReturns
  <2>1. ~Idle /\ stack' = Front(stack) /\ UNCHANGED <<session, notices>>
    BY <1>7 DEF Told, PumpReturns, StopReturns, Return
  <2>2. /\ Len(stack) \in Nat \ {0} /\ Top = stack[Len(stack)] /\ Top \in Frame
        /\ stack' \in Seq(Frame) /\ Len(stack') = Len(stack) - 1
        /\ \A i \in 1 .. Len(stack) - 1 : stack'[i] = stack[i]
    BY <1>0, <2>1, TopOfStack
  <2>3. DOMAIN stack' = 1 .. Len(stack) - 1 /\ DOMAIN stack = 1 .. Len(stack)
    BY <1>0, <2>2
  <2>4. PumpsArePruned'
    <3>1. \A i \in DOMAIN stack' : i \in DOMAIN stack /\ stack'[i] = stack[i]
      BY <2>2, <2>3
    <3> QED
      BY <1>c, <1>d, <2>1, <3>1 DEF PumpsArePruned
  <2>5. QueueIsPruned'
    <3>1. CASE Told
      <4>1. Top.call = "tell" /\ notices = 0 /\ UNCHANGED queue
        BY <3>1 DEF Told
      <4>2. CASE \A k \in queue.running : Running(k)
        BY <1>0, <1>c, <2>1, <4>1, <4>2 DEF QueueIsPruned
      <4>3. CASE \E i \in DOMAIN stack : stack[i].call = "pump"
        <5>1. PICK i \in DOMAIN stack : stack[i].call = "pump"
          BY <4>3
        <5>2. i # Len(stack)
          BY <2>2, <4>1, <5>1
        <5>3. i \in 1 .. Len(stack) - 1
          BY <2>2, <2>3, <5>2
        <5> QED
          BY <2>2, <2>3, <5>1, <5>3 DEF QueueIsPruned
      <4> QED
        BY <4>1, <4>2, <4>3 DEF QueueIsPruned
    <3>2. CASE PumpReturns
      <4>1. Top.call = "pump" /\ queue' = [items |-> Top.items, running |-> Top.running]
        BY <3>2 DEF PumpReturns
      <4>2. Len(stack) \in DOMAIN stack
        BY <2>2, <2>3
      <4>3. \A k \in Top.running : k \in Key /\ Running(k)
        BY <1>d, <2>2, <4>1, <4>2 DEF PumpsArePruned
      <4>4. queue'.running = Top.running
        BY <4>1
      <4> QED
        BY <1>c, <2>1, <4>3, <4>4 DEF QueueIsPruned
    <3>3. CASE StopReturns
      BY <3>3 DEF StopReturns, QueueIsPruned
    <3> QED
      BY <1>7, <3>1, <3>2, <3>3
  <2> QED
    BY <2>4, <2>5
<1>8. CASE PumpNext
  <2>1. PICK p \in Frame, new \in Frame, k \in Key :
             /\ ~Idle /\ p = stack[Len(stack)] /\ p.call = "pump"
             /\ new.call = "pump" /\ new.running = p.running \cup {k}
             /\ Start(k, Starter) /\ Notify([stack EXCEPT ![Len(stack)] = new])
             /\ [stack EXCEPT ![Len(stack)] = new] \in Seq(Frame)
             /\ UNCHANGED queue
    BY <1>8, PumpNextStep
  <2> DEFINE calls == [stack EXCEPT ![Len(stack)] = new]
  <2>2. DOMAIN calls = DOMAIN stack /\ Len(stack) \in DOMAIN stack
    BY <1>0, <2>1, TopOfStack
  <2>3. \A j \in Key : Running(j)' <=> Running(j) \/ j = k
    BY <2>1, StartRuns
  <2>4. \A i \in DOMAIN calls : calls[i].call = "pump" =>
           \A j \in calls[i].running : j \in Key /\ Running(j)'
    BY <1>d, <2>1, <2>2, <2>3 DEF PumpsArePruned
  <2>5. /\ \A i \in DOMAIN calls : i \in DOMAIN stack' /\ stack'[i] = calls[i]
        /\ \A i \in DOMAIN stack' : i \in DOMAIN calls \/ stack'[i].call = "tell"
        /\ notices' = notices + 1
    <3> HIDE DEF calls
    <3> QED
      BY <2>1, NotifyStep DEF calls
  <2> HIDE DEF calls
  <2>6. PumpsArePruned'
    BY <2>4, <2>5 DEF PumpsArePruned
  <2>7. notices' > 0
    BY <1>0, <2>5
  <2> QED
    BY <2>6, <2>7 DEF QueueIsPruned
<1>9. CASE StopNext
  <2>1. PICK k \in Key, new \in Frame :
             /\ Len(stack) = 1 /\ stack[1].call = "stop" /\ new.call = "stop"
             /\ <<new>> \in Seq(Frame)
             /\ \/ Notify(<<new>>)
                \/ stack' = <<new>> /\ UNCHANGED <<session, streams, notices>>
             /\ UNCHANGED queue
    BY <1>9, StopNextStep
  <2>2. CASE Notify(<<new>>)
    <3>1. /\ \A i \in DOMAIN <<new>> : i \in DOMAIN stack' /\ stack'[i] = <<new>>[i]
          /\ \A i \in DOMAIN stack' : i \in DOMAIN <<new>> \/ stack'[i].call = "tell"
          /\ notices' = notices + 1
      BY <2>1, <2>2, NotifyStep
    <3>2. \A i \in DOMAIN stack' : stack'[i].call # "pump"
      BY <2>1, <3>1
    <3>3. notices' > 0
      BY <1>0, <3>1
    <3> QED
      BY <3>2, <3>3 DEF PumpsArePruned, QueueIsPruned
  <2>3. CASE stack' = <<new>> /\ UNCHANGED <<session, streams, notices>>
    <3>1. \A i \in DOMAIN stack' : stack'[i].call # "pump"
      BY <2>1, <2>3
    <3>2. \A i \in DOMAIN stack : stack[i].call # "pump"
      BY <1>0, <2>1
    <3> QED
      BY <1>0, <1>c, <2>1, <2>3, <3>1, <3>2 DEF PumpsArePruned, QueueIsPruned
  <2> QED
    BY <2>1, <2>2, <2>3
<1> QED
  BY <1>1, <1>2, <1>3, <1>4, <1>5, <1>6, <1>7, <1>8, <1>9, StepCases

-----------------------------------------------------------------------------
(* The queue and its copies *)

LEMMA CopyType ==
    ASSUME StackOK, NothingTwice, PumpsArePruned, NEW c \in Copies
    PROVE  /\ c.items \in Seq(Key) /\ c.running \subseteq Key /\ Clean(c)
           /\ c = queue \/ \A k \in c.running : Running(k)
<1>1. CASE c = queue
  BY <1>1, CleanParts DEF StackOK
<1>2. CASE c # queue
  <2>1. PICK i \in DOMAIN stack : stack[i].call = "pump" /\ c = stack[i]
    BY <1>2 DEF Copies
  <2>2. c \in Frame
    BY <2>1 DEF StackOK
  <2> QED
    BY <2>1, <2>2, CleanParts DEF Frame, PumpsArePruned
<1> QED
  BY <1>1, <1>2

\* A copy made afresh, or put in the place of another, agrees with all that it did.
LEMMA FollowsItself ==
    ASSUME NEW p, NEW q, p.items \in Seq(Key), q.items = p.items,
           Alive(q.running) = Alive(p.running)
    PROVE  Follows(p, q)
<1>1. Len(p.items) \in Nat
  OBVIOUS
<1>2. 0 \in 0 .. Len(p.items) /\ 1..0 = {} /\ Len(q.items) = Len(p.items) - 0
  BY <1>1
<1>3. \A i \in 1 .. Len(q.items) : q.items[i] = p.items[0 + i]
  BY <1>1
<1> QED
  BY <1>2, <1>3 DEF Follows

LEMMA SamePlace ==
    ASSUME NEW p, NEW q, NEW c, c.items = q.items, Alive(c.running) = Alive(q.running)
    PROVE  (Follows(p, q) => Follows(p, c)) /\ (Follows(q, p) => Follows(c, p))
  BY DEF Follows

\* Reviews may be started meanwhile, if they are none that a copy thought over.
LEMMA FollowsStays ==
    ASSUME NEW p, NEW q, p.items \in Seq(Key), Follows(p, q),
           Alive(p.running)' = Alive(p.running), Alive(q.running)' = Alive(q.running),
           \A j \in Key : Running(j) => Running(j)'
    PROVE  Follows(p, q)'
<1>1. PICK n \in 0 .. Len(p.items) :
        /\ Len(q.items) = Len(p.items) - n
        /\ \A i \in 1 .. Len(q.items) : q.items[i] = p.items[n + i]
        /\ Alive(q.running) = Alive(p.running) \cup {p.items[i] : i \in 1..n}
        /\ \A i \in 1..n : Running(p.items[i])
  BY DEF Follows
<1>2. \A i \in 1..n : p.items[i] \in Key
  <2>1. Len(p.items) \in Nat /\ \A i \in 1 .. Len(p.items) : p.items[i] \in Key
    OBVIOUS
  <2> QED
    BY <2>1
<1>3. \A i \in 1..n : Running(p.items[i])'
  BY <1>1, <1>2
<1> QED
  BY <1>1, <1>3 DEF Follows

\* The head of a copy runs already, or no other copy has it among its reviews.
LEMMA HeadIsKnown ==
    ASSUME NEW p, NEW q, p.items \in Seq(Key), q.items \in Seq(Key), p.items # <<>>,
           Clean(q), Follows(p, q) \/ Follows(q, p)
    PROVE  p.items[1] \notin q.running \/ Running(p.items[1])
<1>0. Len(p.items) \in Nat \ {0} /\ Len(q.items) \in Nat
  OBVIOUS
<1>1. ASSUME NEW i \in 1 .. Len(q.items), q.items[i] = p.items[1]
      PROVE  p.items[1] \notin q.running
  <2>1. i \in DOMAIN q.items
    OBVIOUS
  <2> QED
    BY <1>1, <2>1 DEF Clean, ToSet
<1>2. CASE Follows(p, q)
  <2>1. PICK n \in 0 .. Len(p.items) :
          /\ Len(q.items) = Len(p.items) - n
          /\ \A i \in 1 .. Len(q.items) : q.items[i] = p.items[n + i]
          /\ \A i \in 1..n : Running(p.items[i])
    BY <1>2 DEF Follows
  <2>2. CASE n = 0
    <3>1. 1 \in 1 .. Len(q.items) /\ q.items[1] = p.items[1]
      BY <1>0, <2>1, <2>2
    <3> QED
      BY <1>1, <3>1
  <2>3. CASE n # 0
    <3>1. 1 \in 1..n
      BY <1>0, <2>3
    <3> QED
      BY <2>1, <3>1
  <2> QED
    BY <2>2, <2>3
<1>3. CASE Follows(q, p)
  <2>1. PICK n \in 0 .. Len(q.items) :
          /\ Len(p.items) = Len(q.items) - n
          /\ \A i \in 1 .. Len(p.items) : p.items[i] = q.items[n + i]
    BY <1>3 DEF Follows
  <2>2. n + 1 \in 1 .. Len(q.items) /\ 1 \in 1 .. Len(p.items)
    BY <1>0, <2>1
  <2>3. p.items[1] = q.items[n + 1]
    BY <2>1, <2>2
  <2> QED
    BY <1>1, <2>2, <2>3
<1> QED
  BY <1>2, <1>3

\* A pump starts the head of its copy and gets one PR further.
LEMMA PumpAdvances ==
    ASSUME NEW p, NEW q, NEW new, NEW k \in Key,
           p.items \in Seq(Key), q.items \in Seq(Key), p.items # <<>>,
           p.running \subseteq Key, q.running \subseteq Key, Clean(p), Clean(q),
           k = Head(p.items), new.items = Tail(p.items), new.running = p.running \cup {k},
           \A j \in Key : Running(j)' <=> Running(j) \/ j = k,
           Follows(p, q) \/ Follows(q, p)
    PROVE  Follows(new, q)' \/ Follows(q, new)'
<1>0. /\ Len(p.items) \in Nat \ {0} /\ Len(q.items) \in Nat
      /\ k = p.items[1] /\ k \notin p.running
      /\ \A i \in 1 .. Len(p.items) : p.items[i] \in Key
      /\ \A i \in 1 .. Len(q.items) : q.items[i] \in Key
  BY CleanHead
<1>1. /\ Len(new.items) = Len(p.items) - 1
      /\ \A i \in 1 .. Len(p.items) - 1 : new.items[i] = p.items[i + 1]
  BY HeadTailProperties
<1>2. k \notin q.running \/ Running(k)
  BY <1>0, HeadIsKnown
<1>3. Alive(q.running)' = Alive(q.running)
  BY <1>2 DEF Alive
<1>4. Alive(new.running)' = Alive(p.running) \cup {k}
  BY <1>0 DEF Alive
<1>5. CASE Follows(q, p)
  <2>1. PICK n \in 0 .. Len(q.items) :
          /\ Len(p.items) = Len(q.items) - n
          /\ \A i \in 1 .. Len(p.items) : p.items[i] = q.items[n + i]
          /\ Alive(p.running) = Alive(q.running) \cup {q.items[i] : i \in 1..n}
          /\ \A i \in 1..n : Running(q.items[i])
    BY <1>5 DEF Follows
  <2>2. n + 1 \in 0 .. Len(q.items) /\ Len(new.items) = Len(q.items) - (n + 1)
    BY <1>0, <1>1, <2>1
  <2>3. q.items[n + 1] = k
    <3>1. 1 \in 1 .. Len(p.items)
      BY <1>0
    <3> QED
      BY <1>0, <2>1, <3>1
  <2>4. \A i \in 1 .. Len(new.items) : new.items[i] = q.items[(n + 1) + i]
    <3>1. ASSUME NEW i \in 1 .. Len(new.items) PROVE new.items[i] = q.items[(n + 1) + i]
      <4>1. i \in 1 .. Len(p.items) - 1 /\ i + 1 \in 1 .. Len(p.items)
        BY <1>0, <1>1
      <4>2. p.items[i + 1] = q.items[n + (i + 1)] /\ n + (i + 1) = (n + 1) + i
        BY <2>1, <4>1
      <4> QED
        BY <1>1, <4>1, <4>2
    <3> QED
      BY <3>1
  <2>5. \A i \in 1..(n + 1) : i \in 1..n \/ i = n + 1
    BY <2>1
  <2>6. {q.items[i] : i \in 1..(n + 1)} = {q.items[i] : i \in 1..n} \cup {k}
    <3>1. n + 1 \in 1..(n + 1) /\ 1..n \subseteq 1..(n + 1)
      BY <2>1
    <3> QED
      BY <2>3, <2>5, <3>1
  <2>7. Alive(new.running)' = Alive(q.running)' \cup {q.items[i] : i \in 1..(n + 1)}
    BY <1>3, <1>4, <2>1, <2>6
  <2>8. \A i \in 1..(n + 1) : Running(q.items[i])'
    <3>1. \A i \in 1..n : q.items[i] \in Key
      BY <1>0, <2>1
    <3> QED
      BY <2>1, <2>3, <2>5, <3>1
  <2> QED
    BY <2>2, <2>4, <2>7, <2>8 DEF Follows
<1>6. CASE Follows(p, q) /\ ~Follows(q, p)
  <2>1. PICK n \in 0 .. Len(p.items) :
          /\ Len(q.items) = Len(p.items) - n
          /\ \A i \in 1 .. Len(q.items) : q.items[i] = p.items[n + i]
          /\ Alive(q.running) = Alive(p.running) \cup {p.items[i] : i \in 1..n}
          /\ \A i \in 1..n : Running(p.items[i])
    BY <1>6 DEF Follows
  <2>2. n # 0
    <3>1. ASSUME n = 0 PROVE FALSE
      <4>1. Len(q.items) = Len(p.items) /\ \A i \in 1 .. Len(q.items) : q.items[i] = p.items[i]
        BY <1>0, <2>1, <3>1
      <4>2. q.items = p.items
        BY <4>1
      <4>3. Alive(q.running) = Alive(p.running)
        <5>1. 1..n = {}
          BY <3>1
        <5> QED
          BY <2>1, <5>1
      <4> QED
        BY <1>6, <4>2, <4>3, FollowsItself
    <3> QED
      BY <3>1
  <2> DEFINE m == n - 1
  <2>3. m \in 0 .. Len(new.items) /\ Len(q.items) = Len(new.items) - m /\ n = m + 1
    BY <1>0, <1>1, <2>1, <2>2
  <2> HIDE DEF m
  <2>4. \A i \in 1 .. Len(q.items) : q.items[i] = new.items[m + i]
    <3>1. ASSUME NEW i \in 1 .. Len(q.items) PROVE q.items[i] = new.items[m + i]
      <4>1. m + i \in 1 .. Len(p.items) - 1 /\ (m + i) + 1 = n + i
        <5> DEFINE a == Len(p.items)
                   b == Len(q.items)
        <5>1. a \in Nat /\ b \in Nat /\ n \in Nat /\ m \in Nat /\ i \in 1..b
          BY <1>0, <2>1, <2>3
        <5>2. b = a - n /\ n = m + 1
          BY <2>1, <2>3
        <5> HIDE DEF a, b
        <5>3. m + i \in 1 .. a - 1 /\ (m + i) + 1 = n + i
          BY <5>1, <5>2
        <5> QED
          BY <5>3 DEF a
      <4> QED
        BY <1>1, <2>1, <4>1
    <3> QED
      BY <3>1
  <2>5. \A i \in 1..n : i = 1 \/ (i - 1 \in 1..m /\ (i - 1) + 1 = i)
    BY <2>1, <2>3
  <2>6. \A i \in 1..m : i + 1 \in 1..n /\ new.items[i] = p.items[i + 1]
    <3>1. ASSUME NEW i \in 1..m PROVE i + 1 \in 1..n /\ i \in 1 .. Len(p.items) - 1
      BY <1>0, <1>1, <2>3
    <3> QED
      BY <1>1, <3>1
  <2>7. {p.items[i] : i \in 1..n} = {k} \cup {new.items[i] : i \in 1..m}
    <3>1. 1 \in 1..n
      BY <2>1, <2>2
    <3>2. ASSUME NEW i \in 1..n PROVE p.items[i] = k \/ \E j \in 1..m : p.items[i] = new.items[j]
      <4>1. CASE i = 1
        BY <1>0, <4>1
      <4>2. CASE i # 1
        <5>1. i - 1 \in 1..m /\ (i - 1) + 1 = i
          BY <2>5, <4>2
        <5>2. new.items[i - 1] = p.items[i]
          BY <2>6, <5>1
        <5> QED
          BY <5>1, <5>2
      <4> QED
        BY <4>1, <4>2
    <3>3. \A x \in {p.items[i] : i \in 1..n} : x \in {k} \cup {new.items[i] : i \in 1..m}
      BY <3>2
    <3>4. \A x \in {new.items[i] : i \in 1..m} : x \in {p.items[i] : i \in 1..n}
      BY <2>6
    <3>5. k \in {p.items[i] : i \in 1..n}
      BY <1>0, <3>1
    <3> QED
      BY <3>3, <3>4, <3>5
  <2>8. Alive(q.running)' = Alive(new.running)' \cup {new.items[i] : i \in 1..m}
    BY <1>3, <1>4, <2>1, <2>7
  <2>9. \A i \in 1..m : Running(new.items[i])'
    <3>1. ASSUME NEW i \in 1..m PROVE Running(new.items[i])'
      <4>1. i + 1 \in 1..n /\ i + 1 \in 1 .. Len(p.items) /\ new.items[i] = p.items[i + 1]
        BY <2>1, <2>6
      <4>2. p.items[i + 1] \in Key /\ Running(p.items[i + 1])
        BY <1>0, <2>1, <4>1
      <4> QED
        BY <4>1, <4>2
    <3> QED
      BY <3>1
  <2> QED
    BY <2>3, <2>4, <2>8, <2>9 DEF Follows
<1> QED
  BY <1>5, <1>6

\* One copy and the queue it was made of.
LEMMA TwoCopies ==
    ASSUME NEW q, NEW c, q.items \in Seq(Key), c.items = q.items,
           Alive(c.running)' = Alive(q.running)',
           \A x \in Copies' : x = q \/ x = c
    PROVE  CopiesAgree'
<1>1. ASSUME NEW x \in Copies', NEW y \in Copies'
      PROVE  Follows(x, y)'
  <2>1. /\ x.items = q.items /\ y.items = q.items /\ Alive(x.running)' = Alive(y.running)'
        /\ Len(x.items) \in Nat
    OBVIOUS
  <2>2. 0 \in 0 .. Len(x.items) /\ 1..0 = {} /\ Len(y.items) = Len(x.items) - 0
    BY <2>1
  <2>3. \A i \in 1 .. Len(y.items) : y.items[i] = x.items[0 + i]
    BY <2>1
  <2> QED
    BY <2>1, <2>2, <2>3 DEF Follows
<1> QED
  BY <1>1 DEF CopiesAgree

\* Nothing is started or stopped and the copies are among the ones there were, or in
\* their place.
LEMMA CopiesStay ==
    ASSUME StackOK, NothingTwice, PumpsArePruned, CopiesAgree, UNCHANGED session,
           \A x \in Copies' : \E c \in Copies :
               x.items = c.items /\ Alive(x.running) = Alive(c.running)
    PROVE  CopiesAgree'
<1>1. ASSUME NEW x \in Copies', NEW y \in Copies' PROVE Follows(x, y)' \/ Follows(y, x)'
  <2>1. PICK c \in Copies : x.items = c.items /\ Alive(x.running) = Alive(c.running)
    OBVIOUS
  <2>2. PICK d \in Copies : y.items = d.items /\ Alive(y.running) = Alive(d.running)
    OBVIOUS
  <2>3. Follows(c, d) \/ Follows(d, c)
    BY DEF CopiesAgree
  <2>4. Follows(x, y) \/ Follows(y, x)
    <3>1. CASE Follows(c, d)
      <4>1. Follows(c, y)
        BY <2>2, <3>1, SamePlace
      <4> QED
        BY <2>1, <4>1, SamePlace
    <3>2. CASE Follows(d, c)
      <4>1. Follows(d, x)
        BY <2>1, <3>2, SamePlace
      <4> QED
        BY <2>2, <4>1, SamePlace
    <3> QED
      BY <2>3, <3>1, <3>2
  <2>5. x.items \in Seq(Key) /\ y.items \in Seq(Key)
    BY <2>1, <2>2, CopyType
  <2>6. /\ Alive(x.running)' = Alive(x.running) /\ Alive(y.running)' = Alive(y.running)
        /\ \A j \in Key : Running(j) => Running(j)'
    BY DEF Alive, Running
  <2> QED
    BY <2>4, <2>5, <2>6, FollowsStays
<1> QED
  BY <1>1 DEF CopiesAgree

LEMMA CopiesStep ==
    ASSUME QueueInv, [Next]_vars
    PROVE  CopiesAgree'
<1>0. /\ SessionsOK /\ StackOK /\ NothingTwice /\ PumpsArePruned /\ CopiesAgree
      /\ queue.items \in Seq(Key) /\ queue.running \subseteq Key
      /\ stack \in Seq(Frame)
  BY DEF QueueInv, StackOK
<1>a. Call("tell") \in Frame /\ Call("tell").call = "tell"
  BY CallType
<1>b. /\ Pump(queue) \in Frame /\ Pump(queue).items = queue.items
      /\ Alive(Pump(queue).running) = Alive(queue.running)
  BY <1>0, PumpType DEF Alive
<1>c. StackOK'
  BY <1>0, StackStep
<1>d. queue'.items \in Seq(Key) /\ queue'.running \subseteq Key /\ stack' \in Seq(Frame)
  BY <1>c DEF StackOK
<1>e. ASSUME \A i \in DOMAIN stack' : stack'[i].call # "pump"
      PROVE  CopiesAgree'
  <2>1. PICK q : q = queue'
    OBVIOUS
  <2>2. \A x \in Copies' : x = q
    BY <1>e, <2>1 DEF Copies
  <2> QED
    BY <1>d, <2>1, <2>2, TwoCopies
<1>f. queue \in Copies
  BY DEF Copies
<1> HIDE DEF Call
<1>1. CASE Asking
  <2>1. Copies' = Copies /\ UNCHANGED session
    BY <1>1 DEF Asking, Copies
  <2> QED
    BY <1>0, <2>1, CopiesStay
<1>2. CASE Ending \/ \E k \in Key : StartReview(k)
  <2>1. TurnBegins
    BY <1>2, EndingTells, NotifyWhenIdle DEF StartReview
  <2>2. \A i \in DOMAIN stack' : stack'[i].call = "tell"
    BY <1>a, <2>1 DEF TurnBegins
  <2> QED
    BY <1>e, <2>2
<1>3. CASE \E chosen \in SUBSET Key : Enqueue(chosen)
  <2>0. PICK q : q = queue'
    OBVIOUS
  <2>1. stack' = <<Pump(q)>> /\ UNCHANGED session
    BY <1>3, <2>0 DEF Enqueue
  <2>2. PICK c : c = Pump(q)
    OBVIOUS
  <2>3. c.items = q.items /\ c.running = Alive(q.running)
    BY <1>d, <2>0, <2>2, PumpType
  <2>4. Alive(c.running)' = Alive(q.running)'
    BY <2>1, <2>3 DEF Alive, Running
  <2>5. \A x \in Copies' : x = q \/ x = c
    BY <2>0, <2>1, <2>2 DEF Copies
  <2> QED
    BY <1>d, <2>0, <2>3, <2>4, <2>5, TwoCopies
<1>4. CASE SetCap
  <2>1. stack' = <<Call("tell"), Pump(queue)>> /\ UNCHANGED <<queue, session>>
    BY <1>4 DEF SetCap
  <2> HIDE DEF Pump
  <2>2. \A i \in DOMAIN stack' : stack'[i] \in {Call("tell"), Pump(queue)}
    BY <2>1
  <2>3. \A x \in Copies' : x = queue \/ x = Pump(queue)
    BY <1>a, <2>1, <2>2 DEF Copies
  <2> QED
    BY <1>0, <1>b, <1>f, <2>1, <2>3, CopiesStay
<1>5. CASE StopQueue
  <2> DEFINE new == [Call("stop") EXCEPT !.running = queue.running]
  <2>1. stack' = <<new>>
    BY <1>5 DEF StopQueue
  <2>2. new.call = "stop"
    BY DEF Call
  <2> HIDE DEF new
  <2>3. \A i \in DOMAIN stack' : stack'[i].call # "pump"
    BY <2>1, <2>2
  <2> QED
    BY <1>e, <2>3
<1>6. CASE Tell
  <2>1. UNCHANGED <<queue, session>> /\ (stack' = stack \/ stack' = Append(stack, Pump(queue)))
    BY <1>6 DEF Tell
  <2> HIDE DEF Pump
  <2>2. \A i \in DOMAIN stack' : (i \in DOMAIN stack /\ stack'[i] = stack[i]) \/ stack'[i] = Pump(queue)
    BY <1>0, <1>b, <2>1
  <2>3. \A x \in Copies' : x \in Copies \/ x = Pump(queue)
    BY <2>1, <2>2 DEF Copies
  <2> QED
    BY <1>0, <1>b, <1>f, <2>1, <2>3, CopiesStay
<1>7. CASE Told \/ PumpReturns \/ StopReturns
  <2>1. ~Idle /\ stack' = Front(stack) /\ UNCHANGED session
    BY <1>7 DEF Told, PumpReturns, StopReturns, Return
  <2>2. /\ Len(stack) \in Nat \ {0} /\ Top = stack[Len(stack)]
        /\ stack' \in Seq(Frame) /\ Len(stack') = Len(stack) - 1
        /\ \A i \in 1 .. Len(stack) - 1 : stack'[i] = stack[i]
    BY <1>0, <2>1, TopOfStack
  <2>3. DOMAIN stack' = 1 .. Len(stack) - 1 /\ DOMAIN stack = 1 .. Len(stack)
    BY <1>0, <2>2
  <2>4. \A i \in DOMAIN stack' : i \in DOMAIN stack /\ stack'[i] = stack[i]
    BY <2>2, <2>3
  <2>5. \A x \in Copies' : x \in Copies \/ x = queue'
    BY <2>4 DEF Copies
  <2>6. CASE Told
    <3>1. queue' = queue
      BY <2>6 DEF Told
    <3> QED
      BY <1>0, <1>f, <2>1, <2>5, <3>1, CopiesStay
  <2>7. CASE PumpReturns
    <3>1. Top.call = "pump" /\ queue' = [items |-> Top.items, running |-> Top.running]
      BY <2>7 DEF PumpReturns
    <3>2. Top \in Copies
      BY <2>2, <2>3, <3>1 DEF Copies
    <3>3. queue'.items = Top.items /\ queue'.running = Top.running
      BY <3>1
    <3> QED
      BY <1>0, <2>1, <2>5, <3>2, <3>3, CopiesStay
  <2>8. CASE StopReturns
    <3>1. Top.call = "stop"
      BY <2>8 DEF StopReturns
    <3>2. Len(stack) = 1
      <4>1. Len(stack) \in DOMAIN stack
        BY <2>2, <2>3
      <4> QED
        BY <1>0, <2>2, <3>1, <4>1 DEF StackOK
    <3> QED
      BY <1>e, <2>3, <3>2
  <2> QED
    BY <1>7, <2>6, <2>7, <2>8
<1>8. CASE PumpNext
  <2>1. PICK p \in Frame, new \in Frame, k \in Key :
             /\ ~Idle /\ p = stack[Len(stack)] /\ p.call = "pump"
             /\ p.items # <<>> /\ k = Head(p.items)
             /\ new.call = "pump" /\ new.items = Tail(p.items) /\ new.running = p.running \cup {k}
             /\ Start(k, Starter) /\ Notify([stack EXCEPT ![Len(stack)] = new])
             /\ [stack EXCEPT ![Len(stack)] = new] \in Seq(Frame)
             /\ UNCHANGED queue
    BY <1>0, <1>8, PumpNextStep
  <2> DEFINE calls == [stack EXCEPT ![Len(stack)] = new]
  <2>2. DOMAIN calls = DOMAIN stack /\ Len(stack) \in DOMAIN stack
    BY <1>0, <2>1, TopOfStack
  <2>3. \A j \in Key : Running(j)' <=> Running(j) \/ j = k
    BY <1>0, <2>1, StartRuns
  <2>4. \A i \in DOMAIN stack' : (i \in DOMAIN calls /\ stack'[i] = calls[i]) \/ stack'[i].call = "tell"
    <3> HIDE DEF calls
    <3> QED
      BY <2>1, NotifyStep DEF calls
  <2>5. \A x \in Copies' : x = new \/ x \in Copies
    <3>1. \A i \in DOMAIN calls : calls[i] = new \/ calls[i] = stack[i]
      BY <2>2
    <3> HIDE DEF calls
    <3> QED
      BY <2>1, <2>2, <2>4, <3>1 DEF Copies
  <2>6. p \in Copies
    BY <2>1, <2>2 DEF Copies
  <2>7. /\ p.items \in Seq(Key) /\ p.running \subseteq Key /\ Clean(p)
        /\ k = p.items[1]
    BY <1>0, <2>1, <2>6, CopyType, CleanHead
  <2>8. ASSUME NEW c \in Copies
        PROVE  /\ c.items \in Seq(Key) /\ c.running \subseteq Key /\ Clean(c)
               /\ Follows(p, c) \/ Follows(c, p)
               /\ Alive(c.running)' = Alive(c.running)
    <3>1. c.items \in Seq(Key) /\ c.running \subseteq Key /\ Clean(c)
      BY <1>0, CopyType
    <3>2. Follows(p, c) \/ Follows(c, p)
      BY <1>0, <2>6 DEF CopiesAgree
    <3>3. k \notin c.running \/ Running(k)
      BY <2>1, <2>7, <3>1, <3>2, HeadIsKnown
    <3>4. Alive(c.running)' = Alive(c.running)
      BY <2>3, <3>1, <3>3 DEF Alive
    <3> QED
      BY <3>1, <3>2, <3>4
  <2>9. ASSUME NEW c \in Copies PROVE Follows(new, c)' \/ Follows(c, new)'
    BY <2>1, <2>3, <2>7, <2>8, PumpAdvances
  <2>10. ASSUME NEW c \in Copies, NEW d \in Copies PROVE Follows(c, d)' \/ Follows(d, c)'
    <3>1. Follows(c, d) \/ Follows(d, c)
      BY <1>0 DEF CopiesAgree
    <3>2. \A j \in Key : Running(j) => Running(j)'
      BY <2>3
    <3> QED
      BY <2>8, <3>1, <3>2, FollowsStays
  <2>11. Follows(new, new)'
    <3>1. new.items \in Seq(Key)
      BY DEF Frame
    <3>2. Len(new.items) \in Nat
      BY <3>1
    <3>3. 0 \in 0 .. Len(new.items) /\ 1..0 = {} /\ Len(new.items) = Len(new.items) - 0
      BY <3>2
    <3>4. \A i \in 1 .. Len(new.items) : new.items[i] = new.items[0 + i]
      BY <3>2
    <3> QED
      BY <3>3, <3>4 DEF Follows
  <2> HIDE DEF calls
  <2> QED
    BY <2>5, <2>9, <2>10, <2>11 DEF CopiesAgree
<1>9. CASE StopNext
  <2>1. PICK k \in Key, new \in Frame :
             /\ Len(stack) = 1 /\ new.call = "stop" /\ <<new>> \in Seq(Frame)
             /\ Notify(<<new>>) \/ stack' = <<new>>
    BY <1>0, <1>9, StopNextStep
  <2>2. stack' = <<new>> \/ stack' = Append(<<new>>, Call("tell"))
    BY <2>1 DEF Notify
  <2>3. \A i \in DOMAIN stack' : stack'[i] \in {new, Call("tell")}
    BY <2>2
  <2> QED
    BY <1>a, <1>e, <2>1, <2>3
<1> QED
  BY <1>0, <1>1, <1>2, <1>3, <1>4, <1>5, <1>6, <1>7, <1>8, <1>9, StepCases

-----------------------------------------------------------------------------
(* The invariant holds *)

LEMMA QueueInvInit == Init => QueueInv
<1> SUFFICES ASSUME Init PROVE QueueInv
  OBVIOUS
<1>1. NoSession \in Session /\ NoSession.status # "running"
  BY DEF NoSession, Session
<1>2. \A k \in Key : ~Running(k)
  BY <1>1 DEF Init, Running
<1>3. IsFiniteSet(streams)
  BY FS_EmptySet DEF Init
<1>4. SessionsOK
  BY <1>1, <1>2, <1>3 DEF Init, SessionsOK, RunningIsConnected
<1>5. queue.items = <<>> /\ queue.running = {} /\ <<>> \in Seq(Key)
  BY DEF Init
<1>6. stack \in Seq(Frame) /\ DOMAIN stack = {} /\ notices = 0 /\ cap \in Caps
  BY DEF Init
<1>7. StackOK
  BY <1>5, <1>6 DEF Init, StackOK
<1>8. NothingTwice
  BY <1>5, <1>6, CleanEmpty, CleanParts
<1>9. PumpsArePruned /\ QueueIsPruned
  BY <1>5, <1>6 DEF PumpsArePruned, QueueIsPruned
<1>10. CopiesAgree
  BY <1>5, <1>6, FollowsItself DEF CopiesAgree, Copies
<1> QED
  BY <1>4, <1>7, <1>8, <1>9, <1>10 DEF QueueInv

LEMMA QueueInvStep == QueueInv /\ [Next]_vars => QueueInv'
  BY SessionsStep, StackStep, CleanStep, PrunedStep, CopiesStep DEF QueueInv

LEMMA QueueCorrect == Spec => []QueueInv
<1> QED
  BY QueueInvInit, QueueInvStep, PTL DEF Spec

-----------------------------------------------------------------------------
(* The theorems *)

\* However calls nest: a running review has a live stream of its own, no PR is queued
\* twice or while it runs for the queue, and every variable keeps its type.
THEOREM SlotsStayExact == Spec => []SlotsAreExact
<1>1. ASSUME QueueInv PROVE SlotsAreExact
  <2>1. \A k \in Key : Running(k) => session[k].stream # NoStream
    <3>1. ASSUME NEW k \in Key, Running(k) PROVE session[k].stream # NoStream
      <4>1. PICK s \in StreamsOf(k) : Live(s) /\ Shown(s)
        BY <1>1, <3>1 DEF QueueInv, SessionsOK, RunningIsConnected
      <4>2. s \in Stream /\ s.key = k /\ session[k].stream = s.id
        BY <1>1, <4>1 DEF QueueInv, SessionsOK, StreamsOf, Shown
      <4> QED
        BY <4>2, StreamAssumption DEF Stream
    <3> QED
      BY <3>1
  <2>2. TypeOK
    BY <1>1, <2>1 DEF QueueInv, SessionsOK, StackOK, TypeOK
  <2> QED
    BY <1>1, <2>2 DEF QueueInv, SessionsOK, SlotsAreExact
<1> QED
  BY <1>1, QueueCorrect, PTL

\* The running reviews that the queue, or a pump under way, counts.
Counted ==
    {k \in Key : /\ Running(k)
                 /\ \/ k \in queue.running
                    \/ \E i \in DOMAIN stack : stack[i].call = "pump" /\ k \in stack[i].running}

\* Only a pump counts reviews that were not counted.
LEMMA OnlyPumpsCount ==
    ASSUME QueueInv, [Next]_vars, ~PumpNext
    PROVE  Counted' \subseteq Counted
<1>0. /\ SessionsOK /\ StackOK /\ StackOK' /\ NothingTwice
      /\ stack \in Seq(Frame) /\ queue.items \in Seq(Key) /\ queue.running \subseteq Key
  BY StackStep DEF QueueInv, StackOK
<1>a. Call("tell").call = "tell" /\ Call("tell") \in Frame
  BY CallType
<1>b. ASSUME UNCHANGED session, queue'.running \subseteq queue.running,
             \A i \in DOMAIN stack' : stack'[i].call = "pump" =>
                \/ stack'[i].running \subseteq queue.running
                \/ i \in DOMAIN stack /\ stack'[i] = stack[i]
      PROVE  Counted' \subseteq Counted
  <2>1. ASSUME NEW k \in Key, Running(k)',
               \/ k \in queue'.running
               \/ \E i \in DOMAIN stack' : stack'[i].call = "pump" /\ k \in stack'[i].running
        PROVE  k \in Counted
    <3>1. Running(k)
      BY <1>b, <2>1 DEF Running
    <3> QED
      BY <1>b, <2>1, <3>1 DEF Counted
  <2> QED
    BY <2>1 DEF Counted
<1>c. ASSUME \A k \in queue.running : Running(k)' => Running(k),
             queue' = queue, \A i \in DOMAIN stack' : stack'[i].call # "pump"
      PROVE  Counted' \subseteq Counted
  <2>1. ASSUME NEW k \in Key, Running(k)', k \in queue'.running PROVE k \in Counted
    BY <1>c, <2>1 DEF Counted
  <2> QED
    BY <1>c, <2>1 DEF Counted
<1> HIDE DEF Call
<1>1. CASE Asking
  BY <1>b, <1>1 DEF Asking
<1>2. CASE Ending \/ \E k \in Key : StartReview(k)
  <2>1. TurnBegins
    BY <1>2, EndingTells, NotifyWhenIdle DEF StartReview
  <2>2. \A i \in DOMAIN stack' : stack'[i].call # "pump"
    BY <1>a, <2>1 DEF TurnBegins
  <2>3. \A k \in queue.running : Running(k)
    BY <2>1, <1>0, IdleIsPruned DEF TurnBegins, QueueInv
  <2> QED
    BY <1>c, <2>1, <2>2, <2>3 DEF TurnBegins
<1>3. CASE \E chosen \in SUBSET Key : Enqueue(chosen)
  <2>1. stack' = <<Pump(queue')>> /\ UNCHANGED session
    BY <1>3 DEF Enqueue
  <2>2. queue'.running = queue.running
    BY <1>0, <1>3, EnqueueStep
  <2>3. Pump(queue').running \subseteq queue'.running
    BY DEF Pump
  <2> HIDE DEF Pump
  <2>4. \A i \in DOMAIN stack' : stack'[i] = Pump(queue')
    BY <2>1
  <2> QED
    BY <1>b, <2>1, <2>2, <2>3, <2>4
<1>4. CASE SetCap
  <2>1. stack' = <<Call("tell"), Pump(queue)>> /\ UNCHANGED <<queue, session>>
    BY <1>4 DEF SetCap
  <2>2. Pump(queue).running \subseteq queue.running
    BY DEF Pump
  <2> HIDE DEF Pump
  <2>3. \A i \in DOMAIN stack' : stack'[i] \in {Call("tell"), Pump(queue)}
    BY <2>1
  <2>4. \A i \in DOMAIN stack' :
           stack'[i].call = "pump" => stack'[i].running \subseteq queue.running
    BY <1>a, <2>2, <2>3
  <2> QED
    BY <1>b, <2>1, <2>4
<1>5. CASE StopQueue
  <2> DEFINE new == [Call("stop") EXCEPT !.running = queue.running]
  <2>1. stack' = <<new>> /\ UNCHANGED <<queue, session>>
    BY <1>5 DEF StopQueue
  <2>2. new.call = "stop"
    BY DEF Call
  <2> HIDE DEF new
  <2>3. \A i \in DOMAIN stack' : stack'[i].call # "pump"
    BY <2>1, <2>2
  <2> QED
    BY <1>b, <2>1, <2>3
<1>6. CASE Tell
  <2>1. UNCHANGED <<queue, session>> /\ (stack' = stack \/ stack' = Append(stack, Pump(queue)))
    BY <1>6 DEF Tell
  <2>2. Pump(queue).running \subseteq queue.running /\ Pump(queue) \in Frame
    BY <1>0, PumpType DEF Pump
  <2> HIDE DEF Pump
  <2>3. \A i \in DOMAIN stack' : (i \in DOMAIN stack /\ stack'[i] = stack[i]) \/ stack'[i] = Pump(queue)
    BY <1>0, <2>1, <2>2
  <2> QED
    BY <1>b, <2>1, <2>2, <2>3
<1>7. CASE Told \/ PumpReturns \/ StopReturns
  <2>1. ~Idle /\ stack' = Front(stack) /\ UNCHANGED session
    BY <1>7 DEF Told, PumpReturns, StopReturns, Return
  <2>2. /\ Len(stack) \in Nat \ {0} /\ Top = stack[Len(stack)]
        /\ stack' \in Seq(Frame) /\ Len(stack') = Len(stack) - 1
        /\ \A i \in 1 .. Len(stack) - 1 : stack'[i] = stack[i]
    BY <1>0, <2>1, TopOfStack
  <2>3. DOMAIN stack' = 1 .. Len(stack) - 1 /\ DOMAIN stack = 1 .. Len(stack)
    BY <1>0, <2>2
  <2>4. \A i \in DOMAIN stack' : i \in DOMAIN stack /\ stack'[i] = stack[i]
    BY <2>2, <2>3
  <2>5. CASE Told \/ StopReturns
    BY <1>b, <2>1, <2>4, <2>5 DEF Told, StopReturns
  <2>6. CASE PumpReturns
    <3>1. Top.call = "pump" /\ queue'.running = Top.running
      BY <2>6 DEF PumpReturns
    <3>2. Len(stack) \in DOMAIN stack
      BY <2>2, <2>3
    <3>3. ASSUME NEW k \in Key, Running(k)',
                 \/ k \in queue'.running
                 \/ \E i \in DOMAIN stack' : stack'[i].call = "pump" /\ k \in stack'[i].running
          PROVE  k \in Counted
      <4>1. Running(k)
        BY <2>1, <3>3 DEF Running
      <4>2. \E i \in DOMAIN stack : stack[i].call = "pump" /\ k \in stack[i].running
        BY <2>2, <2>4, <3>1, <3>2, <3>3
      <4> QED
        BY <4>1, <4>2 DEF Counted
    <3> QED
      BY <3>3 DEF Counted
  <2> QED
    BY <1>7, <2>5, <2>6
<1>8. CASE StopNext
  <2>1. PICK k \in Key, new \in Frame :
             /\ Len(stack) = 1 /\ stack[1].call = "stop" /\ new.call = "stop"
             /\ <<new>> \in Seq(Frame)
             /\ \/ Running(k) /\ Stop(k) /\ Notify(<<new>>)
                \/ stack' = <<new>> /\ UNCHANGED session
             /\ UNCHANGED queue
    BY <1>0, <1>8, StopNextStep
  <2>2. stack' = <<new>> \/ stack' = Append(<<new>>, Call("tell"))
    BY <2>1 DEF Notify
  <2>3. \A i \in DOMAIN stack' : stack'[i] \in {new, Call("tell")}
    BY <2>2
  <2>4. \A i \in DOMAIN stack' : stack'[i].call # "pump"
    BY <1>a, <2>1, <2>3
  <2>5. \A j \in Key : Running(j)' => Running(j)
    BY <1>0, <2>1 DEF Stop, NoSession, Running, SessionsOK
  <2> QED
    BY <1>0, <1>c, <2>1, <2>4, <2>5
<1> QED
  BY <1>0, <1>1, <1>2, <1>3, <1>4, <1>5, <1>6, <1>7, <1>8, StepCases

\* A pump that starts a review that was not counted knows of all that are.
LEMMA PumpKnowsAll ==
    ASSUME QueueInv, PumpNext, ~(Counted' \subseteq Counted)
    PROVE  Cardinality(Counted') <= cap
<1>0. /\ SessionsOK /\ StackOK /\ NothingTwice /\ PumpsArePruned /\ CopiesAgree
      /\ stack \in Seq(Frame) /\ cap \in Nat
  BY CapsAssumption DEF QueueInv, StackOK
<1>1. PICK p \in Frame, new \in Frame, k \in Key :
             /\ ~Idle /\ p = stack[Len(stack)] /\ p.call = "pump"
             /\ p.items # <<>> /\ k = Head(p.items)
             /\ Cardinality(p.running) < cap
             /\ new.call = "pump" /\ new.running = p.running \cup {k}
             /\ Start(k, Starter) /\ Notify([stack EXCEPT ![Len(stack)] = new])
             /\ [stack EXCEPT ![Len(stack)] = new] \in Seq(Frame)
             /\ UNCHANGED queue
  BY <1>0, PumpNextStep
<1> DEFINE calls == [stack EXCEPT ![Len(stack)] = new]
<1>2. DOMAIN calls = DOMAIN stack /\ Len(stack) \in DOMAIN stack
  BY <1>0, <1>1, TopOfStack
<1>3. \A j \in Key : Running(j)' <=> Running(j) \/ j = k
  BY <1>0, <1>1, StartRuns
<1>4. p \in Copies
  BY <1>1, <1>2 DEF Copies
<1>5. p.items \in Seq(Key) /\ p.running \subseteq Key /\ k = p.items[1] /\ Len(p.items) \in Nat \ {0}
  BY <1>0, <1>1, <1>4, CopyType, CleanHead
<1>6. \A i \in DOMAIN stack' : (i \in DOMAIN calls /\ stack'[i] = calls[i]) \/ stack'[i].call = "tell"
  <2> HIDE DEF calls
  <2> QED
    BY <1>1, NotifyStep DEF calls
<1>7. \A c \in Copies : Alive(c.running) \subseteq Counted
  <2>1. ASSUME NEW c \in Copies, NEW j \in Alive(c.running) PROVE j \in Counted
    <3>1. c.running \subseteq Key
      BY <1>0, CopyType
    <3>2. c = queue \/ \E i \in DOMAIN stack : stack[i].call = "pump" /\ c = stack[i]
      BY DEF Copies
    <3> QED
      BY <3>1, <3>2 DEF Alive, Counted
  <2> QED
    BY <2>1
<1>8. ASSUME NEW j \in Counted'
      PROVE  j \in Key /\ (j = k \/ j \in Counted)
  <2>1. /\ j \in Key /\ Running(j)'
        /\ \/ j \in queue.running
           \/ \E i \in DOMAIN stack' : stack'[i].call = "pump" /\ j \in stack'[i].running
    BY <1>1 DEF Counted
  <2>2. CASE j # k
    <3>1. Running(j)
      BY <1>3, <2>1, <2>2
    <3>2. ASSUME NEW i \in DOMAIN stack', stack'[i].call = "pump", j \in stack'[i].running
          PROVE  \E h \in DOMAIN stack : stack[h].call = "pump" /\ j \in stack[h].running
      <4>1. i \in DOMAIN stack /\ stack'[i] = calls[i]
        BY <1>2, <1>6, <3>2
      <4>2. CASE i = Len(stack)
        BY <1>1, <1>2, <2>2, <3>2, <4>1, <4>2
      <4>3. CASE i # Len(stack)
        BY <1>2, <3>2, <4>1, <4>3
      <4> QED
        BY <4>2, <4>3
    <3> QED
      BY <2>1, <3>1, <3>2 DEF Counted
  <2> QED
    BY <2>1, <2>2
<1>9. k \notin Counted
  BY <1>8
<1>10. ASSUME NEW c \in Copies PROVE Alive(c.running) \subseteq p.running
  <2>1. Follows(p, c) \/ Follows(c, p)
    BY <1>0, <1>4 DEF CopiesAgree
  <2>2. CASE Follows(c, p)
    <3>1. Alive(c.running) \subseteq Alive(p.running)
      BY <2>2 DEF Follows
    <3> QED
      BY <3>1 DEF Alive
  <2>3. CASE Follows(p, c)
    <3>1. PICK n \in 0 .. Len(p.items) :
            /\ Alive(c.running) = Alive(p.running) \cup {p.items[i] : i \in 1..n}
            /\ \A i \in 1..n : Running(p.items[i])
      BY <2>3 DEF Follows
    <3>2. CASE n = 0
      <4>1. 1..n = {}
        BY <3>2
      <4> QED
        BY <3>1, <4>1 DEF Alive
    <3>3. CASE n # 0
      <4>1. 1 \in 1..n
        BY <3>3
      <4>2. k \in Alive(c.running)
        BY <1>5, <3>1, <4>1
      <4> QED
        BY <1>7, <1>9, <4>2
    <3> QED
      BY <3>2, <3>3
  <2> QED
    BY <2>1, <2>2, <2>3
<1>11. Counted \subseteq p.running
  <2>1. ASSUME NEW j \in Counted PROVE j \in p.running
    <3>1. PICK c \in Copies : j \in Alive(c.running)
      BY DEF Counted, Copies, Alive
    <3> QED
      BY <1>10, <3>1
  <2> QED
    BY <2>1
<1>12. IsFiniteSet(p.running) /\ Cardinality(p.running) \in Nat
  BY <1>5, KeyAssumption, FS_Subset, FS_CardinalityType
<1>13. /\ IsFiniteSet(p.running \cup {k})
       /\ Cardinality(p.running \cup {k}) =
             IF k \in p.running THEN Cardinality(p.running) ELSE Cardinality(p.running) + 1
  BY <1>12, FS_AddElement
<1>14. Cardinality(p.running \cup {k}) <= cap
  BY <1>0, <1>1, <1>12, <1>13
<1>15. Counted' \subseteq p.running \cup {k}
  BY <1>8, <1>11
<1>16. Cardinality(Counted') <= Cardinality(p.running \cup {k}) /\ IsFiniteSet(Counted')
  BY <1>13, <1>15, FS_Subset
<1>17. Cardinality(Counted') \in Nat /\ Cardinality(p.running \cup {k}) \in Nat
  BY <1>13, <1>16, FS_CardinalityType
<1> QED
  BY <1>0, <1>14, <1>16, <1>17

-----------------------------------------------------------------------------
(* What runs for the queue is what it counts *)

\* As long as no stopQueue is under way the queue and its pumps count what runs for
\* it; a stopQueue stops all of that.  And a pump has got further than another, or
\* than the queue, only within the cap.
SameCount == Stopping \/ Started = Counted

StoppedInTurn ==
    \A i \in DOMAIN stack : stack[i].call = "stop" => Started \subseteq stack[i].running

StepsInCap ==
    \A c, d \in Copies : Len(d.items) < Len(c.items) => Cardinality(Alive(d.running)) <= cap

CapInv == SameCount /\ StoppedInTurn /\ StepsInCap

LEMMA Fewer ==
    ASSUME NEW S \in SUBSET Key, NEW T \in SUBSET S
    PROVE  /\ Cardinality(S) \in Nat /\ Cardinality(T) \in Nat
           /\ Cardinality(T) <= Cardinality(S)
<1>1. IsFiniteSet(S)
  BY KeyAssumption, FS_Subset
<1>2. IsFiniteSet(T) /\ Cardinality(T) <= Cardinality(S)
  BY <1>1, FS_Subset
<1> QED
  BY <1>1, <1>2, FS_CardinalityType

\* Copies that are at the same place, or that were there before with as many reviews.
LEMMA NoneIsAhead ==
    ASSUME NEW items \in Seq(Key), \A x \in Copies' : x.items = items
    PROVE  StepsInCap'
<1>1. Len(items) \in Nat
  OBVIOUS
<1>2. \A c, d \in Copies' : ~(Len(d.items) < Len(c.items))
  BY <1>1
<1> QED
  BY <1>2 DEF StepsInCap

LEMMA NoneGoesAhead ==
    ASSUME StackOK, NothingTwice, PumpsArePruned, StepsInCap, UNCHANGED <<session, cap>>,
           \A x \in Copies' : \E c \in Copies :
               x.items = c.items /\ Alive(x.running) = Alive(c.running)
    PROVE  StepsInCap'
<1>1. ASSUME NEW x \in Copies', NEW y \in Copies', Len(y.items) < Len(x.items)
      PROVE  Cardinality(Alive(y.running)') <= cap'
  <2>1. PICK c \in Copies : x.items = c.items /\ Alive(x.running) = Alive(c.running)
    OBVIOUS
  <2>2. PICK d \in Copies : y.items = d.items /\ Alive(y.running) = Alive(d.running)
    OBVIOUS
  <2>3. Cardinality(Alive(d.running)) <= cap
    BY <1>1, <2>1, <2>2 DEF StepsInCap
  <2>4. Alive(y.running)' = Alive(y.running)
    BY DEF Alive, Running
  <2> QED
    BY <2>2, <2>3, <2>4
<1> QED
  BY <1>1 DEF StepsInCap

LEMMA StepsInCapStep ==
    ASSUME QueueInv, StepsInCap, [Next]_vars
    PROVE  StepsInCap'
<1>0. /\ SessionsOK /\ StackOK /\ NothingTwice /\ PumpsArePruned /\ CopiesAgree
      /\ queue.items \in Seq(Key) /\ queue.running \subseteq Key
      /\ stack \in Seq(Frame)
  BY DEF QueueInv, StackOK
<1>a. Call("tell") \in Frame /\ Call("tell").call = "tell"
  BY CallType
<1>b. /\ Pump(queue) \in Frame /\ Pump(queue).items = queue.items
      /\ Alive(Pump(queue).running) = Alive(queue.running)
  BY <1>0, PumpType DEF Alive
<1>c. StackOK'
  BY <1>0, StackStep
<1>d. queue'.items \in Seq(Key) /\ queue'.running \subseteq Key /\ stack' \in Seq(Frame)
  BY <1>c DEF StackOK
<1>e. ASSUME \A i \in DOMAIN stack' : stack'[i].call # "pump"
      PROVE  StepsInCap'
  <2>1. \A x \in Copies' : x.items = queue'.items
    BY <1>e DEF Copies
  <2> QED
    BY <1>d, <2>1, NoneIsAhead
<1>f. queue \in Copies
  BY DEF Copies
<1> HIDE DEF Call
<1>1. CASE Asking
  <2>1. Copies' = Copies /\ UNCHANGED <<session, cap>>
    BY <1>1 DEF Asking, Copies
  <2> QED
    BY <1>0, <2>1, NoneGoesAhead
<1>2. CASE Ending \/ \E k \in Key : StartReview(k)
  <2>1. TurnBegins
    BY <1>2, EndingTells, NotifyWhenIdle DEF StartReview
  <2>2. \A i \in DOMAIN stack' : stack'[i].call = "tell"
    BY <1>a, <2>1 DEF TurnBegins
  <2> QED
    BY <1>e, <2>2
<1>3. CASE \E chosen \in SUBSET Key : Enqueue(chosen)
  <2>1. stack' = <<Pump(queue')>>
    BY <1>3 DEF Enqueue
  <2>2. Pump(queue').items = queue'.items
    BY <1>d, PumpType
  <2> HIDE DEF Pump
  <2>3. \A i \in DOMAIN stack' : stack'[i] = Pump(queue')
    BY <2>1
  <2>4. \A x \in Copies' : x.items = queue'.items
    BY <2>2, <2>3 DEF Copies
  <2> QED
    BY <1>d, <2>4, NoneIsAhead
<1>4. CASE SetCap
  <2>1. stack' = <<Call("tell"), Pump(queue)>> /\ UNCHANGED queue
    BY <1>4 DEF SetCap
  <2> HIDE DEF Pump
  <2>2. \A i \in DOMAIN stack' : stack'[i] \in {Call("tell"), Pump(queue)}
    BY <2>1
  <2>3. \A x \in Copies' : x.items = queue.items
    BY <1>a, <1>b, <2>1, <2>2 DEF Copies
  <2> QED
    BY <1>0, <2>3, NoneIsAhead
<1>5. CASE StopQueue
  <2> DEFINE new == [Call("stop") EXCEPT !.running = queue.running]
  <2>1. stack' = <<new>>
    BY <1>5 DEF StopQueue
  <2>2. new.call = "stop"
    BY DEF Call
  <2> HIDE DEF new
  <2>3. \A i \in DOMAIN stack' : stack'[i].call # "pump"
    BY <2>1, <2>2
  <2> QED
    BY <1>e, <2>3
<1>6. CASE Tell
  <2>1. UNCHANGED <<queue, session, cap>> /\ (stack' = stack \/ stack' = Append(stack, Pump(queue)))
    BY <1>6 DEF Tell
  <2> HIDE DEF Pump
  <2>2. \A i \in DOMAIN stack' : (i \in DOMAIN stack /\ stack'[i] = stack[i]) \/ stack'[i] = Pump(queue)
    BY <1>0, <1>b, <2>1
  <2>3. \A x \in Copies' : x \in Copies \/ x = Pump(queue)
    BY <2>1, <2>2 DEF Copies
  <2> QED
    BY <1>0, <1>b, <1>f, <2>1, <2>3, NoneGoesAhead
<1>7. CASE Told \/ PumpReturns \/ StopReturns
  <2>1. ~Idle /\ stack' = Front(stack) /\ UNCHANGED <<session, cap>>
    BY <1>7 DEF Told, PumpReturns, StopReturns, Return
  <2>2. /\ Len(stack) \in Nat \ {0} /\ Top = stack[Len(stack)]
        /\ stack' \in Seq(Frame) /\ Len(stack') = Len(stack) - 1
        /\ \A i \in 1 .. Len(stack) - 1 : stack'[i] = stack[i]
    BY <1>0, <2>1, TopOfStack
  <2>3. DOMAIN stack' = 1 .. Len(stack) - 1 /\ DOMAIN stack = 1 .. Len(stack)
    BY <1>0, <2>2
  <2>4. \A i \in DOMAIN stack' : i \in DOMAIN stack /\ stack'[i] = stack[i]
    BY <2>2, <2>3
  <2>5. \A x \in Copies' : x \in Copies \/ x = queue'
    BY <2>4 DEF Copies
  <2>6. CASE Told
    <3>1. queue' = queue
      BY <2>6 DEF Told
    <3> QED
      BY <1>0, <1>f, <2>1, <2>5, <3>1, NoneGoesAhead
  <2>7. CASE PumpReturns
    <3>1. Top.call = "pump" /\ queue' = [items |-> Top.items, running |-> Top.running]
      BY <2>7 DEF PumpReturns
    <3>2. Top \in Copies
      BY <2>2, <2>3, <3>1 DEF Copies
    <3>3. queue'.items = Top.items /\ queue'.running = Top.running
      BY <3>1
    <3> QED
      BY <1>0, <2>1, <2>5, <3>2, <3>3, NoneGoesAhead
  <2>8. CASE StopReturns
    <3>1. Top.call = "stop"
      BY <2>8 DEF StopReturns
    <3>2. Len(stack) = 1
      <4>1. Len(stack) \in DOMAIN stack
        BY <2>2, <2>3
      <4> QED
        BY <1>0, <2>2, <3>1, <4>1 DEF StackOK
    <3> QED
      BY <1>e, <2>3, <3>2
  <2> QED
    BY <1>7, <2>6, <2>7, <2>8
<1>8. CASE PumpNext
  <2>1. PICK p \in Frame, new \in Frame, k \in Key :
             /\ ~Idle /\ p = stack[Len(stack)] /\ p.call = "pump"
             /\ p.items # <<>> /\ k = Head(p.items)
             /\ Cardinality(p.running) < cap
             /\ new.call = "pump" /\ new.items = Tail(p.items) /\ new.running = p.running \cup {k}
             /\ Start(k, Starter) /\ Notify([stack EXCEPT ![Len(stack)] = new])
             /\ [stack EXCEPT ![Len(stack)] = new] \in Seq(Frame)
             /\ UNCHANGED <<queue, cap, askVars>>
    BY <1>0, <1>8, PumpNextStep
  <2> DEFINE calls == [stack EXCEPT ![Len(stack)] = new]
  <2>2. DOMAIN calls = DOMAIN stack /\ Len(stack) \in DOMAIN stack
    BY <1>0, <2>1, TopOfStack
  <2>3. \A j \in Key : Running(j)' <=> Running(j) \/ j = k
    BY <1>0, <2>1, StartRuns
  <2>4. \A i \in DOMAIN stack' : (i \in DOMAIN calls /\ stack'[i] = calls[i]) \/ stack'[i].call = "tell"
    <3> HIDE DEF calls
    <3> QED
      BY <2>1, NotifyStep DEF calls
  <2>5. \A x \in Copies' : x = new \/ x \in Copies
    <3>1. \A i \in DOMAIN calls : calls[i] = new \/ calls[i] = stack[i]
      BY <2>2
    <3> HIDE DEF calls
    <3> QED
      BY <2>1, <2>2, <2>4, <3>1 DEF Copies
  <2>6. p \in Copies
    BY <2>1, <2>2 DEF Copies
  <2>7. /\ p.items \in Seq(Key) /\ p.running \subseteq Key
        /\ Len(p.items) \in Nat \ {0} /\ Len(new.items) = Len(p.items) - 1
    BY <1>0, <2>1, <2>6, CopyType, HeadTailProperties
  <2>8. ASSUME NEW c \in Copies
        PROVE  c.items \in Seq(Key) /\ c.running \subseteq Key /\ Alive(c.running)' = Alive(c.running)
    <3>1. c.items \in Seq(Key) /\ c.running \subseteq Key /\ Clean(c)
      BY <1>0, CopyType
    <3>2. Follows(p, c) \/ Follows(c, p)
      BY <1>0, <2>6 DEF CopiesAgree
    <3>3. k \notin c.running \/ Running(k)
      BY <2>1, <2>7, <3>1, <3>2, HeadIsKnown
    <3>4. Alive(c.running)' = Alive(c.running)
      BY <2>3, <3>1, <3>3 DEF Alive
    <3> QED
      BY <3>1, <3>4
  <2>9. Cardinality(Alive(new.running)') <= cap
    <3>1. IsFiniteSet(p.running) /\ Cardinality(p.running) \in Nat
      BY <2>7, KeyAssumption, FS_Subset, FS_CardinalityType
    <3>2. Cardinality(new.running) <= Cardinality(p.running) + 1
      <4>1. Cardinality(p.running \cup {k}) =
               IF k \in p.running THEN Cardinality(p.running) ELSE Cardinality(p.running) + 1
        BY <3>1, FS_AddElement
      <4> QED
        BY <2>1, <3>1, <4>1
    <3>3. new.running \in SUBSET Key
      BY <2>1, <2>7
    <3>4. Alive(new.running)' \in SUBSET new.running
      BY DEF Alive
    <3>5. /\ Cardinality(Alive(new.running)') <= Cardinality(new.running)
          /\ Cardinality(new.running) \in Nat /\ Cardinality(Alive(new.running)') \in Nat
      BY <3>3, <3>4, Fewer
    <3>6. cap \in Nat
      BY <1>0, CapsAssumption DEF StackOK
    <3> QED
      BY <2>1, <3>1, <3>2, <3>5, <3>6
  <2>10. ASSUME NEW c \in Copies', NEW d \in Copies', Len(d.items) < Len(c.items)
         PROVE  Cardinality(Alive(d.running)') <= cap'
    <3>1. CASE d = new
      BY <2>1, <2>9, <3>1
    <3>2. CASE d # new
      <4>1. d \in Copies /\ d.items \in Seq(Key)
        BY <2>5, <2>8, <3>2
      <4>2. Len(d.items) \in Nat
        BY <4>1
      <4>3. \E b \in Copies : Len(d.items) < Len(b.items)
        BY <2>5, <2>6, <2>7, <2>10, <4>2
      <4>4. Cardinality(Alive(d.running)) <= cap
        BY <4>1, <4>3 DEF StepsInCap
      <4> QED
        BY <2>1, <2>8, <4>1, <4>4
    <3> QED
      BY <3>1, <3>2
  <2> HIDE DEF calls
  <2> QED
    BY <2>10 DEF StepsInCap
<1>9. CASE StopNext
  <2>1. PICK k \in Key, new \in Frame :
             /\ Len(stack) = 1 /\ new.call = "stop" /\ <<new>> \in Seq(Frame)
             /\ Notify(<<new>>) \/ stack' = <<new>>
    BY <1>0, <1>9, StopNextStep
  <2>2. stack' = <<new>> \/ stack' = Append(<<new>>, Call("tell"))
    BY <2>1 DEF Notify
  <2>3. \A i \in DOMAIN stack' : stack'[i] \in {new, Call("tell")}
    BY <2>2
  <2> QED
    BY <1>a, <1>e, <2>1, <2>3
<1> QED
  BY <1>0, <1>1, <1>2, <1>3, <1>4, <1>5, <1>6, <1>7, <1>8, <1>9, StepCases

\* A pump that returns took all the slots: none that got further did so within the cap.
LEMMA ReturnCountsAll ==
    ASSUME QueueInv, StepsInCap, PumpReturns
    PROVE  Alive(queue.running) \subseteq Top.running
<1>1. /\ ~Idle /\ Top.call = "pump"
      /\ Top.items = <<>> \/ Cardinality(Top.running) >= cap
  BY DEF PumpReturns
<1>2. /\ StackOK /\ NothingTwice /\ PumpsArePruned /\ CopiesAgree /\ cap \in Nat
  BY CapsAssumption DEF QueueInv, StackOK
<1>3. Len(stack) \in DOMAIN stack /\ Top = stack[Len(stack)]
  BY <1>1, <1>2, TopOfStack DEF StackOK
<1> DEFINE p == Top
<1>4. queue \in Copies /\ p \in Copies /\ \A k \in p.running : Running(k)
  BY <1>1, <1>2, <1>3 DEF Copies, PumpsArePruned
<1>c. p.items = <<>> \/ Cardinality(p.running) >= cap
  BY <1>1
<1> HIDE DEF p
<1>5. /\ p.items \in Seq(Key) /\ p.running \subseteq Key /\ Clean(p)
      /\ queue.items \in Seq(Key) /\ queue.running \subseteq Key
  BY <1>2, <1>4, CopyType
<1>6. Follows(queue, p) \/ Follows(p, queue)
  BY <1>2, <1>4 DEF CopiesAgree
<1>7. CASE Follows(queue, p)
  <2>1. Alive(queue.running) \subseteq Alive(p.running)
    BY <1>7 DEF Follows
  <2> QED
    BY <2>1 DEF Alive, p
<1>8. CASE Follows(p, queue)
  <2>1. PICK n \in 0 .. Len(p.items) :
          /\ Len(queue.items) = Len(p.items) - n
          /\ Alive(queue.running) = Alive(p.running) \cup {p.items[i] : i \in 1..n}
    BY <1>8 DEF Follows
  <2>2. Len(p.items) \in Nat
    BY <1>5
  <2>3. CASE n = 0
    <3>1. 1..n = {}
      BY <2>3
    <3> QED
      BY <2>1, <3>1 DEF Alive, p
  <2>4. CASE n # 0
    <3>1. 1 \in 1..n /\ Len(queue.items) < Len(p.items) /\ p.items # <<>>
      BY <2>1, <2>2, <2>4
    <3>2. Cardinality(Alive(queue.running)) <= cap /\ Cardinality(p.running) >= cap
      BY <1>4, <1>c, <3>1 DEF StepsInCap
    <3> DEFINE k == p.items[1]
    <3>3. k \in Alive(queue.running) /\ k \notin p.running
      BY <1>5, <2>1, <3>1, CleanHead
    <3>4. p.running \subseteq Alive(queue.running)
      BY <1>4, <2>1 DEF Alive
    <3> HIDE DEF k
    <3>5. IsFiniteSet(p.running) /\ Cardinality(p.running) \in Nat
      BY <1>5, KeyAssumption, FS_Subset, FS_CardinalityType
    <3>6. Cardinality(p.running \cup {k}) = Cardinality(p.running) + 1
      BY <3>3, <3>5, FS_AddElement
    <3>7. Alive(queue.running) \in SUBSET Key /\ p.running \cup {k} \in SUBSET Alive(queue.running)
      BY <1>5, <3>3, <3>4 DEF Alive
    <3>8. /\ Cardinality(p.running \cup {k}) <= Cardinality(Alive(queue.running))
          /\ Cardinality(Alive(queue.running)) \in Nat
      BY <3>7, Fewer
    <3> QED
      BY <1>2, <3>2, <3>5, <3>6, <3>8
  <2> QED
    BY <2>3, <2>4
<1> QED
  BY <1>6, <1>7, <1>8 DEF p

\* Who started a running review is told when it is started, and stays.
LEMMA EndsOnly ==
    ASSUME \A k \in Key : Running(k)' => Running(k) /\ session'[k] = session[k]
    PROVE  Started' = {k \in Started : Running(k)'}
  BY DEF Started

LEMMA NoPumpCounts ==
    ASSUME \A i \in DOMAIN stack : stack[i].call # "pump", queue.running \subseteq Key
    PROVE  Counted = Alive(queue.running)
  BY DEF Counted, Alive

LEMMA SameCountStep ==
    ASSUME QueueInv, CapInv, [Next]_vars
    PROVE  SameCount' /\ StoppedInTurn'
<1>0. /\ SessionsOK /\ StackOK /\ NothingTwice /\ PumpsArePruned /\ QueueIsPruned
      /\ queue.items \in Seq(Key) /\ queue.running \subseteq Key
      /\ stack \in Seq(Frame) /\ SameCount /\ StoppedInTurn /\ StepsInCap
  BY DEF QueueInv, StackOK, CapInv
<1>a. Call("tell") \in Frame /\ Call("tell").call = "tell"
  BY CallType
<1>b. StackOK' /\ stack' \in Seq(Frame) /\ queue'.running \subseteq Key
  BY <1>0, StackStep DEF StackOK
<1>c. ASSUME Idle
      PROVE  /\ Started = Alive(queue.running)
             /\ \A k \in queue.running : Running(k)
  <2>1. DOMAIN stack = {}
    BY <1>c DEF Idle
  <2>2. Started = Counted
    BY <1>0, <2>1 DEF SameCount, Stopping
  <2>3. Counted = Alive(queue.running)
    BY <1>0, <2>1, NoPumpCounts
  <2> QED
    BY <1>0, <1>c, <2>2, <2>3, IdleIsPruned
<1>d. UNCHANGED session => Started' = Started /\ \A S : Alive(S)' = Alive(S)
  BY DEF Started, Alive, Running
<1>e. ~Stopping' => StoppedInTurn'
  BY DEF Stopping, StoppedInTurn
<1> HIDE DEF Call
<1>1. CASE Asking
  <2>1. Counted' = Counted /\ Stopping' = Stopping /\ UNCHANGED <<session, stack>>
    BY <1>1 DEF Asking, Counted, Stopping, Running
  <2> QED
    BY <1>0, <1>d, <2>1 DEF SameCount, StoppedInTurn
<1>2. CASE Ending \/ \E k \in Key : StartReview(k)
  <2>1. TurnBegins
    BY <1>2, EndingTells, NotifyWhenIdle DEF StartReview
  <2>2. \A i \in DOMAIN stack' : stack'[i].call = "tell"
    BY <1>a, <2>1 DEF TurnBegins
  <2>3. ~Stopping'
    BY <2>2 DEF Stopping
  <2>4. Counted' = Alive(queue.running)'
    BY <1>0, <1>b, <2>1, <2>2 DEF Counted, Alive, TurnBegins
  <2>5. Started = Alive(queue.running) /\ \A k \in queue.running : Running(k)
    BY <1>c, <2>1 DEF TurnBegins
  <2>6. CASE Ending
    <3>1. \A k \in Key : Running(k)' => session'[k] = session[k]
      BY <1>0, <2>6, EndingStep
    <3>2. \A k \in Key : Running(k)' => Running(k) /\ session'[k] = session[k]
      BY <3>1 DEF Running
    <3>3. Started' = {k \in Started : Running(k)'}
      BY <3>2, EndsOnly
    <3>4. Alive(queue.running)' = {k \in Alive(queue.running) : Running(k)'}
      BY <1>0, <2>1, <3>2 DEF Alive, TurnBegins
    <3> QED
      BY <1>e, <2>3, <2>4, <2>5, <3>3, <3>4 DEF SameCount
  <2>7. CASE \E k \in Key : StartReview(k)
    <3>1. PICK k \in Key : ~Running(k) /\ Start(k, "user")
      BY <2>7 DEF StartReview
    <3>2. /\ \A j \in Key : j # k => session'[j] = session[j]
          /\ session'[k].by = "user"
      BY <1>0, <3>1 DEF Start, SessionsOK
    <3>3. k \notin queue.running /\ k \notin Started
      BY <2>5, <3>1 DEF Started
    <3>4. Started' = Started
      BY <3>2, <3>3 DEF Started, Running
    <3>5. Alive(queue.running)' = Alive(queue.running)
      BY <1>0, <2>1, <3>2, <3>3 DEF Alive, Running, TurnBegins
    <3> QED
      BY <1>e, <2>3, <2>4, <2>5, <3>4, <3>5 DEF SameCount
  <2> QED
    BY <1>2, <2>6, <2>7
<1>3. CASE \E chosen \in SUBSET Key : Enqueue(chosen)
  <2>1. Idle /\ stack' = <<Pump(queue')>> /\ UNCHANGED session
    BY <1>3 DEF Enqueue
  <2>2. queue'.running = queue.running
    BY <1>0, <1>3, EnqueueStep
  <2>3. Pump(queue').running \subseteq queue.running /\ Pump(queue').call = "pump"
    BY <2>2 DEF Pump
  <2> HIDE DEF Pump
  <2>4. \A i \in DOMAIN stack' : stack'[i] = Pump(queue')
    BY <2>1
  <2>5. ~Stopping'
    BY <2>3, <2>4 DEF Stopping
  <2>6. Counted' = Alive(queue.running)
    BY <1>0, <2>1, <2>2, <2>3, <2>4 DEF Counted, Alive, Running
  <2> QED
    BY <1>c, <1>d, <1>e, <2>1, <2>5, <2>6 DEF SameCount
<1>4. CASE SetCap
  <2>1. Idle /\ stack' = <<Call("tell"), Pump(queue)>> /\ UNCHANGED <<queue, session>>
    BY <1>4 DEF SetCap
  <2>2. Pump(queue).running \subseteq queue.running /\ Pump(queue).call = "pump"
    BY DEF Pump
  <2> HIDE DEF Pump
  <2>3. \A i \in DOMAIN stack' : stack'[i] \in {Call("tell"), Pump(queue)}
    BY <2>1
  <2>4. ~Stopping'
    BY <1>a, <2>2, <2>3 DEF Stopping
  <2>5. Counted' = Alive(queue.running)
    BY <1>0, <1>a, <2>1, <2>2, <2>3 DEF Counted, Alive, Running
  <2> QED
    BY <1>c, <1>d, <1>e, <2>1, <2>4, <2>5 DEF SameCount
<1>5. CASE StopQueue
  <2> DEFINE new == [Call("stop") EXCEPT !.running = queue.running]
  <2>1. Idle /\ stack' = <<new>> /\ UNCHANGED <<queue, session>>
    BY <1>5 DEF StopQueue
  <2>2. new.call = "stop" /\ new.running = queue.running
    BY DEF Call
  <2> HIDE DEF new
  <2>3. 1 \in DOMAIN stack' /\ \A i \in DOMAIN stack' : stack'[i] = new
    BY <2>1
  <2>4. Started' \subseteq queue.running
    BY <1>c, <1>d, <2>1 DEF Alive
  <2> QED
    BY <2>2, <2>3, <2>4 DEF SameCount, Stopping, StoppedInTurn
<1>6. CASE Tell
  <2>1. UNCHANGED <<queue, session>> /\ (stack' = stack \/ stack' = Append(stack, Pump(queue)))
    BY <1>6 DEF Tell
  <2>2. /\ Pump(queue).running \subseteq queue.running /\ Pump(queue) \in Frame
        /\ Pump(queue).call = "pump"
    BY <1>0, PumpType DEF Pump
  <2> HIDE DEF Pump
  <2>3. /\ \A i \in DOMAIN stack' : (i \in DOMAIN stack /\ stack'[i] = stack[i]) \/ stack'[i] = Pump(queue)
        /\ \A i \in DOMAIN stack : i \in DOMAIN stack' /\ stack'[i] = stack[i]
    BY <1>0, <2>1, <2>2
  <2>4. Stopping' = Stopping
    BY <2>2, <2>3 DEF Stopping
  <2>5. Counted' = Counted
    BY <2>1, <2>2, <2>3 DEF Counted, Running
  <2>6. StoppedInTurn'
    BY <1>0, <1>d, <2>1, <2>2, <2>3 DEF StoppedInTurn
  <2> QED
    BY <1>0, <1>d, <2>1, <2>4, <2>5, <2>6 DEF SameCount
<1>7. CASE Told \/ PumpReturns \/ StopReturns
  <2>1. ~Idle /\ stack' = Front(stack) /\ UNCHANGED session
    BY <1>7 DEF Told, PumpReturns, StopReturns, Return
  <2>2. /\ Len(stack) \in Nat \ {0} /\ Top = stack[Len(stack)]
        /\ stack' \in Seq(Frame) /\ Len(stack') = Len(stack) - 1
        /\ \A i \in 1 .. Len(stack) - 1 : stack'[i] = stack[i]
    BY <1>0, <2>1, TopOfStack
  <2>3. DOMAIN stack' = 1 .. Len(stack) - 1 /\ DOMAIN stack = 1 .. Len(stack)
    BY <1>0, <2>2
  <2>4. /\ \A i \in DOMAIN stack' : i \in DOMAIN stack /\ stack'[i] = stack[i]
        /\ \A i \in DOMAIN stack : i \in DOMAIN stack' \/ (i = Len(stack) /\ stack[i] = Top)
    BY <2>2, <2>3
  <2>5. StoppedInTurn'
    BY <1>0, <1>d, <2>1, <2>4 DEF StoppedInTurn
  <2>6. CASE Told
    <3>1. queue' = queue /\ Top.call = "tell"
      BY <2>6 DEF Told
    <3>2. Stopping' = Stopping /\ Counted' = Counted
      BY <2>1, <2>4, <3>1 DEF Stopping, Counted, Running
    <3> QED
      BY <1>0, <1>d, <2>1, <2>5, <3>2 DEF SameCount
  <2>7. CASE PumpReturns
    <3>1. Top.call = "pump" /\ queue'.running = Top.running
      BY <2>7 DEF PumpReturns
    <3>2. Stopping' = Stopping
      BY <2>4, <3>1 DEF Stopping
    <3>3. Alive(queue.running) \subseteq Top.running
      BY <1>0, <2>7, ReturnCountsAll
    <3>4. Counted \subseteq Counted'
      <4>1. ASSUME NEW k \in Counted PROVE k \in Counted'
        <5>1. k \in Key /\ Running(k)'
          BY <2>1 DEF Counted, Running
        <5>2. CASE k \in queue.running
          <6>1. k \in Alive(queue.running)
            BY <5>2 DEF Counted, Alive
          <6> QED
            BY <3>1, <3>3, <5>1, <6>1 DEF Counted
        <5>3. CASE \E i \in DOMAIN stack : stack[i].call = "pump" /\ k \in stack[i].running
          <6>1. PICK i \in DOMAIN stack : stack[i].call = "pump" /\ k \in stack[i].running
            BY <5>3
          <6> QED
            BY <2>4, <3>1, <5>1, <6>1 DEF Counted
        <5> QED
          BY <5>2, <5>3 DEF Counted
      <4> QED
        BY <4>1
    <3>5. Counted' \subseteq Counted
      <4>1. ASSUME NEW k \in Counted' PROVE k \in Counted
        <5>1. k \in Key /\ Running(k)
          BY <2>1 DEF Counted, Running
        <5> QED
          BY <2>2, <2>3, <2>4, <3>1, <5>1 DEF Counted
      <4> QED
        BY <4>1
    <3> QED
      BY <1>0, <1>d, <2>1, <2>5, <3>2, <3>4, <3>5 DEF SameCount
  <2>8. CASE StopReturns
    <3>1. Top.call = "stop" /\ Top.running = {} /\ queue'.running = {}
      BY <2>8 DEF StopReturns
    <3>2. Len(stack) = 1
      <4>1. Len(stack) \in DOMAIN stack
        BY <2>2, <2>3
      <4> QED
        BY <1>0, <2>2, <3>1, <4>1 DEF StackOK
    <3>3. Started = {}
      <4>1. 1 \in DOMAIN stack /\ stack[1].call = "stop" /\ stack[1].running = {}
        BY <2>2, <2>3, <3>1, <3>2
      <4> QED
        BY <1>0, <4>1 DEF StoppedInTurn
    <3>4. DOMAIN stack' = {}
      BY <2>3, <3>2
    <3>5. Counted' = {}
      BY <3>1, <3>4 DEF Counted
    <3> QED
      BY <1>d, <2>1, <2>5, <3>3, <3>5 DEF SameCount
  <2> QED
    BY <1>7, <2>6, <2>7, <2>8
<1>8. CASE PumpNext
  <2>1. PICK p \in Frame, new \in Frame, k \in Key :
             /\ ~Idle /\ p = stack[Len(stack)] /\ p.call = "pump"
             /\ new.call = "pump" /\ new.running = p.running \cup {k}
             /\ Start(k, Starter) /\ Notify([stack EXCEPT ![Len(stack)] = new])
             /\ [stack EXCEPT ![Len(stack)] = new] \in Seq(Frame)
             /\ UNCHANGED queue
    BY <1>0, <1>8, PumpNextStep
  <2> DEFINE calls == [stack EXCEPT ![Len(stack)] = new]
  <2>2. DOMAIN calls = DOMAIN stack /\ Len(stack) \in DOMAIN stack
    BY <1>0, <2>1, TopOfStack
  <2>3. \A j \in Key : Running(j)' <=> Running(j) \/ j = k
    BY <1>0, <2>1, StartRuns
  <2>4. /\ \A i \in DOMAIN stack' : (i \in DOMAIN calls /\ stack'[i] = calls[i]) \/ stack'[i].call = "tell"
        /\ \A i \in DOMAIN calls : i \in DOMAIN stack' /\ stack'[i] = calls[i]
    <3> HIDE DEF calls
    <3> QED
      BY <2>1, NotifyStep DEF calls
  <2>5. \A i \in DOMAIN calls : calls[i] = IF i = Len(stack) THEN new ELSE stack[i]
    BY <2>2
  <2> HIDE DEF calls
  <2>6. Stopping' = Stopping
    BY <2>1, <2>2, <2>4, <2>5 DEF Stopping
  <2>7. /\ \A j \in Key : j # k => session'[j] = session[j]
        /\ session'[k].by = Starter /\ Running(k)'
    BY <1>0, <2>1 DEF Start, SessionsOK, Running
  <2>8. CASE Stopping
    <3>1. session'[k].by # "queue"
      BY <2>7, <2>8 DEF Starter
    <3>2. Started' \subseteq Started
      BY <2>7, <3>1 DEF Started, Running
    <3>3. ASSUME NEW i \in DOMAIN stack', stack'[i].call = "stop"
          PROVE  i \in DOMAIN stack /\ stack[i] = stack'[i]
      BY <2>1, <2>2, <2>4, <2>5, <3>3
    <3>4. StoppedInTurn'
      BY <1>0, <3>2, <3>3 DEF StoppedInTurn
    <3> QED
      BY <2>6, <2>8, <3>4 DEF SameCount
  <2>9. CASE ~Stopping
    <3>1. Started = Counted /\ session'[k].by = "queue"
      BY <1>0, <2>7, <2>9 DEF SameCount, Starter
    <3>2. Started' = Started \cup {k}
      BY <2>7, <3>1 DEF Started, Running
    <3>3. k \in Counted'
      BY <2>1, <2>2, <2>4, <2>5, <2>7 DEF Counted
    <3>4. ASSUME NEW j \in Key, j # k PROVE j \in Counted' <=> j \in Counted
      <4>1. Running(j)' <=> Running(j)
        BY <2>3, <3>4
      <4>2. ASSUME NEW i \in DOMAIN stack', stack'[i].call = "pump", j \in stack'[i].running
            PROVE  \E h \in DOMAIN stack : stack[h].call = "pump" /\ j \in stack[h].running
        BY <2>1, <2>2, <2>4, <2>5, <3>4, <4>2
      <4>3. ASSUME NEW i \in DOMAIN stack, stack[i].call = "pump", j \in stack[i].running
            PROVE  \E h \in DOMAIN stack' : stack'[h].call = "pump" /\ j \in stack'[h].running
        BY <2>1, <2>2, <2>4, <2>5, <4>3
      <4> QED
        BY <2>1, <4>1, <4>2, <4>3 DEF Counted
    <3>5. Counted' = Counted \cup {k}
      BY <3>3, <3>4 DEF Counted
    <3> QED
      BY <1>e, <2>6, <2>9, <3>1, <3>2, <3>5 DEF SameCount
  <2> QED
    BY <2>8, <2>9
<1>9. CASE StopNext
  <2>1. PICK k \in Key, new \in Frame :
             /\ stack \in Seq(Frame) /\ Len(stack) = 1 /\ stack[1].call = "stop"
             /\ new.call = "stop" /\ <<new>> \in Seq(Frame)
             /\ new.running = stack[1].running \ {k}
             /\ \/ Running(k) /\ Stop(k) /\ Notify(<<new>>)
                \/ ~Running(k) /\ stack' = <<new>> /\ UNCHANGED <<session, streams, notices>>
    BY <1>0, <1>9, StopNextStep
  <2>2. stack' = <<new>> \/ stack' = Append(<<new>>, Call("tell"))
    BY <2>1 DEF Notify
  <2>3. /\ \A i \in DOMAIN stack' : stack'[i] \in {new, Call("tell")}
        /\ 1 \in DOMAIN stack' /\ stack'[1] = new
    BY <1>a, <2>1, <2>2
  <2>4. Started \subseteq stack[1].running
    BY <1>0, <2>1 DEF StoppedInTurn
  <2>5. Started' \subseteq Started \ {k}
    BY <1>0, <2>1 DEF Stop, NoSession, Started, Running, SessionsOK
  <2> QED
    BY <1>a, <2>1, <2>3, <2>4, <2>5 DEF SameCount, Stopping, StoppedInTurn
<1> QED
  BY <1>0, <1>1, <1>2, <1>3, <1>4, <1>5, <1>6, <1>7, <1>8, <1>9, StepCases

LEMMA CapInvInit == Init => CapInv
<1> SUFFICES ASSUME Init PROVE CapInv
  OBVIOUS
<1>1. queue.items = <<>> /\ queue.running = {} /\ DOMAIN stack = {} /\ Len(<<>>) = 0
  BY DEF Init
<1>2. \A k \in Key : ~Running(k)
  BY DEF Init, Running, NoSession
<1>3. Started = {} /\ Counted = {}
  BY <1>2 DEF Started, Counted
<1>4. \A c \in Copies : c = queue
  BY <1>1 DEF Copies
<1>5. StepsInCap
  BY <1>1, <1>4 DEF StepsInCap
<1> QED
  BY <1>1, <1>3, <1>5 DEF CapInv, SameCount, StoppedInTurn

LEMMA CapCorrect == Spec => [](QueueInv /\ CapInv)
<1>1. QueueInv /\ CapInv /\ [Next]_vars => CapInv'
  BY SameCountStep, StepsInCapStep DEF CapInv
<1> QED
  BY <1>1, CapInvInit, QueueInvInit, QueueInvStep, PTL DEF Spec

\* Of the reviews that run for the queue, a pump starts each.
LEMMA OnlyPumpsStart ==
    ASSUME QueueInv, CapInv, [Next]_vars, ~(Started' \subseteq Started)
    PROVE  Cardinality(Started') <= cap
<1>0. SessionsOK /\ StackOK /\ SameCount /\ SameCount' /\ StoppedInTurn
  BY SameCountStep DEF QueueInv, CapInv
<1>1. PICK k \in Key : k \in Started' /\ k \notin Started
  BY DEF Started
<1>2. session'[k] # session[k] /\ Running(k)' /\ session'[k].by = "queue"
  BY <1>1 DEF Started, Running
<1>3. PumpNext
  <2>1. CASE Ending
    BY <1>0, <1>2, <2>1, EndingStep
  <2>2. CASE \E j \in Key : StartReview(j)
    <3>1. PICK j \in Key : Start(j, "user")
      BY <2>2 DEF StartReview
    <3>2. session'[k] = session[k] \/ session'[k].by = "user"
      BY <1>0, <3>1 DEF Start, SessionsOK
    <3> QED
      BY <1>2, <3>2
  <2>3. CASE StopNext
    <3>1. PICK j \in Key : Stop(j) \/ UNCHANGED session
      BY <1>0, <2>3, StopNextStep
    <3>2. session'[k] = session[k] \/ session'[k].by = "nobody"
      BY <1>0, <3>1 DEF Stop, SessionsOK, NoSession
    <3> QED
      BY <1>2, <3>2
  <2>4. CASE Asking \/ (\E chosen \in SUBSET Key : Enqueue(chosen))
             \/ SetCap \/ StopQueue \/ Tell \/ Told \/ PumpReturns \/ StopReturns
    BY <1>2, <2>4 DEF Asking, Enqueue, SetCap, StopQueue, Tell, Told, PumpReturns, StopReturns
  <2> QED
    BY <1>0, <2>1, <2>2, <2>3, <2>4, StepCases
<1>4. PICK p \in Frame, new \in Frame, j \in Key :
             /\ p = stack[Len(stack)] /\ ~Idle /\ p.call = "pump" /\ new.call = "pump"
             /\ Start(j, Starter) /\ Notify([stack EXCEPT ![Len(stack)] = new])
             /\ [stack EXCEPT ![Len(stack)] = new] \in Seq(Frame)
  BY <1>0, <1>3, PumpNextStep
<1>5. ~Stopping
  <2>1. session'[k] = session[k] \/ session'[k].by = Starter
    BY <1>0, <1>4 DEF Start, SessionsOK
  <2> QED
    BY <1>2, <2>1 DEF Starter
<1>6. ~Stopping'
  <2> DEFINE calls == [stack EXCEPT ![Len(stack)] = new]
  <2>1. DOMAIN calls = DOMAIN stack /\ \A i \in DOMAIN calls : calls[i] = new \/ calls[i] = stack[i]
    BY <1>4
  <2> HIDE DEF calls
  <2>2. \A i \in DOMAIN stack' : (i \in DOMAIN calls /\ stack'[i] = calls[i]) \/ stack'[i].call = "tell"
    BY <1>4, NotifyStep DEF calls
  <2> QED
    BY <1>4, <1>5, <2>1, <2>2 DEF Stopping
<1>7. Started = Counted /\ Started' = Counted'
  BY <1>0, <1>5, <1>6 DEF SameCount
<1> QED
  BY <1>3, <1>7, PumpKnowsAll

\* A review is started for the queue only while fewer than the cap run for it, however
\* pumps nest, and the queue loses count of none of them but by a stopQueue.
THEOREM TheCapHolds == Spec => CapRespected
<1>1. QueueInv /\ CapInv /\ [Next]_vars =>
        [~(Started' \subseteq Started) => Cardinality(Started') <= cap]_vars
  BY OnlyPumpsStart
<1> QED
  BY <1>1, CapCorrect, PTL DEF Spec, CapRespected

\* What a pump that returns leaves out of the queue, another pump has started.
LEMMA ReturnForgetsNone ==
    ASSUME QueueInv, PumpReturns
    PROVE  \A k \in ToSet(queue.items) \ ToSet(queue'.items) : Running(k)
<1>1. ~Idle /\ Top.call = "pump" /\ queue'.items = Top.items
  BY DEF PumpReturns
<1>2. StackOK /\ NothingTwice /\ PumpsArePruned /\ CopiesAgree
  BY DEF QueueInv
<1>3. Len(stack) \in DOMAIN stack /\ Top = stack[Len(stack)]
  BY <1>1, <1>2, TopOfStack DEF StackOK
<1> DEFINE p == Top
<1> HIDE DEF p
<1>4. queue \in Copies /\ p \in Copies
  BY <1>1, <1>3 DEF Copies, p
<1>5. queue.items \in Seq(Key) /\ p.items \in Seq(Key)
  BY <1>2, <1>4, CopyType
<1>6. queue'.items = p.items
  BY <1>1 DEF p
<1>7. Follows(queue, p) \/ Follows(p, queue)
  BY <1>2, <1>4 DEF CopiesAgree
<1>8. ASSUME NEW j \in 1 .. Len(queue.items)
      PROVE  Running(queue.items[j]) \/ \E i \in 1 .. Len(p.items) : p.items[i] = queue.items[j]
  <2>1. CASE Follows(queue, p)
    <3>1. PICK n \in 0 .. Len(queue.items) :
            /\ Len(p.items) = Len(queue.items) - n
            /\ \A i \in 1 .. Len(p.items) : p.items[i] = queue.items[n + i]
            /\ \A i \in 1..n : Running(queue.items[i])
      BY <2>1 DEF Follows
    <3>2. Len(queue.items) \in Nat /\ n \in Nat /\ j \in Nat
      BY <1>5
    <3>3. CASE j <= n
      BY <3>1, <3>2, <3>3
    <3>4. CASE j > n
      <4>1. j - n \in 1 .. Len(p.items) /\ n + (j - n) = j
        BY <3>1, <3>2, <3>4
      <4> QED
        BY <3>1, <4>1
    <3> QED
      BY <3>2, <3>3, <3>4
  <2>2. CASE Follows(p, queue)
    <3>1. PICK n \in 0 .. Len(p.items) :
            /\ Len(queue.items) = Len(p.items) - n
            /\ \A i \in 1 .. Len(queue.items) : queue.items[i] = p.items[n + i]
      BY <2>2 DEF Follows
    <3>2. Len(p.items) \in Nat /\ n \in Nat /\ j \in Nat
      BY <1>5
    <3>3. n + j \in 1 .. Len(p.items) /\ p.items[n + j] = queue.items[j]
      BY <3>1, <3>2
    <3> QED
      BY <3>3
  <2> QED
    BY <1>7, <2>1, <2>2
<1>9. ASSUME NEW k \in ToSet(queue.items), k \notin ToSet(queue'.items) PROVE Running(k)
  <2>1. PICK j \in 1 .. Len(queue.items) : queue.items[j] = k
    BY <1>5 DEF ToSet
  <2>2. ~\E i \in 1 .. Len(p.items) : p.items[i] = k
    BY <1>5, <1>6, <1>9 DEF ToSet
  <2> QED
    BY <1>8, <2>1, <2>2
<1> QED
  BY <1>9

LEMMA OnlyStartedLeave ==
    ASSUME QueueInv, [Next]_vars
    PROVE  \A k \in ToSet(queue.items) \ ToSet(queue'.items) :
               Running(k) \/ (~Idle /\ Top.call = "stop")
<1>0. SessionsOK /\ StackOK /\ NothingTwice
  BY DEF QueueInv
<1>1. CASE UNCHANGED queue
  BY <1>1
<1>2. CASE \E chosen \in SUBSET Key : Enqueue(chosen)
  BY <1>0, <1>2, EnqueueStep
<1>3. CASE PumpReturns
  BY <1>3, ReturnForgetsNone
<1>4. CASE StopReturns
  BY <1>4 DEF StopReturns
<1>5. CASE Ending
  BY <1>1, <1>5, EndingTells DEF TurnBegins
<1>6. CASE Asking \/ (\E k \in Key : StartReview(k)) \/ SetCap \/ StopQueue \/ Tell \/ Told
           \/ PumpNext \/ StopNext
  BY <1>1, <1>6 DEF Asking, StartReview, SetCap, StopQueue, Tell, Told, PumpNext, StopNext
<1> QED
  BY <1>0, <1>2, <1>3, <1>4, <1>5, <1>6, StepCases

\* No pump overwrites what another has queued: a PR leaves the queue only when its
\* review has been started, or when all are stopped.
THEOREM QueueForgetsNone == Spec => NoneForgotten
<1>1. QueueInv /\ [Next]_vars =>
        [\A k \in ToSet(queue.items) \ ToSet(queue'.items) :
            Running(k) \/ (~Idle /\ Top.call = "stop")]_vars
  BY OnlyStartedLeave
<1> QED
  BY <1>1, QueueCorrect, PTL DEF Spec, NoneForgotten

\* The same stream of the same session.
LEMMA StartReplaces ==
    ASSUME SessionsOK, NEW k \in Key, NEW who, Start(k, who),
           NEW s \in streams, Shown(s), s \in streams'
    PROVE  session'[s.key] = session[s.key]
<1>1. s.key \in Key /\ session[s.key].stream = s.id
  BY DEF SessionsOK, Stream, Shown
<1>2. CASE s.key # k
  BY <1>1, <1>2 DEF Start, SessionsOK
<1>3. CASE s.key = k
  <2>1. s = [key |-> k, id |-> Fresh(k), over |-> FALSE]
    BY <1>1, <1>3 DEF Start
  <2>2. s \in StreamsOf(k) /\ s.id = Fresh(k)
    BY <1>3, <2>1 DEF StreamsOf
  <2> QED
    BY <2>2, FreshIsFree DEF SessionsOK
<1> QED
  BY <1>2, <1>3

LEMMA StopCloses ==
    ASSUME SessionsOK, NEW k \in Key, Stop(k), NEW s \in streams, Shown(s), s \in streams'
    PROVE  session'[s.key] = session[s.key]
<1>1. s.key \in Key /\ session[s.key].stream = s.id
  BY DEF SessionsOK, Stream, Shown
<1>2. s.key # k
  BY <1>1 DEF Stop
<1> QED
  BY <1>1, <1>2 DEF Stop, SessionsOK

LEMMA LiveStays ==
    ASSUME QueueInv, [Next]_vars, NEW s \in streams, Live(s), Shown(s), s \in streams'
    PROVE  \/ session'[s.key] = session[s.key]
           \/ s.key \in posting \ posting'
           \/ \E t \in StreamsOf(s.key) \ streams' : t # s
<1>0. SessionsOK /\ StackOK /\ s \in Stream /\ s.key \in Key /\ ~s.over /\ Running(s.key)
  BY DEF QueueInv, SessionsOK, Stream, Live, Shown
<1>1. CASE \E k \in Key : StartReview(k)
  BY <1>0, <1>1, StartReplaces DEF StartReview
<1>2. CASE PumpNext
  BY <1>0, <1>2, PumpNextStep, StartReplaces
<1>3. CASE StopNext
  BY <1>0, <1>3, StopNextStep, StopCloses
<1>4. CASE \E k \in Key : StopReview(k)
  BY <1>0, <1>4, StopCloses DEF StopReview
<1>5. ASSUME NEW k \in Key, NEW t \in StreamsOf(k), Result(t) \/ Done(t) \/ Error(t)
      PROVE  \/ session'[s.key] = session[s.key]
             \/ \E u \in StreamsOf(s.key) \ streams' : u # s
  <2> DEFINE ended == [t EXCEPT !.over = TRUE]
  <2>1. t \in streams /\ t.key = k /\ t \in Stream
    BY <1>0 DEF StreamsOf, SessionsOK
  <2>2. t \notin streams'
    <3>1. CASE Result(t)
      <4>1. ~t.over /\ streams' = (streams \ {t}) \cup {ended}
        BY <3>1 DEF Result
      <4>2. ended.over = TRUE
        BY <2>1 DEF Stream
      <4> QED
        BY <4>1, <4>2
    <3>2. CASE Done(t) \/ Error(t)
      BY <3>2 DEF Done, Error
    <3> QED
      BY <1>5, <3>1, <3>2
  <2>3. \E what, closed : Patch(k, what, closed)
    BY <1>5, <2>1 DEF Result, Done, Error
  <2>4. CASE s.key # k
    BY <1>0, <2>3, <2>4 DEF Patch, SessionsOK
  <2>5. CASE s.key = k
    BY <2>1, <2>2, <2>5 DEF StreamsOf
  <2> QED
    BY <2>4, <2>5
<1>6. CASE \E k \in Key : Hydrate(k)
  BY <1>0, <1>6 DEF Hydrate, SessionsOK
<1>7. CASE \E k \in Key : Incremented(k)
  <2>1. PICK k \in Key : Incremented(k)
    BY <1>7
  <2>2. CASE s.key = k
    BY <2>1, <2>2 DEF Incremented
  <2>3. CASE s.key # k
    BY <1>0, <2>1, <2>3 DEF Incremented, SessionsOK
  <2> QED
    BY <2>2, <2>3
<1>8. CASE HydrateRepo
  <2>1. session[s.key] # NoSession
    BY <1>0 DEF Running, NoSession
  <2> QED
    BY <1>0, <1>8, <2>1 DEF HydrateRepo
<1>9. CASE UNCHANGED session
  BY <1>9
<1>10. CASE Asking \/ (\E t \in streams : Chunk(t)) \/ (\E chosen \in SUBSET Key : Enqueue(chosen))
            \/ SetCap \/ StopQueue \/ Tell \/ Told \/ PumpReturns \/ StopReturns
  BY <1>9, <1>10 DEF Asking, Chunk, Enqueue, SetCap, StopQueue, Tell, Told, PumpReturns,
     StopReturns
<1>11. CASE Ending
  BY <1>4, <1>5, <1>6, <1>7, <1>8, <1>10, <1>11 DEF Ending, StreamEnds
<1> QED
  BY <1>0, <1>1, <1>2, <1>3, <1>10, <1>11, StepCases

\* While the AI is at work for a session, the session shows it: only an incremental
\* review that ends, or another stream of the PR that does, takes that away.
THEOREM LiveReviewsAreShown == Spec => LiveStaysShown
<1>1. ASSUME QueueInv, [Next]_vars
      PROVE  \A s \in streams :
               Live(s) /\ Shown(s) /\ Live(s)' =>
                   \/ Shown(s)'
                   \/ s.key \in posting \ posting'
                   \/ \E t \in StreamsOf(s.key) \ streams' : t # s
  <2>1. ASSUME NEW s \in streams, Live(s), Shown(s), Live(s)'
        PROVE  \/ Shown(s)'
               \/ s.key \in posting \ posting'
               \/ \E t \in StreamsOf(s.key) \ streams' : t # s
    <3>1. s \in streams'
      BY <2>1 DEF Live
    <3>2. CASE session'[s.key] = session[s.key]
      BY <2>1, <3>2 DEF Shown, Running
    <3> QED
      BY <1>1, <2>1, <3>1, <3>2, LiveStays
  <2> QED
    BY <2>1
<1>2. QueueInv /\ [Next]_vars =>
        [\A s \in streams :
            Live(s) /\ Shown(s) /\ Live(s)' =>
                \/ Shown(s)'
                \/ s.key \in posting \ posting'
                \/ \E t \in StreamsOf(s.key) \ streams' : t # s]_vars
  BY <1>1
<1> QED
  BY <1>2, QueueCorrect, PTL DEF Spec, LiveStaysShown
=============================================================================
