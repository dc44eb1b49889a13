---------------------------- MODULE LiveFeedProofs ----------------------------
(***************************************************************************)
(* Proofs about LiveFeed, for any sizes of the ring, of an answer and of   *)
(* the feed, and any numbers of events, changes and faults.                *)
(***************************************************************************)
EXTENDS LiveFeed, FiniteSetTheorems, SequenceTheorems, TLAPS

-----------------------------------------------------------------------------
(* The inductive invariant *)

Item == [event : SUBSET EventSet, status : Status \cup {NoStatus}]

Typed ==
    /\ boot \in 0 .. MaxFaults /\ last \in 0 .. MaxEvents /\ status \in Status
    /\ stream \in [up : BOOLEAN, sent : 0 .. MaxEvents, batch : Events, due : BOOLEAN,
                   said : Status \cup {NoStatus}, wire : Seq(Item)]
    /\ backfill \in [answered : BOOLEAN, events : Events, status : Status \cup {NoStatus}]
    /\ feed \in Events /\ Len(feed) <= FeedCap
    /\ told \in Status \cup {NoStatus} /\ toasts \in Events
    /\ badges \in [seen : 0 .. MaxEvents, asked : [boot : 0 .. MaxFaults, seq : 0 .. MaxEvents]]
    /\ opened \in 0 .. boot /\ owed \subseteq EventSet /\ stale \in BOOLEAN
    /\ faults \in 0 .. MaxFaults /\ boot <= faults

\* An event of the present run of the backend that the stream will still bring.
Coming(e) ==
    /\ stream.up /\ e.boot = boot
    /\ \/ e.seq > stream.sent
       \/ \E i \in DOMAIN stream.batch : stream.batch[i] = e
       \/ \E i \in DOMAIN stream.wire : e \in stream.wire[i].event

\* The stream brings the events of the present run in their order, what is on the wire
\* before what is in the batch before what is not polled yet.
StreamOK ==
    /\ stream.up \/ stream = Down
    /\ stream.batch # <<>> => stream.due
    /\ stream.sent <= last
    /\ \A i \in DOMAIN stream.batch :
          /\ stream.batch[i].boot = boot /\ stream.batch[i].seq <= stream.sent
          /\ \A j \in DOMAIN stream.batch : i < j => stream.batch[i].seq < stream.batch[j].seq
    /\ \A i \in DOMAIN stream.wire :
          \/ stream.wire[i].event = {} /\ stream.wire[i].status \in Status
          \/ \E e \in EventSet : stream.wire[i] = EventItem(e)
    /\ \A i \in DOMAIN stream.wire : \A e \in stream.wire[i].event :
          /\ e.boot = boot /\ e.seq <= stream.sent
          /\ \A j \in DOMAIN stream.batch : e.seq < stream.batch[j].seq
          /\ \A j \in DOMAIN stream.wire : i < j =>
                \A f \in stream.wire[j].event : e.seq < f.seq

\* Of the events of the present run an answer holds the newest as of then.
BackfillOK ==
    /\ backfill.answered => backfill.status \in Status /\ backfill.status <= status
    /\ \A i \in DOMAIN backfill.events :
          /\ backfill.events[i].boot = boot /\ backfill.events[i].seq <= last
          /\ \A j \in DOMAIN backfill.events :
                backfill.events[i].seq = backfill.events[j].seq => i = j
          /\ \A e \in EventSet : e.boot = boot /\ e.seq < backfill.events[i].seq =>
                e \in ToSet(backfill.events) \/ last - e.seq >= Limit

\* The feed holds events since the page was loaded.
FeedOK ==
    /\ FeedKeysUnique
    /\ \A e \in ToSet(feed) :
          opened <= e.boot /\ e.boot <= boot /\ (e.boot = boot => e.seq <= last)

\* What had its toast does not come again.
ToastsOK ==
    /\ ToastedOnce
    /\ \A e \in ToSet(toasts) :
          e.boot <= boot /\ (e.boot = boot => e.seq <= last) /\ ~Coming(e)

\* What is owed is of the present run, and coming unless the page is of an earlier one.
OwedOK ==
    \A e \in owed : stream.up /\ e.boot = boot /\ e.seq <= last /\ (ThisRun(e) => Coming(e))

\* The badges were asked for after the last event that counts as seen.
BadgesOK ==
    /\ opened <= badges.asked.boot /\ badges.asked.boot <= boot
    /\ badges.asked.boot = opened => badges.seen <= badges.asked.seq
    /\ BadgesFollowFeed

\* When the present status has been said, it is the last one on the wire; or none is,
\* and the page shows it.
StatusOK ==
    /\ stream.said # NoStatus => stream.said <= status
    /\ stream.up /\ stream.said = status =>
         \/ \E i \in DOMAIN stream.wire :
               /\ stream.wire[i].event = {} /\ stream.wire[i].status = status
               /\ \A j \in DOMAIN stream.wire : i < j => stream.wire[j].event # {}
         \/ /\ \A i \in DOMAIN stream.wire : stream.wire[i].event # {}
            /\ stale \/ told = status

\* A later event overtakes one that is coming only in an answer that has both, unless
\* the answer had no room for it, or the feed has not.
OvertakenOK ==
    boot = opened =>
        \A e \in EventSet :
            Coming(e) /\ (\E f \in ToSet(feed) : e.seq < f.seq) =>
                e \in ToSet(feed) \/ Len(feed) = FeedCap \/ last - e.seq >= Limit

FeedInv ==
    /\ Typed /\ StreamOK /\ BackfillOK /\ FeedOK
    /\ ToastsOK /\ OwedOK /\ BadgesOK /\ StatusOK /\ OvertakenOK

-----------------------------------------------------------------------------
(* Lists of events *)

LEMMA Constants ==
    /\ Limit \in Nat \ {0} /\ Capacity \in Nat /\ Limit <= Capacity
    /\ FeedCap \in Nat \ {0}
    /\ MaxEvents \in Nat /\ MaxChanges \in Nat /\ MaxFaults \in Nat
    /\ NoStatus \notin Status
  BY FeedAssumption DEF Status

\* The last n of a list.
LEMMA LastOfIs ==
    ASSUME NEW S, NEW s \in Seq(S), NEW n \in Nat
    PROVE  /\ LastOf(s, n) \in Seq(S)
           /\ Len(LastOf(s, n)) = IF Len(s) > n THEN n ELSE Len(s)
           /\ \A i \in 1 .. Len(LastOf(s, n)) :
                 LastOf(s, n)[i] = s[Len(s) - Len(LastOf(s, n)) + i]
<1>1. Len(s) \in Nat
  OBVIOUS
<1>2. CASE Len(s) > n
  <2> DEFINE m == Len(s) - n + 1
             t == SubSeq(s, m, Len(s))
  <2>1. m \in Int /\ 1 <= m /\ Len(s) - m + 1 = n
    BY <1>1, <1>2
  <2>2. \A i \in m .. Len(s) : s[i] \in S
    BY <1>1, <2>1
  <2>3. m <= Len(s) + 1
    BY <1>1
  <2>4. LastOf(s, n) = t
    BY <1>2 DEF LastOf
  <2> HIDE DEF m
  <2>5. /\ t \in Seq(S) /\ Len(t) = (IF m <= Len(s) THEN Len(s) - m + 1 ELSE 0)
        /\ \A i \in 1 .. Len(s) - m + 1 : t[i] = s[m + i - 1]
    BY <1>1, <2>1, <2>2, SubSeqProperties
  <2> HIDE DEF t
  <2>6. Len(t) = n
    BY <1>1, <2>1, <2>3, <2>5
  <2>7. \A i \in 1 .. n : t[i] = s[Len(s) - n + i]
    BY <1>1, <2>1, <2>5 DEF m
  <2> QED
    BY <1>2, <2>4, <2>5, <2>6, <2>7
<1>3. CASE ~(Len(s) > n)
  BY <1>1, <1>3 DEF LastOf
<1> QED
  BY <1>2, <1>3

LEMMA LastOfKeeps ==
    ASSUME NEW S, NEW s \in Seq(S), NEW n \in Nat
    PROVE  /\ ToSet(LastOf(s, n)) \subseteq ToSet(s)
           /\ \A e \in ToSet(s) : e \in ToSet(LastOf(s, n)) \/ Len(LastOf(s, n)) = n
           /\ n > 0 /\ s # <<>> => s[Len(s)] \in ToSet(LastOf(s, n))
           /\ Len(s) <= n => LastOf(s, n) = s
<1> DEFINE t == LastOf(s, n)
<1>1. /\ t \in Seq(S) /\ Len(t) = (IF Len(s) > n THEN n ELSE Len(s))
      /\ \A i \in 1 .. Len(t) : t[i] = s[Len(s) - Len(t) + i]
  BY LastOfIs
<1>2. Len(s) \in Nat /\ Len(t) \in Nat
  BY <1>1
<1>3. Len(s) <= n => t = s
  BY <1>2 DEF LastOf
<1> HIDE DEF t
<1>4. \A i \in 1 .. Len(t) : Len(s) - Len(t) + i \in 1 .. Len(s)
  BY <1>1, <1>2
<1>5. ToSet(t) \subseteq ToSet(s)
  <2>1. DOMAIN t = 1 .. Len(t) /\ DOMAIN s = 1 .. Len(s)
    BY <1>1
  <2>2. ASSUME NEW i \in DOMAIN t PROVE \E j \in DOMAIN s : t[i] = s[j]
    <3>1. i \in 1 .. Len(t) /\ Len(s) - Len(t) + i \in DOMAIN s
      BY <1>4, <2>1
    <3> QED
      BY <1>1, <3>1
  <2> QED
    BY <2>2 DEF ToSet
<1>6. ASSUME n > 0, s # <<>> PROVE Len(t) \in 1 .. Len(t) /\ t[Len(t)] = s[Len(s)]
  <2>1. Len(s) # 0
    BY <1>6, EmptySeq
  <2>2. Len(t) \in 1 .. Len(t)
    BY <1>1, <1>2, <1>6, <2>1
  <2>3. Len(s) - Len(t) + Len(t) = Len(s)
    BY <1>2
  <2> QED
    BY <1>1, <2>2, <2>3
<1>7. n > 0 /\ s # <<>> => s[Len(s)] \in ToSet(t)
  BY <1>1, <1>6 DEF ToSet
<1>8. Len(s) > n => Len(t) = n
  BY <1>1
<1>9. ~(Len(s) > n) => Len(s) <= n
  BY <1>2
<1> QED
  BY <1>3, <1>5, <1>7, <1>8, <1>9 DEF t

\* What is picked from a list: all of it that is wanted, once.
LEMMA OnlyIs ==
    ASSUME NEW S, NEW s \in Seq(S), NEW kept
    PROVE  /\ Only(s, kept) \in Seq(S)
           /\ ToSet(Only(s, kept)) = ToSet(s) \cap kept
           /\ (\A i, j \in DOMAIN s : s[i].seq = s[j].seq => i = j) =>
                \A i, j \in DOMAIN Only(s, kept) :
                    Only(s, kept)[i].seq = Only(s, kept)[j].seq => i = j
<1> DEFINE places == {i \in DOMAIN s : s[i] \in kept}
           before(i) == {j \in places : j < i}
           place(n) == CHOOSE i \in places : Cardinality(before(i)) = n - 1
           c == Cardinality(places)
           rank == [i \in places |-> Cardinality(before(i)) + 1]
           t == [n \in 1 .. c |-> s[place(n)]]
<1>1. Only(s, kept) = t
  BY DEF Only
<1>2. places \subseteq 1 .. Len(s) /\ Len(s) \in Nat
  OBVIOUS
<1>3. IsFiniteSet(places) /\ c \in Nat
  <2>1. IsFiniteSet(1 .. Len(s))
    BY <1>2, FS_Interval
  <2>2. places \in SUBSET (1 .. Len(s))
    BY <1>2
  <2> HIDE DEF places
  <2>3. IsFiniteSet(places)
    BY <2>1, <2>2, FS_Subset
  <2> QED
    BY <2>3, FS_CardinalityType
<1>4. \A i : before(i) \subseteq places
  OBVIOUS
<1> HIDE DEF places
<1>5. ASSUME NEW i
      PROVE  IsFiniteSet(before(i)) /\ Cardinality(before(i)) \in Nat
  <2>1. before(i) \in SUBSET places
    BY <1>4
  <2> HIDE DEF before
  <2>2. IsFiniteSet(before(i))
    BY <1>3, <2>1, FS_Subset
  <2> QED
    BY <2>2, FS_CardinalityType
<1>6. ASSUME NEW i \in places
      PROVE  Cardinality(before(i)) + 1 \in 1 .. c
  <2>1. i \notin before(i) /\ i \in Nat
    BY <1>2
  <2>2. before(i) \in SUBSET places
    BY <1>4
  <2> HIDE DEF before
  <2>3. Cardinality(before(i)) <= c /\ (c = Cardinality(before(i)) => places = before(i))
    BY <1>3, <2>2, FS_Subset
  <2>4. c # Cardinality(before(i))
    BY <2>1, <2>3
  <2>5. Cardinality(before(i)) \in Nat
    BY <1>5
  <2> HIDE DEF c
  <2> QED
    BY <1>3, <2>3, <2>4, <2>5
<1>7. ASSUME NEW i \in places, NEW k \in places, i < k
      PROVE  Cardinality(before(i)) # Cardinality(before(k))
  <2>1. before(i) \in SUBSET before(k)
    <3>1. i \in Nat /\ k \in Nat
      BY <1>2
    <3>2. ASSUME NEW j \in places, j < i PROVE j < k
      <4>1. j \in Nat
        BY <1>2
      <4> QED
        BY <1>7, <3>1, <3>2, <4>1
    <3> QED
      BY <3>2
  <2>2. i \in before(k) /\ i \notin before(i)
    BY <1>2, <1>7
  <2>3. IsFiniteSet(before(k))
    BY <1>5
  <2> HIDE DEF before
  <2> QED
    BY <2>1, <2>2, <2>3, FS_Subset
<1>8. ASSUME NEW i \in places, NEW k \in places, Cardinality(before(i)) = Cardinality(before(k))
      PROVE  i = k
  <2>1. i \in Nat /\ k \in Nat
    BY <1>2
  <2> QED
    BY <1>7, <1>8, <2>1
<1> HIDE DEF before
<1>9. rank \in Injection(places, 1 .. c)
  <2>1. rank \in [places -> 1 .. c]
    BY <1>6
  <2>2. ASSUME NEW i \in places, NEW k \in places, rank[i] = rank[k] PROVE i = k
    BY <1>5, <1>8, <2>2
  <2> QED
    BY <2>1, <2>2 DEF Injection, IsInjective
<1>10. IsFiniteSet(1 .. c) /\ Cardinality(1 .. c) = c
  BY <1>3, FS_Interval
<1>11. rank \in Surjection(places, 1 .. c)
  <2> HIDE DEF rank
  <2> QED
    BY <1>9, <1>10, FS_Injection DEF c
<1>12. ASSUME NEW n \in 1 .. c
       PROVE  place(n) \in places /\ Cardinality(before(place(n))) = n - 1
  <2>1. PICK i \in places : rank[i] = n
    BY <1>11 DEF Surjection
  <2>2. Cardinality(before(i)) = n - 1
    BY <1>5, <2>1
  <2> QED
    BY <2>2
<1>13. ASSUME NEW i \in places PROVE \E n \in 1 .. c : place(n) = i
  <2>1. PICK n \in 1 .. c : n = Cardinality(before(i)) + 1
    BY <1>6
  <2>2. n - 1 = Cardinality(before(i))
    BY <1>5, <2>1
  <2> QED
    BY <1>8, <1>12, <2>2
<1>14. ASSUME NEW n \in 1 .. c, NEW m \in 1 .. c, place(n) = place(m) PROVE n = m
  <2>1. n - 1 = m - 1
    BY <1>12, <1>14
  <2> QED
    BY <1>3, <2>1
<1>15. \A i \in places : i \in DOMAIN s /\ s[i] \in kept
  BY DEF places
<1>16. \A i \in DOMAIN s : s[i] \in kept => i \in places
  BY DEF places
<1> HIDE DEF place, c
<1>17. t \in Seq(S) /\ DOMAIN t = 1 .. c
  <2>1. t \in [1 .. c -> S]
    BY <1>12, <1>15
  <2> HIDE DEF t
  <2> QED
    BY <1>3, <2>1
<1>18. ToSet(t) = ToSet(s) \cap kept
  <2>1. \A n \in 1 .. c : t[n] \in ToSet(s) \cap kept
    BY <1>12, <1>15 DEF ToSet
  <2>2. \A i \in DOMAIN s : s[i] \in kept => \E n \in 1 .. c : t[n] = s[i]
    BY <1>13, <1>16
  <2> HIDE DEF t
  <2> QED
    BY <1>17, <2>1, <2>2 DEF ToSet
<1>19. ASSUME \A i, j \in DOMAIN s : s[i].seq = s[j].seq => i = j,
              NEW i \in 1 .. c, NEW j \in 1 .. c, t[i].seq = t[j].seq
       PROVE  i = j
  <2>1. place(i) \in DOMAIN s /\ place(j) \in DOMAIN s
    BY <1>12, <1>15
  <2>2. s[place(i)].seq = s[place(j)].seq
    BY <1>19
  <2> QED
    BY <1>14, <1>19, <2>1, <2>2
<1> HIDE DEF t
<1> QED
  BY <1>1, <1>17, <1>18, <1>19

-----------------------------------------------------------------------------
(* The operators of the model *)

\* The events after a number: the newest of them, up to the last.
LEMMA EventsAfterIs ==
    ASSUME Typed, NEW after \in 0 .. last
    PROVE  /\ EventsAfter(after) \in Events
           /\ Len(EventsAfter(after)) <= Limit
           /\ Len(EventsAfter(after)) <= last - after
           /\ Len(EventsAfter(after)) = last - after \/ Len(EventsAfter(after)) = Limit
           /\ \A i \in 1 .. Len(EventsAfter(after)) :
                 EventsAfter(after)[i] = Event(boot, last - Len(EventsAfter(after)) + i)
<1> DEFINE all == [n \in 1 .. last |-> Event(boot, n)]
           r == LastOf(all, Capacity)
           u == LastOf(r, last - after)
           t == LastOf(u, Limit)
<1>1. /\ last \in Nat /\ last <= MaxEvents /\ MaxEvents \in Nat
      /\ after \in Nat /\ after <= last /\ last - after \in Nat
  BY Constants DEF Typed
<1>2. Capacity \in Nat /\ Limit \in Nat /\ Limit <= Capacity
  BY Constants
<1>3. all \in Seq(EventSet) /\ Len(all) = last /\ \A i \in 1 .. last : all[i] = Event(boot, i)
  <2>1. \A n \in 1 .. last : Event(boot, n) \in EventSet
    BY <1>1 DEF Typed, Event, EventSet
  <2>2. all \in [1 .. last -> EventSet]
    BY <2>1
  <2> QED
    BY <1>1, <2>2
<1> HIDE DEF all
<1>4. /\ r \in Seq(EventSet) /\ Len(r) = (IF last > Capacity THEN Capacity ELSE last)
      /\ \A i \in 1 .. Len(r) : r[i] = all[last - Len(r) + i]
  BY <1>2, <1>3, LastOfIs
<1> HIDE DEF r
<1>5. /\ u \in Seq(EventSet) /\ Len(u) = (IF Len(r) > last - after THEN last - after ELSE Len(r))
      /\ \A i \in 1 .. Len(u) : u[i] = r[Len(r) - Len(u) + i]
  BY <1>1, <1>4, LastOfIs
<1> HIDE DEF u
<1>6. /\ t \in Seq(EventSet) /\ Len(t) = (IF Len(u) > Limit THEN Limit ELSE Len(u))
      /\ \A i \in 1 .. Len(t) : t[i] = u[Len(u) - Len(t) + i]
  BY <1>2, <1>5, LastOfIs
<1>7. EventsAfter(after) = t
  BY DEF EventsAfter, Ring, t, u, r, all
<1> HIDE DEF t
<1>8. Len(r) \in Nat /\ Len(u) \in Nat /\ Len(t) \in Nat
  BY <1>4, <1>5, <1>6
<1>9. Len(t) <= Limit /\ Len(t) <= Len(u) /\ Len(u) <= Len(r) /\ Len(u) <= last - after /\ Len(r) <= last
  BY <1>1, <1>2, <1>4, <1>5, <1>6, <1>8
<1>10. Len(t) = last - after \/ Len(t) = Limit
  BY <1>1, <1>2, <1>4, <1>5, <1>6, <1>8
<1>11. ASSUME NEW i \in 1 .. Len(t) PROVE t[i] = Event(boot, last - Len(t) + i)
  <2>1. i \in Nat /\ 1 <= i /\ i <= Len(t)
    BY <1>8
  <2>2. Len(u) - Len(t) + i \in 1 .. Len(u)
    BY <1>8, <1>9, <2>1
  <2>3. t[i] = u[Len(u) - Len(t) + i]
    BY <1>6
  <2>4. Len(r) - Len(u) + (Len(u) - Len(t) + i) = Len(r) - Len(t) + i
    BY <1>8, <2>1
  <2>5. u[Len(u) - Len(t) + i] = r[Len(r) - Len(t) + i]
    BY <1>5, <2>2, <2>4
  <2>6. Len(r) - Len(t) + i \in 1 .. Len(r)
    BY <1>8, <1>9, <2>1
  <2>7. last - Len(r) + (Len(r) - Len(t) + i) = last - Len(t) + i
    BY <1>1, <1>8, <2>1
  <2>8. r[Len(r) - Len(t) + i] = all[last - Len(t) + i]
    BY <1>4, <2>6, <2>7
  <2>9. last - Len(t) + i \in 1 .. last
    BY <1>1, <1>8, <1>9, <2>1
  <2> QED
    BY <1>3, <2>3, <2>5, <2>8, <2>9
<1>12. Len(t) <= last - after
  BY <1>1, <1>8, <1>9
<1> QED
  BY <1>6, <1>7, <1>9, <1>10, <1>11, <1>12 DEF Events

\* What the feed becomes when events with different numbers are appended.
LEMMA AppendedIs ==
    ASSUME Typed, FeedKeysUnique, NEW events \in Events,
           \A i, j \in DOMAIN events : events[i].seq = events[j].seq => i = j
    PROVE  /\ Appended(events) \in Events /\ Len(Appended(events)) <= FeedCap
           /\ Len(feed) = FeedCap => Len(Appended(events)) = FeedCap
           /\ \A i, j \in DOMAIN Appended(events) :
                 Appended(events)[i].seq = Appended(events)[j].seq => i = j
           /\ \A e \in ToSet(Appended(events)) : e \in ToSet(feed) \/ e \in ToSet(events)
           /\ \A e \in ToSet(feed) :
                 e \in ToSet(Appended(events)) \/ Len(Appended(events)) = FeedCap
           /\ \A e \in ToSet(events) :
                 \/ e \in ToSet(Appended(events)) \/ Len(Appended(events)) = FeedCap
                 \/ \E f \in ToSet(feed) : f.seq = e.seq
<1> DEFINE unseen == {e \in ToSet(events) : \A i \in DOMAIN feed : feed[i].seq # e.seq}
           more == Only(events, unseen)
           long == feed \o more
           n == LastOf(long, FeedCap)
<1>1. feed \in Seq(EventSet) /\ events \in Seq(EventSet) /\ FeedCap \in Nat /\ FeedCap > 0
  BY Constants DEF Typed, Events
<1>2. Len(feed) \in Nat /\ Len(feed) <= FeedCap
  BY <1>1 DEF Typed
<1>3. n = Appended(events)
  BY DEF Appended
<1>4. \A e \in ToSet(events) : e \in unseen <=> \A i \in DOMAIN feed : feed[i].seq # e.seq
  OBVIOUS
<1> HIDE DEF unseen
<1>5. /\ more \in Seq(EventSet) /\ ToSet(more) = ToSet(events) \cap unseen
      /\ \A i, j \in DOMAIN more : more[i].seq = more[j].seq => i = j
  BY <1>1, OnlyIs
<1> HIDE DEF more
<1>6. /\ long \in Seq(EventSet) /\ Len(long) = Len(feed) + Len(more)
      /\ \A i \in 1 .. Len(feed) : long[i] = feed[i]
      /\ \A i \in 1 .. Len(more) : long[Len(feed) + i] = more[i]
  BY <1>1, <1>5
<1>7. Len(more) \in Nat /\ Len(long) \in Nat
  BY <1>5, <1>6
<1>8. \A i \in 1 .. Len(long) : i \in 1 .. Len(feed) \/ i - Len(feed) \in 1 .. Len(more)
  BY <1>2, <1>6, <1>7
<1> HIDE DEF long
<1>9. DOMAIN feed = 1 .. Len(feed) /\ DOMAIN more = 1 .. Len(more) /\ DOMAIN long = 1 .. Len(long)
  BY <1>1, <1>5, <1>6
<1>10. \A i \in 1 .. Len(long) :
          \/ i \in DOMAIN feed /\ long[i] = feed[i]
          \/ i - Len(feed) \in DOMAIN more /\ long[i] = more[i - Len(feed)]
  <2> SUFFICES ASSUME NEW i \in 1 .. Len(long), i \notin DOMAIN feed
               PROVE  i - Len(feed) \in DOMAIN more /\ long[i] = more[i - Len(feed)]
    BY <1>6, <1>9
  <2>1. i - Len(feed) \in 1 .. Len(more)
    BY <1>8, <1>9
  <2>2. Len(feed) + (i - Len(feed)) = i
    BY <1>2, <1>7
  <2> QED
    BY <1>6, <1>9, <2>1, <2>2
<1>11. ToSet(long) = ToSet(feed) \cup ToSet(more)
  <2>1. \A i \in DOMAIN feed : i \in DOMAIN long /\ long[i] = feed[i]
    BY <1>2, <1>6, <1>7, <1>9
  <2>2. \A i \in DOMAIN more : Len(feed) + i \in DOMAIN long /\ long[Len(feed) + i] = more[i]
    BY <1>2, <1>6, <1>7, <1>9
  <2>3. ToSet(long) \subseteq ToSet(feed) \cup ToSet(more)
    BY <1>9, <1>10 DEF ToSet
  <2>4. ToSet(feed) \subseteq ToSet(long)
    BY <2>1 DEF ToSet
  <2>5. ToSet(more) \subseteq ToSet(long)
    BY <2>2 DEF ToSet
  <2> QED
    BY <2>3, <2>4, <2>5
<1>12. ASSUME NEW i \in DOMAIN long, NEW j \in DOMAIN long, long[i].seq = long[j].seq PROVE i = j
  <2>1. \A a \in DOMAIN feed, b \in DOMAIN more : feed[a].seq # more[b].seq
    <3> SUFFICES ASSUME NEW a \in DOMAIN feed, NEW b \in DOMAIN more PROVE feed[a].seq # more[b].seq
      OBVIOUS
    <3>1. more[b] \in ToSet(more)
      BY DEF ToSet
    <3>2. more[b] \in ToSet(events) /\ more[b] \in unseen
      BY <1>5, <3>1
    <3> QED
      BY <1>4, <3>2
  <2>2. i \in Nat /\ j \in Nat
    BY <1>7, <1>9
  <2>3. i - Len(feed) = j - Len(feed) => i = j
    BY <1>2, <2>2
  <2>4. \A a, b \in DOMAIN feed : feed[a].seq = feed[b].seq => a = b
    BY DEF FeedKeysUnique
  <2>5. \/ i \in DOMAIN feed /\ long[i] = feed[i]
        \/ i - Len(feed) \in DOMAIN more /\ long[i] = more[i - Len(feed)]
    BY <1>9, <1>10
  <2>6. \/ j \in DOMAIN feed /\ long[j] = feed[j]
        \/ j - Len(feed) \in DOMAIN more /\ long[j] = more[j - Len(feed)]
    BY <1>9, <1>10
  <2> DEFINE k == i - Len(feed)
             m == j - Len(feed)
  <2>7. k = m => i = j
    BY <2>3
  <2> HIDE DEF k, m
  <2>8. \A a, b \in DOMAIN more : more[a].seq = more[b].seq => a = b
    BY <1>5
  <2>9. (i \in DOMAIN feed /\ long[i] = feed[i]) \/ (k \in DOMAIN more /\ long[i] = more[k])
    BY <2>5 DEF k
  <2>10. (j \in DOMAIN feed /\ long[j] = feed[j]) \/ (m \in DOMAIN more /\ long[j] = more[m])
    BY <2>6 DEF m
  <2>11. long[i].seq = long[j].seq
    BY <1>12
  <2> QED
    BY <2>1, <2>4, <2>7, <2>8, <2>9, <2>10, <2>11
<1>13. /\ n \in Seq(EventSet) /\ Len(n) = (IF Len(long) > FeedCap THEN FeedCap ELSE Len(long))
       /\ \A i \in 1 .. Len(n) : n[i] = long[Len(long) - Len(n) + i]
  <2>1. n \in Seq(EventSet)
    BY <1>1, <1>6, LastOfIs
  <2>2. Len(n) = (IF Len(long) > FeedCap THEN FeedCap ELSE Len(long))
    BY <1>1, <1>6, LastOfIs
  <2>3. long \in Seq(EventSet) /\ FeedCap \in Nat
    BY <1>1, <1>6
  <2>4. \A i \in 1 .. Len(n) : n[i] = long[Len(long) - Len(n) + i]
    BY <2>3, LastOfIs, Zenon
  <2> QED
    BY <2>1, <2>2, <2>4
<1>14. /\ ToSet(n) \subseteq ToSet(long)
       /\ \A e \in ToSet(long) : e \in ToSet(n) \/ Len(n) = FeedCap
  BY <1>1, <1>6, LastOfKeeps
<1> HIDE DEF n
<1>15. Len(n) \in Nat /\ Len(n) <= Len(long) /\ Len(n) <= FeedCap /\ DOMAIN n = 1 .. Len(n)
  BY <1>1, <1>7, <1>13
<1>16. Len(feed) = FeedCap => Len(n) = FeedCap
  BY <1>1, <1>2, <1>6, <1>7, <1>13
<1>17. ASSUME NEW i \in DOMAIN n, NEW j \in DOMAIN n, n[i].seq = n[j].seq PROVE i = j
  <2>1. i \in Nat /\ j \in Nat /\ 1 <= i /\ i <= Len(n) /\ 1 <= j /\ j <= Len(n)
    BY <1>15
  <2>2. Len(long) - Len(n) + i \in DOMAIN long /\ Len(long) - Len(n) + j \in DOMAIN long
    BY <1>7, <1>9, <1>15, <2>1
  <2>3. long[Len(long) - Len(n) + i].seq = long[Len(long) - Len(n) + j].seq
    BY <1>13, <1>15, <1>17
  <2>4. Len(long) - Len(n) + i = Len(long) - Len(n) + j
    BY <1>12, <2>2, <2>3
  <2> QED
    BY <1>7, <1>15, <2>1, <2>4
<1>18. \A e \in ToSet(events) : e \in ToSet(more) \/ \E f \in ToSet(feed) : f.seq = e.seq
  BY <1>4, <1>5 DEF ToSet
<1>19. \A e \in ToSet(n) : e \in ToSet(feed) \/ e \in ToSet(events)
  BY <1>5, <1>11, <1>14
<1>20. \A e \in ToSet(feed) : e \in ToSet(n) \/ Len(n) = FeedCap
  BY <1>11, <1>14
<1>21. \A e \in ToSet(events) :
          e \in ToSet(n) \/ Len(n) = FeedCap \/ \E f \in ToSet(feed) : f.seq = e.seq
  BY <1>11, <1>14, <1>18
<1> QED
  BY <1>3, <1>13, <1>15, <1>16, <1>17, <1>19, <1>20, <1>21 DEF Events

\* A single event comes last, unless the feed has its number: then the feed stays.
LEMMA AppendedOne ==
    ASSUME Typed, NEW e \in EventSet
    PROVE  \/ e \in ToSet(Appended(<<e>>))
           \/ Appended(<<e>>) = feed /\ \E f \in ToSet(feed) : f.seq = e.seq
<1> DEFINE one == <<e>>
           unseen == {g \in ToSet(one) : \A i \in DOMAIN feed : feed[i].seq # g.seq}
           more == Only(one, unseen)
           long == feed \o more
<1>1. feed \in Seq(EventSet) /\ one \in Seq(EventSet) /\ FeedCap \in Nat /\ FeedCap > 0
  BY Constants DEF Typed, Events
<1>2. ToSet(one) = {e}
  BY DEF ToSet
<1>3. e \in unseen <=> \A i \in DOMAIN feed : feed[i].seq # e.seq
  BY <1>2
<1>4. unseen \subseteq {e}
  BY <1>2
<1>5. Appended(<<e>>) = LastOf(long, FeedCap)
  BY DEF Appended
<1> HIDE DEF unseen, one
<1>6. more \in Seq(EventSet) /\ ToSet(more) = {e} \cap unseen
  BY <1>1, <1>2, OnlyIs
<1> HIDE DEF more
<1>7. CASE e \in unseen
  <2>1. ToSet(more) = {e}
    BY <1>6, <1>7
  <2>2. Len(more) \in Nat /\ DOMAIN more = 1 .. Len(more)
    BY <1>6
  <2>3. PICK i \in DOMAIN more : more[i] = e
    BY <2>1 DEF ToSet
  <2>4. Len(more) \in DOMAIN more /\ Len(more) > 0
    BY <2>2, <2>3
  <2>5. more[Len(more)] = e
    BY <2>1, <2>4 DEF ToSet
  <2>6. long \in Seq(EventSet) /\ Len(long) = Len(feed) + Len(more) /\ Len(feed) \in Nat
        /\ \A k \in 1 .. Len(more) : long[Len(feed) + k] = more[k]
    BY <1>1, <1>6
  <2> HIDE DEF long
  <2>7. long[Len(long)] = e
    BY <2>2, <2>4, <2>5, <2>6
  <2>8. long # <<>>
    BY <2>2, <2>4, <2>6
  <2> QED
    BY <1>1, <1>5, <2>6, <2>7, <2>8, LastOfKeeps
<1>8. CASE e \notin unseen
  <2>1. ToSet(more) = {}
    BY <1>6, <1>8
  <2>2. Len(more) \in Nat /\ DOMAIN more = 1 .. Len(more)
    BY <1>6
  <2>3. \A i \in DOMAIN more : FALSE
    BY <2>1 DEF ToSet
  <2>4. ASSUME Len(more) # 0 PROVE FALSE
    <3>1. 1 \in DOMAIN more
      BY <2>2, <2>4
    <3> QED
      BY <2>3, <3>1
  <2>5. more = <<>>
    BY <1>6, <2>2, <2>4, EmptySeq
  <2>6. long = feed
    BY <1>1, <2>5
  <2>7. Len(feed) <= FeedCap
    BY DEF Typed
  <2>8. Appended(<<e>>) = feed
    BY <1>1, <1>5, <2>6, <2>7, LastOfKeeps
  <2>9. \E f \in ToSet(feed) : f.seq = e.seq
    BY <1>3, <1>8 DEF ToSet
  <2> QED
    BY <2>8, <2>9
<1> QED
  BY <1>7, <1>8

\* The badges are asked for again if the list holds a later event than any seen.
LEMMA RefreshedIs ==
    ASSUME Typed, NEW list \in Events
    PROVE  \/ Refreshed(list) = badges /\ \A e \in ToSet(list) : e.seq <= badges.seen
           \/ \E e \in ToSet(list) : Refreshed(list) = [seen |-> e.seq, asked |-> Event(boot, last)]
<1> DEFINE later == {e \in ToSet(list) : e.seq > badges.seen}
           fresh == Only(list, later)
<1>1. list \in Seq(EventSet)
  BY DEF Events
<1>2. fresh \in Seq(EventSet) /\ ToSet(fresh) = ToSet(list) \cap later
  BY <1>1, OnlyIs
<1>3. Refreshed(list) = IF fresh = <<>> THEN badges
                        ELSE [seen |-> Last(fresh).seq, asked |-> Event(boot, last)]
  BY DEF Refreshed
<1>4. \A e \in ToSet(list) : e \in EventSet
  BY <1>1 DEF ToSet
<1>5. badges.seen \in Nat
  BY Constants DEF Typed
<1> HIDE DEF fresh
<1>6. CASE fresh = <<>>
  <2>1. ToSet(fresh) = {}
    BY <1>6 DEF ToSet
  <2>2. ASSUME NEW e \in ToSet(list) PROVE e.seq <= badges.seen
    <3>1. e.seq \in Nat
      BY <1>4, Constants DEF EventSet
    <3>2. ~(e.seq > badges.seen)
      BY <1>2, <2>1
    <3> QED
      BY <1>5, <3>1, <3>2
  <2> QED
    BY <1>3, <1>6, <2>2
<1>7. CASE fresh # <<>>
  <2>1. Len(fresh) \in DOMAIN fresh
    BY <1>2, <1>7
  <2>2. Last(fresh) \in ToSet(fresh)
    BY <2>1 DEF ToSet, Last
  <2> QED
    BY <1>2, <1>3, <1>7, <2>2
<1> QED
  BY <1>6, <1>7

LEMMA TailIs ==
    ASSUME NEW S, NEW s \in Seq(S), s # <<>>
    PROVE  /\ Tail(s) \in Seq(S) /\ Head(s) = s[1] /\ Head(s) \in S
           /\ Len(s) \in Nat /\ Len(s) >= 1 /\ 1 \in DOMAIN s
           /\ Len(Tail(s)) = Len(s) - 1
           /\ \A i \in DOMAIN Tail(s) : i \in Nat /\ i + 1 \in DOMAIN s /\ Tail(s)[i] = s[i + 1]
           /\ \A i \in DOMAIN s : i = 1 \/ (i - 1 \in DOMAIN Tail(s) /\ Tail(s)[i - 1] = s[i])
<1>1. Len(s) \in Nat /\ Len(s) # 0 /\ DOMAIN s = 1 .. Len(s)
  BY EmptySeq
<1>2. /\ Tail(s) \in Seq(S) /\ Head(s) = s[1] /\ Len(Tail(s)) = Len(s) - 1
      /\ \A i \in 1 .. Len(s) - 1 : Tail(s)[i] = s[i + 1]
  BY <1>1, HeadTailProperties
<1>3. DOMAIN Tail(s) = 1 .. Len(s) - 1
  BY <1>1, <1>2
<1>4. 1 \in DOMAIN s
  BY <1>1
<1>5. ASSUME NEW i \in DOMAIN s, i # 1
      PROVE  i - 1 \in DOMAIN Tail(s) /\ Tail(s)[i - 1] = s[i]
  <2>1. i - 1 \in 1 .. Len(s) - 1 /\ (i - 1) + 1 = i
    BY <1>1, <1>5
  <2> QED
    BY <1>2, <1>3, <2>1
<1>6. \A i \in DOMAIN Tail(s) : i \in Nat /\ i + 1 \in DOMAIN s /\ Tail(s)[i] = s[i + 1]
  BY <1>1, <1>2, <1>3
<1>7. s[1] \in S
  BY <1>4
<1> QED
  BY <1>1, <1>2, <1>4, <1>5, <1>6, <1>7

LEMMA AppendIs ==
    ASSUME NEW S, NEW s \in Seq(S), NEW x \in S
    PROVE  /\ Append(s, x) \in Seq(S) /\ Len(s) \in Nat /\ Len(s) + 1 \in DOMAIN Append(s, x)
           /\ Append(s, x)[Len(s) + 1] = x
           /\ \A i \in DOMAIN s : i < Len(s) + 1 /\ i \in DOMAIN Append(s, x) /\ Append(s, x)[i] = s[i]
           /\ \A i \in DOMAIN Append(s, x) : i = Len(s) + 1 \/ i \in DOMAIN s
<1>1. Len(s) \in Nat /\ DOMAIN s = 1 .. Len(s)
  OBVIOUS
<1>2. /\ Append(s, x) \in Seq(S) /\ Len(Append(s, x)) = Len(s) + 1
      /\ \A i \in 1 .. Len(s) : Append(s, x)[i] = s[i]
      /\ Append(s, x)[Len(s) + 1] = x
  BY AppendProperties
<1>3. DOMAIN Append(s, x) = 1 .. Len(s) + 1
  BY <1>1, <1>2
<1> QED
  BY <1>1, <1>2, <1>3

-----------------------------------------------------------------------------
(* What an action does *)

LEMMA EventIs ==
    ASSUME NEW e \in EventSet
    PROVE  e.boot \in Nat /\ e.seq \in Nat /\ e.seq >= 1 /\ e = Event(e.boot, e.seq)
  BY Constants DEF EventSet, Event

\* The parts of the state with their types.
LEMMA TypedParts ==
    ASSUME Typed
    PROVE  /\ boot \in Nat /\ last \in Nat /\ status \in Nat /\ opened \in Nat /\ opened <= boot
           /\ NoStatus \notin Nat
           /\ stream.up \in BOOLEAN /\ stream.due \in BOOLEAN
           /\ stream.sent \in Nat /\ stream.sent \in 0 .. MaxEvents
           /\ stream.said \in Status \cup {NoStatus}
           /\ stream.batch \in Seq(EventSet) /\ stream.wire \in Seq(Item)
           /\ \A i \in DOMAIN stream.batch : stream.batch[i] \in EventSet
           /\ \A i \in DOMAIN stream.wire : stream.wire[i].event \subseteq EventSet
           /\ backfill.events \in Seq(EventSet) /\ feed \in Seq(EventSet)
           /\ toasts \in Seq(EventSet) /\ backfill.answered \in BOOLEAN
           /\ \A e \in ToSet(backfill.events) : e \in EventSet
           /\ \A e \in ToSet(feed) : e \in EventSet
           /\ \A e \in ToSet(toasts) : e \in EventSet
           /\ badges.seen \in Nat /\ badges.asked.boot \in Nat /\ badges.asked.seq \in Nat
<1>1. /\ boot \in Nat /\ last \in Nat /\ status \in Nat /\ opened \in Nat /\ opened <= boot
      /\ NoStatus \notin Nat
  BY Constants, FeedAssumption DEF Typed, Status
<1>2. /\ stream.up \in BOOLEAN /\ stream.due \in BOOLEAN
      /\ stream.sent \in Nat /\ stream.sent \in 0 .. MaxEvents
      /\ stream.said \in Status \cup {NoStatus}
      /\ stream.batch \in Seq(EventSet) /\ stream.wire \in Seq(Item)
  BY Constants DEF Typed, Events
<1>3. \A i \in DOMAIN stream.batch : stream.batch[i] \in EventSet
  BY <1>2
<1>4. \A i \in DOMAIN stream.wire : stream.wire[i] \in Item
  BY <1>2
<1>5. \A i \in DOMAIN stream.wire : stream.wire[i].event \subseteq EventSet
  BY <1>4 DEF Item
<1>6. /\ backfill.events \in Seq(EventSet) /\ feed \in Seq(EventSet)
      /\ toasts \in Seq(EventSet) /\ backfill.answered \in BOOLEAN
  BY DEF Typed, Events
<1>7. badges.seen \in Nat /\ badges.asked.boot \in Nat /\ badges.asked.seq \in Nat
  BY Constants DEF Typed
<1>8. \A e \in ToSet(backfill.events) : e \in EventSet
  BY <1>6 DEF ToSet
<1>9. \A e \in ToSet(feed) : e \in EventSet
  BY <1>6 DEF ToSet
<1>10. \A e \in ToSet(toasts) : e \in EventSet
  BY <1>6 DEF ToSet
<1> QED
  BY <1>1, <1>2, <1>3, <1>5, <1>6, <1>7, <1>8, <1>9, <1>10

StreamType ==
    [up : BOOLEAN, sent : 0 .. MaxEvents, batch : Events, due : BOOLEAN,
     said : Status \cup {NoStatus}, wire : Seq(Item)]

LEMMA DownIs ==
    /\ Down \in StreamType /\ Down.up = FALSE /\ Down.sent = 0 /\ Down.batch = <<>>
    /\ Down.due = FALSE /\ Down.said = NoStatus /\ Down.wire = <<>>
    /\ NoRequest \in [answered : BOOLEAN, events : Events, status : Status \cup {NoStatus}]
    /\ NoRequest.answered = FALSE /\ NoRequest.events = <<>>
  BY Constants DEF Down, NoRequest, StreamType, Events

LEMMA ConnectIs ==
    ASSUME FeedInv, Connect
    PROVE  /\ ~stream.up /\ stream' \in StreamType
           /\ stream'.up = TRUE /\ stream'.sent = last /\ stream'.batch = <<>>
           /\ stream'.due = FALSE /\ stream'.said = NoStatus /\ stream'.wire = <<>>
  BY DownIs DEF Connect, StreamType, Down, FeedInv, Typed

LEMMA PollIs ==
    ASSUME FeedInv, Poll
    PROVE  /\ stream.up /\ stream.batch = <<>> /\ stream' \in StreamType
           /\ stream'.up = TRUE /\ stream'.due = TRUE
           /\ stream'.said = stream.said /\ stream'.wire = stream.wire
           /\ stream.sent <= stream'.sent /\ stream'.sent <= last
           /\ stream'.sent \in Nat /\ stream'.batch \in Seq(EventSet)
           /\ stream'.batch = <<>> => stream'.sent = stream.sent
           /\ \A i \in DOMAIN stream'.batch :
                 /\ stream'.batch[i].boot = boot
                 /\ stream.sent < stream'.batch[i].seq /\ stream'.batch[i].seq <= stream'.sent
                 /\ \A j \in DOMAIN stream'.batch : i < j => stream'.batch[i].seq < stream'.batch[j].seq
           /\ owed' = {e \in owed : e.seq <= stream.sent \/ e \in ToSet(stream'.batch)}
<1> DEFINE batch == EventsAfter(stream.sent)
<1>1. Typed /\ last \in Nat /\ stream.sent \in Nat /\ stream.sent <= last /\ stream.said \in Status \cup {NoStatus}
      /\ stream \in StreamType /\ last <= MaxEvents
  BY TypedParts, Constants DEF FeedInv, StreamOK, Typed, StreamType
<1>2. stream.sent \in 0 .. last
  BY <1>1
<1>3. /\ batch \in Seq(EventSet) /\ Len(batch) <= last - stream.sent
      /\ \A i \in 1 .. Len(batch) : batch[i] = Event(boot, last - Len(batch) + i)
  BY <1>1, <1>2, EventsAfterIs DEF Events
<1>4. /\ stream.up /\ ~stream.due
      /\ stream' = [stream EXCEPT !.batch = batch, !.due = TRUE,
                                  !.sent = IF batch = <<>> THEN @ ELSE Last(batch).seq]
      /\ owed' = {e \in owed : e.seq <= stream.sent \/ e \in ToSet(batch)}
  BY DEF Poll
<1> HIDE DEF batch
<1>5. stream.batch = <<>>
  BY <1>4 DEF FeedInv, StreamOK
<1>6. Len(batch) \in Nat /\ DOMAIN batch = 1 .. Len(batch) /\ (batch # <<>> => Len(batch) >= 1)
  BY <1>3, EmptySeq
<1>7. ASSUME NEW i \in DOMAIN batch
      PROVE  batch[i].boot = boot /\ batch[i].seq = last - Len(batch) + i
  BY <1>3, <1>6 DEF Event
<1>8. batch # <<>> => Last(batch).seq = last
  <2> SUFFICES ASSUME batch # <<>> PROVE Last(batch).seq = last
    OBVIOUS
  <2>1. Len(batch) \in DOMAIN batch
    BY <1>6
  <2>2. batch[Len(batch)].seq = last - Len(batch) + Len(batch)
    BY <1>7, <2>1
  <2> QED
    BY <1>1, <1>6, <2>2 DEF Last
<1>9. /\ stream'.up = stream.up /\ stream'.due = TRUE /\ stream'.said = stream.said
      /\ stream'.wire = stream.wire /\ stream'.batch = batch
      /\ stream'.sent = IF batch = <<>> THEN stream.sent ELSE last
  BY <1>1, <1>4, <1>8 DEF StreamType
<1>10. stream'.sent \in 0 .. MaxEvents
  BY <1>1, <1>9, Constants
<1>11. stream' \in StreamType
  <2>1. stream' = [stream EXCEPT !.batch = batch, !.due = TRUE, !.sent = stream'.sent]
    BY <1>1, <1>4, <1>8, <1>9 DEF StreamType
  <2> QED
    BY <1>1, <1>3, <1>10, <2>1 DEF StreamType, Events
<1>12. ASSUME NEW i \in DOMAIN batch
       PROVE  stream.sent < batch[i].seq /\ batch[i].seq <= stream'.sent
  <2>1. batch # <<>>
    BY <1>6
  <2>2. i \in Nat /\ 1 <= i /\ i <= Len(batch)
    BY <1>6
  <2>3. batch[i].seq = last - Len(batch) + i
    BY <1>7
  <2> QED
    BY <1>1, <1>3, <1>6, <1>9, <2>1, <2>2, <2>3
<1>13. ASSUME NEW i \in DOMAIN batch, NEW j \in DOMAIN batch, i < j
       PROVE  batch[i].seq < batch[j].seq
  <2>1. i \in Nat /\ j \in Nat
    BY <1>6
  <2>2. batch[i].seq = last - Len(batch) + i /\ batch[j].seq = last - Len(batch) + j
    BY <1>7
  <2> QED
    BY <1>1, <1>6, <1>13, <2>1, <2>2
<1>14. stream'.sent \in Nat /\ stream.sent <= stream'.sent /\ stream'.sent <= last
  BY <1>1, <1>9
<1>15. stream.up = TRUE
  BY <1>1, <1>4 DEF StreamType
<1> QED
  BY <1>3, <1>4, <1>5, <1>7, <1>9, <1>11, <1>12, <1>13, <1>14, <1>15

LEMMA ItemsTyped ==
    /\ \A e \in EventSet : EventItem(e) \in Item /\ EventItem(e).event = {e}
    /\ \A s \in Status : StatusItem(s) \in Item /\ StatusItem(s).event = {} /\ StatusItem(s).status = s
  BY DEF EventItem, StatusItem, Item

LEMMA YieldIs ==
    ASSUME FeedInv, Yield
    PROVE  /\ stream.batch # <<>> /\ stream.up /\ stream' \in StreamType
           /\ stream'.up = TRUE /\ stream'.due = stream.due /\ stream'.said = stream.said
           /\ stream'.sent = stream.sent
           /\ stream'.batch = Tail(stream.batch) /\ stream.batch[1] \in EventSet
           /\ stream'.wire = Append(stream.wire, EventItem(stream.batch[1]))
<1>1. stream.batch # <<>> /\ Typed /\ stream \in StreamType
  BY DEF Yield, FeedInv, Typed, StreamType
<1>2. stream.batch \in Seq(EventSet) /\ stream.wire \in Seq(Item) /\ stream.up \in BOOLEAN
  BY <1>1, TypedParts
<1>3. stream.up
  BY <1>1, DownIs DEF FeedInv, StreamOK
<1>4. Head(stream.batch) = stream.batch[1] /\ stream.batch[1] \in EventSet
      /\ Tail(stream.batch) \in Seq(EventSet)
  BY <1>1, <1>2, TailIs
<1>5. Append(stream.wire, EventItem(stream.batch[1])) \in Seq(Item)
  BY <1>2, <1>4, ItemsTyped, AppendIs
<1>6. stream' = [stream EXCEPT !.batch = Tail(stream.batch),
                               !.wire = Append(stream.wire, EventItem(stream.batch[1]))]
  BY <1>1, <1>4 DEF Yield, StreamType
<1> QED
  BY <1>1, <1>2, <1>3, <1>4, <1>5, <1>6 DEF StreamType, Events

LEMMA YieldStatusIs ==
    ASSUME FeedInv, YieldStatus
    PROVE  /\ stream.batch = <<>> /\ stream.up /\ stream' \in StreamType /\ status \in Status
           /\ stream'.up = TRUE /\ stream'.due = FALSE /\ stream'.said = status
           /\ stream'.sent = stream.sent /\ stream'.batch = <<>>
           /\ \/ status = stream.said /\ stream'.wire = stream.wire
              \/ stream'.wire = Append(stream.wire, StatusItem(status))
<1>1. stream.batch = <<>> /\ stream.due /\ Typed /\ stream \in StreamType /\ status \in Status
  BY DEF YieldStatus, FeedInv, Typed, StreamType
<1>2. stream.wire \in Seq(Item) /\ stream.up \in BOOLEAN
  BY <1>1, TypedParts
<1>3. stream.up
  BY <1>1, DownIs DEF FeedInv, StreamOK
<1>4. Append(stream.wire, StatusItem(status)) \in Seq(Item)
  BY <1>1, <1>2, ItemsTyped, AppendIs
<1> DEFINE wire == IF status = stream.said THEN stream.wire ELSE Append(stream.wire, StatusItem(status))
<1>5. stream' = [stream EXCEPT !.due = FALSE, !.said = status, !.wire = wire]
  BY <1>1 DEF YieldStatus, StreamType
<1>6. wire \in Seq(Item)
  BY <1>2, <1>4
<1>7. \/ status = stream.said /\ wire = stream.wire
      \/ wire = Append(stream.wire, StatusItem(status))
  OBVIOUS
<1> HIDE DEF wire
<1> QED
  BY <1>1, <1>2, <1>3, <1>5, <1>6, <1>7 DEF StreamType, Events

LEMMA ReceiveIs ==
    ASSUME FeedInv, PageStep
    PROVE  /\ stream.wire # <<>> /\ stream.up /\ stream' \in StreamType
           /\ stream'.up = TRUE /\ stream'.due = stream.due /\ stream'.said = stream.said
           /\ stream'.sent = stream.sent /\ stream'.batch = stream.batch
           /\ stream'.wire = Tail(stream.wire)
           /\ UNCHANGED <<server, backfill, opened, faults>>
<1>1. /\ stream.wire # <<>> /\ Typed /\ stream \in StreamType
      /\ stream' = [stream EXCEPT !.wire = Tail(@)]
      /\ UNCHANGED <<server, backfill, opened, faults>>
  BY DEF PageStep, ReceiveEvent, ReceiveStatus, FeedInv, Typed, StreamType
<1>2. stream.wire \in Seq(Item) /\ stream.up \in BOOLEAN
  BY <1>1, TypedParts
<1>3. stream.up
  BY <1>1, DownIs DEF FeedInv, StreamOK
<1>4. Tail(stream.wire) \in Seq(Item)
  BY <1>1, <1>2, TailIs
<1> QED
  BY <1>1, <1>2, <1>3, <1>4 DEF StreamType, Events

\* The event that is received, of the present run and the next to come.
LEMMA ReceiveEventIs ==
    ASSUME FeedInv, ReceiveEvent
    PROVE  \E e \in EventSet :
              /\ e \in stream.wire[1].event /\ stream.wire[1] = EventItem(e)
              /\ Head(stream.wire) = EventItem(e)
              /\ Coming(e) /\ e.boot = boot /\ e.seq <= stream.sent
              /\ toasts' = IF IsNew(e) THEN Append(toasts, e) ELSE toasts
              /\ Show(<<e>>)
<1>1. PICK e \in Head(stream.wire).event :
            /\ toasts' = IF IsNew(e) THEN Append(toasts, e) ELSE toasts
            /\ Show(<<e>>)
  BY DEF ReceiveEvent
<1>2. stream.wire # <<>> /\ stream.up /\ stream.wire \in Seq(Item)
  BY ReceiveIs, TypedParts DEF PageStep, FeedInv
<1>3. Head(stream.wire) = stream.wire[1] /\ 1 \in DOMAIN stream.wire
  BY <1>2, TailIs
<1>4. PICK f \in EventSet : stream.wire[1] = EventItem(f)
  BY <1>1, <1>3 DEF FeedInv, StreamOK
<1>5. e = f
  BY <1>1, <1>3, <1>4, ItemsTyped
<1>6. e.boot = boot /\ e.seq <= stream.sent
  BY <1>1, <1>3 DEF FeedInv, StreamOK
<1>7. Coming(e)
  BY <1>1, <1>2, <1>3, <1>6 DEF Coming
<1> QED
  BY <1>1, <1>3, <1>4, <1>5, <1>6, <1>7

\* What the page does with events of different numbers.
LEMMA ShowIs ==
    ASSUME FeedInv, NEW events \in Events, Show(events),
           \A i, j \in DOMAIN events : events[i].seq = events[j].seq => i = j
    PROVE  /\ feed' = Appended(events) /\ feed' \in Events /\ Len(feed') <= FeedCap
           /\ Len(feed) = FeedCap => Len(feed') = FeedCap
           /\ FeedKeysUnique'
           /\ \A e \in ToSet(feed') : e \in EventSet /\ (e \in ToSet(feed) \/ e \in ToSet(events))
           /\ \A e \in ToSet(feed) : e \in ToSet(feed') \/ Len(feed') = FeedCap
           /\ \A e \in ToSet(events) :
                 \/ e \in ToSet(feed') \/ Len(feed') = FeedCap
                 \/ \E f \in ToSet(feed) : f.seq = e.seq
           /\ \/ badges' = badges /\ \A e \in ToSet(feed') : e.seq <= badges.seen
              \/ \E e \in ToSet(feed') : badges' = [seen |-> e.seq, asked |-> Event(boot, last)]
           /\ owed' = owed \ ToSet(feed')
<1>1. feed' = Appended(events) /\ badges' = Refreshed(feed') /\ owed' = owed \ ToSet(feed')
  BY DEF Show
<1>2. Typed /\ FeedKeysUnique
  BY DEF FeedInv, FeedOK
<1>3. /\ feed' \in Events /\ Len(feed') <= FeedCap
      /\ Len(feed) = FeedCap => Len(feed') = FeedCap
      /\ \A i, j \in DOMAIN feed' : feed'[i].seq = feed'[j].seq => i = j
      /\ \A e \in ToSet(feed') : e \in ToSet(feed) \/ e \in ToSet(events)
      /\ \A e \in ToSet(feed) : e \in ToSet(feed') \/ Len(feed') = FeedCap
      /\ \A e \in ToSet(events) :
            \/ e \in ToSet(feed') \/ Len(feed') = FeedCap
            \/ \E f \in ToSet(feed) : f.seq = e.seq
  BY <1>1, <1>2, AppendedIs
<1>4. FeedKeysUnique'
  BY <1>3 DEF FeedKeysUnique
<1>5. \A e \in ToSet(feed') : e \in EventSet
  BY <1>3 DEF ToSet, Events
<1>6. \/ badges' = badges /\ \A e \in ToSet(feed') : e.seq <= badges.seen
      \/ \E e \in ToSet(feed') : badges' = [seen |-> e.seq, asked |-> Event(boot, last)]
  BY <1>1, <1>2, <1>3, RefreshedIs
<1> QED
  BY <1>1, <1>3, <1>4, <1>5, <1>6

-----------------------------------------------------------------------------
(* The invariant holds at first *)

LEMMA FeedInvInit == ASSUME Init PROVE FeedInv
<1>1. /\ boot = 0 /\ last = 0 /\ status = 0 /\ stream = Down /\ backfill = NoRequest
      /\ feed = <<>> /\ told = NoStatus /\ toasts = <<>> /\ badges = [seen |-> 0, asked |-> Event(0, 0)]
      /\ opened = 0 /\ owed = {} /\ stale = FALSE /\ faults = 0
  BY DEF Init, Loaded
<1>2. MaxEvents \in Nat /\ MaxChanges \in Nat /\ MaxFaults \in Nat /\ FeedCap \in Nat
      /\ 0 \in 0 .. MaxEvents /\ 0 \in 0 .. MaxChanges /\ 0 \in 0 .. MaxFaults
      /\ NoStatus \notin Nat
  BY Constants, FeedAssumption
<1>3. <<>> \in Events /\ Len(<<>>) = 0 /\ ToSet(<<>>) = {}
  BY DEF Events, ToSet
<1>4. Typed
  <2>1. stream \in StreamType
        /\ backfill \in [answered : BOOLEAN, events : Events, status : Status \cup {NoStatus}]
    BY <1>1, DownIs
  <2>2. Event(0, 0) \in [boot : 0 .. MaxFaults, seq : 0 .. MaxEvents]
    BY <1>2 DEF Event
  <2>3. badges \in [seen : 0 .. MaxEvents, asked : [boot : 0 .. MaxFaults, seq : 0 .. MaxEvents]]
    BY <1>1, <1>2, <2>2
  <2>4. boot \in 0 .. MaxFaults /\ last \in 0 .. MaxEvents /\ status \in Status /\ opened \in 0 .. boot
        /\ faults \in 0 .. MaxFaults /\ boot <= faults
    BY <1>1, <1>2 DEF Status
  <2>5. feed \in Events /\ Len(feed) <= FeedCap /\ toasts \in Events
    BY <1>1, <1>2, <1>3
  <2>6. told \in Status \cup {NoStatus} /\ owed \subseteq EventSet /\ stale \in BOOLEAN
    BY <1>1
  <2> QED
    BY <2>1, <2>3, <2>4, <2>5, <2>6 DEF Typed, StreamType
<1>5. StreamOK
  BY <1>1, DownIs DEF StreamOK
<1>6. BackfillOK
  BY <1>1, DownIs DEF BackfillOK
<1>7. FeedOK
  BY <1>1, <1>3 DEF FeedOK, FeedKeysUnique
<1>8. ToastsOK
  BY <1>1, <1>3 DEF ToastsOK, ToastedOnce
<1>9. OwedOK
  BY <1>1 DEF OwedOK
<1>10. BadgesOK
  BY <1>1, <1>3 DEF BadgesOK, BadgesFollowFeed, Event
<1>11. StatusOK
  BY <1>1, DownIs DEF StatusOK
<1>12. OvertakenOK
  BY <1>1, <1>3 DEF OvertakenOK
<1> QED
  BY <1>4, <1>5, <1>6, <1>7, <1>8, <1>9, <1>10, <1>11, <1>12 DEF FeedInv

-----------------------------------------------------------------------------
(* Every step keeps it *)

LEMMA StepCases ==
    ASSUME [Next]_vars
    PROVE  \/ Emit \/ ChangeStatus \/ Connect \/ Poll \/ Yield \/ YieldStatus
           \/ ReceiveEvent \/ ReceiveStatus \/ AnswerBackfill \/ TakeBackfill
           \/ Break \/ Restart \/ Reload \/ UNCHANGED vars
  BY DEF Next, StreamStep, PageStep

\* A step that breaks the connection.
LEMMA FaultIs ==
    ASSUME FeedInv, Break \/ Restart \/ Reload
    PROVE  /\ stream' = Down /\ owed' = {} /\ faults' = faults + 1 /\ faults' \in 0 .. MaxFaults
           /\ backfill' = backfill \/ backfill' = NoRequest
  BY Constants DEF Break, Restart, Reload, FeedInv, Typed

\* The events of the answer have different numbers.
LEMMA BackfillDistinct ==
    ASSUME FeedInv
    PROVE  /\ backfill.events \in Events
           /\ \A i, j \in DOMAIN backfill.events :
                 backfill.events[i].seq = backfill.events[j].seq => i = j
<1>1. \A i, j \in DOMAIN backfill.events :
         backfill.events[i].seq = backfill.events[j].seq => i = j
  BY DEF FeedInv, BackfillOK
<1> QED
  BY <1>1 DEF FeedInv, Typed

LEMMA OneDistinct ==
    ASSUME NEW e \in EventSet
    PROVE  /\ <<e>> \in Events /\ ToSet(<<e>>) = {e}
           /\ \A i, j \in DOMAIN <<e>> : <<e>>[i].seq = <<e>>[j].seq => i = j
  BY DEF Events, ToSet

LEMMA BadgesTyped ==
    ASSUME FeedInv, NEW events \in Events, Show(events),
           \A i, j \in DOMAIN events : events[i].seq = events[j].seq => i = j
    PROVE  badges' \in [seen : 0 .. MaxEvents, asked : [boot : 0 .. MaxFaults, seq : 0 .. MaxEvents]]
<1>1. CASE badges' = badges
  BY <1>1 DEF FeedInv, Typed
<1>2. ASSUME NEW e \in ToSet(feed'), badges' = [seen |-> e.seq, asked |-> Event(boot, last)]
      PROVE  badges' \in [seen : 0 .. MaxEvents, asked : [boot : 0 .. MaxFaults, seq : 0 .. MaxEvents]]
  <2>1. e \in EventSet
    BY ShowIs
  <2>2. e.seq \in 0 .. MaxEvents
    BY <2>1, Constants DEF EventSet
  <2>3. boot \in 0 .. MaxFaults /\ last \in 0 .. MaxEvents
    BY DEF FeedInv, Typed
  <2> QED
    BY <1>2, <2>2, <2>3 DEF Event
<1> QED
  BY <1>1, <1>2, ShowIs

LEMMA TypedStep == ASSUME FeedInv, [Next]_vars PROVE Typed'
<1>1. /\ Typed /\ last \in Nat /\ status \in Nat /\ boot \in Nat /\ opened \in Nat /\ faults \in Nat
      /\ last <= MaxEvents /\ MaxEvents \in Nat /\ MaxChanges \in Nat /\ MaxFaults \in Nat
      /\ stream \in StreamType /\ boot <= faults /\ status <= MaxChanges /\ opened <= boot
  BY Constants, TypedParts DEF FeedInv, Typed, StreamType, Status
<1>2. CASE Emit
  <2>1. last' = last + 1 /\ last' \in 0 .. MaxEvents /\ last' \in 1 .. MaxEvents
    BY <1>1, <1>2 DEF Emit
  <2>2. Event(boot, last') \in EventSet
    BY <1>1, <2>1 DEF Event, EventSet, Typed
  <2>3. owed' \subseteq EventSet
    BY <1>1, <1>2, <2>2 DEF Emit, Typed
  <2> QED
    BY <1>1, <1>2, <2>1, <2>3 DEF Emit, Typed, page
<1>3. CASE ChangeStatus
  <2>1. status' \in Status
    BY <1>1, <1>3 DEF ChangeStatus, Status
  <2> QED
    BY <1>1, <1>3, <2>1 DEF ChangeStatus, Typed, page
<1>4. CASE Connect
  BY <1>1, <1>4, ConnectIs DEF Connect, Typed, StreamType, server, page
<1>5. CASE Poll
  <2>1. owed' \subseteq EventSet
    BY <1>1, <1>5, PollIs DEF Typed
  <2>2. stream' \in StreamType
    BY <1>5, PollIs
  <2>3. UNCHANGED <<server, backfill, page, opened, faults>>
    BY <1>5 DEF Poll
  <2> QED
    BY <1>1, <2>1, <2>2, <2>3 DEF Typed, StreamType, server, page
<1>6. CASE Yield
  <2>1. stream' \in StreamType /\ UNCHANGED <<server, backfill, page, opened, owed, faults>>
    BY <1>6, YieldIs DEF Yield
  <2> QED
    BY <1>1, <2>1 DEF Typed, StreamType, server, page
<1>7. CASE YieldStatus
  <2>1. stream' \in StreamType /\ UNCHANGED <<server, backfill, page, opened, owed, faults>>
    BY <1>7, YieldStatusIs DEF YieldStatus
  <2> QED
    BY <1>1, <2>1 DEF Typed, StreamType, server, page
<1>8. CASE ReceiveEvent
  <2>1. stream' \in StreamType /\ UNCHANGED <<server, backfill, told, stale, opened, faults>>
    BY <1>8, ReceiveIs DEF ReceiveEvent, PageStep
  <2>2. PICK e \in EventSet : /\ toasts' = IF IsNew(e) THEN Append(toasts, e) ELSE toasts
                              /\ Show(<<e>>)
    BY <1>8, ReceiveEventIs
  <2>3. toasts' \in Events
    BY <1>1, <2>2, AppendIs DEF Typed, Events
  <2>4. /\ feed' \in Events /\ Len(feed') <= FeedCap /\ owed' \subseteq EventSet
    BY <1>1, <2>2, OneDistinct, ShowIs DEF Typed
  <2>5. badges' \in [seen : 0 .. MaxEvents, asked : [boot : 0 .. MaxFaults, seq : 0 .. MaxEvents]]
    BY <2>2, OneDistinct, BadgesTyped
  <2> QED
    BY <1>1, <2>1, <2>3, <2>4, <2>5 DEF Typed, StreamType, server
<1>9. CASE ReceiveStatus
  <2>1. stream' \in StreamType /\ UNCHANGED <<server, backfill, feed, toasts, badges, opened, owed, faults>>
        /\ stale' = FALSE
    BY <1>9, ReceiveIs DEF ReceiveStatus, PageStep
  <2>2. stream.wire \in Seq(Item) /\ stream.wire # <<>>
    BY <1>1, <1>9, TypedParts DEF ReceiveStatus
  <2>3. Head(stream.wire) \in Item
    BY <2>2, TailIs
  <2>4. told' \in Status \cup {NoStatus}
    BY <1>9, <2>3 DEF ReceiveStatus, Item
  <2> QED
    BY <1>1, <2>1, <2>4 DEF Typed, StreamType, server
<1>10. CASE AnswerBackfill
  <2>1. 0 \in 0 .. last
    BY <1>1
  <2>2. EventsAfter(0) \in Events
    BY <1>1, <2>1, EventsAfterIs
  <2>3. backfill' \in [answered : BOOLEAN, events : Events, status : Status \cup {NoStatus}]
    BY <1>1, <1>10, <2>2 DEF AnswerBackfill, Typed
  <2>4. UNCHANGED <<server, stream, page, opened, owed, faults>>
    BY <1>10 DEF AnswerBackfill
  <2> QED
    BY <1>1, <2>3, <2>4 DEF Typed, server, page
<1>11. CASE TakeBackfill
  <2>1. /\ UNCHANGED <<server, stream, toasts, opened, faults>> /\ backfill' = NoRequest
        /\ told' = backfill.status /\ stale' \in BOOLEAN
        /\ UNCHANGED <<feed, badges, owed>> \/ Show(backfill.events)
    BY <1>11 DEF TakeBackfill
  <2>2. feed' \in Events /\ Len(feed') <= FeedCap /\ owed' \subseteq EventSet
        /\ badges' \in [seen : 0 .. MaxEvents, asked : [boot : 0 .. MaxFaults, seq : 0 .. MaxEvents]]
    <3>1. CASE UNCHANGED <<feed, badges, owed>>
      BY <1>1, <3>1 DEF Typed
    <3>2. CASE Show(backfill.events)
      <4>1. feed' \in Events /\ Len(feed') <= FeedCap /\ owed' \subseteq EventSet
        BY <1>1, <3>2, BackfillDistinct, ShowIs DEF Typed
      <4> QED
        BY <3>2, <4>1, BackfillDistinct, BadgesTyped
    <3> QED
      BY <2>1, <3>1, <3>2
  <2>3. told' \in Status \cup {NoStatus}
    BY <1>1, <2>1 DEF Typed
  <2> QED
    BY <1>1, <2>1, <2>2, <2>3, DownIs DEF Typed, server
<1>12. CASE Break
  <2>1. UNCHANGED <<server, page, opened>>
    BY <1>12 DEF Break
  <2>2. stream' \in StreamType /\ owed' = {} /\ faults' = faults + 1 /\ faults' \in 0 .. MaxFaults
        /\ (backfill' = backfill \/ backfill' = NoRequest)
    BY <1>12, FaultIs, DownIs
  <2>3. boot <= faults'
    BY <1>1, <2>2
  <2> QED
    BY <1>1, <2>1, <2>2, <2>3, DownIs DEF Typed, StreamType, server, page
<1>13. CASE Restart
  <2>1. /\ boot' = boot + 1 /\ last' = 0 /\ backfill' = NoRequest /\ UNCHANGED <<page, opened>>
        /\ status' \in Nat /\ status' <= MaxChanges
    BY <1>1, <1>13 DEF Restart
  <2>2. stream' \in StreamType /\ owed' = {} /\ faults' = faults + 1 /\ faults' \in 0 .. MaxFaults
    BY <1>13, FaultIs, DownIs
  <2>3. boot' <= faults' /\ boot' \in 0 .. MaxFaults /\ opened' \in 0 .. boot' /\ last' \in 0 .. MaxEvents
        /\ status' \in Status
    BY <1>1, <2>1, <2>2 DEF Typed, Status
  <2> QED
    BY <1>1, <2>1, <2>2, <2>3, DownIs DEF Typed, StreamType, page
<1>14. CASE Reload
  <2>1. /\ feed' = <<>> /\ told' = NoStatus /\ toasts' = <<>> /\ badges' = [seen |-> 0, asked |-> Event(boot, last)]
        /\ stale' = FALSE /\ opened' = boot /\ backfill' = NoRequest /\ UNCHANGED server
    BY <1>14 DEF Reload, Loaded
  <2>2. stream' \in StreamType /\ owed' = {} /\ faults' = faults + 1 /\ faults' \in 0 .. MaxFaults
    BY <1>14, FaultIs, DownIs
  <2>3. boot <= faults' /\ opened' \in 0 .. boot /\ feed' \in Events /\ toasts' \in Events /\ Len(feed') <= FeedCap
    BY <1>1, <2>1, <2>2, Constants DEF Events
  <2>4. badges' \in [seen : 0 .. MaxEvents, asked : [boot : 0 .. MaxFaults, seq : 0 .. MaxEvents]]
    BY <1>1, <2>1 DEF Event, Typed
  <2> QED
    BY <1>1, <2>1, <2>2, <2>3, <2>4, DownIs DEF Typed, StreamType, server
<1>15. CASE UNCHANGED vars
  BY <1>1, <1>15 DEF Typed, vars, server, page
<1> QED
  BY StepCases, <1>2, <1>3, <1>4, <1>5, <1>6, <1>7, <1>8, <1>9, <1>10, <1>11, <1>12, <1>13,
     <1>14, <1>15

LEMMA StreamParts ==
    ASSUME FeedInv
    PROVE  /\ stream.batch \in Seq(EventSet) /\ stream.wire \in Seq(Item)
           /\ stream.sent \in Nat /\ last \in Nat /\ boot \in Nat /\ status \in Nat
           /\ \A i \in DOMAIN stream.batch : i \in Nat /\ stream.batch[i].seq \in Nat
           /\ \A i \in DOMAIN stream.wire : i \in Nat
           /\ \A i \in DOMAIN stream.wire : \A e \in stream.wire[i].event : e.seq \in Nat
<1>1. /\ stream.batch \in Seq(EventSet) /\ stream.wire \in Seq(Item)
      /\ stream.sent \in Nat /\ last \in Nat /\ boot \in Nat /\ status \in Nat
      /\ \A i \in DOMAIN stream.batch : stream.batch[i] \in EventSet
      /\ \A i \in DOMAIN stream.wire : stream.wire[i].event \subseteq EventSet
  BY TypedParts DEF FeedInv
<1>2. \A i \in DOMAIN stream.batch : i \in Nat
  BY <1>1
<1>3. \A i \in DOMAIN stream.wire : i \in Nat
  BY <1>1
<1>4. \A e \in EventSet : e.seq \in Nat
  BY EventIs
<1> QED
  BY <1>1, <1>2, <1>3, <1>4

\* What is coming after a step was coming before it, unless the connection is new.
LEMMA ComingStep ==
    ASSUME FeedInv, [Next]_vars, NEW e \in EventSet, Coming(e)'
    PROVE  Coming(e) \/ (Connect /\ e.boot = boot /\ e.seq > last)
<1>1. /\ stream'.up /\ e.boot = boot'
      /\ \/ e.seq > stream'.sent
         \/ \E i \in DOMAIN stream'.batch : stream'.batch[i] = e
         \/ \E i \in DOMAIN stream'.wire : e \in stream'.wire[i].event
  BY DEF Coming
<1>2. e.seq \in Nat
  BY EventIs
<1>3. CASE stream' = stream /\ boot' = boot
  BY <1>1, <1>3 DEF Coming
<1>4. CASE Connect
  <2>1. e.boot = boot
    BY <1>1, <1>4 DEF Connect, server
  <2>2. DOMAIN stream'.batch = {} /\ DOMAIN stream'.wire = {} /\ stream'.sent = last
    BY <1>4, ConnectIs
  <2> QED
    BY <1>1, <1>4, <2>1, <2>2
<1>5. CASE Poll
  <2>1. e.boot = boot
    BY <1>1, <1>5 DEF Poll, server
  <2>2. stream.sent \in Nat /\ stream'.sent \in Nat /\ stream.sent <= stream'.sent
    BY <1>5, PollIs, StreamParts
  <2>3. \A i \in DOMAIN stream'.batch : stream'.batch[i] = e => e.seq > stream.sent
    BY <1>2, <1>5, <2>2, PollIs
  <2>4. e.seq > stream'.sent => e.seq > stream.sent
    BY <1>2, <2>2
  <2>5. stream'.wire = stream.wire /\ stream.up
    BY <1>5, PollIs
  <2> QED
    BY <1>1, <2>1, <2>3, <2>4, <2>5 DEF Coming
<1>6. CASE Yield
  <2>1. e.boot = boot
    BY <1>1, <1>6 DEF Yield, server
  <2>2. stream.batch \in Seq(EventSet) /\ stream.batch # <<>> /\ stream.wire \in Seq(Item)
        /\ stream.up /\ stream'.sent = stream.sent /\ stream'.batch = Tail(stream.batch)
        /\ stream.batch[1] \in EventSet
        /\ stream'.wire = Append(stream.wire, EventItem(stream.batch[1]))
    BY <1>6, YieldIs, StreamParts
  <2>3. \A i \in DOMAIN stream'.batch : i + 1 \in DOMAIN stream.batch /\ stream'.batch[i] = stream.batch[i + 1]
    BY <2>2, TailIs
  <2>4. 1 \in DOMAIN stream.batch
    BY <2>2, TailIs
  <2>5. EventItem(stream.batch[1]) \in Item /\ EventItem(stream.batch[1]).event = {stream.batch[1]}
    BY <2>2, ItemsTyped
  <2>6. \A i \in DOMAIN stream'.wire :
           (i \in DOMAIN stream.wire /\ stream'.wire[i] = stream.wire[i])
           \/ stream'.wire[i].event = {stream.batch[1]}
    BY <2>2, <2>5, AppendIs
  <2> QED
    BY <1>1, <2>1, <2>2, <2>3, <2>4, <2>6 DEF Coming
<1>7. CASE YieldStatus
  <2>1. e.boot = boot
    BY <1>1, <1>7 DEF YieldStatus, server
  <2>2. stream.wire \in Seq(Item) /\ stream.up /\ stream'.sent = stream.sent
        /\ stream'.batch = stream.batch /\ status \in Status
        /\ (stream'.wire = stream.wire \/ stream'.wire = Append(stream.wire, StatusItem(status)))
    BY <1>7, YieldStatusIs, StreamParts
  <2>3. StatusItem(status) \in Item /\ StatusItem(status).event = {}
    BY <2>2, ItemsTyped
  <2>4. ASSUME stream'.wire = Append(stream.wire, StatusItem(status))
        PROVE  \A i \in DOMAIN stream'.wire :
                  (i \in DOMAIN stream.wire /\ stream'.wire[i] = stream.wire[i])
                  \/ stream'.wire[i].event = {}
    BY <2>2, <2>3, <2>4, AppendIs
  <2> QED
    BY <1>1, <2>1, <2>2, <2>4 DEF Coming
<1>8. CASE ReceiveEvent \/ ReceiveStatus
  <2>1. /\ stream.wire # <<>> /\ stream.up /\ stream'.sent = stream.sent
        /\ stream'.batch = stream.batch /\ stream'.wire = Tail(stream.wire)
        /\ boot' = boot /\ stream.wire \in Seq(Item)
    BY <1>8, ReceiveIs, StreamParts DEF PageStep, server
  <2>2. \A i \in DOMAIN stream'.wire : i + 1 \in DOMAIN stream.wire /\ stream'.wire[i] = stream.wire[i + 1]
    BY <2>1, TailIs
  <2> QED
    BY <1>1, <2>1, <2>2 DEF Coming
<1>9. CASE Break \/ Restart \/ Reload
  BY <1>1, <1>9, FaultIs, DownIs
<1>10. CASE Emit \/ ChangeStatus \/ AnswerBackfill \/ TakeBackfill \/ UNCHANGED vars
  BY <1>3, <1>10 DEF Emit, ChangeStatus, AnswerBackfill, TakeBackfill, vars, server
<1> QED
  BY StepCases, <1>4, <1>5, <1>6, <1>7, <1>8, <1>9, <1>10

\* What is coming still is after a step, unless it is received or passed over.
LEMMA ComingKept ==
    ASSUME FeedInv, NEW e \in EventSet, Coming(e), stream'.up,
           \/ Poll /\ (e.seq <= stream.sent \/ e \in ToSet(stream'.batch))
           \/ PageStep /\ e \notin stream.wire[1].event
           \/ Yield \/ YieldStatus \/ UNCHANGED <<stream, boot>>
    PROVE  Coming(e)'
<1>1. /\ stream.up /\ e.boot = boot
      /\ \/ e.seq > stream.sent
         \/ \E i \in DOMAIN stream.batch : stream.batch[i] = e
         \/ \E i \in DOMAIN stream.wire : e \in stream.wire[i].event
  BY DEF Coming
<1>3. CASE stream' = stream /\ boot' = boot
  BY <1>1, <1>3 DEF Coming
<1>4. e.seq \in Nat /\ stream.sent \in Nat
  BY EventIs, StreamParts
<1>5. CASE Poll /\ (e.seq <= stream.sent \/ e \in ToSet(stream'.batch))
  <2>1. boot' = boot /\ stream'.wire = stream.wire /\ stream.batch = <<>>
    BY <1>5, PollIs DEF Poll, server
  <2>2. CASE \E i \in DOMAIN stream.wire : e \in stream.wire[i].event
    BY <1>1, <2>1, <2>2 DEF Coming
  <2>3. CASE e.seq > stream.sent
    <3>1. CASE e \in ToSet(stream'.batch)
      <4>1. \E i \in DOMAIN stream'.batch : stream'.batch[i] = e
        BY <3>1 DEF ToSet
      <4> QED
        BY <1>1, <2>1, <4>1 DEF Coming
    <3> QED
      BY <1>4, <1>5, <2>3, <3>1
  <2>4. DOMAIN stream.batch = {}
    BY <2>1
  <2> QED
    BY <1>1, <2>2, <2>3, <2>4
<1>6. CASE Yield
  <2>1. boot' = boot
    BY <1>6 DEF Yield, server
  <2>2. stream.batch \in Seq(EventSet) /\ stream.batch # <<>> /\ stream.wire \in Seq(Item)
        /\ stream'.sent = stream.sent /\ stream'.batch = Tail(stream.batch)
        /\ stream.batch[1] \in EventSet
        /\ stream'.wire = Append(stream.wire, EventItem(stream.batch[1]))
    BY <1>6, YieldIs, StreamParts
  <2>3. \A i \in DOMAIN stream.batch :
           i = 1 \/ (i - 1 \in DOMAIN stream'.batch /\ stream'.batch[i - 1] = stream.batch[i])
    BY <2>2, TailIs
  <2>4. EventItem(stream.batch[1]) \in Item /\ EventItem(stream.batch[1]).event = {stream.batch[1]}
    BY <2>2, ItemsTyped
  <2>5. \A i \in DOMAIN stream.wire : i \in DOMAIN stream'.wire /\ stream'.wire[i] = stream.wire[i]
    BY <2>2, <2>4, AppendIs
  <2>6. \E i \in DOMAIN stream'.wire : stream.batch[1] \in stream'.wire[i].event
    <3>1. Len(stream.wire) + 1 \in DOMAIN stream'.wire
          /\ stream'.wire[Len(stream.wire) + 1] = EventItem(stream.batch[1])
      BY <2>2, <2>4, AppendIs
    <3> QED
      BY <2>4, <3>1
  <2>7. CASE e.seq > stream.sent
    BY <1>1, <2>1, <2>2, <2>7 DEF Coming
  <2>8. ASSUME NEW i \in DOMAIN stream.batch, stream.batch[i] = e PROVE Coming(e)'
    <3>1. CASE i = 1
      BY <1>1, <2>1, <2>6, <2>8, <3>1 DEF Coming
    <3>2. CASE i # 1
      BY <1>1, <2>1, <2>3, <2>8, <3>2 DEF Coming
    <3> QED
      BY <3>1, <3>2
  <2>9. ASSUME NEW i \in DOMAIN stream.wire, e \in stream.wire[i].event PROVE Coming(e)'
    BY <1>1, <2>1, <2>5, <2>9 DEF Coming
  <2> QED
    BY <1>1, <2>7, <2>8, <2>9
<1>7. CASE YieldStatus
  <2>1. boot' = boot
    BY <1>7 DEF YieldStatus, server
  <2>2. stream.wire \in Seq(Item) /\ stream'.sent = stream.sent
        /\ stream'.batch = stream.batch /\ status \in Status
        /\ (stream'.wire = stream.wire \/ stream'.wire = Append(stream.wire, StatusItem(status)))
    BY <1>7, YieldStatusIs, StreamParts
  <2>3. StatusItem(status) \in Item
    BY <2>2, ItemsTyped
  <2>4. \A i \in DOMAIN stream.wire : i \in DOMAIN stream'.wire /\ stream'.wire[i] = stream.wire[i]
    BY <2>2, <2>3, AppendIs
  <2> QED
    BY <1>1, <2>1, <2>2, <2>4 DEF Coming
<1>8. CASE PageStep /\ e \notin stream.wire[1].event
  <2>1. /\ stream.wire # <<>> /\ stream'.sent = stream.sent
        /\ stream'.batch = stream.batch /\ stream'.wire = Tail(stream.wire)
        /\ boot' = boot /\ stream.wire \in Seq(Item)
    BY <1>8, ReceiveIs, StreamParts DEF server
  <2>2. \A i \in DOMAIN stream.wire :
           i = 1 \/ (i - 1 \in DOMAIN stream'.wire /\ stream'.wire[i - 1] = stream.wire[i])
    BY <2>1, TailIs
  <2> QED
    BY <1>1, <1>8, <2>1, <2>2 DEF Coming
<1> QED
  BY <1>3, <1>5, <1>6, <1>7, <1>8

\* What is coming after an event has been received has a later number.
LEMMA ReceivedFirst ==
    ASSUME FeedInv, ReceiveEvent, NEW e \in EventSet, e \in stream.wire[1].event,
           NEW g \in EventSet, Coming(g)'
    PROVE  g.seq > e.seq
<1>1. /\ stream.wire # <<>> /\ stream'.sent = stream.sent
      /\ stream'.batch = stream.batch /\ stream'.wire = Tail(stream.wire)
      /\ stream.wire \in Seq(Item) /\ stream.sent \in Nat
  BY ReceiveIs, StreamParts DEF PageStep
<1>2. /\ \A i \in DOMAIN stream'.wire : i \in Nat /\ i + 1 \in DOMAIN stream.wire /\ stream'.wire[i] = stream.wire[i + 1]
      /\ 1 \in DOMAIN stream.wire
  BY <1>1, TailIs
<1>3. /\ e.seq <= stream.sent
      /\ \A j \in DOMAIN stream.batch : e.seq < stream.batch[j].seq
      /\ \A j \in DOMAIN stream.wire : 1 < j => \A f \in stream.wire[j].event : e.seq < f.seq
  BY <1>2 DEF FeedInv, StreamOK
<1>4. \/ g.seq > stream.sent
      \/ \E i \in DOMAIN stream.batch : stream.batch[i] = g
      \/ \E i \in DOMAIN stream'.wire : g \in stream'.wire[i].event
  BY <1>1 DEF Coming
<1>5. e.seq \in Nat /\ g.seq \in Nat
  BY EventIs
<1>6. CASE g.seq > stream.sent
  BY <1>1, <1>3, <1>5, <1>6
<1>7. ASSUME NEW i \in DOMAIN stream.batch, stream.batch[i] = g PROVE e.seq < g.seq
  BY <1>3, <1>7
<1>8. ASSUME NEW i \in DOMAIN stream'.wire, g \in stream'.wire[i].event PROVE e.seq < g.seq
  <2>1. i # 0 => 1 < i + 1
    BY <1>2
  <2>2. i # 0
    <3>1. DOMAIN stream'.wire = 1 .. Len(stream'.wire) /\ Len(stream'.wire) \in Nat
      BY <1>1, TailIs
    <3> QED
      BY <3>1
  <2> QED
    BY <1>2, <1>3, <1>8, <2>1, <2>2
<1>9. CASE e.seq < g.seq
  BY <1>5, <1>9
<1> QED
  BY <1>4, <1>6, <1>7, <1>8, <1>9

LEMMA StreamOKStep == ASSUME FeedInv, [Next]_vars PROVE StreamOK'
<1>1. StreamOK /\ last \in Nat /\ stream.sent \in Nat
  BY StreamParts DEF FeedInv
<1>2. ASSUME stream' = stream, boot' = boot, last' \in Nat, last <= last' PROVE StreamOK'
  <2>1. stream.sent <= last'
    BY <1>1, <1>2 DEF StreamOK
  <2> QED
    BY <1>1, <1>2, <2>1 DEF StreamOK
<1>3. ASSUME stream'.up, stream'.batch = <<>>, stream'.wire = <<>>, stream'.sent <= last' PROVE StreamOK'
  <2>1. DOMAIN stream'.batch = {} /\ DOMAIN stream'.wire = {}
    BY <1>3
  <2> QED
    BY <1>3, <2>1 DEF StreamOK
<1>4. CASE Connect
  <2>1. last' = last
    BY <1>4 DEF Connect, server
  <2>2. stream'.up /\ stream'.batch = <<>> /\ stream'.wire = <<>> /\ stream'.sent = last
    BY <1>4, ConnectIs
  <2>3. stream'.sent <= last'
    BY <1>1, <2>1, <2>2
  <2> QED
    BY <1>3, <2>2, <2>3
<1>5. CASE Poll
  <2>1. last' = last /\ boot' = boot
    BY <1>5 DEF Poll, server
  <2>2. /\ stream'.up /\ stream'.due /\ stream'.wire = stream.wire
        /\ stream.sent <= stream'.sent /\ stream'.sent <= last /\ stream'.sent \in Nat
        /\ \A i \in DOMAIN stream'.batch :
              /\ stream'.batch[i].boot = boot
              /\ stream.sent < stream'.batch[i].seq /\ stream'.batch[i].seq <= stream'.sent
              /\ \A j \in DOMAIN stream'.batch : i < j => stream'.batch[i].seq < stream'.batch[j].seq
        /\ stream'.batch \in Seq(EventSet)
    BY <1>5, PollIs
  <2>3. \A j \in DOMAIN stream'.batch : stream'.batch[j].seq \in Nat
    BY <2>2, EventIs
  <2>4. ASSUME NEW i \in DOMAIN stream.wire, NEW e \in stream.wire[i].event
        PROVE  /\ e.boot = boot /\ e.seq <= stream'.sent
               /\ \A j \in DOMAIN stream'.batch : e.seq < stream'.batch[j].seq
               /\ \A j \in DOMAIN stream.wire : i < j =>
                     \A f \in stream.wire[j].event : e.seq < f.seq
    <3>1. e.boot = boot /\ e.seq <= stream.sent /\ e.seq \in Nat
          /\ \A j \in DOMAIN stream.wire : i < j =>
                \A f \in stream.wire[j].event : e.seq < f.seq
      BY <1>1, <2>4, StreamParts DEF StreamOK
    <3>2. e.seq <= stream'.sent
      BY <1>1, <2>2, <3>1
    <3>3. \A j \in DOMAIN stream'.batch : e.seq < stream'.batch[j].seq
      BY <1>1, <2>2, <2>3, <3>1
    <3> QED
      BY <3>1, <3>2, <3>3
  <2>5. \A i \in DOMAIN stream.wire :
           \/ stream.wire[i].event = {} /\ stream.wire[i].status \in Status
           \/ \E e \in EventSet : stream.wire[i] = EventItem(e)
    BY <1>1 DEF StreamOK
  <2> QED
    BY <2>1, <2>2, <2>4, <2>5 DEF StreamOK
<1>6. CASE Yield
  <2> DEFINE x == stream.batch[1]
             k == Len(stream.wire) + 1
  <2>1. last' = last /\ boot' = boot
    BY <1>6 DEF Yield, server
  <2>2. /\ stream.batch # <<>> /\ stream'.up /\ stream'.due = stream.due
        /\ stream'.sent = stream.sent /\ stream'.batch = Tail(stream.batch)
        /\ x \in EventSet /\ stream'.wire = Append(stream.wire, EventItem(x))
        /\ stream.batch \in Seq(EventSet) /\ stream.wire \in Seq(Item)
    BY <1>6, YieldIs, StreamParts
  <2>3. /\ 1 \in DOMAIN stream.batch
        /\ \A i \in DOMAIN stream'.batch :
              i \in Nat /\ i + 1 \in DOMAIN stream.batch /\ stream'.batch[i] = stream.batch[i + 1]
    BY <2>2, TailIs
  <2>4. DOMAIN stream'.batch = 1 .. Len(stream'.batch) /\ Len(stream'.batch) \in Nat
    BY <2>2, TailIs
  <2>5. \A i \in DOMAIN stream'.batch : 1 < i + 1
    BY <2>4
  <2>6. EventItem(x) \in Item /\ EventItem(x).event = {x}
    BY <2>2, ItemsTyped
  <2> HIDE DEF x
  <2>7. /\ \A i \in DOMAIN stream'.wire : i = k \/ i \in DOMAIN stream.wire
        /\ k \in DOMAIN stream'.wire /\ stream'.wire[k] = EventItem(x)
        /\ \A i \in DOMAIN stream.wire : i \in DOMAIN stream'.wire /\ stream'.wire[i] = stream.wire[i] /\ i < k
        /\ k \in Nat
    BY <2>2, <2>6, AppendIs
  <2>8. \A i \in DOMAIN stream.wire : i \in Nat
    BY StreamParts
  <2> HIDE DEF k
  <2>9. x.boot = boot /\ x.seq <= stream.sent /\ \A j \in DOMAIN stream.batch : 1 < j => x.seq < stream.batch[j].seq
    BY <1>1, <2>3 DEF StreamOK, x
  <2>10. \A i \in DOMAIN stream'.batch : x.seq < stream'.batch[i].seq
    BY <2>3, <2>5, <2>9
  <2>11. ASSUME NEW i \in DOMAIN stream'.batch
         PROVE  /\ stream'.batch[i].boot = boot /\ stream'.batch[i].seq <= stream.sent
                /\ \A j \in DOMAIN stream'.batch : i < j => stream'.batch[i].seq < stream'.batch[j].seq
    <3>1. i + 1 \in DOMAIN stream.batch /\ stream'.batch[i] = stream.batch[i + 1] /\ i \in Nat
      BY <2>3
    <3>2. ASSUME NEW j \in DOMAIN stream'.batch, i < j PROVE stream'.batch[i].seq < stream'.batch[j].seq
      <4>1. j + 1 \in DOMAIN stream.batch /\ stream'.batch[j] = stream.batch[j + 1] /\ j \in Nat
        BY <2>3
      <4>2. i + 1 < j + 1
        BY <3>1, <3>2, <4>1
      <4> QED
        BY <1>1, <3>1, <4>1, <4>2 DEF StreamOK
    <3> QED
      BY <1>1, <3>1, <3>2 DEF StreamOK
  <2>12. ASSUME NEW i \in DOMAIN stream'.wire, NEW e \in stream'.wire[i].event
         PROVE  /\ e.boot = boot /\ e.seq <= stream.sent
                /\ \A j \in DOMAIN stream'.batch : e.seq < stream'.batch[j].seq
                /\ \A j \in DOMAIN stream'.wire : i < j =>
                      \A f \in stream'.wire[j].event : e.seq < f.seq
    <3>1. CASE i = k
      <4>1. e = x
        BY <2>6, <2>7, <2>12, <3>1
      <4>2. ASSUME NEW j \in DOMAIN stream'.wire, i < j PROVE FALSE
        <5>1. j = k \/ (j \in Nat /\ j < k)
          BY <2>7, <2>8
        <5> QED
          BY <2>7, <3>1, <4>2, <5>1
      <4> QED
        BY <2>9, <2>10, <4>1, <4>2
    <3>2. CASE i \in DOMAIN stream.wire
      <4>1. e \in stream.wire[i].event
        BY <2>7, <2>12, <3>2
      <4>2. /\ e.boot = boot /\ e.seq <= stream.sent
            /\ \A j \in DOMAIN stream.batch : e.seq < stream.batch[j].seq
            /\ \A j \in DOMAIN stream.wire : i < j =>
                  \A f \in stream.wire[j].event : e.seq < f.seq
        BY <1>1, <3>2, <4>1 DEF StreamOK
      <4>3. e.seq < x.seq
        BY <2>3, <4>2 DEF x
      <4>4. \A j \in DOMAIN stream'.batch : e.seq < stream'.batch[j].seq
        BY <2>3, <4>2
      <4>5. ASSUME NEW j \in DOMAIN stream'.wire, i < j, NEW f \in stream'.wire[j].event
            PROVE  e.seq < f.seq
        <5>1. CASE j = k
          BY <2>6, <2>7, <4>3, <4>5, <5>1
        <5>2. CASE j \in DOMAIN stream.wire
          BY <2>7, <4>2, <4>5, <5>2
        <5> QED
          BY <2>7, <5>1, <5>2
      <4> QED
        BY <4>2, <4>4, <4>5
    <3> QED
      BY <2>7, <3>1, <3>2
  <2>13. \A i \in DOMAIN stream'.wire :
            \/ stream'.wire[i].event = {} /\ stream'.wire[i].status \in Status
            \/ \E e \in EventSet : stream'.wire[i] = EventItem(e)
    BY <1>1, <2>2, <2>7 DEF StreamOK
  <2>14. stream'.due /\ stream'.sent <= last'
    BY <1>1, <2>1, <2>2 DEF StreamOK
  <2> QED
    BY <2>1, <2>2, <2>11, <2>12, <2>13, <2>14 DEF StreamOK
<1>7. CASE YieldStatus
  <2> DEFINE k == Len(stream.wire) + 1
  <2>1. last' = last /\ boot' = boot
    BY <1>7 DEF YieldStatus, server
  <2>2. /\ stream.wire \in Seq(Item) /\ stream'.sent = stream.sent /\ stream'.up
        /\ stream'.batch = <<>> /\ status \in Status
        /\ (stream'.wire = stream.wire \/ stream'.wire = Append(stream.wire, StatusItem(status)))
    BY <1>7, YieldStatusIs, StreamParts
  <2>3. StatusItem(status) \in Item /\ StatusItem(status).event = {} /\ StatusItem(status).status = status
    BY <2>2, ItemsTyped
  <2>4. ASSUME NEW i \in DOMAIN stream'.wire
        PROVE  \/ i \in DOMAIN stream.wire /\ stream'.wire[i] = stream.wire[i]
               \/ stream'.wire[i].event = {} /\ stream'.wire[i].status = status
    <3>1. CASE stream'.wire = stream.wire
      BY <3>1
    <3>2. CASE stream'.wire = Append(stream.wire, StatusItem(status))
      BY <2>2, <2>3, <3>2, AppendIs
    <3> QED
      BY <2>2, <3>1, <3>2
  <2>5. ASSUME NEW i \in DOMAIN stream'.wire, NEW e \in stream'.wire[i].event
        PROVE  /\ e.boot = boot /\ e.seq <= stream.sent
               /\ \A j \in DOMAIN stream'.wire : i < j =>
                     \A f \in stream'.wire[j].event : e.seq < f.seq
    <3>1. i \in DOMAIN stream.wire /\ e \in stream.wire[i].event
      BY <2>4, <2>5
    <3>2. \A j \in DOMAIN stream'.wire : \A f \in stream'.wire[j].event :
             j \in DOMAIN stream.wire /\ f \in stream.wire[j].event
      BY <2>4
    <3> QED
      BY <1>1, <3>1, <3>2 DEF StreamOK
  <2>6. \A i \in DOMAIN stream'.wire :
           \/ stream'.wire[i].event = {} /\ stream'.wire[i].status \in Status
           \/ \E e \in EventSet : stream'.wire[i] = EventItem(e)
    BY <1>1, <2>2, <2>4 DEF StreamOK
  <2>7. DOMAIN stream'.batch = {} /\ stream'.sent <= last'
    BY <1>1, <2>1, <2>2 DEF StreamOK
  <2> QED
    BY <2>1, <2>2, <2>5, <2>6, <2>7 DEF StreamOK
<1>8. CASE ReceiveEvent \/ ReceiveStatus
  <2>1. /\ stream.wire # <<>> /\ stream'.sent = stream.sent /\ stream'.up /\ stream'.due = stream.due
        /\ stream'.batch = stream.batch /\ stream'.wire = Tail(stream.wire)
        /\ boot' = boot /\ last' = last /\ stream.wire \in Seq(Item)
    BY <1>8, ReceiveIs, StreamParts DEF PageStep, server
  <2>2. \A i \in DOMAIN stream'.wire :
           i \in Nat /\ i + 1 \in DOMAIN stream.wire /\ stream'.wire[i] = stream.wire[i + 1]
    BY <2>1, TailIs
  <2>3. ASSUME NEW i \in DOMAIN stream'.wire, NEW e \in stream'.wire[i].event
        PROVE  /\ e.boot = boot /\ e.seq <= stream.sent
               /\ \A j \in DOMAIN stream.batch : e.seq < stream.batch[j].seq
               /\ \A j \in DOMAIN stream'.wire : i < j =>
                     \A f \in stream'.wire[j].event : e.seq < f.seq
    <3>1. e \in stream.wire[i + 1].event /\ i + 1 \in DOMAIN stream.wire
      BY <2>2, <2>3
    <3>2. /\ e.boot = boot /\ e.seq <= stream.sent
          /\ \A j \in DOMAIN stream.batch : e.seq < stream.batch[j].seq
          /\ \A j \in DOMAIN stream.wire : i + 1 < j =>
                \A f \in stream.wire[j].event : e.seq < f.seq
      BY <1>1, <3>1 DEF StreamOK
    <3>3. ASSUME NEW j \in DOMAIN stream'.wire, i < j, NEW f \in stream'.wire[j].event
          PROVE  e.seq < f.seq
      <4>1. j + 1 \in DOMAIN stream.wire /\ f \in stream.wire[j + 1].event /\ i + 1 < j + 1
        BY <2>2, <3>3
      <4> QED
        BY <3>2, <4>1
    <3> QED
      BY <3>2, <3>3
  <2>4. \A i \in DOMAIN stream'.wire :
           \/ stream'.wire[i].event = {} /\ stream'.wire[i].status \in Status
           \/ \E e \in EventSet : stream'.wire[i] = EventItem(e)
    BY <1>1, <2>2 DEF StreamOK
  <2>5. /\ stream.batch # <<>> => stream.due
        /\ stream.sent <= last
        /\ \A i \in DOMAIN stream.batch :
              /\ stream.batch[i].boot = boot /\ stream.batch[i].seq <= stream.sent
              /\ \A j \in DOMAIN stream.batch : i < j => stream.batch[i].seq < stream.batch[j].seq
    BY <1>1 DEF StreamOK
  <2> QED
    BY <2>1, <2>3, <2>4, <2>5 DEF StreamOK
<1>9. CASE Break \/ Restart \/ Reload
  <2>1. stream' = Down
    BY <1>9, FaultIs
  <2>2. last' \in Nat
    BY <1>1, <1>9 DEF Break, Restart, Reload, server
  <2>3. DOMAIN stream'.batch = {} /\ DOMAIN stream'.wire = {} /\ stream'.batch = <<>> /\ stream'.sent <= last'
    BY <2>1, <2>2, DownIs
  <2> QED
    BY <2>1, <2>3 DEF StreamOK
<1>10. CASE Emit
  BY <1>1, <1>2, <1>10 DEF Emit
<1>11. CASE ChangeStatus \/ AnswerBackfill \/ TakeBackfill \/ UNCHANGED vars
  BY <1>1, <1>2, <1>11 DEF ChangeStatus, AnswerBackfill, TakeBackfill, vars, server
<1> QED
  BY StepCases, <1>4, <1>5, <1>6, <1>7, <1>8, <1>9, <1>10, <1>11

LEMMA BackfillStep == ASSUME FeedInv, [Next]_vars PROVE BackfillOK'
<1>1. BackfillOK /\ last \in Nat /\ status \in Nat /\ status \in Status
      /\ \A i \in DOMAIN backfill.events : backfill.events[i] \in EventSet
  BY TypedParts DEF FeedInv, Typed
<1>2. ASSUME backfill' = backfill, boot' = boot, last' \in Nat, last <= last',
             status' \in Nat, status <= status'
      PROVE  BackfillOK'
  <2>1. backfill.answered => backfill.status \in Status /\ backfill.status <= status'
    BY <1>1, <1>2, Constants DEF BackfillOK, Status
  <2>2. ASSUME NEW i \in DOMAIN backfill.events
        PROVE  /\ backfill.events[i].boot = boot /\ backfill.events[i].seq <= last'
               /\ \A e \in EventSet : e.boot = boot /\ e.seq < backfill.events[i].seq =>
                     e \in ToSet(backfill.events) \/ last' - e.seq >= Limit
    <3>1. backfill.events[i].seq \in Nat
      BY <1>1, EventIs
    <3>2. backfill.events[i].boot = boot /\ backfill.events[i].seq <= last
      BY <1>1 DEF BackfillOK
    <3>3. ASSUME NEW e \in EventSet, last - e.seq >= Limit PROVE last' - e.seq >= Limit
      BY <1>1, <1>2, <3>3, EventIs, Constants
    <3> QED
      BY <1>1, <1>2, <3>1, <3>2, <3>3 DEF BackfillOK
  <2>3. \A i, j \in DOMAIN backfill.events : backfill.events[i].seq = backfill.events[j].seq => i = j
    BY <1>1 DEF BackfillOK
  <2> QED
    BY <1>2, <2>1, <2>2, <2>3 DEF BackfillOK
<1>3. CASE backfill' = NoRequest
  <2>1. ~backfill'.answered /\ DOMAIN backfill'.events = {}
    BY <1>3, DownIs
  <2> QED
    BY <2>1 DEF BackfillOK
<1>4. CASE Emit \/ ChangeStatus
  BY <1>1, <1>2, <1>4 DEF Emit, ChangeStatus
<1>5. CASE Connect \/ Poll \/ Yield \/ YieldStatus \/ ReceiveEvent \/ ReceiveStatus \/ UNCHANGED vars
  <2>1. UNCHANGED <<backfill, server>>
    BY <1>5 DEF Connect, Poll, Yield, YieldStatus, ReceiveEvent, ReceiveStatus, vars
  <2> QED
    BY <1>1, <1>2, <2>1 DEF server
<1>6. CASE AnswerBackfill
  <2> DEFINE t == EventsAfter(0)
  <2>1. Typed /\ 0 \in 0 .. last
    BY <1>1 DEF FeedInv
  <2>2. /\ t \in Seq(EventSet) /\ Len(t) <= last - 0
        /\ Len(t) = last - 0 \/ Len(t) = Limit
        /\ \A i \in 1 .. Len(t) : t[i] = Event(boot, last - Len(t) + i)
    BY <2>1, EventsAfterIs DEF Events
  <2>3. backfill'.events = t /\ backfill'.status = status /\ UNCHANGED server
    BY <1>6 DEF AnswerBackfill
  <2> HIDE DEF t
  <2>4. Len(t) \in Nat /\ DOMAIN t = 1 .. Len(t) /\ Len(t) <= last
    BY <1>1, <2>2
  <2>5. ASSUME NEW i \in DOMAIN t
        PROVE  /\ t[i].boot = boot /\ t[i].seq = last - Len(t) + i /\ i \in Nat /\ 1 <= i /\ i <= Len(t)
    BY <2>2, <2>4 DEF Event
  <2>6. ASSUME NEW i \in DOMAIN t, NEW e \in EventSet, e.boot = boot, e.seq < t[i].seq
        PROVE  e \in ToSet(t) \/ last - e.seq >= Limit
    <3>1. e.seq \in Nat /\ e.seq >= 1 /\ e = Event(boot, e.seq)
      BY <2>6, EventIs
    <3>2. t[i].seq <= last /\ t[i].seq \in Nat
      BY <1>1, <2>4, <2>5
    <3>3. CASE e.seq > last - Len(t)
      <4>1. e.seq - (last - Len(t)) \in 1 .. Len(t)
        BY <1>1, <2>4, <2>6, <3>1, <3>2, <3>3
      <4>2. last - Len(t) + (e.seq - (last - Len(t))) = e.seq
        BY <1>1, <2>4, <3>1
      <4>3. t[e.seq - (last - Len(t))] = e
        BY <2>2, <3>1, <4>1, <4>2
      <4> QED
        BY <2>4, <4>1, <4>3 DEF ToSet
    <3>4. CASE ~(e.seq > last - Len(t))
      <4>2. Len(t) = last \/ Len(t) = Limit
        BY <1>1, <2>2
      <4>3. e.seq \in Nat /\ e.seq >= 1
        BY <3>1
      <4>4. Len(t) # last
        <5>1. \A a, b, c \in Nat : ~(a > b - c) /\ a >= 1 => c # b
          OBVIOUS
        <5> QED
          BY <1>1, <2>4, <3>4, <4>3, <5>1
      <4>1. Len(t) = Limit
        BY <4>2, <4>4
      <4> QED
        BY <1>1, <2>4, <3>1, <3>4, <4>1
    <3> QED
      BY <3>3, <3>4
  <2>7. ASSUME NEW i \in DOMAIN t, NEW j \in DOMAIN t, t[i].seq = t[j].seq PROVE i = j
    <3>1. last - Len(t) + i = last - Len(t) + j /\ i \in Nat /\ j \in Nat
      BY <2>5, <2>7
    <3> QED
      BY <1>1, <2>4, <3>1
  <2>8. \A i \in DOMAIN t : t[i].seq <= last
    BY <1>1, <2>4, <2>5
  <2>9. status' \in Status /\ status <= status'
    BY <1>1, <2>3 DEF server
  <2> QED
    BY <1>1, <2>3, <2>5, <2>6, <2>7, <2>8, <2>9 DEF BackfillOK, server
<1>7. CASE TakeBackfill \/ Restart \/ Reload
  BY <1>3, <1>7 DEF TakeBackfill, Restart, Reload
<1>8. CASE Break
  <2>1. UNCHANGED server
    BY <1>8 DEF Break
  <2>2. backfill' = backfill \/ backfill' = NoRequest
    BY <1>8, FaultIs
  <2>3. CASE backfill' = backfill
    BY <1>1, <1>2, <2>1, <2>3 DEF server
  <2> QED
    BY <1>3, <2>2, <2>3
<1> QED
  BY StepCases, <1>4, <1>5, <1>6, <1>7, <1>8

\* An event of the feed or of what is appended to it, seen from a step later.
LEMMA ShownOf ==
    ASSUME FeedInv, ReceiveEvent \/ TakeBackfill
    PROVE  /\ UNCHANGED <<server, opened>>
           /\ feed' \in Events /\ FeedKeysUnique'
           /\ Len(feed) = FeedCap => Len(feed') = FeedCap
           /\ \A e \in ToSet(feed') :
                 /\ e \in EventSet
                 /\ \/ e \in ToSet(feed)
                    \/ e.boot = boot /\ e.seq <= last
           /\ \A e \in ToSet(feed) : e \in ToSet(feed') \/ Len(feed') = FeedCap
           /\ \/ badges' = badges /\ feed' = feed
              \/ badges' = badges /\ \A e \in ToSet(feed') : e.seq <= badges.seen
              \/ \E e \in ToSet(feed') : badges' = [seen |-> e.seq, asked |-> Event(boot, last)]
           /\ \A e \in owed' : e \in owed
           /\ \A e \in owed : e \in owed' \/ e \in ToSet(feed')
<1>1. /\ \A e \in ToSet(feed) : e \in EventSet
      /\ last \in Nat /\ stream.sent \in Nat /\ stream.sent <= last
  BY TypedParts DEF FeedInv, StreamOK
<1>2. ASSUME UNCHANGED <<feed, badges, owed>>
      PROVE  /\ feed' \in Events /\ FeedKeysUnique' /\ badges' = badges /\ feed' = feed
  BY <1>2 DEF FeedInv, FeedOK, Typed, FeedKeysUnique
<1>3. CASE ReceiveEvent
  <2>1. PICK e \in EventSet : e.boot = boot /\ e.seq <= stream.sent /\ Show(<<e>>)
    BY <1>3, ReceiveEventIs
  <2>2. UNCHANGED <<server, opened>>
    BY <1>3 DEF ReceiveEvent
  <2>3. e.seq <= last
    BY <1>1, <2>1, EventIs
  <2> QED
    BY <2>1, <2>2, <2>3, OneDistinct, ShowIs
<1>4. CASE TakeBackfill
  <2>1. UNCHANGED <<server, opened>> /\ (UNCHANGED <<feed, badges, owed>> \/ Show(backfill.events))
    BY <1>4 DEF TakeBackfill
  <2>2. \A e \in ToSet(backfill.events) : e.boot = boot /\ e.seq <= last
    BY DEF FeedInv, BackfillOK, ToSet
  <2>3. CASE UNCHANGED <<feed, badges, owed>>
    BY <1>1, <1>2, <2>1, <2>3
  <2>4. CASE Show(backfill.events)
    BY <2>1, <2>2, <2>4, BackfillDistinct, ShowIs
  <2> QED
    BY <2>1, <2>3, <2>4
<1> QED
  BY <1>3, <1>4

LEMMA FeedStep == ASSUME FeedInv, [Next]_vars PROVE FeedOK'
<1>1. FeedOK /\ last \in Nat /\ boot \in Nat /\ opened \in Nat /\ opened <= boot
      /\ \A e \in ToSet(feed) : e \in EventSet
  BY TypedParts DEF FeedInv
<1>2. ASSUME feed' = feed, opened' = opened, boot' = boot, last' \in Nat, last <= last'
      PROVE  FeedOK'
  <2>1. ASSUME NEW e \in ToSet(feed)
        PROVE  opened <= e.boot /\ e.boot <= boot /\ (e.boot = boot => e.seq <= last')
    <3>1. opened <= e.boot /\ e.boot <= boot /\ (e.boot = boot => e.seq <= last) /\ e.seq \in Nat
      BY <1>1, EventIs DEF FeedOK
    <3> QED
      BY <1>1, <1>2, <3>1
  <2>2. \A i, j \in DOMAIN feed : feed[i].seq = feed[j].seq => i = j
    BY <1>1 DEF FeedOK, FeedKeysUnique
  <2> QED
    BY <1>2, <2>1, <2>2 DEF FeedOK, FeedKeysUnique
<1>3. CASE ReceiveEvent \/ TakeBackfill
  <2>1. UNCHANGED <<server, opened>> /\ FeedKeysUnique'
    BY <1>3, ShownOf
  <2>2. ASSUME NEW e \in ToSet(feed')
        PROVE  opened <= e.boot /\ e.boot <= boot /\ (e.boot = boot => e.seq <= last)
    <3>1. e \in ToSet(feed) \/ (e.boot = boot /\ e.seq <= last)
      BY <1>3, ShownOf
    <3> QED
      BY <1>1, <3>1 DEF FeedOK
  <2> QED
    BY <2>1, <2>2 DEF FeedOK, server
<1>4. CASE Restart
  <2>1. boot' = boot + 1 /\ feed' = feed /\ opened' = opened
    BY <1>4 DEF Restart, page
  <2>2. ASSUME NEW e \in ToSet(feed)
        PROVE  opened <= e.boot /\ e.boot <= boot + 1 /\ e.boot # boot + 1
    <3>1. opened <= e.boot /\ e.boot <= boot /\ e.boot \in Nat
      BY <1>1, EventIs DEF FeedOK
    <3> QED
      BY <1>1, <3>1
  <2>3. \A i, j \in DOMAIN feed : feed[i].seq = feed[j].seq => i = j
    BY <1>1 DEF FeedOK, FeedKeysUnique
  <2> QED
    BY <2>1, <2>2, <2>3 DEF FeedOK, FeedKeysUnique
<1>5. CASE Reload
  <2>1. feed' = <<>> /\ DOMAIN feed' = {} /\ ToSet(feed') = {}
    BY <1>5 DEF Reload, ToSet
  <2> QED
    BY <2>1 DEF FeedOK, FeedKeysUnique
<1>6. CASE Emit
  BY <1>1, <1>2, <1>6 DEF Emit, page
<1>7. CASE ChangeStatus \/ AnswerBackfill
  BY <1>1, <1>2, <1>7 DEF ChangeStatus, AnswerBackfill, page, server
<1>8. CASE Connect \/ Poll \/ Yield \/ YieldStatus \/ ReceiveStatus \/ Break \/ UNCHANGED vars
  <2>1. UNCHANGED <<server, feed, opened>>
    BY <1>8 DEF Connect, Poll, Yield, YieldStatus, ReceiveStatus, Break, vars, page
  <2> QED
    BY <1>1, <1>2, <2>1 DEF server
<1> QED
  BY StepCases, <1>3, <1>4, <1>5, <1>6, <1>7, <1>8

LEMMA ToastsStep == ASSUME FeedInv, [Next]_vars PROVE ToastsOK'
<1>1. ToastsOK /\ last \in Nat /\ boot \in Nat /\ toasts \in Seq(EventSet)
      /\ \A e \in ToSet(toasts) : e \in EventSet
  BY TypedParts DEF FeedInv
<1>2. ASSUME NEW e \in ToSet(toasts), Coming(e)' PROVE FALSE
  <2>1. ~Coming(e) /\ e \in EventSet /\ (e.boot = boot => e.seq <= last)
    BY <1>1 DEF ToastsOK
  <2>2. Connect /\ e.boot = boot /\ e.seq > last
    BY <1>2, <2>1, ComingStep
  <2> QED
    BY <1>1, <2>1, <2>2, EventIs
<1>3. ASSUME toasts' = toasts, last' \in Nat, boot' = boot, last <= last' PROVE ToastsOK'
  <2>1. ASSUME NEW e \in ToSet(toasts) PROVE e.boot <= boot /\ (e.boot = boot => e.seq <= last')
    <3>1. e.boot <= boot /\ (e.boot = boot => e.seq <= last) /\ e.seq \in Nat
      BY <1>1, EventIs DEF ToastsOK
    <3> QED
      BY <1>1, <1>3, <3>1
  <2>2. \A i, j \in DOMAIN toasts : toasts[i] = toasts[j] => i = j
    BY <1>1 DEF ToastsOK, ToastedOnce
  <2> QED
    BY <1>2, <1>3, <2>1, <2>2 DEF ToastsOK, ToastedOnce
<1>4. CASE ReceiveEvent
  <2>1. PICK e \in EventSet :
           /\ e \in stream.wire[1].event /\ Coming(e) /\ e.boot = boot /\ e.seq <= stream.sent
           /\ toasts' = IF IsNew(e) THEN Append(toasts, e) ELSE toasts
    BY <1>4, ReceiveEventIs
  <2>2. UNCHANGED server
    BY <1>4 DEF ReceiveEvent
  <2>3. CASE toasts' = toasts
    BY <1>1, <1>3, <2>2, <2>3 DEF server
  <2>4. CASE toasts' = Append(toasts, e)
    <3>1. e \notin ToSet(toasts)
      BY <1>1, <2>1 DEF ToastsOK
    <3>2. ~Coming(e)'
      <4>1. Coming(e)' => e.seq > e.seq
        BY <1>4, <2>1, ReceivedFirst
      <4> QED
        BY <4>1, EventIs
    <3>3. e.boot <= boot /\ e.seq <= last
      BY <1>1, <2>1, EventIs, StreamParts DEF FeedInv, StreamOK
    <3> DEFINE k == Len(toasts) + 1
    <3>4. /\ toasts'[k] = e
          /\ \A i \in DOMAIN toasts' : i = k \/ (i \in DOMAIN toasts /\ toasts'[i] = toasts[i])
      BY <1>1, <2>4, AppendIs
    <3> HIDE DEF k
    <3>5. \A i \in DOMAIN toasts : toasts[i] \in ToSet(toasts) /\ toasts[i] # e
      BY <3>1 DEF ToSet
    <3>6. ToastedOnce'
      <4>1. \A i, j \in DOMAIN toasts : toasts[i] = toasts[j] => i = j
        BY <1>1 DEF ToastsOK, ToastedOnce
      <4>2. ASSUME NEW i \in DOMAIN toasts', NEW j \in DOMAIN toasts', toasts'[i] = toasts'[j] PROVE i = j
        BY <3>4, <3>5, <4>1, <4>2
      <4> QED
        BY <4>2 DEF ToastedOnce
    <3>7. ASSUME NEW f \in ToSet(toasts')
          PROVE  f.boot <= boot /\ (f.boot = boot => f.seq <= last) /\ ~Coming(f)'
      <4>1. f = e \/ f \in ToSet(toasts)
        BY <3>4, <3>5 DEF ToSet
      <4> QED
        BY <1>1, <1>2, <3>2, <3>3, <4>1 DEF ToastsOK
    <3> QED
      BY <2>2, <3>6, <3>7 DEF ToastsOK, server
  <2> QED
    BY <2>1, <2>3, <2>4
<1>5. CASE Restart
  <2>1. boot' = boot + 1 /\ toasts' = toasts
    BY <1>5 DEF Restart, page
  <2>2. ASSUME NEW e \in ToSet(toasts) PROVE e.boot <= boot + 1 /\ e.boot # boot + 1
    <3>1. e.boot <= boot /\ e.boot \in Nat
      BY <1>1, EventIs DEF ToastsOK
    <3> QED
      BY <1>1, <3>1
  <2>3. \A i, j \in DOMAIN toasts : toasts[i] = toasts[j] => i = j
    BY <1>1 DEF ToastsOK, ToastedOnce
  <2> QED
    BY <1>2, <2>1, <2>2, <2>3 DEF ToastsOK, ToastedOnce
<1>6. CASE Reload
  <2>1. toasts' = <<>> /\ DOMAIN toasts' = {} /\ ToSet(toasts') = {}
    BY <1>6 DEF Reload, ToSet
  <2> QED
    BY <2>1 DEF ToastsOK, ToastedOnce
<1>7. CASE Emit
  BY <1>1, <1>3, <1>7 DEF Emit, page
<1>8. CASE ChangeStatus \/ AnswerBackfill
  BY <1>1, <1>3, <1>8 DEF ChangeStatus, AnswerBackfill, page, server
<1>9. CASE Connect \/ Poll \/ Yield \/ YieldStatus \/ ReceiveStatus \/ TakeBackfill \/ Break \/ UNCHANGED vars
  <2>1. UNCHANGED <<server, toasts>>
    BY <1>9 DEF Connect, Poll, Yield, YieldStatus, ReceiveStatus, TakeBackfill, Break, vars, page
  <2> QED
    BY <1>1, <1>3, <2>1 DEF server
<1> QED
  BY StepCases, <1>4, <1>5, <1>6, <1>7, <1>8, <1>9

\* The event that is received is on the page afterwards, if the page is of this run.
LEMMA ReceivedIsShown ==
    ASSUME FeedInv, ReceiveEvent, NEW e \in EventSet, e \in stream.wire[1].event, ThisRun(e)
    PROVE  e \in ToSet(feed')
<1>1. PICK g \in EventSet : stream.wire[1] = EventItem(g) /\ g.boot = boot /\ Show(<<g>>)
  BY ReceiveEventIs
<1>2. g = e
  BY <1>1, ItemsTyped
<1>3. feed' = Appended(<<e>>)
  BY <1>1, <1>2 DEF Show
<1>4. ASSUME feed' = feed, NEW f \in ToSet(feed), f.seq = e.seq PROVE e \in ToSet(feed')
  <2>1. f \in EventSet /\ boot \in Nat
    BY TypedParts DEF FeedInv
  <2>2. opened <= f.boot /\ f.boot <= boot /\ e.boot = boot /\ e.boot = opened
    BY <1>1, <1>2 DEF FeedInv, FeedOK, ThisRun
  <2>3. f.boot = e.boot
    BY <2>1, <2>2, EventIs
  <2>4. f = e
    BY <1>4, <2>1, <2>3, EventIs
  <2> QED
    BY <1>4, <2>4
<1> QED
  BY <1>3, <1>4, AppendedOne DEF FeedInv

LEMMA OwedStep == ASSUME FeedInv, [Next]_vars PROVE OwedOK'
<1>1. OwedOK /\ last \in Nat /\ boot \in Nat /\ stream.sent \in Nat /\ stream.sent <= last
      /\ \A e \in owed : e \in EventSet
  BY TypedParts DEF FeedInv, Typed, StreamOK
<1>2. ASSUME boot' = boot, opened' = opened, last' \in Nat, last <= last', stream'.up,
             \A e \in owed' : e \in owed,
             \A e \in owed' : ThisRun(e) /\ Coming(e) => Coming(e)'
      PROVE  OwedOK'
  <2> SUFFICES ASSUME NEW e \in owed'
               PROVE  e.boot = boot /\ e.seq <= last' /\ (e.boot = opened => Coming(e)')
    BY <1>2 DEF OwedOK, ThisRun
  <2>1. e \in owed /\ e \in EventSet
    BY <1>1, <1>2
  <2>2. e.boot = boot /\ e.seq <= last /\ (e.boot = opened => Coming(e))
    BY <1>1, <2>1 DEF OwedOK, ThisRun
  <2>3. e.seq <= last'
    BY <1>1, <1>2, <2>1, <2>2, EventIs
  <2> QED
    BY <1>2, <2>2, <2>3 DEF ThisRun
<1>3. ASSUME owed' = {} PROVE OwedOK'
  BY <1>3 DEF OwedOK
<1>4. CASE Emit
  <2>1. /\ last' = last + 1 /\ boot' = boot /\ opened' = opened /\ stream' = stream
        /\ owed' = IF stream.up THEN owed \cup {Event(boot, last')} ELSE owed
    BY <1>4 DEF Emit
  <2> SUFFICES ASSUME NEW e \in owed'
               PROVE  stream'.up /\ e.boot = boot' /\ e.seq <= last' /\ (e.boot = opened' => Coming(e)')
    BY DEF OwedOK, ThisRun
  <2>2. CASE e \in owed
    <3>1. stream.up /\ e.boot = boot /\ e.seq <= last /\ (e.boot = opened => Coming(e))
      BY <1>1, <2>2 DEF OwedOK, ThisRun
    <3>2. e.seq <= last'
      BY <1>1, <2>1, <2>2, <3>1, EventIs
    <3> QED
      BY <2>1, <3>1, <3>2 DEF Coming
  <2>3. CASE e \notin owed
    <3>1. stream.up /\ e = Event(boot, last')
      BY <2>1, <2>3
    <3>2. e.boot = boot /\ e.seq = last + 1
      BY <2>1, <3>1 DEF Event
    <3>3. e.seq > stream.sent /\ e.seq <= last'
      BY <1>1, <2>1, <3>2
    <3> QED
      BY <2>1, <3>1, <3>2, <3>3 DEF Coming
  <2> QED
    BY <2>2, <2>3
<1>5. CASE owed = {} /\ owed' = owed
  BY <1>3, <1>5
<1>6. CASE Connect
  <2>1. owed = {}
    BY <1>1, <1>6 DEF OwedOK, Connect
  <2> QED
    BY <1>5, <1>6, <2>1 DEF Connect
<1>7. CASE Poll
  <2>1. stream'.up /\ owed' = {e \in owed : e.seq <= stream.sent \/ e \in ToSet(stream'.batch)}
    BY <1>7, PollIs
  <2>2. UNCHANGED <<boot, last, opened>>
    BY <1>7 DEF Poll, server
  <2>3. ASSUME NEW e \in owed', Coming(e) PROVE Coming(e)'
    <3>1. e \in EventSet /\ (e.seq <= stream.sent \/ e \in ToSet(stream'.batch))
      BY <1>1, <2>1
    <3> QED
      BY <1>7, <2>1, <2>3, <3>1, ComingKept
  <2> QED
    BY <1>1, <1>2, <2>1, <2>2, <2>3
<1>8. CASE ReceiveEvent
  <2>1. stream'.up /\ UNCHANGED <<boot, last, opened>>
    BY <1>8, ReceiveIs DEF PageStep, server
  <2>2. \A e \in owed' : e \in owed
    BY <1>8, ShownOf
  <2>3. PICK g \in EventSet : stream.wire[1] = EventItem(g) /\ Show(<<g>>)
    BY <1>8, ReceiveEventIs
  <2>4. \A e \in owed' : e \notin ToSet(feed')
    BY <2>3 DEF Show
  <2>5. ASSUME NEW e \in owed', ThisRun(e), Coming(e) PROVE Coming(e)'
    <3>1. e \in EventSet /\ e \notin stream.wire[1].event
      BY <1>1, <1>8, <2>2, <2>4, <2>5, ReceivedIsShown
    <3> QED
      BY <1>8, <2>1, <2>5, <3>1, ComingKept DEF PageStep
  <2> QED
    BY <1>1, <1>2, <2>1, <2>2, <2>5
<1>9. CASE Yield \/ YieldStatus \/ ReceiveStatus
  <2>1. stream'.up /\ UNCHANGED <<boot, last, opened, owed>>
    BY <1>9, YieldIs, YieldStatusIs, ReceiveIs DEF PageStep, Yield, YieldStatus, ReceiveStatus, server
  <2>2. ASSUME NEW e \in owed, Coming(e) PROVE Coming(e)'
    <3>1. e \in EventSet
      BY <1>1
    <3>2. ASSUME ReceiveStatus PROVE e \notin stream.wire[1].event
      <4>1. stream.wire # <<>> /\ stream.wire \in Seq(Item)
        BY <3>2, StreamParts DEF ReceiveStatus
      <4> QED
        BY <3>2, <4>1, TailIs DEF ReceiveStatus
    <3> QED
      BY <1>9, <2>1, <2>2, <3>1, <3>2, ComingKept DEF PageStep
  <2> QED
    BY <1>1, <1>2, <2>1, <2>2
<1>10. CASE TakeBackfill
  <2>1. UNCHANGED <<stream, boot, last, opened>>
    BY <1>10 DEF TakeBackfill, server
  <2>2. \A e \in owed' : e \in owed
    BY <1>10, ShownOf
  <2>3. \A e \in owed' : e \in owed /\ stream.up
    BY <1>1, <2>2 DEF OwedOK
  <2>4. CASE stream.up
    BY <1>1, <1>2, <2>1, <2>2, <2>4 DEF Coming
  <2>5. CASE ~stream.up
    BY <1>3, <2>3, <2>5
  <2> QED
    BY <2>4, <2>5
<1>11. CASE ChangeStatus \/ AnswerBackfill \/ UNCHANGED vars
  <2>1. UNCHANGED <<stream, boot, last, opened, owed>>
    BY <1>11 DEF ChangeStatus, AnswerBackfill, vars, server
  <2>2. CASE stream.up
    BY <1>1, <1>2, <2>1, <2>2 DEF Coming
  <2>3. CASE ~stream.up
    BY <1>1, <1>5, <2>1, <2>3 DEF OwedOK
  <2> QED
    BY <2>2, <2>3
<1>12. CASE Break \/ Restart \/ Reload
  BY <1>3, <1>12, FaultIs
<1> QED
  BY StepCases, <1>4, <1>6, <1>7, <1>8, <1>9, <1>10, <1>11, <1>12

LEMMA BadgesStep == ASSUME FeedInv, [Next]_vars PROVE BadgesOK'
<1>1. /\ BadgesOK /\ FeedOK /\ last \in Nat /\ boot \in Nat /\ opened \in Nat /\ opened <= boot
      /\ badges.seen \in Nat /\ badges.asked.boot \in Nat /\ badges.asked.seq \in Nat
      /\ \A e \in ToSet(feed) : e \in EventSet
  BY TypedParts DEF FeedInv
<1>2. /\ opened <= badges.asked.boot /\ badges.asked.boot <= boot
      /\ badges.asked.boot = opened => badges.seen <= badges.asked.seq
      /\ \A e \in ToSet(feed) : e.boot = opened =>
            badges.asked.boot > e.boot \/ badges.asked.seq >= e.seq
  BY <1>1 DEF BadgesOK, BadgesFollowFeed, ThisRun
<1>3. ASSUME feed' = feed, badges' = badges, opened' = opened, boot' = boot \/ boot' = boot + 1
      PROVE  BadgesOK'
  <2>1. badges.asked.boot <= boot'
    BY <1>1, <1>2, <1>3
  <2> QED
    BY <1>2, <1>3, <2>1 DEF BadgesOK, BadgesFollowFeed, ThisRun
<1>4. CASE ReceiveEvent \/ TakeBackfill
  <2>1. UNCHANGED <<server, opened>>
    BY <1>4, ShownOf
  <2>2. ASSUME NEW e \in ToSet(feed')
        PROVE  /\ e.seq \in Nat /\ e.boot \in Nat /\ opened <= e.boot /\ e.boot <= boot
               /\ e.boot = boot => e.seq <= last
    <3>1. e \in EventSet /\ (e \in ToSet(feed) \/ (e.boot = boot /\ e.seq <= last))
      BY <1>4, ShownOf
    <3> QED
      BY <1>1, <3>1, EventIs DEF FeedOK
  <2>3. CASE badges' = badges /\ feed' = feed
    BY <1>3, <2>1, <2>3 DEF server
  <2>4. CASE badges' = badges /\ \A e \in ToSet(feed') : e.seq <= badges.seen
    <3>1. ASSUME NEW e \in ToSet(feed'), e.boot = opened
          PROVE  badges.asked.boot > e.boot \/ badges.asked.seq >= e.seq
      BY <1>1, <1>2, <2>2, <2>4, <3>1
    <3> QED
      BY <1>2, <2>1, <2>4, <3>1 DEF BadgesOK, BadgesFollowFeed, ThisRun, server
  <2>5. ASSUME NEW f \in ToSet(feed'), badges' = [seen |-> f.seq, asked |-> Event(boot, last)]
        PROVE  BadgesOK'
    <3>1. badges'.seen = f.seq /\ badges'.asked.boot = boot /\ badges'.asked.seq = last
      BY <2>5 DEF Event
    <3>2. boot = opened => f.seq <= last
      BY <1>1, <2>2, <2>5
    <3>3. ASSUME NEW e \in ToSet(feed'), e.boot = opened PROVE boot > e.boot \/ last >= e.seq
      BY <1>1, <2>2, <3>3
    <3> QED
      BY <1>1, <2>1, <3>1, <3>2, <3>3 DEF BadgesOK, BadgesFollowFeed, ThisRun, server
  <2> QED
    BY <1>4, <2>3, <2>4, <2>5, ShownOf
<1>5. CASE Reload
  <2>1. /\ feed' = <<>> /\ badges' = [seen |-> 0, asked |-> Event(boot, last)]
        /\ opened' = boot /\ boot' = boot /\ ToSet(feed') = {}
    BY <1>5 DEF Reload, Loaded, server, ToSet
  <2>2. badges'.seen = 0 /\ badges'.asked.boot = boot /\ badges'.asked.seq = last
    BY <2>1 DEF Event
  <2> QED
    BY <1>1, <2>1, <2>2 DEF BadgesOK, BadgesFollowFeed
<1>6. CASE Emit \/ ChangeStatus \/ Restart
  BY <1>3, <1>6 DEF Emit, ChangeStatus, Restart, page
<1>7. CASE Connect \/ Poll \/ Yield \/ YieldStatus \/ ReceiveStatus \/ AnswerBackfill \/ Break \/ UNCHANGED vars
  <2>1. UNCHANGED <<server, feed, badges, opened>>
    BY <1>7 DEF Connect, Poll, Yield, YieldStatus, ReceiveStatus, AnswerBackfill, Break, vars, page
  <2> QED
    BY <1>3, <2>1 DEF server
<1> QED
  BY StepCases, <1>4, <1>5, <1>6, <1>7

\* A status is said on the wire: it is the last one there.
SaidOnWire(wire, s) ==
    \E i \in DOMAIN wire :
        /\ wire[i].event = {} /\ wire[i].status = s
        /\ \A j \in DOMAIN wire : i < j => wire[j].event # {}

NoneOnWire(wire) == \A i \in DOMAIN wire : wire[i].event # {}

LEMMA StatusIs ==
    StatusOK <=>
        /\ stream.said # NoStatus => stream.said <= status
        /\ stream.up /\ stream.said = status =>
              SaidOnWire(stream.wire, status) \/ (NoneOnWire(stream.wire) /\ (stale \/ told = status))
  BY DEF StatusOK, SaidOnWire, NoneOnWire

LEMMA StatusStep == ASSUME FeedInv, [Next]_vars PROVE StatusOK'
<1>1. /\ StatusOK /\ status \in Nat /\ NoStatus \notin Nat /\ stream.said \in Status \cup {NoStatus}
      /\ stale \in BOOLEAN /\ status \in Status
  BY TypedParts DEF FeedInv, Typed
<1>2. /\ stream.said # NoStatus => stream.said \in Nat /\ stream.said <= status
      /\ stream.up /\ stream.said = status =>
            SaidOnWire(stream.wire, status) \/ (NoneOnWire(stream.wire) /\ (stale \/ told = status))
  BY <1>1, StatusIs, Constants DEF Status
<1>3. ASSUME /\ stream'.said # NoStatus => stream'.said <= status'
             /\ stream'.up /\ stream'.said = status' =>
                   SaidOnWire(stream'.wire, status')
                   \/ (NoneOnWire(stream'.wire) /\ (stale' \/ told' = status'))
      PROVE  StatusOK'
  BY <1>3 DEF StatusOK, SaidOnWire, NoneOnWire
<1>4. CASE UNCHANGED <<status, stream, told, stale>>
  BY <1>2, <1>3, <1>4
<1>5. CASE Emit \/ AnswerBackfill \/ UNCHANGED vars
  BY <1>4, <1>5 DEF Emit, AnswerBackfill, vars, server, page
<1>6. CASE ChangeStatus
  <2>1. status' = status + 1 /\ stream' = stream
    BY <1>6 DEF ChangeStatus
  <2>2. stream.said # NoStatus => stream.said <= status + 1
    BY <1>1, <1>2
  <2>3. stream.said # status + 1
    BY <1>1, <1>2
  <2> QED
    BY <1>3, <2>1, <2>2, <2>3
<1>7. CASE Connect
  <2>1. stream'.said = NoStatus /\ status' = status
    BY <1>7, ConnectIs DEF Connect, server
  <2> QED
    BY <1>1, <1>3, <2>1
<1>8. CASE Poll
  <2>1. stream'.said = stream.said /\ stream'.wire = stream.wire /\ stream.up
        /\ UNCHANGED <<status, told, stale>>
    BY <1>8, PollIs DEF Poll, server, page
  <2> QED
    BY <1>2, <1>3, <2>1
<1>9. CASE Yield
  <2> DEFINE x == EventItem(stream.batch[1])
  <2>1. /\ stream'.said = stream.said /\ stream.up /\ UNCHANGED <<status, told, stale>>
        /\ stream'.wire = Append(stream.wire, x)
        /\ stream.wire \in Seq(Item) /\ x \in Item /\ x.event # {}
    BY <1>9, YieldIs, StreamParts, ItemsTyped DEF Yield, server, page
  <2> HIDE DEF x
  <2> DEFINE k == Len(stream.wire) + 1
  <2>2. /\ \A i \in DOMAIN stream'.wire : i = k \/ i \in DOMAIN stream.wire
        /\ stream'.wire[k] = x
        /\ \A i \in DOMAIN stream.wire : i \in DOMAIN stream'.wire /\ stream'.wire[i] = stream.wire[i]
    BY <2>1, AppendIs
  <2> HIDE DEF k
  <2>3. SaidOnWire(stream.wire, status) => SaidOnWire(stream'.wire, status)
    BY <2>1, <2>2 DEF SaidOnWire
  <2>4. NoneOnWire(stream.wire) => NoneOnWire(stream'.wire)
    BY <2>1, <2>2 DEF NoneOnWire
  <2> QED
    BY <1>2, <1>3, <2>1, <2>3, <2>4
<1>10. CASE YieldStatus
  <2>1. /\ stream'.said = status /\ stream.up /\ UNCHANGED <<status, told, stale>>
        /\ stream.wire \in Seq(Item) /\ StatusItem(status) \in Item
        /\ StatusItem(status).event = {} /\ StatusItem(status).status = status
        /\ \/ status = stream.said /\ stream'.wire = stream.wire
           \/ stream'.wire = Append(stream.wire, StatusItem(status))
    BY <1>1, <1>10, YieldStatusIs, StreamParts, ItemsTyped DEF YieldStatus, server, page
  <2>2. status <= status
    BY <1>1
  <2>3. CASE status = stream.said /\ stream'.wire = stream.wire
    BY <1>2, <1>3, <2>1, <2>2, <2>3
  <2>4. CASE stream'.wire = Append(stream.wire, StatusItem(status))
    <3> DEFINE k == Len(stream.wire) + 1
    <3>1. /\ \A i \in DOMAIN stream'.wire : i = k \/ i \in DOMAIN stream.wire
          /\ k \in DOMAIN stream'.wire /\ stream'.wire[k] = StatusItem(status)
          /\ \A i \in DOMAIN stream.wire : i < k
          /\ k \in Nat
      BY <2>1, <2>4, AppendIs
    <3>2. \A i \in DOMAIN stream.wire : i \in Nat
      BY StreamParts
    <3> HIDE DEF k
    <3>3. ASSUME NEW j \in DOMAIN stream'.wire, k < j PROVE FALSE
      <4>1. j # k
        BY <3>1, <3>3
      <4>2. j < k /\ j \in Nat
        BY <3>1, <3>2, <4>1
      <4> QED
        BY <3>1, <3>3, <4>2
    <3>4. SaidOnWire(stream'.wire, status)
      BY <2>1, <3>1, <3>3 DEF SaidOnWire
    <3> QED
      BY <1>3, <2>1, <2>2, <3>4
  <2> QED
    BY <2>1, <2>3, <2>4
<1>11. CASE ReceiveEvent \/ ReceiveStatus
  <2>1. /\ stream.wire # <<>> /\ stream.up /\ stream'.said = stream.said /\ status' = status
        /\ stream'.wire = Tail(stream.wire) /\ stream.wire \in Seq(Item)
    BY <1>11, ReceiveIs, StreamParts DEF PageStep, server
  <2>2. /\ 1 \in DOMAIN stream.wire /\ Head(stream.wire) = stream.wire[1]
        /\ \A i \in DOMAIN stream'.wire :
              i \in Nat /\ i + 1 \in DOMAIN stream.wire /\ stream'.wire[i] = stream.wire[i + 1]
        /\ \A i \in DOMAIN stream.wire :
              i = 1 \/ (i - 1 \in DOMAIN stream'.wire /\ stream'.wire[i - 1] = stream.wire[i])
    BY <2>1, TailIs
  <2>3. \A i \in DOMAIN stream.wire : i \in Nat /\ 1 <= i
    BY <2>1
  <2>4. NoneOnWire(stream.wire) => NoneOnWire(stream'.wire)
    BY <2>2 DEF NoneOnWire
  <2>5. ASSUME NEW i \in DOMAIN stream.wire, i # 1,
               stream.wire[i].event = {}, stream.wire[i].status = status,
               \A j \in DOMAIN stream.wire : i < j => stream.wire[j].event # {}
        PROVE  SaidOnWire(stream'.wire, status)
    <3>1. i - 1 \in DOMAIN stream'.wire /\ stream'.wire[i - 1] = stream.wire[i]
      BY <2>2, <2>5
    <3>2. ASSUME NEW j \in DOMAIN stream'.wire, i - 1 < j PROVE stream'.wire[j].event # {}
      <4>1. j + 1 \in DOMAIN stream.wire /\ stream'.wire[j] = stream.wire[j + 1] /\ i < j + 1
        BY <2>2, <2>3, <3>2
      <4> QED
        BY <2>5, <4>1
    <3> QED
      BY <2>5, <3>1, <3>2 DEF SaidOnWire
  <2>6. ASSUME stream.wire[1].event = {}, stream.wire[1].status = status,
               \A j \in DOMAIN stream.wire : 1 < j => stream.wire[j].event # {}
        PROVE  NoneOnWire(stream'.wire)
    <3>1. ASSUME NEW j \in DOMAIN stream'.wire PROVE stream'.wire[j].event # {}
      <4>1. j + 1 \in DOMAIN stream.wire /\ stream'.wire[j] = stream.wire[j + 1] /\ j + 1 # 1 /\ j \in Nat
        <5>1. j \in Nat /\ j >= 1
          BY <2>1, <2>2, TailIs
        <5> QED
          BY <2>2, <5>1
      <4>2. 1 < j + 1
        BY <4>1
      <4> QED
        BY <2>6, <4>1, <4>2
    <3> QED
      BY <3>1 DEF NoneOnWire
  <2>7. CASE ReceiveEvent
    <3>1. UNCHANGED <<told, stale>>
      BY <2>7 DEF ReceiveEvent
    <3>2. stream.wire[1].event # {}
      <4>1. PICK e \in EventSet : e \in stream.wire[1].event
        BY <2>7, ReceiveEventIs
      <4> QED
        BY <4>1
    <3>3. SaidOnWire(stream.wire, status) => SaidOnWire(stream'.wire, status)
      BY <2>5, <3>2 DEF SaidOnWire
    <3> QED
      BY <1>2, <1>3, <2>1, <2>4, <3>1, <3>3
  <2>8. CASE ReceiveStatus
    <3>1. stream.wire[1].event = {} /\ told' = stream.wire[1].status /\ stale' = FALSE
      BY <2>2, <2>8 DEF ReceiveStatus
    <3>2. SaidOnWire(stream.wire, status) =>
             SaidOnWire(stream'.wire, status) \/ (NoneOnWire(stream'.wire) /\ told' = status)
      <4> SUFFICES ASSUME NEW i \in DOMAIN stream.wire,
                          stream.wire[i].event = {}, stream.wire[i].status = status,
                          \A j \in DOMAIN stream.wire : i < j => stream.wire[j].event # {}
                   PROVE  SaidOnWire(stream'.wire, status) \/ (NoneOnWire(stream'.wire) /\ told' = status)
        BY DEF SaidOnWire
      <4>1. CASE i = 1
        BY <2>6, <3>1, <4>1
      <4>2. CASE i # 1
        BY <2>5, <4>2
      <4> QED
        BY <4>1, <4>2
    <3>3. ~NoneOnWire(stream.wire)
      BY <2>2, <3>1 DEF NoneOnWire
    <3> QED
      BY <1>2, <1>3, <2>1, <3>2, <3>3
  <2> QED
    BY <1>11, <2>7, <2>8
<1>12. CASE TakeBackfill
  <2>1. /\ UNCHANGED <<status, stream>> /\ told' = backfill.status
        /\ stale' = (stale \/ (told # NoStatus /\ backfill.status < told)) /\ backfill.answered
    BY <1>12 DEF TakeBackfill, server
  <2>2. backfill.status \in Nat /\ backfill.status <= status
    BY <2>1, Constants DEF FeedInv, BackfillOK, Status
  <2>3. stale \/ told = status => stale' \/ told' = status
    <3>1. CASE stale
      BY <2>1, <3>1
    <3>2. CASE told = status
      <4>1. told # NoStatus
        BY <1>1, <3>2
      <4>2. backfill.status < status \/ backfill.status = status
        BY <1>1, <2>2
      <4> QED
        BY <2>1, <3>2, <4>1, <4>2
    <3> QED
      BY <3>1, <3>2
  <2> QED
    BY <1>2, <1>3, <2>1, <2>3
<1>13. CASE Break \/ Restart \/ Reload
  <2>1. ~stream'.up /\ stream'.said = NoStatus
    BY <1>13, FaultIs, DownIs
  <2> QED
    BY <1>3, <2>1
<1> QED
  BY StepCases, <1>5, <1>6, <1>7, <1>8, <1>9, <1>10, <1>11, <1>12, <1>13

LEMMA OvertakenStep == ASSUME FeedInv, [Next]_vars PROVE OvertakenOK'
<1>1. OvertakenOK /\ last \in Nat /\ boot \in Nat /\ opened \in Nat /\ opened <= boot
      /\ Limit \in Nat /\ FeedOK /\ BackfillOK
      /\ \A e \in ToSet(feed) : e \in EventSet
  BY TypedParts, Constants DEF FeedInv
<1>2. ASSUME NEW e \in EventSet, boot = opened, Coming(e), NEW f \in ToSet(feed), e.seq < f.seq
      PROVE  e \in ToSet(feed) \/ Len(feed) = FeedCap \/ last - e.seq >= Limit
  BY <1>1, <1>2 DEF OvertakenOK
<1>3. ASSUME feed' = feed, opened' = opened, boot' = boot, last' \in Nat, last <= last'
      PROVE  OvertakenOK'
  <2> SUFFICES ASSUME boot = opened, NEW e \in EventSet, Coming(e)', NEW f \in ToSet(feed), e.seq < f.seq
               PROVE  e \in ToSet(feed) \/ Len(feed) = FeedCap \/ last' - e.seq >= Limit
    BY <1>3 DEF OvertakenOK
  <2>1. f.seq <= last /\ f.seq \in Nat /\ e.seq \in Nat
    <3>1. f.boot \in Nat /\ f.seq \in Nat
      BY <1>1, EventIs
    <3>2. opened <= f.boot /\ f.boot <= boot /\ (f.boot = boot => f.seq <= last)
      BY <1>1 DEF FeedOK
    <3> QED
      BY <1>1, <3>1, <3>2, EventIs
  <2>2. Coming(e)
    <3>1. ~(e.seq > last)
      BY <1>1, <2>1
    <3> QED
      BY <3>1, ComingStep
  <2>3. last - e.seq >= Limit => last' - e.seq >= Limit
    BY <1>1, <1>3, <2>1
  <2> QED
    BY <1>2, <2>2, <2>3
<1>4. CASE ReceiveEvent \/ TakeBackfill
  <2>1. /\ UNCHANGED <<server, opened>>
        /\ Len(feed) = FeedCap => Len(feed') = FeedCap
        /\ \A e \in ToSet(feed) : e \in ToSet(feed') \/ Len(feed') = FeedCap
    BY <1>4, ShownOf
  <2> SUFFICES ASSUME boot = opened, NEW e \in EventSet, Coming(e)', NEW f \in ToSet(feed'), e.seq < f.seq
               PROVE  e \in ToSet(feed') \/ Len(feed') = FeedCap \/ last - e.seq >= Limit
    BY <2>1 DEF OvertakenOK, server
  <2>2. Coming(e)
    <3>1. ~Connect
      <4>1. CASE ReceiveEvent
        BY <4>1, ReceiveIs, ConnectIs DEF PageStep
      <4>2. CASE TakeBackfill
        BY <4>2, ConnectIs DEF TakeBackfill
      <4> QED
        BY <1>4, <4>1, <4>2
    <3> QED
      BY <3>1, ComingStep
  <2>3. CASE f \in ToSet(feed)
    BY <1>2, <2>1, <2>2, <2>3
  <2>4. CASE ReceiveEvent /\ f \notin ToSet(feed)
    <3>1. PICK g \in EventSet : g \in stream.wire[1].event /\ Show(<<g>>)
      BY <2>4, ReceiveEventIs
    <3>2. f = g
      BY <2>4, <3>1, OneDistinct, ShowIs
    <3>3. e.seq > f.seq
      BY <2>4, <3>1, <3>2, ReceivedFirst
    <3> QED
      BY <3>1, <3>2, <3>3, EventIs
  <2>5. CASE TakeBackfill /\ f \notin ToSet(feed)
    <3>1. Show(backfill.events)
      BY <2>5 DEF TakeBackfill
    <3>2. f \in ToSet(backfill.events)
      BY <2>5, <3>1, BackfillDistinct, ShowIs
    <3>3. PICK i \in DOMAIN backfill.events : backfill.events[i] = f
      BY <3>2 DEF ToSet
    <3>4. e.boot = boot
      BY <2>2 DEF Coming
    <3>5. e \in ToSet(backfill.events) \/ last - e.seq >= Limit
      BY <1>1, <3>3, <3>4 DEF BackfillOK
    <3>6. ASSUME NEW h \in ToSet(feed), h.seq = e.seq PROVE h = e
      <4>1. h \in EventSet /\ opened <= h.boot /\ h.boot <= boot
        BY <1>1 DEF FeedOK
      <4>2. h.boot = e.boot
        BY <1>1, <3>4, <4>1, EventIs
      <4> QED
        BY <3>6, <4>1, <4>2, EventIs
    <3>7. e \in ToSet(backfill.events) =>
             e \in ToSet(feed') \/ Len(feed') = FeedCap \/ e \in ToSet(feed)
      BY <3>1, <3>6, BackfillDistinct, ShowIs
    <3> QED
      BY <2>1, <3>5, <3>7
  <2> QED
    BY <1>4, <2>3, <2>4, <2>5
<1>5. CASE Restart
  <2>1. boot' = boot + 1 /\ opened' = opened
    BY <1>5 DEF Restart
  <2>2. boot' # opened'
    BY <1>1, <2>1
  <2> QED
    BY <2>2 DEF OvertakenOK
<1>6. CASE Reload
  <2>1. ToSet(feed') = {}
    BY <1>6 DEF Reload, ToSet
  <2> QED
    BY <2>1 DEF OvertakenOK
<1>7. CASE Emit
  BY <1>1, <1>3, <1>7 DEF Emit, page
<1>8. CASE ChangeStatus
  BY <1>1, <1>3, <1>8 DEF ChangeStatus, page
<1>9. CASE Connect \/ Poll \/ Yield \/ YieldStatus \/ ReceiveStatus \/ AnswerBackfill \/ Break \/ UNCHANGED vars
  <2>1. UNCHANGED <<server, feed, opened>>
    BY <1>9 DEF Connect, Poll, Yield, YieldStatus, ReceiveStatus, AnswerBackfill, Break, vars, page
  <2> QED
    BY <1>1, <1>3, <2>1 DEF server
<1> QED
  BY StepCases, <1>4, <1>5, <1>6, <1>7, <1>8, <1>9

LEMMA FeedInvStep == ASSUME FeedInv, [Next]_vars PROVE FeedInv'
<1>1. Typed' /\ StreamOK' /\ BackfillOK' /\ FeedOK'
  BY TypedStep, StreamOKStep, BackfillStep, FeedStep
<1>2. ToastsOK' /\ OwedOK' /\ BadgesOK' /\ StatusOK' /\ OvertakenOK'
  BY ToastsStep, OwedStep, BadgesStep, StatusStep, OvertakenStep
<1> QED
  BY <1>1, <1>2 DEF FeedInv

LEMMA FeedInvCorrect == Spec => []FeedInv
  BY FeedInvInit, FeedInvStep, PTL DEF Spec

-----------------------------------------------------------------------------
(* The properties *)

LEMMA ShownOnceHolds == ASSUME FeedInv PROVE ShownOnce
<1>1. Typed /\ StreamOK /\ FeedOK /\ ToastsOK /\ OwedOK
  BY DEF FeedInv
<1>2. TypeOK
  <2>1. /\ stream.up \in BOOLEAN /\ stream.due \in BOOLEAN
        /\ stream.sent \in 0 .. MaxEvents /\ stream.said \in Status \cup {NoStatus}
        /\ stream.batch \in Events
    BY <1>1 DEF Typed
  <2>2. backfill.answered \in BOOLEAN /\ backfill.events \in Events /\ badges.seen \in 0 .. MaxEvents
    BY <1>1 DEF Typed
  <2>3. ~stream.up => stream = Down
    BY <1>1 DEF StreamOK
  <2>4. \A i \in DOMAIN stream.wire :
           \/ stream.wire[i].event = {} /\ stream.wire[i].status \in Status
           \/ \E e \in EventSet : stream.wire[i] = EventItem(e)
    BY <1>1 DEF StreamOK
  <2> QED
    BY <1>1, <2>1, <2>2, <2>3, <2>4 DEF Typed, TypeOK
<1>3. NoneLost
  <2> SUFFICES ASSUME NEW e \in owed, ThisRun(e) PROVE UnderWay(e)
    BY DEF NoneLost
  <2>1. Coming(e)
    BY <1>1 DEF OwedOK
  <2>2. ASSUME NEW i \in DOMAIN stream.wire, e \in stream.wire[i].event
        PROVE  EventItem(e) \in ToSet(stream.wire)
    <3>1. PICK g \in EventSet : stream.wire[i] = EventItem(g)
      BY <1>1, <2>2 DEF StreamOK
    <3>2. g = e
      BY <2>2, <3>1, ItemsTyped
    <3> QED
      BY <3>1, <3>2 DEF ToSet
  <2>3. ASSUME NEW i \in DOMAIN stream.batch, stream.batch[i] = e PROVE e \in ToSet(stream.batch)
    BY <2>3 DEF ToSet
  <2> QED
    BY <2>1, <2>2, <2>3 DEF Coming, UnderWay
<1> QED
  BY <1>1, <1>2, <1>3 DEF ShownOnce, FeedOK, ToastsOK

LEMMA PageFollowsHolds == ASSUME FeedInv PROVE PageFollows
<1>1. BadgesFollowFeed
  BY DEF FeedInv, BadgesOK
<1>2. StatusIsShown
  <2> SUFFICES ASSUME stream.up, stream.said = status, stream.wire = <<>>, ~stale
               PROVE  told = status
    BY DEF StatusIsShown
  <2>1. DOMAIN stream.wire = {}
    OBVIOUS
  <2> QED
    BY <2>1 DEF FeedInv, StatusOK
<1> QED
  BY <1>1, <1>2 DEF PageFollows

\* For any sizes of the ring, of an answer and of the feed, whatever breaks and whenever the
\* events so far are asked for: what the stream owes the page (main.py:1094) is on its way
\* to it, no two rows of the feed have one number, and no event has a second toast
\* (stores/liveReview.ts:44).
THEOREM NothingIsShownTwice == Spec => []ShownOnce
  BY ShownOnceHolds, FeedInvCorrect, PTL

\* The badges have been asked for since the events of the feed were emitted
\* (stores/reviewStatus.ts:57), and the status shown is the watcher's when nothing is under
\* way.
THEOREM PageKeepsUp == Spec => []PageFollows
  BY PageFollowsHolds, FeedInvCorrect, PTL

LEMMA NoToastStep ==
    ASSUME FeedInv, [Next]_vars, NEW e \in EventSet,
           stream.wire # <<>>, stream'.up, stream'.wire = Tail(stream.wire),
           Head(stream.wire).event = {e}, ThisRun(e), e \notin ToSet(toasts')
    PROVE  \/ e \in ToSet(feed)
           \/ Len(feed) = FeedCap
           \/ last - e.seq >= Limit
<1>1. stream.wire \in Seq(Item) /\ 1 \in DOMAIN stream.wire /\ Head(stream.wire) = stream.wire[1]
      /\ Len(Tail(stream.wire)) = Len(stream.wire) - 1 /\ Len(stream.wire) \in Nat
  BY StreamParts, TailIs
<1>2. stream'.wire # stream.wire
  <2> SUFFICES ASSUME Tail(stream.wire) = stream.wire PROVE FALSE
    OBVIOUS
  <2>1. Len(stream.wire) = Len(stream.wire) - 1
    BY <1>1
  <2> QED
    BY <1>1, <2>1
<1>3. ASSUME NEW x \in Item, stream'.wire = Append(stream.wire, x) PROVE FALSE
  <2>1. Len(Append(stream.wire, x)) = Len(stream.wire) + 1
    BY <1>1
  <2>2. Len(stream.wire) + 1 = Len(stream.wire) - 1
    BY <1>1, <1>3, <2>1
  <2> QED
    BY <1>1, <2>2
<1>4. CASE ReceiveEvent
  <2>1. PICK g \in EventSet :
           /\ g \in stream.wire[1].event /\ Coming(g) /\ g.boot = boot
           /\ toasts' = IF IsNew(g) THEN Append(toasts, g) ELSE toasts
    BY <1>4, ReceiveEventIs
  <2>2. g = e
    BY <1>1, <2>1
  <2>3. ~IsNew(e)
    <3> SUFFICES ASSUME toasts' = Append(toasts, e) PROVE FALSE
      BY <2>1, <2>2
    <3>1. toasts \in Seq(EventSet)
      BY TypedParts DEF FeedInv
    <3>2. Len(toasts) + 1 \in DOMAIN toasts' /\ toasts'[Len(toasts) + 1] = e
      BY <3>1, AppendIs
    <3> QED
      BY <3>2 DEF ToSet
  <2>4. feed # <<>> /\ ~(e.seq > Last(feed).seq)
    BY <2>3 DEF IsNew
  <2>5. feed \in Seq(EventSet) /\ opened \in Nat /\ boot \in Nat
    BY TypedParts DEF FeedInv
  <2>6. Len(feed) \in DOMAIN feed
    BY <2>4, <2>5
  <2> DEFINE f == Last(feed)
  <2>7. f \in ToSet(feed) /\ f \in EventSet
    BY <2>5, <2>6 DEF Last, ToSet
  <2> HIDE DEF f
  <2>8. e.seq = f.seq \/ e.seq < f.seq
    BY <2>4, <2>7, EventIs DEF f
  <2>9. boot = opened
    BY <2>1, <2>2 DEF ThisRun
  <2>10. CASE e.seq = f.seq
    <3>1. opened <= f.boot /\ f.boot <= boot
      BY <2>7 DEF FeedInv, FeedOK
    <3>2. f.boot = e.boot
      BY <2>1, <2>2, <2>5, <2>7, <2>9, <3>1, EventIs
    <3>3. f = e
      BY <2>7, <2>10, <3>2, EventIs
    <3> QED
      BY <2>7, <3>3
  <2>11. CASE e.seq < f.seq
    BY <2>1, <2>2, <2>7, <2>9, <2>11 DEF FeedInv, OvertakenOK
  <2> QED
    BY <2>8, <2>10, <2>11
<1>5. CASE ReceiveStatus
  BY <1>5 DEF ReceiveStatus
<1>6. CASE Connect
  <2>1. stream = Down
    BY <1>6 DEF Connect, FeedInv, StreamOK
  <2> QED
    BY <2>1, DownIs
<1>7. CASE Poll
  BY <1>2, <1>7, PollIs
<1>8. CASE Yield
  <2>1. EventItem(stream.batch[1]) \in Item /\ stream'.wire = Append(stream.wire, EventItem(stream.batch[1]))
    BY <1>8, YieldIs, ItemsTyped
  <2> QED
    BY <1>3, <2>1
<1>9. CASE YieldStatus
  <2>1. StatusItem(status) \in Item
        /\ (stream'.wire = stream.wire \/ stream'.wire = Append(stream.wire, StatusItem(status)))
    BY <1>9, YieldStatusIs, ItemsTyped
  <2> QED
    BY <1>2, <1>3, <2>1
<1>10. CASE Break \/ Restart \/ Reload
  BY <1>10, FaultIs, DownIs
<1>11. CASE Emit \/ ChangeStatus \/ AnswerBackfill \/ TakeBackfill \/ UNCHANGED vars
  BY <1>2, <1>11 DEF Emit, ChangeStatus, AnswerBackfill, TakeBackfill, vars
<1> QED
  BY StepCases, <1>4, <1>5, <1>6, <1>7, <1>8, <1>9, <1>10, <1>11

\* An event that the stream brings is left without a toast only if the page has it, or its
\* feed is full, or as many later ones have been emitted as an answer holds
\* (stores/liveReview.ts:47).
THEOREM MissingToastsAreExplained == Spec => NoToastIsExplained
<1>1. ASSUME FeedInv, [Next]_vars
      PROVE  [\A e \in EventSet :
                /\ stream.wire # <<>> /\ stream'.up /\ stream'.wire = Tail(stream.wire)
                /\ Head(stream.wire).event = {e} /\ ThisRun(e) /\ e \notin ToSet(toasts')
                => \/ e \in ToSet(feed)
                   \/ Len(feed) = FeedCap
                   \/ last - e.seq >= Limit]_vars
  BY <1>1, NoToastStep
<1> QED
  BY <1>1, FeedInvCorrect, PTL DEF Spec, NoToastIsExplained
=============================================================================
