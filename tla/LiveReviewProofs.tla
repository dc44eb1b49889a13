--------------------------- MODULE LiveReviewProofs ---------------------------
(***************************************************************************)
(* Proofs about LiveReview for any set of PRs, repositories and requests,  *)
(* any finite pool of task identities and any bound on events and faults.  *)
(***************************************************************************)
EXTENDS LiveReview, FiniteSetTheorems, SequenceTheorems, TLAPS

-----------------------------------------------------------------------------
(* Seconds                                                                  *)

LEMMA SecondIs ==
    ASSUME NEW t \in Nat
    PROVE  Second(t) \in Nat /\ Second(t) <= t
BY BoundAssumption DEF Second

\* Of two times, the later is in a second that began after the other, or in the same.
LEMMA SameSecond ==
    ASSUME NEW x \in Nat, NEW y \in Nat, x <= y
    PROVE  Second(y) > x \/ Second(y) = Second(x)
<1> SUFFICES ASSUME Second(y) <= x PROVE Second(y) = Second(x)
  BY SecondIs
<1> DEFINE p == x \div Tick
           q == y \div Tick
<1>1. /\ p \in Nat /\ x = Tick * p + (x % Tick) /\ x % Tick \in 0 .. Tick - 1
      /\ q \in Nat /\ y = Tick * q + (y % Tick) /\ y % Tick \in 0 .. Tick - 1
  BY BoundAssumption
<1>2. Second(x) = Tick * p /\ Second(y) = Tick * q /\ Tick * p \in Nat /\ Tick * q \in Nat
  BY <1>1, BoundAssumption DEF Second
<1> HIDE DEF p, q
<1>3. ASSUME NEW a \in Nat, NEW b \in Nat, a < b PROVE Tick * a + Tick <= Tick * b
  <2>1. PICK d \in Nat : b = a + 1 + d
    <3>1. b = a + 1 + (b - a - 1) /\ b - a - 1 \in Nat
      BY <1>3
    <3> QED
      BY <3>1
  <2>2. Tick * b = Tick * a + Tick + Tick * d /\ Tick * d \in Nat
    BY <2>1, BoundAssumption
  <2> QED
    BY <2>2, BoundAssumption
<1>4. ~(p < q)
  BY <1>1, <1>2, <1>3, BoundAssumption
<1>5. ~(q < p)
  <2> SUFFICES ASSUME q < p PROVE FALSE
    OBVIOUS
  <2>1. Tick * q + Tick <= Tick * p
    BY <1>1, <1>3
  <2> QED
    BY <2>1, <1>1, <1>2, BoundAssumption
<1> QED
  BY <1>1, <1>2, <1>4, <1>5

-----------------------------------------------------------------------------
(* Types, and the queue of the semaphore.  The two are inductive together:  *)
(* the task at the head of the queue has a PR because it is queued.         *)

\* A task is in the semaphore's queue exactly while it waits for it, once.
WaitersAreQueued ==
    /\ \A t \in Task : pc[t] = "queued" <=> \E i \in 1 .. Len(waiters) : waiters[i] = t
    /\ \A i, j \in 1 .. Len(waiters) : waiters[i] = waiters[j] => i = j

QueueInv == TypeOK /\ WaitersAreQueued

LEMMA QueueInit == Init => QueueInv
BY RepoOfAssumption, BoundAssumption
   DEF Init, QueueInv, TypeOK, SharedTypeOK, PollTypeOK, RunTypeOK, WaitersAreQueued,
       Live, Review, NoReview, Run, Sha, PCs, Polls

\* What the watcher's loop does to its own variables is well typed.
LEMMA ContinueType ==
    ASSUME PollTypeOK, NEW rest \in SUBSET listed, NEW repos, Continue(rest, repos),
           todo' \subseteq Repo
    PROVE  PollTypeOK'
BY DEF PollTypeOK, Continue, Review, NoReview, Polls

\* Launch adds one task to the queue, or does nothing.
LEMMA LaunchQueue ==
    ASSUME RunTypeOK, WaitersAreQueued, NEW p \in PR, Launch(p)
    PROVE  RunTypeOK' /\ WaitersAreQueued'
<1>1. CASE p \in inFlight
  BY <1>1 DEF Launch, RunTypeOK, WaitersAreQueued, Live, taskVars, runVars
<1>2. CASE p \notin inFlight
  <2>1. PICK t \in Task :
           /\ pc[t] = "free" /\ pc' = [pc EXCEPT ![t] = "queued"]
           /\ target' = [target EXCEPT ![t] = p]
           /\ waiters' = Append(waiters, t)
           /\ inFlight' = inFlight \cup {p}
           /\ UNCHANGED <<permits, diffOf, headOf>>
    BY <1>2 DEF Launch
  <2>2. RunTypeOK'
    BY <2>1 DEF RunTypeOK, Live, PCs, Run
  <2>3. /\ Len(waiters') = Len(waiters) + 1
        /\ waiters'[Len(waiters) + 1] = t
        /\ \A i \in 1 .. Len(waiters) : waiters'[i] = waiters[i]
    BY <2>1 DEF RunTypeOK
  <2>4. \A i \in 1 .. Len(waiters) : waiters[i] # t
    BY <2>1 DEF WaitersAreQueued, RunTypeOK
  <2>5. \A u \in Task :
           pc'[u] = "queued" <=> \E i \in 1 .. Len(waiters) + 1 : waiters'[i] = u
    <3> SUFFICES ASSUME NEW u \in Task
                 PROVE  pc'[u] = "queued"
                           <=> \E i \in 1 .. Len(waiters) + 1 : waiters'[i] = u
      OBVIOUS
    <3>1. CASE u = t
      BY <3>1, <2>1, <2>3 DEF RunTypeOK, Run
    <3>2. CASE u # t
      <4>1. pc'[u] = pc[u]
        BY <3>2, <2>1 DEF RunTypeOK, Run
      <4>2. (\E i \in 1 .. Len(waiters) + 1 : waiters'[i] = u)
               <=> (\E i \in 1 .. Len(waiters) : waiters[i] = u)
        <5>1. Len(waiters) \in Nat
          BY DEF RunTypeOK
        <5>2. ASSUME NEW i \in 1 .. Len(waiters) + 1, waiters'[i] = u
              PROVE  i \in 1 .. Len(waiters) /\ waiters[i] = u
          BY <5>1, <5>2, <3>2, <2>3
        <5>3. ASSUME NEW i \in 1 .. Len(waiters), waiters[i] = u
              PROVE  i \in 1 .. Len(waiters) + 1 /\ waiters'[i] = u
          BY <5>1, <5>3, <2>3
        <5> QED
          BY <5>2, <5>3
      <4> QED
        BY <4>1, <4>2 DEF WaitersAreQueued
    <3> QED
      BY <3>1, <3>2
  <2>6. WaitersAreQueued'
    <3>1. Len(waiters) \in Nat
      BY DEF RunTypeOK
    <3>2. ASSUME NEW i \in 1 .. Len(waiters'), NEW j \in 1 .. Len(waiters'),
                 waiters'[i] = waiters'[j]
          PROVE  i = j
      BY <3>1, <3>2, <2>3, <2>4 DEF WaitersAreQueued
    <3> QED
      BY <2>3, <2>5, <3>2 DEF WaitersAreQueued
  <2> QED
    BY <2>2, <2>6
<1> QED
  BY <1>1, <1>2

LEMMA QueueStep == QueueInv /\ [Next]_vars => QueueInv'
<1> SUFFICES ASSUME QueueInv, [Next]_vars PROVE QueueInv'
  OBVIOUS
<1> USE DEF QueueInv, TypeOK
<1>a. ASSUME UNCHANGED runVars, UNCHANGED taskVars PROVE RunTypeOK' /\ WaitersAreQueued'
  BY <1>a DEF RunTypeOK, WaitersAreQueued, Live, taskVars, runVars
<1>b. ASSUME UNCHANGED pollVars PROVE PollTypeOK'
  BY <1>b DEF PollTypeOK, pollVars
<1>c. ASSUME UNCHANGED <<githubVars, registered, cache>>, faults' = faults \/ Fault
      PROVE SharedTypeOK'
  BY <1>c DEF SharedTypeOK, githubVars, Fault
<1>1. ASSUME NEW p \in PR, Push(p) \/ Comment(p) \/ ChangeStatus(p) PROVE QueueInv'
  <2>1. SharedTypeOK'
    <3>1. Second(clock + 1) \in Nat
      BY SecondIs DEF SharedTypeOK
    <3> QED
      BY <1>1, <3>1 DEF SharedTypeOK, Push, Comment, ChangeStatus, Touch, Sha
  <2> QED
    BY <1>1, <2>1, <1>a, <1>b DEF Push, Comment, ChangeStatus, Touch
<1>2. ASSUME NEW p \in PR, ClearCache(p) PROVE QueueInv'
  <2>1. SharedTypeOK'
    BY <1>2 DEF SharedTypeOK, ClearCache, Review, NoReview, githubVars
  <2> QED
    BY <1>2, <2>1, <1>a, <1>b DEF ClearCache
<1>3. ASSUME NEW r \in Repo, ToggleRepo(r) PROVE QueueInv'
  <2>1. SharedTypeOK'
    BY <1>3 DEF SharedTypeOK, ToggleRepo, githubVars
  <2> QED
    BY <1>3, <2>1, <1>a, <1>b DEF ToggleRepo
<1>4. CASE StartWatcher \/ StopWatcher \/ Wake \/ BeginCycle
  <2>1. PollTypeOK'
    BY <1>4 DEF PollTypeOK, SharedTypeOK, StartWatcher, StopWatcher, Wake, BeginCycle,
                Review, NoReview, Polls
  <2> QED
    BY <1>4, <2>1, <1>a, <1>c DEF StartWatcher, StopWatcher, Wake, BeginCycle
<1>5. ASSUME NEW r \in Repo, ListPRs(r) PROVE QueueInv'
  <2> DEFINE prs == {[pr |-> p, draft |-> status[p] = "draft", updated |-> updated[p]] :
                       p \in {q \in PR : RepoOf[q] = r /\ status[q] # "closed"}}
  <2>1. prs \subseteq Snapshot
    <3> SUFFICES ASSUME NEW p \in PR
                 PROVE  [pr |-> p, draft |-> status[p] = "draft", updated |-> updated[p]]
                           \in Snapshot
      OBVIOUS
    <3>1. updated[p] \in Nat /\ (status[p] = "draft") \in BOOLEAN
      BY DEF SharedTypeOK
    <3> QED
      BY <3>1 DEF Snapshot
  <2>2. todo' \subseteq Repo
    BY <1>5 DEF ListPRs, PollTypeOK
  <2>3. ASSUME poll' = "listed", listed' = prs, UNCHANGED <<current, seen>>
        PROVE  PollTypeOK'
    <3> HIDE DEF prs
    <3> QED
      BY <2>1, <2>2, <2>3 DEF PollTypeOK, Polls
  <2>4. ASSUME Continue({}, todo \ {r}) PROVE PollTypeOK'
    BY <2>4, <2>2 DEF PollTypeOK, Continue, Review, NoReview, Polls
  <2>5. PollTypeOK'
    BY <1>5, <2>3, <2>4 DEF ListPRs
  <2> QED
    BY <1>5, <2>5, <1>a, <1>c DEF ListPRs
<1>6. ASSUME NEW e \in listed, Skip(e) PROVE QueueInv'
  <2>1. PollTypeOK'
    BY <1>6, ContinueType DEF Skip, PollTypeOK
  <2> QED
    BY <1>6, <2>1, <1>a, <1>c DEF Skip
<1>7. ASSUME NEW e \in listed, LaunchNew(e) PROVE QueueInv'
  <2>1. PollTypeOK' /\ e.pr \in PR
    BY <1>7, ContinueType DEF LaunchNew, PollTypeOK, Snapshot
  <2> QED
    BY <1>7, <2>1, <1>c, LaunchQueue DEF LaunchNew
<1>8. CASE LaunchUpdated
  <2>1. PollTypeOK' /\ current \in PR
    BY <1>8, ContinueType DEF LaunchUpdated, PollTypeOK
  <2> QED
    BY <1>8, <2>1, <1>c, LaunchQueue DEF LaunchUpdated
<1>9. ASSUME NEW e \in listed, BeginLookup(e) PROVE QueueInv'
  <2>1. PollTypeOK'
    BY <1>9 DEF BeginLookup, PollTypeOK, SharedTypeOK, Snapshot, Polls
  <2> QED
    BY <1>9, <2>1, <1>a, <1>c DEF BeginLookup
<1>10. CASE LookupSkips
  <2>1. PollTypeOK'
    BY <1>10, ContinueType DEF LookupSkips, PollTypeOK
  <2> QED
    BY <1>10, <2>1, <1>a, <1>c DEF LookupSkips
<1>11. CASE LookupFinds
  <2>1. PollTypeOK'
    BY <1>11 DEF LookupFinds, PollTypeOK, Polls
  <2> QED
    BY <1>11, <2>1, <1>a, <1>c DEF LookupFinds
<1>12. ASSUME NEW t \in Task, Acquire(t) PROVE QueueInv'
  <2>1. /\ waiters # <<>> /\ waiters[1] = t /\ 1 \in 1 .. Len(waiters)
        /\ waiters' = Tail(waiters)
    BY <1>12 DEF Acquire, RunTypeOK
  <2>2. pc[t] = "queued" /\ target[t] \in PR
    BY <2>1 DEF WaitersAreQueued, RunTypeOK, Live, Run
  <2>3. RunTypeOK'
    <3>1. head[target[t]] \in Nat
      BY <2>2 DEF SharedTypeOK, Sha
    <3>2. waiters' \in Seq(Task)
      BY <2>1, HeadTailProperties DEF RunTypeOK
    <3>3. /\ UNCHANGED <<inFlight, target, headOf>> /\ permits' \in Nat
          /\ \/ pc' = [pc EXCEPT ![t] = "diffed"]
                /\ diffOf' = [diffOf EXCEPT ![t] = head[target[t]]]
             \/ pc' = [pc EXCEPT ![t] = "done"] /\ UNCHANGED diffOf
      BY <1>12 DEF Acquire, RunTypeOK
    <3> QED
      BY <2>2, <3>1, <3>2, <3>3 DEF RunTypeOK, Live, PCs, Run
  <2>4. /\ Len(waiters') = Len(waiters) - 1
        /\ \A i \in 1 .. Len(waiters) - 1 : waiters'[i] = waiters[i + 1]
    BY <2>1 DEF RunTypeOK
  <2>5. \A u \in Task : pc'[u] = "queued" <=> (u # t /\ pc[u] = "queued")
    BY <1>12 DEF Acquire, RunTypeOK, Run
  <2>6. \A u \in Task : (\E i \in 1 .. Len(waiters) - 1 : waiters'[i] = u)
                           <=> (u # t /\ \E i \in 1 .. Len(waiters) : waiters[i] = u)
    <3> SUFFICES ASSUME NEW u \in Task
                 PROVE  (\E i \in 1 .. Len(waiters) - 1 : waiters'[i] = u)
                           <=> (u # t /\ \E i \in 1 .. Len(waiters) : waiters[i] = u)
      OBVIOUS
    <3>1. ASSUME NEW i \in 1 .. Len(waiters) - 1, waiters'[i] = u
          PROVE  u # t /\ waiters[i + 1] = u /\ i + 1 \in 1 .. Len(waiters)
      BY <3>1, <2>1, <2>4 DEF WaitersAreQueued, RunTypeOK
    <3>2. ASSUME u # t, NEW i \in 1 .. Len(waiters), waiters[i] = u
          PROVE  i - 1 \in 1 .. Len(waiters) - 1 /\ waiters'[i - 1] = u
      BY <3>2, <2>1, <2>4 DEF RunTypeOK
    <3> QED
      BY <3>1, <3>2
  <2>7. WaitersAreQueued'
    <3>1. Len(waiters) \in Nat
      BY DEF RunTypeOK
    <3>2. ASSUME NEW i \in 1 .. Len(waiters'), NEW j \in 1 .. Len(waiters'),
                 waiters'[i] = waiters'[j]
          PROVE  i = j
      <4>1. i + 1 \in 1 .. Len(waiters) /\ j + 1 \in 1 .. Len(waiters)
        BY <3>1, <2>4
      <4>2. waiters[i + 1] = waiters[j + 1]
        BY <3>1, <3>2, <2>4
      <4>3. i + 1 = j + 1
        BY <4>1, <4>2 DEF WaitersAreQueued
      <4> QED
        BY <4>3
    <3>3. \A u \in Task : pc'[u] = "queued" <=> \E i \in 1 .. Len(waiters') : waiters'[i] = u
      BY <2>4, <2>5, <2>6 DEF WaitersAreQueued
    <3> QED
      BY <3>2, <3>3 DEF WaitersAreQueued
  <2> QED
    BY <1>12, <2>3, <2>7, <1>b, <1>c DEF Acquire
<1>13. ASSUME NEW r \in Run, FetchHead(r) PROVE QueueInv'
  <2>0. /\ pc' = [pc EXCEPT ![r] = "reviewing"] /\ pc[r] = "diffed"
        /\ UNCHANGED <<taskVars, target, diffOf>>
        /\ \E h \in Nat : headOf' = [headOf EXCEPT ![r] = h]
    <3>1. pc[r] = "diffed" => head[target[r]] \in Nat
      BY DEF RunTypeOK, SharedTypeOK, Live, Sha
    <3> QED
      BY <1>13, <3>1 DEF FetchHead
  <2>1. RunTypeOK'
    BY <2>0 DEF RunTypeOK, Live, PCs, taskVars
  <2>2. WaitersAreQueued'
    BY <1>13 DEF FetchHead, RunTypeOK, WaitersAreQueued, Run, taskVars
  <2> QED
    BY <1>13, <2>1, <2>2, <1>b, <1>c DEF FetchHead
<1>14. ASSUME NEW r \in Run, pc[r] = "reviewing", End(r)
       PROVE  RunTypeOK' /\ WaitersAreQueued'
  <2>1. RunTypeOK'
    BY <1>14 DEF End, RunTypeOK, Live, PCs
  <2>2. WaitersAreQueued'
    BY <1>14 DEF End, RunTypeOK, WaitersAreQueued, Run
  <2> QED
    BY <2>1, <2>2
<1>15. ASSUME NEW r \in Run, Save(r) PROVE QueueInv'
  <2>1. ReviewOf(r) \in Review
    BY DEF ReviewOf, Review, RunTypeOK, SharedTypeOK
  <2>2. SharedTypeOK'
    BY <1>15, <2>1 DEF Save, SharedTypeOK, githubVars
  <2> QED
    BY <1>15, <2>2, <1>14, <1>b DEF Save
<1>16. ASSUME NEW r \in Run, Fail(r) PROVE QueueInv'
  BY <1>16, <1>14, <1>b, <1>c DEF Fail
<1>17. ASSUME NEW c \in Client, Disconnect(c) PROVE QueueInv'
  BY <1>17, <1>14, <1>b, <1>c DEF Disconnect, Run
<1>18. ASSUME NEW t \in Task, TaskDone(t) PROVE QueueInv'
  <2>1. RunTypeOK'
    BY <1>18 DEF TaskDone, RunTypeOK, Live, PCs
  <2>2. WaitersAreQueued'
    BY <1>18 DEF TaskDone, RunTypeOK, WaitersAreQueued, Run
  <2> QED
    BY <1>18, <2>1, <2>2, <1>b, <1>c DEF TaskDone
<1>19. ASSUME NEW c \in Client, NEW p \in PR, ClientReview(c, p) \/ ClientIncremental(c, p)
       PROVE  QueueInv'
  <2>1. RunTypeOK'
    <3>1. head[p] \in Nat
      BY DEF SharedTypeOK, Sha
    <3> QED
      BY <1>19, <3>1 DEF ClientReview, ClientIncremental, RunTypeOK, Live, PCs, Run, taskVars
  <2>2. WaitersAreQueued'
    BY <1>19, TaskAssumption
       DEF ClientReview, ClientIncremental, RunTypeOK, WaitersAreQueued, Run, taskVars
  <2> QED
    BY <1>19, <2>1, <2>2, <1>b, <1>c DEF ClientReview, ClientIncremental
<1>20. CASE UNCHANGED vars
  BY <1>20, <1>a, <1>b, <1>c DEF vars
<1>21. CASE Tock
  <2>1. SharedTypeOK'
    BY <1>21 DEF Tock, SharedTypeOK
  <2> QED
    BY <1>21, <2>1, <1>a, <1>b DEF Tock
<1> QED
  BY <1>21, <1>1, <1>2, <1>3, <1>4, <1>5, <1>6, <1>7, <1>8, <1>9, <1>10, <1>11, <1>12, <1>13,
     <1>15, <1>16, <1>17, <1>18, <1>19, <1>20
     DEF Next, Environment, PollStep, TaskStep, RunStep, ClientStep, Run

\* Every reachable state is well typed and the semaphore's queue holds exactly
\* the tasks that wait for it.
THEOREM QueueCorrect == Spec => [](TypeOK /\ WaitersAreQueued)
<1>1. Spec => []QueueInv
  BY QueueInit, QueueStep, PTL DEF Spec
<1> QED
  BY <1>1, PTL DEF QueueInv

-----------------------------------------------------------------------------
(* The registry of review tasks                                             *)

\* The registry only depends on which tasks are alive and for which PR.
LEMMA RegistryFrame ==
    ASSUME RegistryInv, inFlight' = inFlight,
           \A t \in Task : (Live(t)' <=> Live(t)) /\ (Live(t) => target'[t] = target[t])
    PROVE  RegistryInv'
BY DEF RegistryInv, RegistryIsExact, OneTaskPerPR

LEMMA LaunchRegistry ==
    ASSUME RegistryInv, RunTypeOK, NEW p \in PR, Launch(p)
    PROVE  RegistryInv'
<1>1. CASE p \in inFlight
  BY <1>1, RegistryFrame DEF Launch, Live, taskVars, runVars
<1>2. CASE p \notin inFlight
  <2>1. PICK t \in Task :
           /\ pc[t] = "free" /\ pc' = [pc EXCEPT ![t] = "queued"]
           /\ target' = [target EXCEPT ![t] = p]
           /\ inFlight' = inFlight \cup {p}
    BY <1>2 DEF Launch
  <2>2. Live(t)' /\ ~Live(t) /\ target'[t] = p
    BY <2>1 DEF Live, RunTypeOK, Run
  <2>3. \A u \in Task \ {t} : (Live(u)' <=> Live(u)) /\ target'[u] = target[u]
    BY <2>1 DEF Live, RunTypeOK, Run
  <2>4. \A u \in Task : Live(u) => target[u] # p
    BY <1>2 DEF RegistryInv, RegistryIsExact
  <2> QED
    BY <2>1, <2>2, <2>3, <2>4 DEF RegistryInv, RegistryIsExact, OneTaskPerPR
<1> QED
  BY <1>1, <1>2

LEMMA RegistryStep == QueueInv /\ RegistryInv /\ [Next]_vars => RegistryInv'
<1> SUFFICES ASSUME QueueInv, RegistryInv, [Next]_vars PROVE RegistryInv'
  OBVIOUS
<1> USE DEF QueueInv, TypeOK
<1>a. ASSUME UNCHANGED runVars, UNCHANGED taskVars PROVE RegistryInv'
  BY <1>a, RegistryFrame DEF Live, runVars, taskVars
<1>1. CASE Environment
  BY <1>1, <1>a DEF Environment, Tock, Push, Comment, ChangeStatus, Touch, ClearCache, ToggleRepo
<1>2. CASE StartWatcher \/ StopWatcher
  BY <1>2, <1>a DEF StartWatcher, StopWatcher
<1>3. CASE PollStep
  <2>1. ASSUME NEW e \in listed, LaunchNew(e) PROVE RegistryInv'
    BY <2>1, LaunchRegistry DEF LaunchNew, PollTypeOK, Snapshot
  <2>2. CASE LaunchUpdated
    BY <2>2, LaunchRegistry DEF LaunchUpdated, PollTypeOK
  <2> QED
    BY <1>3, <1>a, <2>1, <2>2
       DEF PollStep, BeginCycle, LookupSkips, LookupFinds, Wake, ListPRs, Skip, BeginLookup
<1>4. ASSUME NEW t \in Task, Acquire(t) PROVE RegistryInv'
  <2>1. pc[t] = "queued"
    BY <1>4 DEF Acquire, WaitersAreQueued, RunTypeOK
  <2>2. inFlight' = inFlight /\ target' = target
    BY <1>4 DEF Acquire
  <2>3. \A u \in Task : Live(u)' <=> Live(u)
    BY <1>4, <2>1 DEF Acquire, Live, RunTypeOK, Run
  <2> QED
    BY <2>2, <2>3, RegistryFrame
<1>5. ASSUME NEW r \in Run, FetchHead(r) PROVE RegistryInv'
  <2>1. inFlight' = inFlight /\ target' = target
    BY <1>5 DEF FetchHead, taskVars
  <2>2. \A u \in Task : Live(u)' <=> Live(u)
    BY <1>5 DEF FetchHead, Live, RunTypeOK, Run
  <2> QED
    BY <2>1, <2>2, RegistryFrame
<1>6. ASSUME NEW r \in Run, pc[r] = "reviewing", End(r) PROVE RegistryInv'
  <2>1. inFlight' = inFlight
    BY <1>6 DEF End
  <2>2. \A u \in Task : (Live(u)' <=> Live(u)) /\ target'[u] = target[u]
    BY <1>6 DEF End, Live, RunTypeOK, Run
  <2> QED
    BY <2>1, <2>2, RegistryFrame
<1>7. ASSUME NEW t \in Task, TaskDone(t) PROVE RegistryInv'
  <2>1. /\ Live(t) /\ ~Live(t)' /\ inFlight' = inFlight \ {target[t]}
        /\ \A u \in Task \ {t} : (Live(u)' <=> Live(u)) /\ target'[u] = target[u]
    BY <1>7 DEF TaskDone, Live, RunTypeOK, Run
  <2>2. \A u \in Task \ {t} : Live(u) => target[u] # target[t]
    BY <2>1 DEF RegistryInv, OneTaskPerPR
  <2> QED
    BY <2>1, <2>2 DEF RegistryInv, RegistryIsExact, OneTaskPerPR
<1>8. ASSUME NEW c \in Client, NEW p \in PR, ClientReview(c, p) \/ ClientIncremental(c, p)
      PROVE  RegistryInv'
  <2>1. inFlight' = inFlight
    BY <1>8 DEF ClientReview, ClientIncremental, taskVars
  <2>2. \A u \in Task : (Live(u)' <=> Live(u)) /\ target'[u] = target[u]
    BY <1>8, TaskAssumption DEF ClientReview, ClientIncremental, Live, RunTypeOK, Run
  <2> QED
    BY <2>1, <2>2, RegistryFrame
<1>9. CASE UNCHANGED vars
  BY <1>9, <1>a DEF vars
<1> QED
  BY <1>1, <1>2, <1>3, <1>4, <1>5, <1>6, <1>7, <1>8, <1>9
     DEF Next, TaskStep, RunStep, ClientStep, Run, Save, Fail, Disconnect

\* A PR's key is registered exactly while a task for it is alive, and no two
\* watcher tasks ever review the same PR at once.
THEOREM RegistryCorrect == Spec => []RegistryInv
<1>1. Init => RegistryInv
  BY DEF Init, RegistryInv, RegistryIsExact, OneTaskPerPR, Live, Run
<1> QED
  BY <1>1, QueueInit, QueueStep, RegistryStep, PTL DEF Spec

-----------------------------------------------------------------------------
(* The semaphore                                                            *)

LEMMA HoldersFinite == IsFiniteSet(Holders) /\ Cardinality(Holders) \in Nat
BY TaskAssumption, FS_Subset, FS_CardinalityType DEF Holders

LEMMA PermitsFrame ==
    ASSUME PermitsAccountForRuns, permits' = permits,
           \A t \in Task : Holding(t)' <=> Holding(t)
    PROVE  PermitsAccountForRuns'
<1>1. Holders' = Holders
  BY DEF Holders
<1> QED
  BY <1>1 DEF PermitsAccountForRuns

LEMMA PermitsStep == QueueInv /\ PermitsAccountForRuns /\ [Next]_vars => PermitsAccountForRuns'
<1> SUFFICES ASSUME QueueInv, PermitsAccountForRuns, [Next]_vars PROVE PermitsAccountForRuns'
  OBVIOUS
<1> USE DEF QueueInv, TypeOK
<1>a. ASSUME UNCHANGED runVars, UNCHANGED taskVars PROVE PermitsAccountForRuns'
  BY <1>a, PermitsFrame DEF Holding, runVars, taskVars
<1>1. CASE Environment \/ StartWatcher \/ StopWatcher
  BY <1>1, <1>a DEF Environment, Tock, Push, Comment, ChangeStatus, Touch, ClearCache, ToggleRepo,
                    StartWatcher, StopWatcher
<1>2. ASSUME NEW p \in PR, Launch(p) PROVE PermitsAccountForRuns'
  <2>1. CASE p \in inFlight
    BY <1>2, <2>1, <1>a DEF Launch
  <2>2. CASE p \notin inFlight
    <3>1. permits' = permits /\ \E t \in Task : pc[t] = "free" /\ pc' = [pc EXCEPT ![t] = "queued"]
      BY <1>2, <2>2 DEF Launch
    <3>2. \A t \in Task : Holding(t)' <=> Holding(t)
      BY <3>1 DEF Holding, RunTypeOK, Run
    <3> QED
      BY <3>1, <3>2, PermitsFrame
  <2> QED
    BY <2>1, <2>2
<1>3. CASE PollStep
  <2>1. ASSUME NEW e \in listed, LaunchNew(e) PROVE PermitsAccountForRuns'
    BY <2>1, <1>2 DEF LaunchNew, PollTypeOK, Snapshot
  <2>2. CASE LaunchUpdated
    BY <2>2, <1>2 DEF LaunchUpdated, PollTypeOK
  <2> QED
    BY <1>3, <1>a, <2>1, <2>2
       DEF PollStep, BeginCycle, LookupSkips, LookupFinds, Wake, ListPRs, Skip, BeginLookup
<1>4. ASSUME NEW t \in Task, Acquire(t) PROVE PermitsAccountForRuns'
  <2>1. pc[t] = "queued"
    BY <1>4 DEF Acquire, WaitersAreQueued, RunTypeOK
  <2>2. CASE permits' = permits - 1 /\ pc' = [pc EXCEPT ![t] = "diffed"]
    <3>1. Holders' = Holders \cup {t} /\ t \notin Holders
      BY <2>1, <2>2 DEF Holders, Holding, RunTypeOK, Run
    <3>2. Cardinality(Holders') = Cardinality(Holders) + 1
      BY <3>1, HoldersFinite, FS_AddElement
    <3> QED
      BY <2>2, <3>2, HoldersFinite DEF PermitsAccountForRuns, RunTypeOK
  <2>3. CASE permits' = permits /\ pc' = [pc EXCEPT ![t] = "done"]
    <3>1. \A u \in Task : Holding(u)' <=> Holding(u)
      BY <2>1, <2>3 DEF Holding, RunTypeOK, Run
    <3> QED
      BY <2>3, <3>1, PermitsFrame
  <2> QED
    BY <1>4, <2>2, <2>3 DEF Acquire
<1>5. ASSUME NEW r \in Run, FetchHead(r) PROVE PermitsAccountForRuns'
  <2>1. \A u \in Task : Holding(u)' <=> Holding(u)
    BY <1>5 DEF FetchHead, Holding, RunTypeOK, Run
  <2> QED
    BY <1>5, <2>1, PermitsFrame DEF FetchHead, taskVars
<1>6. ASSUME NEW r \in Run, pc[r] = "reviewing", End(r) PROVE PermitsAccountForRuns'
  <2>1. CASE r \in Task
    <3>1. Holders' = Holders \ {r} /\ r \in Holders
      BY <1>6, <2>1 DEF End, Holders, Holding, RunTypeOK, Run
    <3>2. Cardinality(Holders') = Cardinality(Holders) - 1
      BY <3>1, HoldersFinite, FS_RemoveElement
    <3> QED
      BY <1>6, <2>1, <3>2, HoldersFinite DEF End, PermitsAccountForRuns, RunTypeOK
  <2>2. CASE r \notin Task
    <3>1. \A u \in Task : Holding(u)' <=> Holding(u)
      BY <1>6, <2>2 DEF End, Holding, RunTypeOK, Run
    <3> QED
      BY <1>6, <2>2, <3>1, PermitsFrame DEF End
  <2> QED
    BY <2>1, <2>2
<1>7. ASSUME NEW t \in Task, TaskDone(t) PROVE PermitsAccountForRuns'
  <2>1. \A u \in Task : Holding(u)' <=> Holding(u)
    BY <1>7 DEF TaskDone, Holding, RunTypeOK, Run
  <2> QED
    BY <1>7, <2>1, PermitsFrame DEF TaskDone
<1>8. ASSUME NEW c \in Client, NEW p \in PR, ClientReview(c, p) \/ ClientIncremental(c, p)
      PROVE  PermitsAccountForRuns'
  <2>1. \A u \in Task : Holding(u)' <=> Holding(u)
    BY <1>8, TaskAssumption DEF ClientReview, ClientIncremental, Holding, RunTypeOK, Run
  <2> QED
    BY <1>8, <2>1, PermitsFrame DEF ClientReview, ClientIncremental, taskVars
<1>9. CASE UNCHANGED vars
  BY <1>9, <1>a DEF vars
<1> QED
  BY <1>1, <1>3, <1>4, <1>5, <1>6, <1>7, <1>8, <1>9
     DEF Next, TaskStep, RunStep, ClientStep, Run, Save, Fail, Disconnect

\* The semaphore is never over-committed and never loses a permit, whichever way
\* the reviews end and however often the watcher is restarted over them.
THEOREM PermitsCorrect == Spec => []PermitsAccountForRuns
<1>1. Init => PermitsAccountForRuns
  <2> SUFFICES ASSUME Init PROVE PermitsAccountForRuns
    OBVIOUS
  <2>1. Holders = {}
    BY DEF Init, Holders, Holding, Run
  <2> QED
    BY <2>1, FS_EmptySet, BoundAssumption DEF Init, PermitsAccountForRuns
<1> QED
  BY <1>1, QueueInit, QueueStep, PermitsStep, PTL DEF Spec

\* No more than _MAX_CONCURRENT_REVIEWS watcher reviews run at once.
COROLLARY CapHolds == Spec => [](Cardinality(Holders) <= MaxConcurrent)
<1>1. QueueInv /\ PermitsAccountForRuns => Cardinality(Holders) <= MaxConcurrent
  BY HoldersFinite, BoundAssumption DEF QueueInv, TypeOK, RunTypeOK, PermitsAccountForRuns
<1>2. Spec => []QueueInv
  BY QueueInit, QueueStep, PTL DEF Spec
<1> QED
  BY <1>1, <1>2, PermitsCorrect, PTL

-----------------------------------------------------------------------------
(* Commits: what the runs and the watcher have read of a PR's head is never  *)
(* ahead of it, and a stamp is never behind the diff it stands for.          *)

Working(r) == pc[r] \in {"diffed", "reviewing"}

RunsTrailHead ==
    \A r \in Run : Working(r) => /\ diffOf[r] <= head[target[r]]
                                 /\ pc[r] = "reviewing" =>
                                       \/ headOf[r] = 0
                                       \/ diffOf[r] <= headOf[r] /\ headOf[r] <= head[target[r]]

CacheTrailsHead == \A p \in PR : cache[p].sha <= head[p]

LookupTrailsHead ==
    /\ poll = "lookup" => seen.sha <= head[current]
    /\ poll = "found" => seen.sha < head[current]

HeadInv == RunsTrailHead /\ CacheTrailsHead /\ LookupTrailsHead /\ StampNotBehindDiff

LEMMA HeadStep == QueueInv /\ HeadInv /\ [Next]_vars => HeadInv'
<1> SUFFICES ASSUME QueueInv, HeadInv, [Next]_vars PROVE HeadInv'
  OBVIOUS
<1> USE DEF QueueInv, TypeOK, HeadInv
<1>a. ASSUME UNCHANGED runVars, head' = head PROVE RunsTrailHead'
  BY <1>a DEF RunsTrailHead, Working, runVars
<1>b. ASSUME cache' = cache, head' = head PROVE CacheTrailsHead' /\ StampNotBehindDiff'
  BY <1>b DEF CacheTrailsHead, StampNotBehindDiff, Stamped
<1>c. ASSUME UNCHANGED pollVars, head' = head PROVE LookupTrailsHead'
  BY <1>c DEF LookupTrailsHead, pollVars
<1>1. ASSUME NEW p \in PR, Push(p) PROVE HeadInv'
  <2>1. \A q \in PR : head[q] \in Nat /\ head'[q] \in Nat /\ head[q] <= head'[q]
    BY <1>1 DEF Push, SharedTypeOK, Sha
  <2>2. UNCHANGED <<runVars, pollVars, cache>>
    BY <1>1 DEF Push, Touch
  <2>3. RunsTrailHead'
    <3> SUFFICES ASSUME NEW r \in Run, Working(r)
                 PROVE  /\ diffOf[r] <= head'[target[r]]
                        /\ pc[r] = "reviewing" =>
                              \/ headOf[r] = 0
                              \/ diffOf[r] <= headOf[r] /\ headOf[r] <= head'[target[r]]
      BY <2>2 DEF RunsTrailHead, Working, runVars
    <3>1. target[r] \in PR /\ diffOf[r] \in Nat /\ headOf[r] \in Nat
      BY DEF RunTypeOK, Working, Live
    <3>2. /\ head[target[r]] \in Nat /\ head'[target[r]] \in Nat
          /\ head[target[r]] <= head'[target[r]]
      BY <2>1, <3>1
    <3> QED
      BY <3>1, <3>2 DEF RunsTrailHead
  <2>4. CacheTrailsHead' /\ StampNotBehindDiff'
    BY <2>1, <2>2 DEF CacheTrailsHead, StampNotBehindDiff, Stamped, SharedTypeOK, Review
  <2>5. LookupTrailsHead'
    BY <2>1, <2>2 DEF LookupTrailsHead, PollTypeOK, Review, pollVars
  <2> QED
    BY <2>3, <2>4, <2>5
<1>2. ASSUME NEW p \in PR, Comment(p) \/ ChangeStatus(p) PROVE HeadInv'
  BY <1>2, <1>a, <1>b, <1>c DEF Comment, ChangeStatus, Touch
<1>3. ASSUME NEW p \in PR, ClearCache(p) PROVE HeadInv'
  <2>1. CacheTrailsHead' /\ StampNotBehindDiff'
    BY <1>3 DEF ClearCache, CacheTrailsHead, StampNotBehindDiff, Stamped, NoReview,
                SharedTypeOK, Sha, githubVars
  <2> QED
    BY <1>3, <2>1, <1>a, <1>c DEF ClearCache, githubVars
<1>4. ASSUME NEW r \in Repo, ToggleRepo(r) PROVE HeadInv'
  BY <1>4, <1>a, <1>b, <1>c DEF ToggleRepo, githubVars
<1>5. CASE StartWatcher \/ StopWatcher \/ Wake \/ BeginCycle
  <2>1. LookupTrailsHead'
    BY <1>5 DEF StartWatcher, StopWatcher, Wake, BeginCycle, LookupTrailsHead
  <2> QED
    BY <1>5, <2>1, <1>a, <1>b DEF StartWatcher, StopWatcher, Wake, BeginCycle, githubVars
<1>6. ASSUME NEW rest, NEW repos, Continue(rest, repos) PROVE LookupTrailsHead'
  BY <1>6 DEF Continue, LookupTrailsHead
<1>7. ASSUME NEW p \in PR, Launch(p), head' = head PROVE RunsTrailHead'
  <2>1. CASE p \in inFlight
    BY <1>7, <2>1, <1>a DEF Launch
  <2>2. CASE p \notin inFlight
    <3>1. PICK t \in Task : /\ pc' = [pc EXCEPT ![t] = "queued"]
                            /\ target' = [target EXCEPT ![t] = p]
                            /\ UNCHANGED <<diffOf, headOf>>
      BY <1>7, <2>2 DEF Launch
    <3> QED
      BY <1>7, <3>1 DEF RunsTrailHead, Working, RunTypeOK, Run
  <2> QED
    BY <2>1, <2>2
<1>8. ASSUME NEW r \in Repo, ListPRs(r) PROVE HeadInv'
  <2>1. LookupTrailsHead'
    BY <1>8, <1>6 DEF ListPRs, LookupTrailsHead
  <2> QED
    BY <1>8, <2>1, <1>a, <1>b DEF ListPRs, githubVars
<1>9. ASSUME NEW e \in listed, Skip(e) PROVE HeadInv'
  BY <1>9, <1>6, <1>a, <1>b DEF Skip, githubVars
<1>10. ASSUME NEW e \in listed, LaunchNew(e) PROVE HeadInv'
  BY <1>10, <1>6, <1>7, <1>b DEF LaunchNew, githubVars, PollTypeOK, Snapshot
<1>11. CASE LaunchUpdated
  BY <1>11, <1>6, <1>7, <1>b DEF LaunchUpdated, githubVars, PollTypeOK
<1>12. ASSUME NEW e \in listed, BeginLookup(e) PROVE HeadInv'
  <2>1. e.pr \in PR
    BY DEF PollTypeOK, Snapshot
  <2>2. LookupTrailsHead'
    BY <1>12, <2>1 DEF BeginLookup, LookupTrailsHead, CacheTrailsHead, githubVars
  <2> QED
    BY <1>12, <2>2, <1>a, <1>b DEF BeginLookup, githubVars
<1>13. CASE LookupSkips
  BY <1>13, <1>6, <1>a, <1>b DEF LookupSkips, githubVars
<1>14. CASE LookupFinds
  <2>1. head[current] \in Nat /\ seen.sha \in Nat
    BY <1>14 DEF LookupFinds, PollTypeOK, SharedTypeOK, Sha, Review
  <2>2. LookupTrailsHead'
    BY <1>14, <2>1 DEF LookupFinds, LookupTrailsHead, githubVars
  <2> QED
    BY <1>14, <2>2, <1>a, <1>b DEF LookupFinds, githubVars
<1>15. ASSUME NEW t \in Task, Acquire(t) PROVE HeadInv'
  <2>1. target[t] \in PR
    BY <1>15 DEF Acquire, WaitersAreQueued, RunTypeOK, Live, Run
  <2>2. head[target[t]] \in Nat
    BY <2>1 DEF SharedTypeOK, Sha
  <2>3. RunsTrailHead'
    <3>1. /\ UNCHANGED <<target, headOf, head>>
          /\ \/ pc' = [pc EXCEPT ![t] = "diffed"] /\ diffOf' = [diffOf EXCEPT ![t] = head[target[t]]]
             \/ pc' = [pc EXCEPT ![t] = "done"] /\ UNCHANGED diffOf
      BY <1>15 DEF Acquire, githubVars
    <3>2. \A u \in Run \ {t} : pc'[u] = pc[u] /\ diffOf'[u] = diffOf[u]
      BY <3>1 DEF RunTypeOK
    <3>3. pc'[t] = "done" \/ (pc'[t] = "diffed" /\ diffOf'[t] = head[target[t]])
      BY <3>1 DEF RunTypeOK, Run
    <3> QED
      BY <2>2, <3>1, <3>2, <3>3 DEF RunsTrailHead, Working, Run
  <2> QED
    BY <1>15, <2>3, <1>b, <1>c DEF Acquire, githubVars
<1>16. ASSUME NEW r \in Run, FetchHead(r) PROVE HeadInv'
  <2>1. /\ target[r] \in PR /\ head[target[r]] \in Nat /\ diffOf[r] <= head[target[r]]
    BY <1>16 DEF FetchHead, RunsTrailHead, Working, RunTypeOK, SharedTypeOK, Sha, Live
  <2>2. RunsTrailHead'
    BY <1>16, <2>1 DEF FetchHead, RunsTrailHead, Working, RunTypeOK, githubVars
  <2> QED
    BY <1>16, <2>2, <1>b, <1>c DEF FetchHead, githubVars
<1>17. ASSUME NEW r \in Run, pc[r] = "reviewing", End(r), head' = head PROVE RunsTrailHead'
  BY <1>17 DEF End, RunsTrailHead, Working, RunTypeOK
<1>18. ASSUME NEW r \in Run, Save(r) PROVE HeadInv'
  <2>1. /\ target[r] \in PR /\ head[target[r]] \in Nat
        /\ \/ headOf[r] = 0
           \/ diffOf[r] <= headOf[r] /\ headOf[r] <= head[target[r]]
    BY <1>18 DEF Save, RunsTrailHead, Working, RunTypeOK, SharedTypeOK, Sha, Live
  <2>2. CacheTrailsHead' /\ StampNotBehindDiff'
    BY <1>18, <2>1 DEF Save, ReviewOf, CacheTrailsHead, StampNotBehindDiff, Stamped,
                       SharedTypeOK, githubVars
  <2> QED
    BY <1>18, <2>2, <1>17, <1>c DEF Save, githubVars
<1>19. ASSUME NEW r \in Run, Fail(r) PROVE HeadInv'
  BY <1>19, <1>17, <1>b, <1>c DEF Fail, githubVars
<1>20. ASSUME NEW c \in Client, Disconnect(c) PROVE HeadInv'
  BY <1>20, <1>17, <1>b, <1>c DEF Disconnect, Run, githubVars
<1>21. ASSUME NEW t \in Task, TaskDone(t) PROVE HeadInv'
  <2>1. RunsTrailHead'
    BY <1>21 DEF TaskDone, RunsTrailHead, Working, RunTypeOK, Run, githubVars
  <2> QED
    BY <1>21, <2>1, <1>b, <1>c DEF TaskDone, githubVars
<1>22. ASSUME NEW c \in Client, NEW p \in PR, ClientReview(c, p) \/ ClientIncremental(c, p)
       PROVE  HeadInv'
  <2>1. head[p] \in Nat
    BY DEF SharedTypeOK, Sha
  <2>2. RunsTrailHead'
    <3>1. /\ head' = head
          /\ \A u \in Run \ {c} : /\ pc'[u] = pc[u] /\ target'[u] = target[u]
                                   /\ diffOf'[u] = diffOf[u] /\ headOf'[u] = headOf[u]
      BY <1>22 DEF ClientReview, ClientIncremental, RunTypeOK, githubVars
    <3>2. /\ target'[c] = p /\ diffOf'[c] = head[p]
          /\ pc'[c] = "diffed" \/ headOf'[c] = head[p]
      BY <1>22 DEF ClientReview, ClientIncremental, RunTypeOK, Run
    <3> QED
      BY <2>1, <3>1, <3>2 DEF RunsTrailHead, Working
  <2> QED
    BY <1>22, <2>2, <1>b, <1>c DEF ClientReview, ClientIncremental, githubVars
<1>23. CASE UNCHANGED vars
  BY <1>23, <1>a, <1>b, <1>c DEF vars, githubVars
<1>24. CASE Tock
  BY <1>24, <1>a, <1>b, <1>c DEF Tock
<1> QED
  BY <1>24, <1>1, <1>2, <1>3, <1>4, <1>5, <1>8, <1>9, <1>10, <1>11, <1>12, <1>13, <1>14, <1>15,
     <1>16, <1>18, <1>19, <1>20, <1>21, <1>22, <1>23
     DEF Next, Environment, PollStep, TaskStep, RunStep, ClientStep, Run

LEMMA HeadInit == Init => HeadInv
BY DEF Init, HeadInv, RunsTrailHead, Working, CacheTrailsHead, LookupTrailsHead,
       StampNotBehindDiff, Stamped, NoReview, Run

\* A saved review never claims a commit older than the diff it was made from.
THEOREM StampCorrect == Spec => []StampNotBehindDiff
<1>1. Spec => [](QueueInv /\ HeadInv)
  BY QueueInit, QueueStep, HeadInit, HeadStep, PTL DEF Spec
<1> QED
  BY <1>1, PTL DEF HeadInv

\* A reviewed PR is queued only when commits were pushed after the review the
\* watcher looked at: comments alone never trigger a review.
THEOREM RetriggerCorrect == Spec => OnlyPushesRetrigger
<1>1. QueueInv /\ HeadInv /\ [Next]_vars =>
        [\A p \in PR : Launched(p) => ~Reviewed(p) \/ (current = p /\ seen.sha < head[p])]_vars
  <2> SUFFICES ASSUME QueueInv, HeadInv, Next, NEW p \in PR, Launched(p)
               PROVE  ~Reviewed(p) \/ (current = p /\ seen.sha < head[p])
    OBVIOUS
  <2>1. inFlight' # inFlight /\ p \notin inFlight /\ p \in inFlight'
    BY DEF Launched
  <2>2. ASSUME NEW q \in PR, Launch(q) PROVE p = q
    BY <2>1, <2>2 DEF Launch, taskVars
  <2>3. ASSUME NEW e \in listed, LaunchNew(e) PROVE ~Reviewed(p)
    BY <2>2, <2>3 DEF LaunchNew, QueueInv, TypeOK, PollTypeOK, Snapshot
  <2>4. CASE LaunchUpdated
    BY <2>2, <2>4 DEF LaunchUpdated, QueueInv, TypeOK, PollTypeOK, HeadInv, LookupTrailsHead
  <2>5. CASE \E t \in Task : TaskStep(t)
    BY <2>1, <2>5 DEF TaskStep, RunStep, Acquire, FetchHead, Save, Fail, End, TaskDone, taskVars
  <2>6. CASE \E c \in Client : ClientStep(c)
    BY <2>1, <2>6 DEF ClientStep, RunStep, ClientReview, ClientIncremental, FetchHead, Save,
                      Fail, Disconnect, End, taskVars
  <2>7. CASE Environment \/ StartWatcher \/ StopWatcher
    BY <2>1, <2>7 DEF Environment, Tock, Push, Comment, ChangeStatus, Touch, ClearCache, ToggleRepo,
                      StartWatcher, StopWatcher, taskVars
  <2>8. CASE PollStep
    BY <2>1, <2>3, <2>4, <2>8
       DEF PollStep, BeginCycle, LookupSkips, LookupFinds, Wake, ListPRs, Skip, BeginLookup,
           taskVars
  <2> QED
    BY <2>5, <2>6, <2>7, <2>8 DEF Next
<1>2. Spec => [](QueueInv /\ HeadInv)
  BY QueueInit, QueueStep, HeadInit, HeadStep, PTL DEF Spec
<1> QED
  BY <1>1, <1>2, PTL DEF Spec, OnlyPushesRetrigger

-----------------------------------------------------------------------------
(* The updated_at pre-filter, for PRs not pushed to while they are reviewed. *)
(* The stamp of a running review is then still the head when it is saved,    *)
(* and every later push is dated after the save or in its second.            *)

DatesInv == \A p \in PR : updated[p] <= clock /\ cache[p].at <= clock

StampsAreHeads ==
    \A r \in Run :
        pc[r] = "reviewing" /\ target[r] \notin overtaken
            => headOf[r] \in {0, head[target[r]]}

QuietInv == DatesInv /\ StampsAreHeads /\ PrefilterHidesNoPush

LEMMA QuietStep ==
    ASSUME QueueInv, QuietInv, [Next]_vars
    PROVE  QuietInv'
<1> USE DEF QueueInv, TypeOK, QuietInv
<1>a. ASSUME UNCHANGED <<githubVars, cache>> PROVE DatesInv' /\ PrefilterHidesNoPush'
  BY <1>a DEF DatesInv, PrefilterHidesNoPush, IsStale, NeedsReviewEstimate, Stamped,
              Reviewed, githubVars
<1>b. ASSUME UNCHANGED runVars, head' = head, overtaken' = overtaken
      PROVE  StampsAreHeads'
  BY <1>b DEF StampsAreHeads, runVars
<1>1. ASSUME NEW p \in PR, Touch(p), \A q \in PR \ {p} : head'[q] = head[q],
             overtaken \subseteq overtaken'
      PROVE  DatesInv' /\ PrefilterHidesNoPush'
  <2>1. /\ clock' = clock + 1 /\ clock \in Nat /\ cache' = cache
        /\ \A q \in PR : updated'[q] = IF q = p THEN Second(clock + 1) ELSE updated[q]
        /\ \A q \in PR : updated[q] \in Nat /\ cache[q].at \in Nat
    BY <1>1 DEF Touch, SharedTypeOK, Review
  <2>2. DatesInv'
    <3>1. Second(clock + 1) \in Nat /\ Second(clock + 1) <= clock + 1
      BY <2>1, SecondIs
    <3> QED
      BY <2>1, <3>1 DEF DatesInv
  <2>3. ASSUME NEW q \in PR \ overtaken', IsStale(q)'
        PROVE  (NeedsReviewEstimate(q) \/ updated[q] = Second(cache[q].at))'
    <3>1. CASE q = p
      <4>1. cache[q].at <= clock + 1 /\ cache[q].at \in Nat /\ clock + 1 \in Nat
        BY <2>1 DEF DatesInv
      <4>2. Second(clock + 1) > cache[q].at \/ Second(clock + 1) = Second(cache[q].at)
        BY <4>1, SameSecond
      <4> QED
        BY <3>1, <2>1, <2>3, <4>2 DEF NeedsReviewEstimate, IsStale, Stamped
    <3>2. CASE q # p
      BY <3>2, <2>1, <2>3, <1>1 DEF PrefilterHidesNoPush, NeedsReviewEstimate, IsStale,
                                    Stamped, Reviewed
    <3> QED
      BY <3>1, <3>2
  <2> QED
    BY <2>2, <2>3 DEF PrefilterHidesNoPush
<1>2. ASSUME NEW p \in PR, Push(p) PROVE QuietInv'
  <2>1. /\ \A q \in PR \ {p} : head'[q] = head[q]
        /\ \A r \in Run : pc[r] = "reviewing" /\ target[r] \notin overtaken'
                             => target[r] \in PR \ {p}
        /\ overtaken \subseteq overtaken'
        /\ UNCHANGED runVars
    BY <1>2 DEF Push, Touch, UnderReview, SharedTypeOK, RunTypeOK, Live
  <2>2. StampsAreHeads'
    BY <2>1 DEF StampsAreHeads, runVars
  <2> QED
    BY <1>2, <1>1, <2>1, <2>2 DEF Push
<1>3. ASSUME NEW p \in PR, Comment(p) \/ ChangeStatus(p) PROVE QuietInv'
  BY <1>3, <1>1, <1>b DEF Comment, ChangeStatus, Touch
<1>4. ASSUME NEW p \in PR, ClearCache(p) PROVE QuietInv'
  <2>1. /\ UNCHANGED <<githubVars, runVars>>
        /\ cache'[p] = NoReview
        /\ \A q \in PR \ {p} : cache'[q] = cache[q]
    BY <1>4 DEF ClearCache, SharedTypeOK
  <2>2. DatesInv' /\ PrefilterHidesNoPush'
    BY <2>1 DEF DatesInv, PrefilterHidesNoPush, NeedsReviewEstimate, IsStale, Stamped,
                Reviewed, NoReview, SharedTypeOK, githubVars
  <2> QED
    BY <2>1, <2>2, <1>b DEF githubVars
<1>5. ASSUME NEW r \in Repo, ToggleRepo(r) PROVE QuietInv'
  BY <1>5, <1>a, <1>b DEF ToggleRepo, githubVars
<1>6. ASSUME NEW p \in PR, Launch(p), head' = head, overtaken' = overtaken
      PROVE  StampsAreHeads'
  <2>1. CASE p \in inFlight
    BY <1>6, <2>1, <1>b DEF Launch
  <2>2. CASE p \notin inFlight
    <3>1. PICK t \in Task : /\ pc' = [pc EXCEPT ![t] = "queued"]
                            /\ target' = [target EXCEPT ![t] = p]
                            /\ UNCHANGED <<diffOf, headOf>>
      BY <1>6, <2>2 DEF Launch
    <3> QED
      BY <1>6, <3>1 DEF StampsAreHeads, RunTypeOK, Run
  <2> QED
    BY <2>1, <2>2
<1>7. CASE StartWatcher \/ StopWatcher
  BY <1>7, <1>a, <1>b DEF StartWatcher, StopWatcher, githubVars
<1>8. CASE PollStep
  <2>1. ASSUME NEW e \in listed, LaunchNew(e) PROVE QuietInv'
    BY <2>1, <1>6, <1>a DEF LaunchNew, githubVars, PollTypeOK, Snapshot
  <2>2. CASE LaunchUpdated
    BY <2>2, <1>6, <1>a DEF LaunchUpdated, githubVars, PollTypeOK
  <2> QED
    BY <1>8, <1>a, <1>b, <2>1, <2>2
       DEF PollStep, BeginCycle, LookupSkips, LookupFinds, Wake, ListPRs, Skip, BeginLookup,
           githubVars
<1>9. ASSUME NEW t \in Task, Acquire(t) \/ TaskDone(t) PROVE QuietInv'
  <2>1. UNCHANGED <<githubVars, cache, headOf>>
    BY <1>9 DEF Acquire, TaskDone
  <2>2. \A u \in Run : pc'[u] = "reviewing" => pc[u] = "reviewing" /\ target'[u] = target[u]
    BY <1>9 DEF Acquire, TaskDone, RunTypeOK, Run
  <2> QED
    BY <2>1, <2>2, <1>a DEF StampsAreHeads, githubVars
<1>10. ASSUME NEW r \in Run, FetchHead(r) PROVE QuietInv'
  <2>1. StampsAreHeads'
    BY <1>10 DEF FetchHead, StampsAreHeads, RunTypeOK, githubVars
  <2> QED
    BY <1>10, <2>1, <1>a DEF FetchHead
<1>11. ASSUME NEW r \in Run, End(r), head' = head, overtaken' = overtaken
       PROVE  StampsAreHeads'
  BY <1>11 DEF End, StampsAreHeads, RunTypeOK
<1>12. ASSUME NEW r \in Run, Save(r) PROVE QuietInv'
  <2>1. /\ target[r] \in PR /\ UNCHANGED githubVars /\ pc[r] = "reviewing"
        /\ cache'[target[r]] = ReviewOf(r)
        /\ \A q \in PR \ {target[r]} : cache'[q] = cache[q]
    BY <1>12 DEF Save, SharedTypeOK, RunTypeOK, Live
  <2>2. DatesInv'
    BY <2>1 DEF DatesInv, ReviewOf, SharedTypeOK, githubVars
  <2>3. ASSUME NEW q \in PR \ overtaken', IsStale(q)'
        PROVE  (NeedsReviewEstimate(q) \/ updated[q] = Second(cache[q].at))'
    <3>1. CASE q = target[r]
      BY <3>1, <2>1, <2>3 DEF StampsAreHeads, IsStale, Stamped, ReviewOf, githubVars
    <3>2. CASE q # target[r]
      BY <3>2, <2>1, <2>3 DEF PrefilterHidesNoPush, NeedsReviewEstimate, IsStale, Stamped,
                              Reviewed, githubVars
    <3> QED
      BY <3>1, <3>2
  <2> QED
    BY <1>12, <2>1, <2>2, <2>3, <1>11 DEF Save, PrefilterHidesNoPush, githubVars
<1>13. ASSUME NEW r \in Run, Fail(r) \/ (r \in Client /\ Disconnect(r)) PROVE QuietInv'
  BY <1>13, <1>11, <1>a DEF Fail, Disconnect, githubVars
<1>14. ASSUME NEW c \in Client, NEW p \in PR, ClientReview(c, p) \/ ClientIncremental(c, p)
       PROVE  QuietInv'
  <2>1. UNCHANGED <<githubVars, cache>>
    BY <1>14 DEF ClientReview, ClientIncremental
  <2>2. /\ \A u \in Run \ {c} : /\ pc'[u] = pc[u] /\ target'[u] = target[u]
                                /\ headOf'[u] = headOf[u]
        /\ pc'[c] = "reviewing" => target'[c] = p /\ headOf'[c] = head[p]
    BY <1>14 DEF ClientReview, ClientIncremental, RunTypeOK, Run
  <2> QED
    BY <2>1, <2>2, <1>a DEF StampsAreHeads, githubVars
<1>15. CASE UNCHANGED vars
  BY <1>15, <1>a, <1>b DEF vars, githubVars
<1>16. CASE Tock
  <2>1. DatesInv'
    BY <1>16 DEF Tock, DatesInv, SharedTypeOK, Review
  <2>2. PrefilterHidesNoPush'
    BY <1>16 DEF Tock, PrefilterHidesNoPush, IsStale, NeedsReviewEstimate, Stamped, Reviewed
  <2> QED
    BY <1>16, <2>1, <2>2, <1>b DEF Tock
<1> QED
  BY <1>16, <1>2, <1>3, <1>4, <1>5, <1>7, <1>8, <1>9, <1>10, <1>12, <1>13, <1>14, <1>15
     DEF Next, Environment, TaskStep, RunStep, ClientStep, Run

\* Neither the watcher's pre-filter nor the sidebar badge hides unreviewed commits
\* of a PR, unless some of its commits were pushed while it was being reviewed or
\* nothing happened to it after the second in which the review was saved.
THEOREM PrefilterCorrect == Spec => []PrefilterHidesNoPush
<1>1. Init => QuietInv
  BY DEF Init, QuietInv, DatesInv, StampsAreHeads, PrefilterHidesNoPush, IsStale, Stamped,
         NoReview, Run
<1>2. QueueInv /\ QuietInv /\ [Next]_vars => QuietInv'
  BY QuietStep
<1>3. Spec => []QuietInv
  BY <1>1, <1>2, QueueInit, QueueStep, PTL DEF Spec
<1> QED
  BY <1>3, PTL DEF QuietInv

-----------------------------------------------------------------------------
(* With the watcher alone, one task per PR is the only writer of that PR's   *)
(* cache entry, and it looked the head up after the last review was saved.   *)

StampsLeadCache ==
    \A t \in Task : pc[t] = "reviewing" =>
        headOf[t] = 0 \/ cache[target[t]].sha <= headOf[t]

LEMMA LeadStep ==
    ASSUME Client = {}, QueueInv, RegistryInv, HeadInv, StampsLeadCache, [Next]_vars
    PROVE  StampsLeadCache'
<1> USE DEF QueueInv, TypeOK
<1>a. ASSUME cache' = cache,
             \A t \in Task : pc'[t] = "reviewing" =>
                pc[t] = "reviewing" /\ headOf'[t] = headOf[t] /\ target'[t] = target[t]
      PROVE  StampsLeadCache'
  BY <1>a DEF StampsLeadCache
<1>1. ASSUME NEW p \in PR, ClearCache(p) PROVE StampsLeadCache'
  <2>1. UNCHANGED runVars
    BY <1>1 DEF ClearCache
  <2>2. \A q \in PR : cache'[q].sha = cache[q].sha \/ cache'[q].sha = 0
    BY <1>1 DEF ClearCache, SharedTypeOK, NoReview
  <2>3. \A t \in Task : pc[t] = "reviewing" => target[t] \in PR /\ headOf[t] \in Nat
    BY DEF RunTypeOK, Live, Run
  <2> QED
    BY <2>1, <2>2, <2>3 DEF StampsLeadCache, runVars
<1>2. CASE Environment
  BY <1>2, <1>1, <1>a DEF Environment, Tock, Push, Comment, ChangeStatus, Touch, ToggleRepo, runVars
<1>3. ASSUME NEW p \in PR, Launch(p), cache' = cache PROVE StampsLeadCache'
  <2>1. CASE p \in inFlight
    BY <1>3, <2>1, <1>a DEF Launch, runVars
  <2>2. CASE p \notin inFlight
    <3>1. PICK t \in Task : /\ pc' = [pc EXCEPT ![t] = "queued"]
                            /\ target' = [target EXCEPT ![t] = p]
                            /\ UNCHANGED <<diffOf, headOf>>
      BY <1>3, <2>2 DEF Launch
    <3> QED
      BY <1>3, <3>1, <1>a DEF RunTypeOK, Run
  <2> QED
    BY <2>1, <2>2
<1>4. CASE StartWatcher \/ StopWatcher
  BY <1>4, <1>a DEF StartWatcher, StopWatcher, runVars
<1>5. CASE PollStep
  <2>1. ASSUME NEW e \in listed, LaunchNew(e) PROVE StampsLeadCache'
    BY <2>1, <1>3 DEF LaunchNew, PollTypeOK, Snapshot
  <2>2. CASE LaunchUpdated
    BY <2>2, <1>3 DEF LaunchUpdated, PollTypeOK
  <2> QED
    BY <1>5, <1>a, <2>1, <2>2
       DEF PollStep, BeginCycle, LookupSkips, LookupFinds, Wake, ListPRs, Skip, BeginLookup,
           runVars
<1>6. ASSUME NEW t \in Task, Acquire(t) \/ TaskDone(t) PROVE StampsLeadCache'
  BY <1>6, <1>a DEF Acquire, TaskDone, RunTypeOK, Run
<1>7. ASSUME NEW r \in Task, FetchHead(r) PROVE StampsLeadCache'
  <2>1. target[r] \in PR /\ cache[target[r]].sha <= head[target[r]]
    BY <1>7 DEF FetchHead, RunTypeOK, Live, Run, HeadInv, CacheTrailsHead
  <2> QED
    BY <1>7, <2>1 DEF FetchHead, StampsLeadCache, RunTypeOK, Run
<1>8. ASSUME NEW r \in Task, Save(r) PROVE StampsLeadCache'
  <2>1. /\ target[r] \in PR /\ Live(r)
        /\ \A q \in PR \ {target[r]} : cache'[q] = cache[q]
    BY <1>8 DEF Save, SharedTypeOK, RunTypeOK, Live, Run
  <2>2. \A t \in Task \ {r} : Live(t) => target[t] \in PR \ {target[r]}
    BY <2>1 DEF RegistryInv, OneTaskPerPR, RunTypeOK, Run
  <2>3. /\ pc'[r] # "reviewing"
        /\ \A t \in Task \ {r} : /\ pc'[t] = pc[t] /\ headOf'[t] = headOf[t]
                                 /\ target'[t] = target[t]
    BY <1>8 DEF Save, End, RunTypeOK, Run
  <2> QED
    BY <2>1, <2>2, <2>3 DEF StampsLeadCache, Live
<1>9. ASSUME NEW r \in Task, Fail(r) PROVE StampsLeadCache'
  BY <1>9, <1>a DEF Fail, End, RunTypeOK, Run
<1>10. CASE UNCHANGED vars
  BY <1>10, <1>a DEF vars, runVars
<1> QED
  BY <1>2, <1>4, <1>5, <1>6, <1>7, <1>8, <1>9, <1>10 DEF Next, TaskStep, RunStep

\* When only the watcher runs reviews, the review of an older commit never
\* replaces the review of a newer one.
THEOREM NeverRegresses == Spec => ReviewsNeverRegress
<1>1. CASE Client = {}
  <2> DEFINE NoRegress == \A p \in PR : Stamped(p) /\ cache'[p].sha # 0
                                           => cache[p].sha <= cache'[p].sha
  <2>1. Init => StampsLeadCache
    BY DEF Init, StampsLeadCache, Run
  <2>2. QueueInv /\ RegistryInv /\ HeadInv /\ StampsLeadCache /\ [Next]_vars
           => StampsLeadCache'
    BY <1>1, LeadStep
  <2>3. ASSUME QueueInv, StampsLeadCache, [Next]_vars PROVE NoRegress
    <3> USE DEF QueueInv, TypeOK
    <3> USE <2>3
    <3>1. CASE cache' = cache
      BY <3>1 DEF SharedTypeOK, Review
    <3>2. ASSUME NEW p \in PR, ClearCache(p) PROVE NoRegress
      BY <3>2 DEF ClearCache, SharedTypeOK, Review, NoReview
    <3>3. ASSUME NEW r \in Task, Save(r) PROVE NoRegress
      <4>1. /\ target[r] \in PR /\ cache'[target[r]].sha = headOf[r]
            /\ \A q \in PR \ {target[r]} : cache'[q] = cache[q]
        BY <3>3 DEF Save, SharedTypeOK, RunTypeOK, Live, Run, ReviewOf
      <4>2. headOf[r] = 0 \/ cache[target[r]].sha <= headOf[r]
        BY <3>3 DEF Save, StampsLeadCache
      <4> QED
        BY <4>1, <4>2 DEF SharedTypeOK, Review
    <3>4. \/ cache' = cache
          \/ \E p \in PR : ClearCache(p)
          \/ \E r \in Task : Save(r)
      BY <1>1, <2>3
         DEF Next, Environment, Tock, Push, Comment, ChangeStatus, Touch, ToggleRepo,
             StartWatcher, StopWatcher, PollStep, BeginCycle, LookupSkips, LookupFinds,
             LaunchNew, LaunchUpdated, Wake, ListPRs, Skip, BeginLookup, TaskStep, RunStep,
             Acquire, FetchHead, Fail, TaskDone, vars
    <3> QED
      BY <3>1, <3>2, <3>3, <3>4
  <2>4. QueueInv /\ StampsLeadCache /\ [Next]_vars => [Client = {} => NoRegress]_vars
    BY <2>3
  <2>5. Init => RegistryInv
    BY DEF Init, RegistryInv, RegistryIsExact, OneTaskPerPR, Live, Run
  <2>6. Spec => [](QueueInv /\ StampsLeadCache)
    BY <2>1, <2>2, <2>5, QueueInit, QueueStep, RegistryStep, HeadInit, HeadStep, PTL DEF Spec
  <2> QED
    BY <2>4, <2>6, PTL DEF Spec, ReviewsNeverRegress
<1>2. CASE Client # {}
  <2>1. [Next]_vars => [Client = {} => \A p \in PR : Stamped(p) /\ cache'[p].sha # 0
                                           => cache[p].sha <= cache'[p].sha]_vars
    BY <1>2
  <2> QED
    BY <2>1, PTL DEF Spec, ReviewsNeverRegress
<1> QED
  BY <1>1, <1>2
=============================================================================
