---------------------------- MODULE FixFlowProofs ----------------------------
(***************************************************************************)
(* Proofs about FixFlow, for any number of fixes of a PR, open at once or  *)
(* not, of follow-up branches, of commits by its author and of failures.   *)
(***************************************************************************)
EXTENDS FixFlow, TLAPS

-----------------------------------------------------------------------------
(* The inductive invariant *)

Shapes ==
    /\ sent \in [Run -> SUBSET Report]
    /\ local \in [Branch -> History]
    /\ remote \in [Branch -> History]

\* The PR's branch exists in the bare clone, whether the worktree is on it or not.
LocalPR == local[PR] # NoBranch

\* The worktree is on the PR's branch or on one made for a follow-up PR.
OnNamed == tree.branch \in 0 .. names

\* Two runs that are open at once were begun one in the worktree of the other.
TogetherAreMixed == \A q, r \in Open : q # r => q \in mixed

\* Until its commit, or after it, the index is what the one user was shown.
IndexIsShown ==
    \A r \in Run \ mixed :
        pc[r] \in {"shown", "push", "new PR"} =>
            tree.index = {} \/ Shows(shown[r], tree.index)

FixInv ==
    /\ TypeOK /\ Shapes /\ LocalPR /\ OnNamed /\ ReportIsTrue
    /\ TogetherAreMixed /\ IndexIsShown

-----------------------------------------------------------------------------
(* Histories *)

LEMMA PrefixOfItself ==
    ASSUME NEW s \in Seq(Commit)
    PROVE  IsPrefix(s, s)
  BY DEF IsPrefix

LEMMA PrefixOfAppend ==
    ASSUME NEW s \in Seq(Commit), NEW c \in Commit
    PROVE  IsPrefix(s, Append(s, c))
<1>1. Len(Append(s, c)) = Len(s) + 1 /\ Len(s) \in Nat
  OBVIOUS
<1>2. SubSeq(Append(s, c), 1, Len(s)) = SubSeq(s, 1, Len(s))
  OBVIOUS
<1> QED
  BY <1>1, <1>2 DEF IsPrefix

\* A commit of a branch is one of every branch that extends it.
LEMMA PrefixKeeps ==
    ASSUME NEW s \in Seq(Commit), NEW t \in Seq(Commit), IsPrefix(s, t),
           NEW i \in DOMAIN s
    PROVE  i \in DOMAIN t /\ t[i] = s[i]
<1>1. Len(s) \in Nat /\ Len(t) \in Nat /\ Len(s) <= Len(t) /\ i \in 1..Len(s)
  BY DEF IsPrefix
<1>2. SubSeq(s, 1, Len(s))[i] = s[i] /\ SubSeq(t, 1, Len(s))[i] = t[i]
  BY <1>1
<1> QED
  BY <1>1, <1>2 DEF IsPrefix

LEMMA PRIsBranch == PR \in Branch
<1>1. MaxNames \in Nat
  BY FixAssumption
<1> QED
  BY <1>1 DEF PR, Branch

LEMMA HistoryIsSeq ==
    ASSUME NEW s \in History
    PROVE  s # NoBranch <=> s \in Seq(Commit)
  BY BranchAssumption DEF History

-----------------------------------------------------------------------------
(* What a step does to the branches on GitHub *)

\* A push to a branch that only adds to it.
Grows(b, tip) ==
    /\ b \in Branch /\ tip \in Seq(Commit)
    /\ Extends(tip, remote[b])
    /\ remote' = [remote EXCEPT ![b] = tip]

Merges(b) ==
    /\ b \in Branch \ {PR} /\ remote[b] \in Seq(Commit)
    /\ Extends(remote[b], remote[PR])
    /\ remote' = [remote EXCEPT ![PR] = remote[b], ![b] = NoBranch]

\* A run is told that its commit is on a branch: the one it was pushed to, or the
\* PR's when it was pushed to one made for a follow-up PR.
Tells(r, told, b, tip, edits) ==
    /\ told \in Branch /\ (told = b \/ (told = PR /\ b \in 1 .. names'))
    /\ Grows(b, tip)
    /\ edits \subseteq Run
    /\ \E i \in DOMAIN tip : tip[i] = [by |-> r, edits |-> edits]
    /\ sent' = [sent EXCEPT ![r] = {[told |-> told, went |-> b, edits |-> edits]}]

\* However a push ends, GitHub has what it had, or more; who is told has it there.
Pushed(r, told, b, tip, edits) ==
    /\ \/ Tells(r, told, b, tip, edits)
       \/ UNCHANGED sent /\ (UNCHANGED remote \/ Grows(b, tip))
    /\ \/ pc' = [pc EXCEPT ![r] = "pushed"] /\ shown' = [shown EXCEPT ![r] = NoDiff]
       \/ pc' = [pc EXCEPT ![r] = "shown"] /\ UNCHANGED shown
    /\ faults' \in 0..MaxFaults

\* The tip of a commit made on the branch of the worktree.
LEMMA CommitTip ==
    ASSUME TypeOK, NEW r \in Run, NEW edits \in SUBSET Run
    PROVE  LET tip == Append(local[tree.branch], [by |-> r, edits |-> edits])
           IN /\ local[tree.branch] \in Seq(Commit)
              /\ tip \in Seq(Commit)
              /\ \E i \in DOMAIN tip : tip[i] = [by |-> r, edits |-> edits]
<1> DEFINE c == [by |-> r, edits |-> edits]
           base == local[tree.branch]
<1>1. tree.branch \in Branch
  BY DEF TypeOK
<1>2. base \in Seq(Commit)
  BY <1>1, HistoryIsSeq DEF TypeOK
<1>3. c \in Commit
  BY DEF Commit
<1> HIDE DEF c, base
<1>4. Append(base, c) \in Seq(Commit) /\ Len(Append(base, c)) = Len(base) + 1 /\ Len(base) \in Nat
  BY <1>2, <1>3
<1>5. Append(base, c)[Len(base) + 1] = c
  BY <1>2, <1>3
<1>6. Len(base) + 1 \in DOMAIN Append(base, c)
  BY <1>4
<1> QED
  BY <1>2, <1>4, <1>5, <1>6 DEF c, base

LEMMA PushCases ==
    ASSUME TypeOK, Shapes, NEW r \in Run, NEW b \in Branch, NEW tip \in Seq(Commit),
           NEW edits \in SUBSET Run, NEW told \in Branch,
           told = b \/ (told = PR /\ b \in 1 .. names'),
           \E i \in DOMAIN tip : tip[i] = [by |-> r, edits |-> edits],
           PushTo(r, told, b, tip, edits)
    PROVE  Pushed(r, told, b, tip, edits)
<1>1. CASE /\ Extends(tip, remote[b])
           /\ remote' = [remote EXCEPT ![b] = tip]
           /\ sent' = [sent EXCEPT ![r] = {[told |-> told, went |-> b, edits |-> edits]}]
           /\ shown' = [shown EXCEPT ![r] = NoDiff]
           /\ pc' = [pc EXCEPT ![r] = "pushed"]
           /\ UNCHANGED faults
  BY <1>1 DEF Pushed, Tells, Grows, TypeOK
<1>2. CASE /\ ~Extends(tip, remote[b])
           /\ pc' = [pc EXCEPT ![r] = "shown"]
           /\ UNCHANGED <<remote, sent, shown, faults>>
  BY <1>2 DEF Pushed, TypeOK
<1>3. CASE /\ faults < MaxFaults /\ faults' = faults + 1
           /\ \/ UNCHANGED remote
              \/ Extends(tip, remote[b]) /\ remote' = [remote EXCEPT ![b] = tip]
           /\ pc' = [pc EXCEPT ![r] = "shown"]
           /\ UNCHANGED <<sent, shown>>
  <2>1. faults' \in 0..MaxFaults
    <3>1. MaxFaults \in Nat
      BY FixAssumption
    <3>2. faults \in 0..MaxFaults
      BY DEF TypeOK
    <3> QED
      BY <1>3, <3>1, <3>2
  <2>2. UNCHANGED remote \/ Grows(b, tip)
    BY <1>3 DEF Grows
  <2> QED
    BY <1>3, <2>1, <2>2 DEF Pushed
<1> QED
  BY <1>1, <1>2, <1>3 DEF PushTo

-----------------------------------------------------------------------------
(* What each kind of step changes *)

NothingOnGitHub == UNCHANGED <<remote, sent, pushes, faults>>

\* A run moves on and nothing else happens.
Moves(r, to) ==
    /\ pc' = [pc EXCEPT ![r] = to]
    /\ UNCHANGED <<shown, tree, local, names, mixed>> /\ NothingOnGitHub

Commits(r) ==
    /\ tree.there
    /\ UNCHANGED <<ai, mixed, pushes>>
    /\ \E told, b \in Branch, tip \in Seq(Commit), edits \in SUBSET Run :
          /\ local' = [local EXCEPT ![b] = tip]
          /\ \/ Pushed(r, told, b, tip, edits)
             \/ UNCHANGED <<remote, sent, shown, faults>> /\ pc' = [pc EXCEPT ![r] = "shown"]
          /\ \/ /\ pc[r] = "push" /\ UNCHANGED names
                /\ b = tree.branch /\ edits = tree.index /\ tree.index # {}
                /\ tree' = [tree EXCEPT !.index = {}]
             \/ /\ pc[r] = "new PR" /\ names < MaxNames /\ names' = names + 1
                /\ b = names'
                /\ tree' = [tree EXCEPT !.branch = names', !.index = {}, !.files = {}]

LEMMA CommitCases ==
    ASSUME TypeOK, Shapes, OnNamed, NEW r \in Run, CommitAndPush(r)
    PROVE  pc[r] = "push" /\ UNCHANGED ai /\ (Moves(r, "shown") \/ Commits(r))
<1> DEFINE edits == tree.index
           base == local[tree.branch]
           tip == Append(base, [by |-> r, edits |-> edits])
<1>1. CASE CommitFails(r, tree.index)
  BY <1>1 DEF CommitFails, CommitAndPush, Moves, NothingOnGitHub
<1>2. ASSUME ~CommitFails(r, tree.index)
      PROVE  /\ tree.there /\ tree.index # {}
             /\ local' = [local EXCEPT ![tree.branch] = tip]
             /\ tree' = [tree EXCEPT !.index = {}]
             /\ PushTo(r, PR, tree.branch, tip, edits)
             /\ UNCHANGED <<ai, names, mixed, pushes>>
  BY <1>2 DEF CommitAndPush
<1>3. edits \in SUBSET Run /\ tree.branch \in Branch
  BY DEF TypeOK
<1>4. tip \in Seq(Commit) /\ \E i \in DOMAIN tip : tip[i] = [by |-> r, edits |-> edits]
  BY <1>3, CommitTip
<1>5. ASSUME ~CommitFails(r, tree.index) PROVE Pushed(r, PR, tree.branch, tip, edits)
  <2>1. PR = tree.branch \/ tree.branch \in 1 .. names'
    <3>1. names' = names
      BY <1>2, <1>5
    <3>2. names \in 0 .. MaxNames /\ MaxNames \in Nat
      BY FixAssumption DEF TypeOK
    <3> QED
      BY <3>1, <3>2 DEF OnNamed, PR
  <2> HIDE DEF tip, edits
  <2> QED
    BY <1>2, <1>3, <1>4, <1>5, <2>1, PRIsBranch, PushCases
<1>6. pc[r] = "push"
  BY DEF CommitAndPush
<1>7. ASSUME ~CommitFails(r, tree.index) PROVE Commits(r)
  <2>1. edits = tree.index
    OBVIOUS
  <2> HIDE DEF tip, edits
  <2> QED
    BY <1>2, <1>3, <1>4, <1>5, <1>6, <1>7, <2>1, PRIsBranch DEF Commits
<1> QED
  BY <1>1, <1>2, <1>6, <1>7

LEMMA BranchCases ==
    ASSUME TypeOK, Shapes, NEW r \in Run, CreateBranchAndPush(r)
    PROVE  pc[r] = "new PR" /\ UNCHANGED ai /\ (Moves(r, "shown") \/ Commits(r))
<1> DEFINE edits == tree.index \cup tree.files
           base == local[tree.branch]
           tip == Append(base, [by |-> r, edits |-> edits])
<1>1. CASE CommitFails(r, {r})
  BY <1>1 DEF CommitFails, CreateBranchAndPush, Moves, NothingOnGitHub
<1>2. ASSUME ~CommitFails(r, {r})
      PROVE  /\ tree.there /\ names < MaxNames /\ names' = names + 1
             /\ tree' = [tree EXCEPT !.branch = names', !.index = {}, !.files = {}]
             /\ UNCHANGED <<ai, mixed, pushes>>
             /\ \/ /\ local' = [local EXCEPT ![names'] = base]
                   /\ pc' = [pc EXCEPT ![r] = "shown"]
                   /\ UNCHANGED <<remote, sent, shown, faults>>
                \/ /\ local' = [local EXCEPT ![names'] = tip]
                   /\ PushTo(r, names', names', tip, edits)
  BY <1>2 DEF CreateBranchAndPush
<1>3. edits \in SUBSET Run
  BY DEF TypeOK
<1>4. /\ base \in Seq(Commit)
      /\ tip \in Seq(Commit)
      /\ \E i \in DOMAIN tip : tip[i] = [by |-> r, edits |-> edits]
  BY <1>3, CommitTip
<1>5. ASSUME ~CommitFails(r, {r}) PROVE names' \in Branch
  <2>1. MaxNames \in Nat
    BY FixAssumption
  <2>2. names \in 0..MaxNames
    BY DEF TypeOK
  <2> QED
    BY <1>2, <1>5, <2>1, <2>2 DEF Branch
<1>6. pc[r] = "new PR"
  BY DEF CreateBranchAndPush
<1>7. ASSUME ~CommitFails(r, {r}) PROVE Commits(r)
  <2> HIDE DEF tip, base, edits
  <2>1. PushTo(r, names', names', tip, edits) => Pushed(r, names', names', tip, edits)
    BY <1>3, <1>4, <1>5, <1>7, PushCases
  <2> QED
    BY <1>2, <1>3, <1>4, <1>5, <1>6, <1>7, <2>1 DEF Commits
<1> QED
  BY <1>1, <1>2, <1>6, <1>7

Begins(r) ==
    /\ pc[r] = "idle"
    /\ Started(r)
    /\ \E b \in Branch : local' = [local EXCEPT ![b] = remote[PR]]
    /\ \/ tree.there /\ tree' = [tree EXCEPT !.index = {}, !.files = {}]
       \/ tree' = [NoTree EXCEPT !.there = TRUE] /\ local' = [local EXCEPT ![PR] = remote[PR]]

LEMMA BeginCases ==
    ASSUME TypeOK, NEW r \in Run, BeginReset(r) \/ BeginNew(r)
    PROVE  Begins(r)
<1>1. tree.branch \in Branch /\ PR \in Branch
  BY PRIsBranch DEF TypeOK
<1> QED
  BY <1>1 DEF BeginReset, BeginNew, MayBegin, Begins

\* The steps of a run that leave the worktree and every branch alone.
Ends(r) ==
    \/ BeginFails(r) \/ ShowNothing(r) \/ RunFails(r) \/ Close(r) \/ OrphanEnds(r)
    \/ Dismiss(r) \/ Submit(r, "push") \/ Submit(r, "new PR")

EndsQuietly(r) ==
    /\ UNCHANGED <<sent, tree, local, remote, names, mixed, pushes>>
    /\ \/ UNCHANGED shown
       \/ shown' = [shown EXCEPT ![r] = NoDiff] /\ pc' = [pc EXCEPT ![r] = "dismissed"]
    /\ faults' \in 0..MaxFaults
    /\ \/ UNCHANGED ai
       \/ \E x \in {"none", "orphan"} : ai' = [ai EXCEPT ![r] = x]
    /\ \/ pc[r] = "idle" /\ pc' = [pc EXCEPT ![r] = "failed"]
       \/ UNCHANGED pc
       \/ /\ pc[r] = "AI"
          /\ \E x \in {"failed", "closed", "no changes"} : pc' = [pc EXCEPT ![r] = x]
       \/ /\ pc[r] = "shown"
          /\ \E x \in {"dismissed", "push", "new PR"} : pc' = [pc EXCEPT ![r] = x]

LEMMA EndCases ==
    ASSUME TypeOK, NEW r \in Run, Ends(r)
    PROVE  EndsQuietly(r)
<1>1. MaxFaults \in Nat /\ faults \in 0..MaxFaults
  BY FixAssumption DEF TypeOK
<1>2. CASE BeginFails(r)
  <2>1. faults' \in 0..MaxFaults
    BY <1>1, <1>2 DEF BeginFails
  <2> QED
    BY <1>2, <2>1 DEF BeginFails, MayBegin, EndsQuietly
<1>3. CASE ShowNothing(r) \/ RunFails(r) \/ Close(r)
  BY <1>1, <1>3 DEF ShowNothing, RunFails, Close, EndsQuietly
<1>4. CASE OrphanEnds(r)
  BY <1>1, <1>4 DEF OrphanEnds, EndsQuietly
<1>5. CASE Dismiss(r) \/ Submit(r, "push") \/ Submit(r, "new PR")
  BY <1>1, <1>5 DEF Dismiss, Submit, EndsQuietly
<1> QED
  BY <1>2, <1>3, <1>4, <1>5 DEF Ends

\* The steps of the model, by what they change.
LEMMA StepCases ==
    ASSUME TypeOK, Shapes, OnNamed, [Next]_vars
    PROVE  \/ UNCHANGED vars
           \/ \E r \in Run : Begins(r) \/ EndsQuietly(r) \/ Edit(r) \/ Show(r)
           \/ \E r \in Run : pc[r] \in {"push", "new PR"} /\ Moves(r, "shown") /\ UNCHANGED ai
           \/ \E r \in Run : Commits(r)
           \/ RemoveWorktree \/ AuthorPushes
           \/ \E b \in Branch : MergeFollowUp(b) /\ Merges(b)
<1>1. ASSUME NEW r \in Run, RunStep(r)
      PROVE  \/ Begins(r) \/ EndsQuietly(r) \/ Edit(r) \/ Show(r) \/ Commits(r)
             \/ pc[r] \in {"push", "new PR"} /\ Moves(r, "shown") /\ UNCHANGED ai
  <2>1. CASE BeginReset(r) \/ BeginNew(r)
    BY <2>1, BeginCases
  <2>2. CASE Ends(r)
    BY <2>2, EndCases
  <2>3. CASE CommitAndPush(r)
    BY <2>3, CommitCases
  <2>4. CASE CreateBranchAndPush(r)
    BY <2>4, BranchCases
  <2> QED
    BY <1>1, <2>1, <2>2, <2>3, <2>4 DEF RunStep, Ends
<1>2. ASSUME NEW b \in Branch, MergeFollowUp(b)
      PROVE  Merges(b)
  <2>1. remote[b] \in History
    BY DEF TypeOK
  <2>2. remote[b] \in Seq(Commit)
    BY <1>2, <2>1, HistoryIsSeq DEF MergeFollowUp
  <2> QED
    BY <1>2, <2>2 DEF MergeFollowUp, Merges
<1> QED
  BY <1>1, <1>2 DEF Next

-----------------------------------------------------------------------------
(* GitHub *)

LEMMA GitHubCases ==
    ASSUME TypeOK, Shapes, OnNamed, [Next]_vars
    PROVE  \/ UNCHANGED <<remote, sent>>
           \/ \E r \in Run, told, b \in Branch, tip \in Seq(Commit), edits \in SUBSET Run :
                 Tells(r, told, b, tip, edits)
           \/ UNCHANGED sent /\ \E b \in Branch, tip \in Seq(Commit) : Grows(b, tip)
           \/ UNCHANGED sent /\ \E b \in Branch : Merges(b)
<1>1. CASE UNCHANGED vars
  BY <1>1 DEF vars, runVars
<1>2. CASE \E r \in Run : Begins(r) \/ EndsQuietly(r) \/ Edit(r) \/ Show(r)
  BY <1>2 DEF Begins, Started, EndsQuietly, Edit, Show, runVars
<1>3. CASE \E r \in Run : Moves(r, "shown")
  BY <1>3 DEF Moves, NothingOnGitHub
<1>4. CASE \E r \in Run : Commits(r)
  <2>1. PICK r \in Run : Commits(r)
    BY <1>4
  <2>2. PICK told \in Branch, b \in Branch, tip \in Seq(Commit), edits \in SUBSET Run :
           Pushed(r, told, b, tip, edits) \/ UNCHANGED <<remote, sent>>
    BY <2>1 DEF Commits
  <2> QED
    BY <2>2 DEF Pushed
<1>5. CASE RemoveWorktree
  BY <1>5 DEF RemoveWorktree, runVars
<1>6. CASE AuthorPushes
  <2> DEFINE c == [by |-> Author, edits |-> {}]
  <2>1. remote[PR] \in Seq(Commit)
    BY PRIsBranch, HistoryIsSeq DEF TypeOK
  <2>2. c \in Commit
    BY DEF Commit
  <2>3. remote' = [remote EXCEPT ![PR] = Append(@, c)] /\ UNCHANGED sent
    BY <1>6 DEF AuthorPushes, runVars
  <2> HIDE DEF c
  <2>4. Append(remote[PR], c) \in Seq(Commit)
    BY <2>1, <2>2
  <2>5. IsPrefix(remote[PR], Append(remote[PR], c))
    BY <2>1, <2>2, PrefixOfAppend
  <2>6. Grows(PR, Append(remote[PR], c))
    BY <2>3, <2>4, <2>5, PRIsBranch DEF Grows, Extends
  <2> QED
    BY <2>3, <2>4, <2>6, PRIsBranch
<1>7. CASE \E b \in Branch : MergeFollowUp(b) /\ Merges(b)
  BY <1>7 DEF MergeFollowUp, runVars
<1> QED
  BY <1>1, <1>2, <1>3, <1>4, <1>5, <1>6, <1>7, StepCases

\* A branch that stays on GitHub keeps its commits, and the PR's branch stays.
Kept(b) ==
    remote[b] # NoBranch /\ remote'[b] # NoBranch => IsPrefix(remote[b], remote'[b])

LEMMA GrowKeeps ==
    ASSUME TypeOK, Shapes, NEW b \in Branch, NEW tip \in Seq(Commit), Grows(b, tip)
    PROVE  /\ remote' \in [Branch -> History] /\ remote'[PR] # NoBranch
           /\ \A d \in Branch : Kept(d) /\ (remote[d] # NoBranch => remote'[d] # NoBranch)
<1>1. tip \in History /\ tip # NoBranch
  BY HistoryIsSeq DEF History
<1>2. remote' \in [Branch -> History]
  BY <1>1 DEF Grows, Shapes
<1>3. ASSUME NEW d \in Branch
      PROVE  Kept(d) /\ (remote[d] # NoBranch => remote'[d] # NoBranch)
  <2>1. CASE d = b
    BY <1>1, <2>1 DEF Grows, Kept, Extends, Shapes
  <2>2. CASE d # b
    <3>1. remote'[d] = remote[d] /\ remote[d] \in History
      BY <2>2 DEF Grows, Shapes
    <3> QED
      BY <3>1, HistoryIsSeq, PrefixOfItself DEF Kept
  <2> QED
    BY <2>1, <2>2
<1>4. remote'[PR] # NoBranch
  BY <1>3, PRIsBranch DEF TypeOK
<1> QED
  BY <1>2, <1>3, <1>4

LEMMA MergeKeeps ==
    ASSUME TypeOK, Shapes, NEW b \in Branch, Merges(b)
    PROVE  /\ remote' \in [Branch -> History] /\ remote'[PR] # NoBranch
           /\ \A d \in Branch : Kept(d) /\ (d # b /\ remote[d] # NoBranch => remote'[d] # NoBranch)
           /\ IsPrefix(remote[b], remote'[PR])
<1>1. /\ b # PR /\ remote[b] \in Seq(Commit) /\ remote[b] # NoBranch
      /\ remote[PR] # NoBranch /\ NoBranch \in History
  BY HistoryIsSeq DEF Merges, TypeOK, History
<1>2. remote' \in [Branch -> History]
  BY <1>1 DEF Merges, Shapes
<1>3. remote'[PR] = remote[b] /\ remote'[b] = NoBranch
  BY <1>1, PRIsBranch DEF Merges, Shapes
<1>4. ASSUME NEW d \in Branch
      PROVE  Kept(d) /\ (d # b /\ remote[d] # NoBranch => remote'[d] # NoBranch)
  <2>1. CASE d = PR
    BY <1>1, <1>3, <2>1 DEF Merges, Kept, Extends
  <2>2. CASE d = b
    BY <1>3, <2>2 DEF Kept
  <2>3. CASE d # PR /\ d # b
    <3>1. remote'[d] = remote[d] /\ remote[d] \in History
      BY <2>3 DEF Merges, Shapes
    <3> QED
      BY <3>1, HistoryIsSeq, PrefixOfItself DEF Kept
  <2> QED
    BY <2>1, <2>2, <2>3
<1> QED
  BY <1>1, <1>2, <1>3, <1>4, PrefixOfItself

\* A commit somebody has been told of is still there after a step that keeps the
\* branch it is on, or that merges it.
LEMMA OnBranchStays ==
    ASSUME Shapes, NEW b \in Branch, NEW d \in Branch, NEW r, NEW edits,
           Stands(r, edits, b), remote' \in [Branch -> History], remote'[d] # NoBranch,
           IsPrefix(remote[b], remote'[d])
    PROVE  Stands(r, edits, d)'
<1>1. remote[b] \in Seq(Commit) /\ remote'[d] \in Seq(Commit)
  BY HistoryIsSeq DEF Stands, Shapes
<1>2. PICK i \in DOMAIN remote[b] : remote[b][i] = [by |-> r, edits |-> edits]
  BY DEF Stands
<1>3. i \in DOMAIN remote'[d] /\ remote'[d][i] = remote[b][i]
  BY <1>1, <1>2, PrefixKeeps
<1> QED
  BY <1>2, <1>3 DEF Stands

\* Branches get their names one after the other, and the worktree is on a named one.
LEMMA NamesStep ==
    ASSUME TypeOK, Shapes, OnNamed, [Next]_vars
    PROVE  /\ names \in Nat /\ names' \in Nat /\ names <= names'
           /\ OnNamed'
<1> USE DEF OnNamed, PR
<1>0. names \in Nat /\ tree.branch \in 0 .. names /\ tree.branch \in Int
  <2>1. names \in 0 .. MaxNames /\ MaxNames \in Nat
    BY FixAssumption DEF TypeOK
  <2> QED
    BY <2>1
<1>1. CASE names' = names /\ (tree'.branch = tree.branch \/ tree'.branch = PR)
  BY <1>0, <1>1
<1>2. CASE names' = names + 1 /\ tree'.branch = names'
  BY <1>0, <1>2
<1>3. tree \in [there : BOOLEAN, branch : Branch, index : SUBSET Run, files : SUBSET Run]
  BY DEF TypeOK
<1>4. CASE UNCHANGED vars
  BY <1>1, <1>4 DEF vars
<1>5. CASE \E r \in Run : Begins(r) \/ EndsQuietly(r) \/ Edit(r) \/ Show(r)
  BY <1>1, <1>3, <1>5 DEF Begins, Started, EndsQuietly, Edit, Show, NoTree
<1>6. CASE \E r \in Run : Moves(r, "shown")
  BY <1>1, <1>6 DEF Moves
<1>7. CASE \E r \in Run : Commits(r)
  BY <1>1, <1>2, <1>3, <1>7 DEF Commits
<1>8. CASE RemoveWorktree \/ AuthorPushes \/ \E b \in Branch : MergeFollowUp(b)
  BY <1>1, <1>8 DEF RemoveWorktree, AuthorPushes, MergeFollowUp, NoTree
<1> QED
  BY <1>4, <1>5, <1>6, <1>7, <1>8, StepCases

LEMMA GitHubStep ==
    ASSUME TypeOK, Shapes, OnNamed, ReportIsTrue, [Next]_vars
    PROVE  /\ remote' \in [Branch -> History] /\ remote'[PR] # NoBranch
           /\ sent' \in [Run -> SUBSET Report]
           /\ \A b \in Branch : Kept(b)
           /\ ReportIsTrue'
<1>0. ASSUME NEW s \in Report
      PROVE  Places(s) \subseteq Branch /\ Places(s) \subseteq Places(s)' /\ PR \in Places(s)
  <2>1. names \in Nat /\ names' \in Nat /\ names <= names'
    BY NamesStep
  <2>2. 1 .. names \subseteq 1 .. names'
    BY <2>1
  <2> QED
    BY <2>2, PRIsBranch DEF Places, Report
<1>1. ASSUME NEW r \in Run, NEW s \in sent[r]
      PROVE  /\ s \in Report /\ Places(s) \subseteq Places(s)'
             /\ \E b \in Places(s) : b \in Branch /\ Stands(r, s.edits, b)
  <2>1. s \in Report
    BY DEF Shapes
  <2> QED
    BY <1>0, <2>1 DEF ReportIsTrue
<1>2. CASE UNCHANGED <<remote, sent>>
  <2>1. ASSUME NEW b \in Branch PROVE Kept(b)
    <3>1. remote[b] \in History
      BY DEF Shapes
    <3> QED
      BY <1>2, <3>1, HistoryIsSeq, PrefixOfItself DEF Kept
  <2>2. ReportIsTrue'
    <3> SUFFICES ASSUME NEW r \in Run, NEW s \in sent'[r]
                 PROVE  \E b \in Places(s)' : Stands(r, s.edits, b)'
      BY DEF ReportIsTrue
    <3>1. s \in sent[r]
      BY <1>2
    <3>2. PICK b \in Places(s) : Stands(r, s.edits, b)
      BY <1>1, <3>1
    <3> QED
      BY <1>1, <1>2, <3>1, <3>2 DEF Stands
  <2>3. remote' \in [Branch -> History] /\ sent' \in [Run -> SUBSET Report] /\ remote'[PR] # NoBranch
    BY <1>2 DEF Shapes, TypeOK
  <2> QED
    BY <2>1, <2>2, <2>3
<1>3. ASSUME NEW b \in Branch, NEW tip \in Seq(Commit), Grows(b, tip),
             NEW r \in Run, NEW s \in sent[r]
      PROVE  \E d \in Places(s)' : Stands(r, s.edits, d)'
  <2>1. PICK d \in Places(s) : d \in Branch /\ Stands(r, s.edits, d)
    BY <1>1
  <2>2. remote' \in [Branch -> History] /\ Kept(d) /\ remote'[d] # NoBranch
    BY <1>3, <2>1, GrowKeeps DEF Stands
  <2>3. Stands(r, s.edits, d)'
    BY <2>1, <2>2, OnBranchStays DEF Kept, Stands
  <2> QED
    BY <1>1, <2>1, <2>3
<1>4. CASE UNCHANGED sent /\ \E b \in Branch, tip \in Seq(Commit) : Grows(b, tip)
  <2>1. ReportIsTrue'
    BY <1>3, <1>4 DEF ReportIsTrue
  <2> QED
    BY <1>4, <2>1, GrowKeeps DEF Shapes
<1>5. CASE \E r \in Run, told, b \in Branch, tip \in Seq(Commit), edits \in SUBSET Run :
              Tells(r, told, b, tip, edits)
  <2>1. PICK r \in Run, told \in Branch, b \in Branch, tip \in Seq(Commit),
             edits \in SUBSET Run : Tells(r, told, b, tip, edits)
    BY <1>5
  <2> DEFINE p == [told |-> told, went |-> b, edits |-> edits]
  <2>2. p \in Report /\ p.told = told /\ p.went = b /\ p.edits = edits
    BY DEF Report
  <2>3. Grows(b, tip) /\ sent' = [sent EXCEPT ![r] = {p}]
    BY <2>1 DEF Tells
  <2>4. Stands(r, edits, b)'
    <3>1. remote'[b] = tip
      BY <2>3 DEF Grows, Shapes
    <3>2. tip # NoBranch
      BY HistoryIsSeq DEF History
    <3> QED
      BY <2>1, <3>1, <3>2 DEF Tells, Stands
  <2> HIDE DEF p
  <2>5. sent' \in [Run -> SUBSET Report]
    BY <2>2, <2>3 DEF Shapes
  <2>6. b \in Places(p)'
    BY <2>1, <2>2 DEF Tells, Places
  <2>7. ASSUME NEW q \in Run, NEW s \in sent'[q]
        PROVE  \E d \in Places(s)' : Stands(q, s.edits, d)'
    <3>1. CASE q = r
      <4>1. s = p
        BY <2>3, <2>7, <3>1 DEF Shapes
      <4> QED
        BY <2>2, <2>4, <2>6, <3>1, <4>1
    <3>2. CASE q # r
      <4>1. s \in sent[q]
        BY <2>3, <2>7, <3>2 DEF Shapes
      <4> QED
        BY <1>3, <2>3, <4>1
    <3> QED
      BY <3>1, <3>2
  <2>8. ReportIsTrue'
    BY <2>7 DEF ReportIsTrue
  <2> QED
    BY <2>3, <2>5, <2>8, GrowKeeps
<1>6. CASE UNCHANGED sent /\ \E b \in Branch : Merges(b)
  <2>1. PICK b \in Branch : Merges(b)
    BY <1>6
  <2>2. ASSUME NEW r \in Run, NEW s \in sent[r]
        PROVE  \E d \in Places(s)' : Stands(r, s.edits, d)'
    <3>1. PICK d \in Places(s) : d \in Branch /\ Stands(r, s.edits, d)
      BY <1>1
    <3>2. CASE d = b
      <4>1. Stands(r, s.edits, PR)'
        BY <2>1, <3>1, <3>2, MergeKeeps, OnBranchStays, PRIsBranch
      <4> QED
        BY <1>0, <1>1, <4>1
    <3>3. CASE d # b
      <4>1. remote' \in [Branch -> History] /\ Kept(d) /\ remote'[d] # NoBranch
        BY <2>1, <3>1, <3>3, MergeKeeps DEF Stands
      <4>2. Stands(r, s.edits, d)'
        BY <3>1, <4>1, OnBranchStays DEF Kept, Stands
      <4> QED
        BY <1>1, <3>1, <4>2
    <3> QED
      BY <3>2, <3>3
  <2>3. ReportIsTrue'
    BY <1>6, <2>2 DEF ReportIsTrue
  <2> QED
    BY <1>6, <2>1, <2>3, MergeKeeps DEF Shapes
<1> QED
  BY <1>2, <1>4, <1>5, <1>6, GitHubCases

-----------------------------------------------------------------------------
(* Types *)

PC == {"idle", "AI", "shown", "push", "new PR", "pushed", "failed",
       "closed", "no changes", "dismissed"}
AI == {"none", "working", "orphan"}
Tree == [there : BOOLEAN, branch : Branch, index : SUBSET Run, files : SUBSET Run]

\* TypeOK and Shapes but for what is on GitHub.
LocalOK ==
    /\ pc \in [Run -> PC]
    /\ ai \in [Run -> AI]
    /\ shown \in [Run -> Diff]
    /\ tree \in Tree
    /\ tree.there \/ tree = NoTree
    /\ local \in [Branch -> History] /\ local[tree.branch] # NoBranch
    /\ mixed \subseteq Run
    /\ names \in 0 .. MaxNames /\ pushes \in 0 .. MaxAuthor /\ faults \in 0 .. MaxFaults

LEMMA MixedByType ==
    ASSUME mixed \subseteq Run, NEW r \in Run
    PROVE  MixedBy(r) \subseteq Run
  BY DEF MixedBy, Open

LEMMA TypeParts ==
    /\ TypeOK /\ Shapes => LocalOK
    /\ /\ LocalOK /\ sent \in [Run -> SUBSET Report]
       /\ remote \in [Branch -> History] /\ remote[PR] # NoBranch
       => TypeOK /\ Shapes
<1>1. TypeOK /\ Shapes => LocalOK
  BY DEF TypeOK, Shapes, LocalOK, PC, AI, Tree
<1>2. ASSUME LocalOK, sent \in [Run -> SUBSET Report],
             remote \in [Branch -> History], remote[PR] # NoBranch
      PROVE  TypeOK /\ Shapes
  BY <1>2 DEF LocalOK, Shapes, TypeOK, PC, AI, Tree, Report
<1> QED
  BY <1>1, <1>2

LEMMA LocalStep ==
    ASSUME TypeOK, Shapes, OnNamed, LocalPR, [Next]_vars
    PROVE  LocalOK' /\ LocalPR'
<1> USE PRIsBranch
<1>0. LocalOK /\ remote[PR] \in History /\ remote[PR] # NoBranch
  BY TypeParts DEF TypeOK
<1>a. NoDiff \in Diff
  BY DEF NoDiff, Diff
<1>1. CASE UNCHANGED vars
  BY <1>0, <1>1 DEF vars, runVars, LocalOK, LocalPR
<1>2. CASE \E r \in Run : Begins(r)
  <2>1. PICK r \in Run : Begins(r)
    BY <1>2
  <2>2. pc' \in [Run -> PC] /\ ai' \in [Run -> AI] /\ shown' \in [Run -> Diff]
    BY <1>0, <2>1 DEF Begins, Started, LocalOK, PC, AI
  <2>3. tree' \in Tree /\ (tree'.there \/ tree' = NoTree)
    BY <1>0, <2>1 DEF Begins, LocalOK, Tree, NoTree
  <2>4. local' \in [Branch -> History] /\ LocalPR'
    BY <1>0, <2>1 DEF Begins, LocalOK, LocalPR
  <2>5. local'[tree'.branch] # NoBranch
    <3>1. tree'.branch = tree.branch \/ tree'.branch = PR
      BY <1>0, <2>1 DEF Begins, LocalOK, Tree, NoTree
    <3>2. local[tree.branch] # NoBranch /\ tree.branch \in Branch
      BY <1>0 DEF LocalOK, Tree
    <3> QED
      BY <1>0, <2>1, <2>4, <3>1, <3>2 DEF Begins, LocalOK, LocalPR
  <2>6. mixed' \subseteq Run /\ UNCHANGED <<names, pushes, faults>>
    BY <1>0, <2>1, MixedByType DEF Begins, Started, LocalOK
  <2> QED
    BY <1>0, <2>2, <2>3, <2>4, <2>5, <2>6 DEF LocalOK
<1>3. CASE \E r \in Run : EndsQuietly(r)
  <2>1. PICK r \in Run : EndsQuietly(r)
    BY <1>3
  <2>2. pc' \in [Run -> PC]
    BY <1>0, <2>1 DEF EndsQuietly, LocalOK, PC
  <2>3. ai' \in [Run -> AI]
    BY <1>0, <2>1 DEF EndsQuietly, LocalOK, AI
  <2>4. shown' \in [Run -> Diff]
    BY <1>0, <1>a, <2>1 DEF EndsQuietly, LocalOK
  <2> QED
    BY <1>0, <2>1, <2>2, <2>3, <2>4 DEF EndsQuietly, LocalOK, LocalPR
<1>4. CASE \E r \in Run : Edit(r)
  <2>1. PICK r \in Run : Edit(r)
    BY <1>4
  <2>2. tree' \in Tree /\ tree'.there /\ tree'.branch = tree.branch
    BY <1>0, <2>1 DEF Edit, LocalOK, Tree
  <2> QED
    BY <1>0, <2>1, <2>2 DEF Edit, runVars, LocalOK, LocalPR
<1>5. CASE \E r \in Run : Show(r)
  <2>1. PICK r \in Run : Show(r)
    BY <1>5
  <2>2. tree' \in Tree /\ tree'.there /\ tree'.branch = tree.branch
    BY <1>0, <2>1 DEF Show, HasChanges, LocalOK, Tree
  <2>3. tree'.index \in SUBSET Run
    BY <2>2 DEF Tree
  <2>4. shown' \in [Run -> Diff]
    BY <1>0, <2>1, <2>3 DEF Show, LocalOK, Diff
  <2>5. pc' \in [Run -> PC] /\ ai' \in [Run -> AI]
    BY <1>0, <2>1 DEF Show, LocalOK, PC, AI
  <2> QED
    BY <1>0, <2>1, <2>2, <2>4, <2>5 DEF Show, LocalOK, LocalPR
<1>6. CASE \E r \in Run : Moves(r, "shown") /\ UNCHANGED ai
  <2>1. pc' \in [Run -> PC]
    BY <1>0, <1>6 DEF Moves, LocalOK, PC
  <2> QED
    BY <1>0, <1>6, <2>1 DEF Moves, NothingOnGitHub, LocalOK, LocalPR
<1>7. CASE \E r \in Run : Commits(r)
  <2>1. PICK r \in Run : Commits(r)
    BY <1>7
  <2>2. PICK told \in Branch, b \in Branch, tip \in Seq(Commit), edits \in SUBSET Run :
           /\ local' = [local EXCEPT ![b] = tip]
           /\ \/ Pushed(r, told, b, tip, edits)
              \/ UNCHANGED <<remote, sent, shown, faults>> /\ pc' = [pc EXCEPT ![r] = "shown"]
           /\ \/ /\ pc[r] = "push" /\ UNCHANGED names
                 /\ b = tree.branch /\ edits = tree.index /\ tree.index # {}
                 /\ tree' = [tree EXCEPT !.index = {}]
              \/ /\ pc[r] = "new PR" /\ names < MaxNames /\ names' = names + 1
                 /\ b = names'
                 /\ tree' = [tree EXCEPT !.branch = names', !.index = {}, !.files = {}]
    BY <2>1 DEF Commits
  <2>3. tip \in History /\ tip # NoBranch
    BY HistoryIsSeq DEF History
  <2>4. pc' \in [Run -> PC] /\ faults' \in 0..MaxFaults
    BY <1>0, <2>2 DEF Pushed, LocalOK, PC
  <2>5. tree' \in Tree /\ tree'.there /\ tree'.branch = b
    <3>1. tree.there /\ tree \in Tree
      BY <1>0, <2>1 DEF Commits, LocalOK
    <3>2. CASE b = tree.branch /\ tree' = [tree EXCEPT !.index = {}]
      BY <3>1, <3>2 DEF Tree
    <3>3. CASE /\ b = names'
               /\ tree' = [tree EXCEPT !.branch = names', !.index = {}, !.files = {}]
      <4>1. tree' = [tree EXCEPT !.branch = b, !.index = {}, !.files = {}]
        BY <3>3
      <4> QED
        BY <3>1, <4>1 DEF Tree
    <3> QED
      BY <2>2, <3>2, <3>3
  <2>6. local' \in [Branch -> History] /\ local'[b] = tip /\ LocalPR'
    BY <1>0, <2>2, <2>3 DEF LocalOK, LocalPR
  <2>7. names' \in 0..MaxNames
    <3>1. names \in 0..MaxNames /\ MaxNames \in Nat
      BY <1>0, FixAssumption DEF LocalOK
    <3>2. names' = names \/ (names < MaxNames /\ names' = names + 1)
      BY <2>2
    <3> QED
      BY <3>1, <3>2
  <2>8. UNCHANGED <<ai, mixed, pushes>>
    BY <2>1 DEF Commits
  <2>9. shown' \in [Run -> Diff]
    BY <1>0, <1>a, <2>2 DEF Pushed, LocalOK
  <2> QED
    BY <1>0, <2>3, <2>4, <2>5, <2>6, <2>7, <2>8, <2>9 DEF LocalOK
<1>8. CASE RemoveWorktree
  <2>1. NoTree \in Tree /\ NoTree.branch = PR
    BY DEF NoTree, Tree
  <2> QED
    BY <1>0, <1>8, <2>1 DEF RemoveWorktree, runVars, LocalOK, LocalPR
<1>9. CASE AuthorPushes
  <2>1. pushes \in 0..MaxAuthor /\ MaxAuthor \in Nat
    BY <1>0, FixAssumption DEF LocalOK
  <2>2. pushes' \in 0..MaxAuthor
    BY <1>9, <2>1 DEF AuthorPushes
  <2> QED
    BY <1>0, <1>9, <2>2 DEF AuthorPushes, runVars, LocalOK, LocalPR
<1>10. CASE \E b \in Branch : MergeFollowUp(b)
  BY <1>0, <1>10 DEF MergeFollowUp, runVars, LocalOK, LocalPR
<1> QED
  BY <1>1, <1>2, <1>3, <1>4, <1>5, <1>6, <1>7, <1>8, <1>9, <1>10, StepCases

-----------------------------------------------------------------------------
(* The worktree and its users *)

LEMMA OpenStates ==
    ASSUME pc \in [Run -> PC], NEW r \in Run
    PROVE  r \in Open <=> pc[r] \in {"AI", "shown", "push", "new PR"}
  BY DEF Open, Over, PC

\* The step of a run with an open one beside it is one in a mixed worktree.
LEMMA SharedStep ==
    ASSUME FixInv, NEW q \in Run, NEW r \in Run, q # r, q \in Open, r \in Open
    PROVE  r \in mixed
  BY DEF FixInv, TogetherAreMixed

LEMMA WorktreeStep ==
    ASSUME FixInv, [Next]_vars
    PROVE  TogetherAreMixed' /\ IndexIsShown'
<1> DEFINE Free(r) == r \in Run \ mixed /\ pc[r] \in {"shown", "push", "new PR"}
<1>0. /\ LocalOK /\ LocalOK' /\ pc \in [Run -> PC] /\ pc' \in [Run -> PC]
      /\ shown \in [Run -> Diff] /\ tree \in Tree
  BY LocalStep, TypeParts DEF FixInv, LocalOK
<1>a. ASSUME NEW r \in Run, Free(r)
      PROVE  (tree.index = {} \/ Shows(shown[r], tree.index)) /\ r \in Open
  BY <1>0, <1>a, OpenStates DEF FixInv, IndexIsShown
\* Fewer are open and the worktree's index and the diffs are as they were, or empty.
<1>b. ASSUME Open' \subseteq Open, mixed' = mixed,
             tree'.index \in {{}, tree.index},
             \A r \in Run : pc'[r] \in {"shown", "push", "new PR"} =>
                pc[r] \in {"shown", "push", "new PR"} /\ shown'[r] = shown[r]
      PROVE  TogetherAreMixed' /\ IndexIsShown'
  BY <1>b DEF FixInv, TogetherAreMixed, IndexIsShown, Shows
<1>1. CASE UNCHANGED vars
  <2>1. Open' \subseteq Open
    BY <1>1 DEF vars, runVars, Open, Over
  <2> QED
    BY <1>1, <1>b, <2>1 DEF vars, runVars
<1>2. CASE \E r \in Run : Begins(r)
  <2>1. PICK r \in Run : Begins(r)
    BY <1>2
  <2>2. /\ pc[r] = "idle" /\ pc' = [pc EXCEPT ![r] = "AI"]
        /\ mixed' = MixedBy(r) /\ UNCHANGED shown
    BY <2>1 DEF Begins, Started
  <2>3. Open' \subseteq Open \cup {r}
    BY <1>0, <2>2 DEF Open, Over
  <2>4. tree'.index = {}
    BY <1>0, <2>1 DEF Begins, Tree, NoTree
  <2>5. CASE Open = {}
    <3>1. TogetherAreMixed'
      BY <2>3, <2>5 DEF TogetherAreMixed
    <3> QED
      BY <2>4, <3>1 DEF IndexIsShown
  <2>6. CASE Open # {}
    <3>1. mixed' = mixed \cup Open \cup {r}
      BY <2>2, <2>6 DEF MixedBy
    <3>2. TogetherAreMixed'
      BY <2>3, <3>1 DEF TogetherAreMixed
    <3> QED
      BY <2>4, <3>2 DEF IndexIsShown
  <2> QED
    BY <2>5, <2>6
<1>3. CASE \E r \in Run : EndsQuietly(r)
  <2>1. PICK r \in Run : EndsQuietly(r)
    BY <1>3
  <2>2. Open' \subseteq Open
    BY <1>0, <2>1 DEF EndsQuietly, Open, Over, PC
  <2>3. \A q \in Run : pc'[q] \in {"shown", "push", "new PR"} =>
           pc[q] \in {"shown", "push", "new PR"} /\ shown'[q] = shown[q]
    BY <1>0, <2>1 DEF EndsQuietly, PC
  <2>4. mixed' = mixed /\ UNCHANGED tree
    BY <2>1 DEF EndsQuietly
  <2> QED
    BY <1>b, <2>2, <2>3, <2>4
<1>4. CASE \E r \in Run : Edit(r)
  <2>1. UNCHANGED <<pc, shown, mixed>> /\ tree'.index = tree.index
    BY <1>0, <1>4 DEF Edit, runVars, Tree
  <2>2. Open' \subseteq Open
    BY <2>1 DEF Open, Over
  <2> QED
    BY <1>b, <2>1, <2>2
<1>5. CASE \E r \in Run : Show(r)
  <2>1. PICK r \in Run : Show(r)
    BY <1>5
  <2>2. /\ pc[r] = "AI" /\ pc' = [pc EXCEPT ![r] = "shown"]
        /\ mixed' = mixed
    BY <2>1 DEF Show
  <2>a. PICK seen \in SUBSET tree'.index :
           shown' = [shown EXCEPT ![r] = [edits |-> seen, whole |-> seen = tree'.index]]
    BY <2>1 DEF Show
  <2>3. Open' \subseteq Open /\ r \in Open
    BY <1>0, <2>2 DEF Open, Over, PC
  <2>4. TogetherAreMixed'
    BY <2>2, <2>3 DEF FixInv, TogetherAreMixed
  <2>5. ASSUME NEW q \in Run \ mixed', pc'[q] \in {"shown", "push", "new PR"}
        PROVE  tree'.index = {} \/ Shows(shown'[q], tree'.index)
    <3>1. CASE q = r
      BY <1>0, <2>a, <3>1 DEF Shows
    <3>2. CASE q # r
      <4>1. Free(q)
        BY <1>0, <2>2, <2>5, <3>2
      <4>2. q \in mixed
        BY <1>a, <2>3, <3>2, <4>1, SharedStep
      <4> QED
        BY <2>2, <2>5, <4>2
    <3> QED
      BY <3>1, <3>2
  <2> QED
    BY <2>4, <2>5 DEF IndexIsShown, Shows
<1>6. CASE \E r \in Run : pc[r] \in {"push", "new PR"} /\ Moves(r, "shown")
  <2>1. PICK r \in Run : pc[r] \in {"push", "new PR"} /\ Moves(r, "shown")
    BY <1>6
  <2>2. Open' \subseteq Open
    BY <1>0, <2>1 DEF Moves, Open, Over, PC
  <2>3. \A q \in Run : pc'[q] \in {"shown", "push", "new PR"} =>
           pc[q] \in {"shown", "push", "new PR"}
    BY <1>0, <2>1 DEF Moves
  <2>4. mixed' = mixed /\ UNCHANGED <<shown, tree>>
    BY <2>1 DEF Moves
  <2> QED
    BY <1>b, <2>2, <2>3, <2>4
<1>7. CASE \E r \in Run : Commits(r)
  <2>1. PICK r \in Run : Commits(r)
    BY <1>7
  <2>2. /\ pc[r] \in {"push", "new PR"}
        /\ \/ pc' = [pc EXCEPT ![r] = "pushed"] /\ shown' = [shown EXCEPT ![r] = NoDiff]
           \/ pc' = [pc EXCEPT ![r] = "shown"] /\ UNCHANGED shown
        /\ mixed' = mixed
    BY <2>1 DEF Commits, Pushed
  <2>3. Open' \subseteq Open
    BY <1>0, <2>2 DEF Open, Over, PC
  <2>4. \A q \in Run : pc'[q] \in {"shown", "push", "new PR"} =>
           pc[q] \in {"shown", "push", "new PR"} /\ shown'[q] = shown[q]
    BY <1>0, <2>2
  <2>5. tree'.index = {}
    BY <1>0, <2>1 DEF Commits, Tree
  <2> QED
    BY <1>b, <2>2, <2>3, <2>4, <2>5
<1>8. CASE RemoveWorktree
  <2>1. UNCHANGED <<pc, shown, mixed>> /\ tree'.index = {}
    BY <1>8 DEF RemoveWorktree, runVars, NoTree
  <2>2. Open' \subseteq Open
    BY <2>1 DEF Open, Over
  <2> QED
    BY <1>b, <2>1, <2>2
<1>9. CASE AuthorPushes \/ \E b \in Branch : MergeFollowUp(b)
  <2>1. UNCHANGED <<pc, shown, mixed, tree>>
    BY <1>9 DEF AuthorPushes, MergeFollowUp, runVars
  <2>2. Open' \subseteq Open
    BY <2>1 DEF Open, Over
  <2> QED
    BY <1>b, <2>1, <2>2
<1>10. TypeOK /\ Shapes /\ OnNamed
  BY DEF FixInv
<1> QED
  BY <1>1, <1>2, <1>3, <1>4, <1>5, <1>6, <1>7, <1>8, <1>9, <1>10, StepCases

-----------------------------------------------------------------------------
(* The invariant holds *)

LEMMA FixInvInit == Init => FixInv
<1> SUFFICES ASSUME Init PROVE FixInv
  OBVIOUS
<1> USE PRIsBranch
<1>1. <<>> \in Seq(Commit) /\ <<>> # NoBranch /\ <<>> \in History /\ NoBranch \in History
  <2>1. <<>> \in Seq(Commit)
    OBVIOUS
  <2> QED
    BY <2>1, BranchAssumption DEF History
<1>2. /\ local \in [Branch -> History] /\ local[PR] # NoBranch
      /\ remote \in [Branch -> History] /\ remote[PR] # NoBranch
  BY <1>1 DEF Init
<1>3. tree \in Tree /\ tree = NoTree /\ tree.branch = PR
  BY DEF Init, Tree, NoTree
<1>4. pc \in [Run -> PC] /\ ai \in [Run -> AI] /\ shown \in [Run -> Diff]
  BY DEF Init, PC, AI, Diff, NoDiff
<1>5. mixed = {} /\ names \in 0..MaxNames /\ pushes \in 0..MaxAuthor /\ faults \in 0..MaxFaults
  BY FixAssumption DEF Init
<1>6. LocalOK /\ LocalPR /\ OnNamed
  BY <1>2, <1>3, <1>4, <1>5 DEF Init, LocalOK, LocalPR, OnNamed, PR
<1>7. sent \in [Run -> SUBSET Report] /\ ReportIsTrue
  BY DEF Init, ReportIsTrue
<1>8. TogetherAreMixed /\ IndexIsShown
  BY DEF Init, TogetherAreMixed, IndexIsShown, Open
<1> QED
  BY <1>2, <1>6, <1>7, <1>8, TypeParts DEF FixInv

LEMMA FixInvStep == FixInv /\ [Next]_vars => FixInv'
<1> SUFFICES ASSUME FixInv, [Next]_vars PROVE FixInv'
  OBVIOUS
<1>1. TypeOK /\ Shapes /\ LocalPR /\ OnNamed /\ ReportIsTrue
  BY DEF FixInv
<1>2. LocalOK' /\ LocalPR' /\ OnNamed'
  BY <1>1, LocalStep, NamesStep
<1>3. /\ remote' \in [Branch -> History] /\ remote'[PR] # NoBranch
      /\ sent' \in [Run -> SUBSET Report] /\ ReportIsTrue'
  BY <1>1, GitHubStep
<1>4. Shapes'
  BY <1>2, <1>3 DEF LocalOK, Shapes
<1>5. TypeOK'
  BY <1>2, <1>3 DEF LocalOK, TypeOK, PC, AI, Tree, Report
<1> QED
  BY <1>2, <1>3, <1>4, <1>5, WorktreeStep DEF FixInv

LEMMA FixCorrect == Spec => []FixInv
<1> QED
  BY FixInvInit, FixInvStep, PTL DEF Spec

-----------------------------------------------------------------------------
(* The theorems *)

\* Every run that is told its fix is pushed finds its commit on GitHub, whatever was
\* pushed, merged, reset or removed since; and every variable keeps its type.
THEOREM ReportsAreTrue == Spec => []ReportsAreSound
<1>1. FixInv => ReportsAreSound
  BY DEF FixInv, ReportsAreSound
<1> QED
  BY <1>1, FixCorrect, PTL

\* No step of the tool takes a commit off a branch on GitHub.
THEOREM PushesOnlyAdd == Spec => HistoryKept
<1>1. FixInv /\ [Next]_vars =>
        [\A b \in Branch : remote[b] # NoBranch /\ remote'[b] # NoBranch =>
            IsPrefix(remote[b], remote'[b])]_vars
  <2> SUFFICES ASSUME FixInv, [Next]_vars
               PROVE  \A b \in Branch : Kept(b)
    BY DEF Kept
  <2> QED
    BY GitHubStep DEF FixInv
<1> QED
  BY <1>1, FixCorrect, PTL DEF Spec, HistoryKept

\* A fix pushed from a worktree of its own is the diff its user was shown, as far as
\* the diff was shown.
THEOREM ShownIsPushed == Spec => PushedIsShown
<1>1. FixInv /\ [Next]_vars =>
        [\A r \in Run \ mixed : pc[r] = "push" /\ sent'[r] # sent[r] =>
            \A s \in sent'[r] : Shows(shown[r], s.edits)]_vars
  <2> SUFFICES ASSUME FixInv, [Next]_vars, NEW r \in Run \ mixed,
                      pc[r] = "push", sent'[r] # sent[r], NEW s \in sent'[r]
               PROVE  Shows(shown[r], s.edits)
    OBVIOUS
  <2>1. TypeOK /\ Shapes /\ OnNamed /\ sent \in [Run -> SUBSET Report]
    BY DEF FixInv, Shapes
  <2>2. PICK q \in Run : Commits(q)
    <3>1. sent' # sent
      OBVIOUS
    <3> QED
      BY <2>1, <3>1, StepCases DEF vars, runVars, Begins, Started, EndsQuietly, Edit, Show,
         Moves, NothingOnGitHub, RemoveWorktree, AuthorPushes, MergeFollowUp
  <2>3. PICK told \in Branch, b \in Branch, tip \in Seq(Commit), edits \in SUBSET Run :
           /\ \/ Pushed(q, told, b, tip, edits)
              \/ UNCHANGED sent
           /\ \/ /\ pc[q] = "push" /\ edits = tree.index /\ tree.index # {}
              \/ pc[q] = "new PR"
    BY <2>2 DEF Commits
  <2>4. sent' = [sent EXCEPT ![q] = {[told |-> told, went |-> b, edits |-> edits]}]
    BY <2>3 DEF Pushed, Tells
  <2>5. q = r
    BY <2>1, <2>4
  <2>6. Shows(shown[r], tree.index) /\ edits = tree.index
    BY <2>3, <2>5 DEF FixInv, IndexIsShown
  <2>7. s.edits = edits
    BY <2>1, <2>4, <2>5
  <2> QED
    BY <2>6, <2>7
<1> QED
  BY <1>1, FixCorrect, PTL DEF Spec, PushedIsShown
=============================================================================
