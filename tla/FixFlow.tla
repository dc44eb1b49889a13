-------------------------------- MODULE FixFlow --------------------------------
(***************************************************************************)
(* The AI fix flow of one pull request: FixService                         *)
(* (app/services/fix_service.py) on the git worktree of the PR             *)
(* (app/adapters/worktree/git_worktree_adapter.py).  A run is one click on *)
(* "Generate Fix": the AI edits the worktree, the staged diff is shown,    *)
(* and the user pushes it to the PR branch or to a branch of its own.      *)
(* All runs of the PR share the worktree.  The handlers interleave where   *)
(* they await; the git commands between two awaits are one step.           *)
(***************************************************************************)
EXTENDS Naturals, Sequences, FiniteSets, SequencesExt

CONSTANTS
    MaxRuns,       \* bound: runs
    MaxNames,      \* bound: branches created for follow-up PRs
    NoBranch,      \* there is no such branch
    MaxAuthor,     \* bound: commits the author of the PR pushes
    MaxFaults,     \* bound: network failures
    MaxCut,        \* bound: diffs too long to be shown whole
    MaxMixed       \* bound: runs that begin before another is over, or on which one begins

ASSUME FixAssumption ==
    /\ MaxRuns \in Nat \ {0} /\ MaxNames \in Nat
    /\ MaxAuthor \in Nat /\ MaxFaults \in Nat
    /\ MaxMixed \in Nat /\ MaxCut \in Nat

Run == 1 .. MaxRuns
PR == 0                      \* the PR's branch; the others are for follow-up PRs
Branch == 0 .. MaxNames
Author == 0                  \* the author of commits the tool did not make

\* A commit is who made it and the runs whose AI made the edits in it; a branch
\* is the sequence of the commits made on it since the PR was opened.
Commit == [by : {Author} \cup Run, edits : SUBSET Run]

ASSUME BranchAssumption == NoBranch \notin Seq(Commit)

VARIABLES
    pc,        \* where each run is
    ai,        \* "none", "working", or "orphan" when nobody reads it any more
    shown,     \* the diff the run's user has been shown, while it can be pushed
    sent,      \* what the run has been told it pushed: {} or one Report
    tree,      \* the worktree: there, branch, index, files
    local,     \* the branches of the bare clone, which the worktree shares
    remote,    \* the branches on GitHub
    mixed,     \* the runs in whose worktree another was begun, and those
    names,     \* names given to follow-up branches, which come from the clock
    pushes,    \* commits the author has pushed
    faults     \* network failures so far

runVars == <<pc, ai, shown, sent>>
vars == <<runVars, tree, local, remote, names, mixed, pushes, faults>>

\* What of the staged diff was shown in full, and whether that is all of it: the
\* diff is cut at 10,000 characters.
Diff == [edits : SUBSET Run, whole : BOOLEAN]
NoDiff == [edits |-> {}, whole |-> TRUE]
Shows(d, edits) == d.edits \subseteq edits /\ (d.whole => d.edits = edits)

\* The branch the run is told its fix is on, the branch git pushed, and the edits.
Report == [told : Branch, went : Branch, edits : SUBSET Run]

NoTree == [there |-> FALSE, branch |-> PR, index |-> {}, files |-> {}]

Init ==
    /\ pc = [r \in Run |-> "idle"]
    /\ ai = [r \in Run |-> "none"]
    /\ shown = [r \in Run |-> NoDiff]
    /\ sent = [r \in Run |-> {}]
    /\ tree = NoTree
    /\ local = [b \in Branch |-> IF b = PR THEN <<>> ELSE NoBranch]
    /\ remote = [b \in Branch |-> IF b = PR THEN <<>> ELSE NoBranch]
    /\ mixed = {} /\ names = 0 /\ pushes = 0 /\ faults = 0

\* git status --porcelain, which fails where there is no worktree.
HasChanges == tree.there /\ tree.index \cup tree.files # {}

Extends(new, old) == IF old = NoBranch THEN TRUE ELSE IsPrefix(old, new)

Over(r) == pc[r] \in {"pushed", "failed", "closed", "no changes", "dismissed"}

-----------------------------------------------------------------------------
(* stream_fix *)

Open == {q \in Run : pc[q] # "idle" /\ ~Over(q)}
MixedBy(r) == IF Open = {} THEN mixed ELSE mixed \cup Open \cup {r}

\* Runs begin in order, whether or not others are still open.
MayBegin(r) ==
    /\ pc[r] = "idle"
    /\ \A q \in 1 .. r - 1 : pc[q] # "idle"
    /\ Cardinality(MixedBy(r)) <= MaxMixed

Started(r) ==
    /\ pc' = [pc EXCEPT ![r] = "AI"]
    /\ ai' = [ai EXCEPT ![r] = "working"]
    /\ mixed' = MixedBy(r)
    /\ UNCHANGED <<shown, sent, remote, names, pushes, faults>>

\* A worktree that is there is reset to the PR's head, on the branch it is on.
BeginReset(r) ==
    /\ MayBegin(r) /\ tree.there
    /\ local' = [local EXCEPT ![tree.branch] = remote[PR]]
    /\ tree' = [tree EXCEPT !.index = {}, !.files = {}]
    /\ Started(r)

\* Otherwise the bare clone fetches the PR's branch, which git does only if that
\* is a fast-forward, and the worktree is added on it.
BeginNew(r) ==
    /\ MayBegin(r) /\ ~tree.there
    /\ Extends(remote[PR], local[PR])
    /\ local' = [local EXCEPT ![PR] = remote[PR]]
    /\ tree' = [NoTree EXCEPT !.there = TRUE]
    /\ Started(r)

\* WorktreeError: the fetch fails, or is refused.
BeginFails(r) ==
    /\ MayBegin(r)
    /\ \/ ~tree.there /\ ~Extends(remote[PR], local[PR]) /\ UNCHANGED faults
       \/ faults < MaxFaults /\ faults' = faults + 1
    /\ pc' = [pc EXCEPT ![r] = "failed"]
    /\ UNCHANGED <<ai, shown, sent, tree, local, remote, names, mixed, pushes>>

\* The AI of a run edits files.
Edit(r) ==
    /\ ai[r] # "none" /\ tree.there /\ r \notin tree.files
    /\ tree' = [tree EXCEPT !.files = @ \cup {r}]
    /\ UNCHANGED <<runVars, local, remote, names, mixed, pushes, faults>>

Cut == Cardinality({r \in Run : ~shown[r].whole})

\* It ends: changes are staged and their diff is shown, as far as it fits.
Show(r) ==
    /\ pc[r] = "AI" /\ HasChanges
    /\ tree' = [tree EXCEPT !.index = @ \cup tree.files, !.files = {}]
    /\ \E seen \in SUBSET tree'.index :
          /\ seen = tree'.index \/ Cut < MaxCut
          /\ shown' = [shown EXCEPT ![r] = [edits |-> seen, whole |-> seen = tree'.index]]
    /\ pc' = [pc EXCEPT ![r] = "shown"]
    /\ ai' = [ai EXCEPT ![r] = "none"]
    /\ UNCHANGED <<sent, local, remote, names, mixed, pushes, faults>>

ShowNothing(r) ==
    /\ pc[r] = "AI" /\ tree.there /\ ~HasChanges
    /\ pc' = [pc EXCEPT ![r] = "no changes"]
    /\ ai' = [ai EXCEPT ![r] = "none"]
    /\ UNCHANGED <<shown, sent, tree, local, remote, names, mixed, pushes, faults>>

\* The AI call raises, or the worktree is gone; what has been edited stays.
RunFails(r) ==
    /\ pc[r] = "AI"
    /\ pc' = [pc EXCEPT ![r] = "failed"]
    /\ ai' = [ai EXCEPT ![r] = "none"]
    /\ UNCHANGED <<shown, sent, tree, local, remote, names, mixed, pushes, faults>>

\* The user leaves: the generator is closed at a yield, the AI process lives on
\* (CliStream, OrphanIsExplained).
Close(r) ==
    /\ pc[r] = "AI"
    /\ pc' = [pc EXCEPT ![r] = "closed"]
    /\ ai' = [ai EXCEPT ![r] = "orphan"]
    /\ UNCHANGED <<shown, sent, tree, local, remote, names, mixed, pushes, faults>>

OrphanEnds(r) ==
    /\ ai[r] = "orphan"
    /\ ai' = [ai EXCEPT ![r] = "none"]
    /\ UNCHANGED <<pc, shown, sent, tree, local, remote, names, mixed, pushes, faults>>

\* The user leaves the diff alone.
Dismiss(r) ==
    /\ pc[r] = "shown"
    /\ pc' = [pc EXCEPT ![r] = "dismissed"]
    /\ shown' = [shown EXCEPT ![r] = NoDiff]
    /\ UNCHANGED <<ai, sent, tree, local, remote, names, mixed, pushes, faults>>

-----------------------------------------------------------------------------
(* push_fix and create_pr_from_fix *)

\* WorktreeNotFoundError, WorktreeNoChangesError.
Submit(r, what) ==
    /\ pc[r] = "shown"
    /\ HasChanges
    /\ pc' = [pc EXCEPT ![r] = what]
    /\ UNCHANGED <<ai, shown, sent, tree, local, remote, names, mixed, pushes, faults>>

\* (a bug to catch: git push --force)
ForcePushTo(r, told, branch, tip, edits) ==
    /\ remote' = [remote EXCEPT ![branch] = tip]
    /\ sent' = [sent EXCEPT ![r] = {[told |-> told, went |-> branch, edits |-> edits]}]
    /\ shown' = [shown EXCEPT ![r] = NoDiff]
    /\ pc' = [pc EXCEPT ![r] = "pushed"]
    /\ UNCHANGED faults

\* (a bug to catch: what git push answers is not looked at)
PushBlindlyTo(r, told, branch, tip, edits) ==
    /\ remote' = IF Extends(tip, remote[branch])
                 THEN [remote EXCEPT ![branch] = tip] ELSE remote
    /\ sent' = [sent EXCEPT ![r] = {[told |-> told, went |-> branch, edits |-> edits]}]
    /\ shown' = [shown EXCEPT ![r] = NoDiff]
    /\ pc' = [pc EXCEPT ![r] = "pushed"]
    /\ UNCHANGED faults

\* The push to `branch` of `tip` succeeds, is rejected (not a fast-forward), fails,
\* or times out once GitHub has done it.  A failure leaves the commit in the
\* worktree, and the buttons in place.
PushTo(r, told, branch, tip, edits) ==
    \/ /\ Extends(tip, remote[branch])
       /\ remote' = [remote EXCEPT ![branch] = tip]
       /\ sent' = [sent EXCEPT ![r] = {[told |-> told, went |-> branch, edits |-> edits]}]
       /\ shown' = [shown EXCEPT ![r] = NoDiff]
       /\ pc' = [pc EXCEPT ![r] = "pushed"]
       /\ UNCHANGED faults
    \/ /\ ~Extends(tip, remote[branch])
       /\ pc' = [pc EXCEPT ![r] = "shown"]
       /\ UNCHANGED <<remote, sent, shown, faults>>
    \/ /\ faults < MaxFaults /\ faults' = faults + 1
       /\ \/ UNCHANGED remote
          \/ Extends(tip, remote[branch]) /\ remote' = [remote EXCEPT ![branch] = tip]
       /\ pc' = [pc EXCEPT ![r] = "shown"]
       /\ UNCHANGED <<sent, shown>>

\* Nothing to commit, or no worktree: an error, and nothing has changed.
CommitFails(r, edits) ==
    /\ ~tree.there \/ edits = {}
    /\ pc' = [pc EXCEPT ![r] = "shown"]
    /\ UNCHANGED <<ai, shown, sent, tree, local, remote, names, mixed, pushes, faults>>

\* (a bug to catch: push_fix stages what has been edited since)
CommitAllAndPush(r) ==
    /\ pc[r] = "push" /\ HasChanges
    /\ LET edits == tree.index \cup tree.files
           tip == Append(local[tree.branch], [by |-> r, edits |-> edits])
       IN /\ local' = [local EXCEPT ![tree.branch] = tip]
          /\ tree' = [tree EXCEPT !.index = {}, !.files = {}]
          /\ PushTo(r, PR, tree.branch, tip, edits)
    /\ UNCHANGED <<ai, names, mixed, pushes>>

\* The commit message is there: the index is committed and the branch the worktree
\* is on is pushed.  Whichever that is, the user is told "Pushed to PR branch".
CommitAndPush(r) ==
    /\ pc[r] = "push"
    /\ \/ CommitFails(r, tree.index)
       \/ /\ tree.there /\ tree.index # {}
          /\ LET edits == tree.index
                 tip == Append(local[tree.branch], [by |-> r, edits |-> edits])
             IN /\ local' = [local EXCEPT ![tree.branch] = tip]
                /\ tree' = [tree EXCEPT !.index = {}]
                /\ PushTo(r, PR, tree.branch, tip, edits)
          /\ UNCHANGED <<ai, names, mixed, pushes>>

\* Everything is staged and committed on a new branch, which is pushed; creating
\* the PR comes last and can be what fails.  When there is nothing to commit the
\* worktree is left on the new branch.
CreateBranchAndPush(r) ==
    /\ pc[r] = "new PR"
    /\ \/ CommitFails(r, {r})
       \/ /\ tree.there /\ names < MaxNames
          /\ names' = names + 1
          /\ LET edits == tree.index \cup tree.files
                 base == local[tree.branch]
                 tip == Append(base, [by |-> r, edits |-> edits])
             IN /\ tree' = [tree EXCEPT !.branch = names', !.index = {}, !.files = {}]
                /\ IF edits = {}
                   THEN /\ local' = [local EXCEPT ![names'] = base]
                        /\ pc' = [pc EXCEPT ![r] = "shown"]
                        /\ UNCHANGED <<remote, sent, shown, faults>>
                   ELSE /\ local' = [local EXCEPT ![names'] = tip]
                        /\ PushTo(r, names', names', tip, edits)
          /\ UNCHANGED <<ai, mixed, pushes>>

-----------------------------------------------------------------------------
(* The worktree manager, and GitHub *)

\* The directory is removed and its registration in the bare clone pruned.
RemoveWorktree ==
    /\ tree.there
    /\ tree' = NoTree
    /\ UNCHANGED <<runVars, local, remote, names, mixed, pushes, faults>>

AuthorPushes ==
    /\ pushes < MaxAuthor
    /\ pushes' = pushes + 1
    /\ remote' = [remote EXCEPT ![PR] = Append(@, [by |-> Author, edits |-> {}])]
    /\ UNCHANGED <<runVars, tree, local, names, mixed, faults>>

\* A follow-up PR is merged into the PR's branch and its own branch deleted.
MergeFollowUp(b) ==
    /\ b # PR /\ remote[b] # NoBranch /\ Extends(remote[b], remote[PR])
    /\ remote' = [remote EXCEPT ![PR] = remote[b], ![b] = NoBranch]
    /\ UNCHANGED <<runVars, tree, local, names, mixed, pushes, faults>>

RunStep(r) ==
    \/ BeginReset(r) \/ BeginNew(r) \/ BeginFails(r)
    \/ Edit(r) \/ Show(r) \/ ShowNothing(r) \/ RunFails(r) \/ Close(r) \/ OrphanEnds(r)
    \/ Dismiss(r) \/ Submit(r, "push") \/ Submit(r, "new PR")
    \/ CommitAndPush(r) \/ CreateBranchAndPush(r)

Next ==
    \/ \E r \in Run : RunStep(r)
    \/ RemoveWorktree \/ AuthorPushes \/ \E b \in Branch : MergeFollowUp(b)

Spec == Init /\ [][Next]_vars

-----------------------------------------------------------------------------
(* Properties *)

History == Seq(Commit) \cup {NoBranch}

\* Every variable keeps its type; a worktree that is not there holds nothing.
TypeOK ==
    /\ pc \in [Run -> {"idle", "AI", "shown", "push", "new PR", "pushed", "failed",
                       "closed", "no changes", "dismissed"}]
    /\ ai \in [Run -> {"none", "working", "orphan"}]
    /\ shown \in [Run -> Diff]
    /\ \A r \in Run : sent[r] \subseteq Report
    /\ tree \in [there : BOOLEAN, branch : Branch, index : SUBSET Run, files : SUBSET Run]
    /\ tree.there \/ tree = NoTree
    /\ \A b \in Branch : local[b] \in History /\ remote[b] \in History
    /\ local[tree.branch] # NoBranch /\ remote[PR] # NoBranch
    /\ mixed \subseteq Run
    /\ names \in 0 .. MaxNames /\ pushes \in 0 .. MaxAuthor /\ faults \in 0 .. MaxFaults

\* The tool never takes a commit off a branch on GitHub, the author's included.
HistoryKept ==
    [][\A b \in Branch : remote[b] # NoBranch /\ remote'[b] # NoBranch =>
          IsPrefix(remote[b], remote'[b])]_vars

\* A run's commit of these edits is on the branch on GitHub.
Stands(r, edits, b) ==
    /\ remote[b] # NoBranch
    /\ \E i \in DOMAIN remote[b] : remote[b][i] = [by |-> r, edits |-> edits]

\* A run that is told its fix is pushed finds its commit on GitHub: on the branch it
\* is told, or on the PR's once that branch is merged.  But a fix that was committed
\* in a worktree which a follow-up PR had left on its branch stands there, while its
\* user is told "Pushed to PR branch".
Places(s) == {s.told, PR} \cup {b \in {s.went} \cap 1 .. names : s.told = PR}

ReportIsTrue ==
    \A r \in Run : \A s \in sent[r] : \E b \in Places(s) : Stands(r, s.edits, b)

\* Whatever the order of fixes, pushes and removals of the worktree, what is reported
\* is there; and every variable keeps its type.
ReportsAreSound == TypeOK /\ ReportIsTrue

\* What push_fix pushes is what its user was shown (README: "review the diff, then
\* push"), unless another run was begun in the worktree while this one was open.  Of
\* a diff longer than 10,000 characters only the beginning was shown, and the rest
\* is pushed with it.
PushedIsShown ==
    [][\A r \in Run \ mixed : pc[r] = "push" /\ sent'[r] # sent[r] =>
          \A s \in sent'[r] : Shows(shown[r], s.edits)]_vars
=============================================================================
