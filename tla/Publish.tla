------------------------------ MODULE Publish ------------------------------
(***************************************************************************)
(* Publishing findings of one PR: the page stages findings, sends them as  *)
(* one "Request changes" review from a modal, or one by one from their     *)
(* cards; the backend turns each into a review, falling back to a review   *)
(* without inline comments and then to a plain comment, and retries what   *)
(* looks transient.  GitHub may have taken a post whose answer says that   *)
(* it failed or never comes.                                               *)
(***************************************************************************)
EXTENDS Naturals, FiniteSets

CONSTANTS
    Finding,      \* the findings of the review shown
    Placed,       \* those with a file and a line
    P1,           \* those of priority P1
    Modal,        \* the modal, as a caller of the backend beside the cards
    MaxPublish,   \* bound: publish commands given by the user
    MaxMisled     \* bound: answers that mislead the backend

ASSUME FindingAssumption ==
    /\ Placed \subseteq Finding
    /\ P1 \subseteq Finding
    /\ Modal \notin Finding
    /\ MaxPublish \in Nat
    /\ MaxMisled \in Nat

VARIABLES
    staged,      \* stagedFindingsByPR of this PR
    modal,       \* publishReviewsModalOpen
    published,   \* cards whose `published` flag is set
    job,         \* the request of each caller, and the backend thread serving it
    github,      \* what stands on the PR
    takes,       \* GitHub takes reviews of ours: the PR is open and not our own
    inDiff,      \* findings whose line GitHub finds in the diff of the head
    commands,    \* publish commands given so far: the identity of a request
    misled       \* answers that say an error of a post taken, or "422" of no refusal

vars == <<staged, modal, published, job, github, takes, inDiff, commands, misled>>
fixed == <<takes, inDiff>>

Caller == Finding \cup {Modal}
Retries == 3                                        \* _RETRY_DELAYS_S
Fallbacks == {"none", "comments_folded_into_body", "posted_as_comment"}

(***************************************************************************)
(* inline and body: the findings sent as inline comments and in the text;  *)
(* tries: retries of the current payload; fallback: what the result says;  *)
(* misread: the text of an error that passes was taken for a refusal.      *)
(***************************************************************************)
Idle == [pc |-> "idle", id |-> 0, sent |-> {}, inline |-> {}, body |-> {},
         tries |-> 0, fallback |-> "none", misread |-> FALSE]

Job == [pc : {"idle", "head", "review", "comment", "inline", "published", "failed"},
        id : 0..MaxPublish, sent : SUBSET Finding, inline : SUBSET Finding,
        body : SUBSET Finding, tries : 0..Retries, fallback : Fallbacks,
        misread : BOOLEAN]

Item == [id : 1..MaxPublish, kind : {"review", "comment", "inline"},
         inline : SUBSET Finding, body : SUBSET Finding, told : BOOLEAN, nth : Nat]

TypeOK ==
    /\ staged \subseteq Finding
    /\ modal \in BOOLEAN
    /\ published \subseteq Finding
    /\ job \in [Caller -> Job]
    /\ github \subseteq Item
    /\ takes \in BOOLEAN
    /\ inDiff \subseteq Placed
    /\ commands \in 0..MaxPublish
    /\ misled \in 0..MaxMisled

Init ==
    /\ staged = {}
    /\ modal = FALSE
    /\ published = {}
    /\ job = [c \in Caller |-> Idle]
    /\ github = {}
    /\ takes \in BOOLEAN
    /\ inDiff \in SUBSET Placed
    /\ commands = 0
    /\ misled = 0

-----------------------------------------------------------------------------
(* The page.  The open modal covers the cards; that nothing is staged while it is open is
   assumed, the code does not see to it.  A card is that of a finding: `published` is
   local to the card, and the list is taken to stay as it is, since the code keys cards
   by their place in it (ReviewTab.svelte:178). *)

Busy == job[Modal].pc # "idle"

Stage(f) ==
    /\ ~modal
    /\ f \notin staged
    /\ staged' = staged \cup {f}
    /\ UNCHANGED <<modal, published, job, github, fixed, commands, misled>>

\* From the card, or from the list in the modal.
Unstage(f) ==
    /\ f \in staged
    /\ ~Busy
    /\ staged' = staged \ {f}
    /\ UNCHANGED <<modal, published, job, github, fixed, commands, misled>>

OpenModal ==
    /\ ~modal
    /\ staged # {}
    /\ modal' = TRUE
    /\ UNCHANGED <<staged, published, job, github, fixed, commands, misled>>

CloseModal ==
    /\ modal
    /\ ~Busy
    /\ modal' = FALSE
    /\ UNCHANGED <<staged, published, job, github, fixed, commands, misled>>

Send(c, pc, inline, body) ==
    /\ job[c].pc = "idle"
    /\ commands < MaxPublish
    /\ commands' = commands + 1
    /\ job' = [job EXCEPT ![c] = [Idle EXCEPT !.pc = pc, !.id = commands + 1,
                                  !.sent = inline \cup body,
                                  !.inline = inline, !.body = body]]
    /\ UNCHANGED <<staged, modal, published, github, fixed, misled>>

\* Findings without a place go into the body.
PublishStagedReview ==
    /\ modal
    /\ staged # {}
    /\ Send(Modal, "head", staged \cap Placed, staged \ Placed)

\* P1 escalates to a review of its own.
PublishFinding(f) ==
    /\ ~modal
    /\ f \notin published
    /\ CASE f \in P1 -> Send(f, "head", {f} \cap Placed, {f} \ Placed)
         [] f \in Placed \ P1 -> Send(f, "inline", {f}, {})
         [] OTHER -> Send(f, "comment", {}, {f})

-----------------------------------------------------------------------------
(* The backend, one worker thread per request. *)

Answered(j, pc, fallback) == [j EXCEPT !.pc = pc, !.tries = 0, !.fallback = fallback]
Failed(j) == Answered(j, "failed", "none")

\* create_review asks for the commit the comments are anchored to.
GetHead(c) ==
    /\ job[c].pc = "head"
    /\ \E ok \in BOOLEAN :
          job' = [job EXCEPT ![c] = IF ok THEN [@ EXCEPT !.pc = "review"] ELSE Failed(@)]
    /\ UNCHANGED <<staged, modal, published, github, fixed, commands, misled>>

(***************************************************************************)
(* A post is answered "ok", or "refused" when GitHub does not take the     *)
(* payload.  A transient status, the end of the time limit and any other   *)
(* error say nothing reliable: the post may have been taken.  The code     *)
(* takes for a refusal what has "422" in its text: that of a commit which  *)
(* is no longer the PR's ("moved"), and that of an error which quotes a    *)
(* number such as 1422, too.                                               *)
(***************************************************************************)
Transient == {"transient", "transient 422"}
Blind == Transient \cup {"other", "other 422"}
Stray == {"moved", "transient 422", "other 422"}
Reads422 == {"refused"} \cup Stray

Outcomes(acceptable) ==
    (IF acceptable THEN {<<"ok", TRUE>>} ELSE {<<"refused", FALSE>>})
    \cup {<<a, FALSE>> : a \in Blind \ Stray}
    \cup (IF misled < MaxMisled THEN {<<a, FALSE>> : a \in Stray} ELSE {})
    \cup (IF acceptable /\ misled < MaxMisled THEN {<<a, TRUE>> : a \in Blind} ELSE {})

Post(j, kind, o) ==
    /\ github' = IF o[2] THEN github \cup {[id |-> j.id, kind |-> kind, inline |-> j.inline,
                                            body |-> j.body, told |-> o[1] = "ok",
                                            nth |-> Cardinality(github)]}
                         ELSE github
    /\ misled' = IF (o[2] /\ o[1] # "ok") \/ o[1] \in Stray THEN misled + 1 ELSE misled

\* Mutant: the findings that were inline are dropped with their comments.
FoldedLosing(j) ==
    [j EXCEPT !.inline = {}, !.tries = 0, !.fallback = "comments_folded_into_body"]

Folded(j) ==
    [j EXCEPT !.inline = {}, !.body = @ \cup j.inline, !.tries = 0,
              !.fallback = "comments_folded_into_body"]

\* A passing error is tried again, whatever its text holds.
Again(j, answer) == answer \in Transient /\ j.tries < Retries

Refusal(j, answer) == answer \in Reads422 /\ ~Again(j, answer)

\* Mutant: the comment is the last resort after any error.
AfterReviewAnyError(j, answer) ==
    CASE answer = "ok" -> Answered(j, "published", j.fallback)
      [] Again(j, answer) -> [j EXCEPT !.tries = j.tries + 1]
      [] Refusal(j, answer) /\ j.inline # {} -> Folded(j)
      [] OTHER -> [j EXCEPT !.pc = "comment", !.tries = 0, !.fallback = "posted_as_comment"]

\* Mutant: a folded review that is refused is folded again.
AfterReviewFoldsAgain(j, answer) ==
    CASE answer = "ok" -> Answered(j, "published", j.fallback)
      [] Again(j, answer) -> [j EXCEPT !.tries = j.tries + 1]
      [] Refusal(j, answer) -> Folded(j)
      [] OTHER -> Failed(j)

\* _post_review_with_retry and what create_review does with its result.
AfterReview(j, answer) ==
    CASE answer = "ok" -> Answered(j, "published", j.fallback)
      [] Again(j, answer) -> [j EXCEPT !.tries = j.tries + 1]
      [] Refusal(j, answer) /\ j.inline # {} -> Folded(j)
      [] Refusal(j, answer) /\ j.inline = {} -> [j EXCEPT !.pc = "comment", !.tries = 0,
                                                          !.fallback = "posted_as_comment"]
      [] OTHER -> Failed(j)

\* The code takes for GitHub's refusal what is none.
Misread(j, answer) == answer \in Stray /\ Refusal(j, answer)

Reviewed(j, answer) ==
    [AfterReview(j, answer) EXCEPT !.misread = j.misread \/ Misread(j, answer)]

PostReview(c) ==
    /\ job[c].pc = "review"
    /\ \E o \in Outcomes(takes /\ job[c].inline \subseteq inDiff) :
          /\ Post(job[c], "review", o)
          /\ job' = [job EXCEPT ![c] = Reviewed(job[c], o[1])]
    /\ UNCHANGED <<staged, modal, published, fixed, commands>>

\* Neither of the plain posts is retried.
PlainPost(c, kind, acceptable) ==
    /\ \E o \in Outcomes(acceptable) :
          /\ Post(job[c], kind, o)
          /\ job' = [job EXCEPT ![c] = IF o[1] = "ok" THEN Answered(@, "published", @.fallback)
                                                      ELSE Failed(@)]
    /\ UNCHANGED <<staged, modal, published, fixed, commands>>

PostComment(c) ==
    /\ job[c].pc = "comment"
    /\ PlainPost(c, "comment", TRUE)

\* The head is asked for first; its failure is one of the outcomes.
PostInlineComment(c) ==
    /\ job[c].pc = "inline"
    /\ PlainPost(c, "inline", job[c].inline \subseteq inDiff)

-----------------------------------------------------------------------------
(* The answer at the page. *)

\* Mutant: what was staged is cleared after a failure too.
HandleModalClears ==
    /\ job[Modal].pc \in {"published", "failed"}
    /\ staged' = {}
    /\ modal' = (modal /\ job[Modal].pc = "failed")
    /\ job' = [job EXCEPT ![Modal] = Idle]
    /\ UNCHANGED <<published, github, fixed, commands, misled>>

HandleModal ==
    /\ job[Modal].pc \in {"published", "failed"}
    /\ IF job[Modal].pc = "published"
       THEN /\ staged' = {}
            /\ modal' = FALSE
       ELSE UNCHANGED <<staged, modal>>
    /\ job' = [job EXCEPT ![Modal] = Idle]
    /\ UNCHANGED <<published, github, fixed, commands, misled>>

HandleCard(f) ==
    /\ job[f].pc \in {"published", "failed"}
    /\ published' = IF job[f].pc = "published" THEN published \cup {f} ELSE published
    /\ job' = [job EXCEPT ![f] = Idle]
    /\ UNCHANGED <<staged, modal, github, fixed, commands, misled>>

Serve(c) == GetHead(c) \/ PostReview(c) \/ PostComment(c) \/ PostInlineComment(c)

Next ==
    \/ \E f \in Finding : Stage(f) \/ Unstage(f) \/ PublishFinding(f) \/ HandleCard(f)
    \/ OpenModal \/ CloseModal \/ PublishStagedReview \/ HandleModal
    \/ \E c \in Caller : Serve(c)

Spec == Init /\ [][Next]_vars

(***************************************************************************)
(* Every call of gh has a time limit, every thread goes on and every       *)
(* answer that has come is handled.                                        *)
(***************************************************************************)
FairSpec ==
    /\ Spec
    /\ \A c \in Caller : WF_vars(Serve(c))
    /\ WF_vars(HandleModal)
    /\ \A f \in Finding : WF_vars(HandleCard(f))

-----------------------------------------------------------------------------

Holds(i, f) == f \in i.inline \cup i.body

(***************************************************************************)
(* "published" is true of GitHub: an item whose answer came has every      *)
(* finding sent, where the warning says that they are: placed ones inline  *)
(* without a warning, all in the text of a review, or in a comment.        *)
(***************************************************************************)
AnswerIsTrue ==
    \A c \in Caller : job[c].pc = "published" =>
        \E i \in github :
            /\ i.id = job[c].id /\ i.told
            /\ i.inline \cup i.body = job[c].sent
            /\ CASE job[c].fallback = "none" -> i.inline = job[c].sent \cap Placed
                 [] job[c].fallback = "comments_folded_into_body" ->
                        i.kind = "review" /\ i.inline = {}
                 [] job[c].fallback = "posted_as_comment" -> i.kind = "comment"

(***************************************************************************)
(* The user who is told that publishing failed may publish again: nothing  *)
(* of the request stands on the PR, unless the answer of a post was lost.  *)
(***************************************************************************)
FailedLeavesNothing ==
    \A c \in Caller : job[c].pc = "failed" =>
        ~\E i \in github : i.id = job[c].id /\ i.told

(***************************************************************************)
(* The fallbacks and retries of one request never post twice, unless the   *)
(* answer of the first was lost.                                           *)
(***************************************************************************)
PostedOnce ==
    \A i, k \in github : i.id = k.id /\ i.told /\ k.told => i = k

(***************************************************************************)
(* Whatever GitHub answers, what the page is told is what stands on the    *)
(* PR, once; and every variable keeps its type.                            *)
(***************************************************************************)
PublishIsExact == TypeOK /\ AnswerIsTrue /\ FailedLeavesNothing /\ PostedOnce

(***************************************************************************)
(* The "Changes requested" banner is given up only where GitHub takes no   *)
(* review, and inline comments only where one is out of the diff: no error *)
(* that passes costs them, but one that is taken for a refusal because of  *)
(* "422" in its text, or because the head was rewritten after it was asked *)
(* for.                                                                    *)
(***************************************************************************)
NoNeedlessFallback ==
    \A c \in Caller : job[c].pc = "published" /\ ~job[c].misread =>
        /\ job[c].fallback = "posted_as_comment" => ~takes
        /\ job[c].fallback = "comments_folded_into_body" =>
               takes /\ ~(job[c].sent \cap Placed \subseteq inDiff)

\* A staged finding is given up by the user or stands on the PR.
StagedNeverDropped ==
    [][\A f \in staged \ staged' :
          Busy => \E i \in github : i.told /\ Holds(i, f)]_vars

\* Every publish command ends, with the modal and the cards usable again.
EveryPublishEnds == \A c \in Caller : []<>(job[c].pc = "idle")

=============================================================================
