--------------------------- MODULE CommentProofs ---------------------------
(***************************************************************************)
(* Proofs about the comments of a PR, in two parts: Publish, for any       *)
(* findings, any number of publish commands and misleading answers - what the *)
(* page is told is true of GitHub; and Comments, for any number of         *)
(* requests, comments and visits - what is new is told once.               *)
(***************************************************************************)
EXTENDS Publish, Comments, FiniteSetTheorems, WellFoundedInduction, TLAPS

-----------------------------------------------------------------------------
(* Publish: the inductive invariant.  AnswerIsTrue is about the end of a   *)
(* request; what is said here of a request is true at each of its steps.   *)

\* A request that is not over holds all that was sent, and says how it is sent.
PayloadOK(j) ==
    /\ j.pc \in {"head", "review", "comment", "inline"} => j.sent = j.inline \cup j.body
    /\ j.pc # "failed" /\ j.fallback = "none" => j.inline = j.sent \cap Placed
    /\ j.fallback = "comments_folded_into_body" =>
          /\ j.pc \in {"review", "published"}
          /\ j.inline = {}
          /\ j.misread \/ ~(takes /\ j.sent \cap Placed \subseteq inDiff)
          /\ j.pc = "published" => takes
    /\ j.fallback = "posted_as_comment" =>
          /\ j.pc \in {"comment", "published"}
          /\ j.inline = {}
          /\ j.misread \/ ~takes

\* Only a request that ended well has an item whose answer came.
ToldOK(j) ==
    IF j.pc = "published"
    THEN \E i \in github :
            /\ i.id = j.id /\ i.told
            /\ i.inline \cup i.body = j.sent
            /\ j.fallback = "none" => i.inline = j.sent \cap Placed
            /\ j.fallback = "comments_folded_into_body" => i.kind = "review" /\ i.inline = {}
            /\ j.fallback = "posted_as_comment" => i.kind = "comment"
    ELSE \A i \in github : i.told => i.id # j.id

JobOK(j) == j.pc # "idle" => j.id \in 1..commands /\ PayloadOK(j) /\ ToldOK(j)

\* Requests under way have identities of their own, none used before.
IdsAreFresh ==
    /\ \A c, d \in Caller :
          c # d /\ job[c].pc # "idle" /\ job[d].pc # "idle" => job[c].id # job[d].id
    /\ \A i \in github : i.id \in 1..commands

\* The modal stays open over what it sent until the answer comes.
ModalCovers == Busy => modal /\ staged = job[Modal].sent

PublishInv ==
    /\ TypeOK
    /\ IsFiniteSet(github)
    /\ \A c \in Caller : JobOK(job[c])
    /\ IdsAreFresh
    /\ PostedOnce
    /\ ModalCovers

-----------------------------------------------------------------------------
(* A request that a step leaves alone. *)

LEMMA JobFrame ==
    ASSUME NEW d \in Caller, job'[d] = job[d], JobOK(job[d]), job[d] \in Job,
           commands \in Nat, commands' \in Nat, commands <= commands',
           UNCHANGED fixed, github \subseteq github',
           \A i \in github' \ github : i.id # job[d].id
    PROVE  JobOK(job[d])'
<1>1. job[d].pc # "idle" /\ PayloadOK(job[d]) => PayloadOK(job[d])'
  BY DEF PayloadOK, fixed
<1>2. ToldOK(job[d]) => ToldOK(job[d])'
  BY DEF ToldOK
<1> QED
  BY <1>1, <1>2 DEF JobOK, Job

\* A step of the thread that serves c, which posts one item at most.
LEMMA ServeStep ==
    ASSUME PublishInv, NEW c \in Caller,
           job[c].pc \in {"head", "review", "comment", "inline"},
           NEW j \in Job, job' = [job EXCEPT ![c] = j],
           j.pc # "idle", j.id = job[c].id, j.sent = job[c].sent,
           UNCHANGED <<staged, modal, published, fixed, commands>>,
           misled' \in 0..MaxMisled,
           \/ UNCHANGED github
           \/ \E x \in Item : x.id = job[c].id /\ github' = github \cup {x},
           JobOK(job[c])'
    PROVE  PublishInv'
<1> USE DEF PublishInv
<1>1. job' \in [Caller -> Job] /\ job'[c] = j /\ \A d \in Caller : d # c => job'[d] = job[d]
  BY DEF TypeOK
<1>2. IsFiniteSet(github') /\ github' \subseteq Item
  BY FS_AddElement DEF TypeOK
<1>3. TypeOK'
  BY <1>1, <1>2 DEF TypeOK, fixed
<1>4. \A d \in Caller : JobOK(job[d])'
  <2> SUFFICES ASSUME NEW d \in Caller, d # c PROVE JobOK(job[d])'
    OBVIOUS
  <2>1. CASE job[d].pc = "idle"
    BY <2>1, <1>1 DEF JobOK
  <2>2. CASE job[d].pc # "idle"
    <3>1. \A i \in github' \ github : i.id # job[d].id
      BY <2>2 DEF IdsAreFresh
    <3> QED
      BY <3>1, <1>1, JobFrame, FindingAssumption DEF TypeOK
  <2> QED
    BY <2>1, <2>2
<1>5. IdsAreFresh'
  BY <1>1 DEF IdsAreFresh, JobOK
<1>6. PostedOnce'
  <2>1. \A i \in github : i.told => i.id # job[c].id
    BY DEF JobOK, ToldOK
  <2> QED
    BY <2>1 DEF PostedOnce
<1>7. ModalCovers'
  BY <1>1 DEF ModalCovers, Busy
<1> QED
  BY <1>2, <1>3, <1>4, <1>5, <1>6, <1>7

\* What a post leaves on GitHub.
LEMMA PostResult ==
    ASSUME TypeOK, NEW c \in Caller, job[c].id \in 1..MaxPublish, IsFiniteSet(github),
           NEW kind \in {"review", "comment", "inline"}, NEW acceptable \in BOOLEAN,
           NEW o \in Outcomes(acceptable), Post(job[c], kind, o)
    PROVE  /\ misled' \in 0..MaxMisled
           /\ \/ UNCHANGED github
              \/ \E x \in Item : x.id = job[c].id /\ github' = github \cup {x}
           /\ o[1] = "ok" => acceptable /\ \E x \in github' :
                 /\ x.id = job[c].id /\ x.told /\ x.kind = kind
                 /\ x.inline = job[c].inline /\ x.body = job[c].body
           /\ o[1] = "refused" => ~acceptable
           /\ o[1] # "ok" => \A x \in github' \ github : ~x.told
<1> DEFINE x == [id |-> job[c].id, kind |-> kind, inline |-> job[c].inline,
                 body |-> job[c].body, told |-> o[1] = "ok", nth |-> Cardinality(github)]
<1>1. x \in Item
  <2>1. job[c].inline \in SUBSET Finding /\ job[c].body \in SUBSET Finding
    BY DEF TypeOK, Job
  <2>2. Cardinality(github) \in Nat
    BY FS_CardinalityType
  <2>3. (o[1] = "ok") \in BOOLEAN
    OBVIOUS
  <2> QED
    BY <2>1, <2>2, <2>3 DEF Item
<1>2. github' = IF o[2] THEN github \cup {x} ELSE github
  BY DEF Post
<1>3. /\ o[1] = "ok" => acceptable /\ o[2]
      /\ o[1] = "refused" => ~acceptable /\ ~o[2]
      /\ (o[2] /\ o[1] # "ok") \/ o[1] \in Stray => misled < MaxMisled
      /\ o[2] \in BOOLEAN
  <2>1. \/ acceptable /\ o = <<"ok", TRUE>>
        \/ ~acceptable /\ o = <<"refused", FALSE>>
        \/ \E a \in {"transient", "other"} : o = <<a, FALSE>>
        \/ misled < MaxMisled /\ \E a \in Blind \cup Stray, b \in BOOLEAN : o = <<a, b>>
    BY DEF Outcomes, Blind, Stray, Transient
  <2>2. CASE acceptable /\ o = <<"ok", TRUE>>
    BY <2>2 DEF Stray
  <2>3. CASE ~acceptable /\ o = <<"refused", FALSE>>
    BY <2>3 DEF Stray
  <2>4. ASSUME NEW a \in {"transient", "other"}, o = <<a, FALSE>>
        PROVE  o[1] = a /\ a # "ok" /\ a # "refused" /\ a \notin Stray /\ o[2] = FALSE
    BY <2>4 DEF Stray
  <2>5. ASSUME misled < MaxMisled, NEW a \in Blind \cup Stray, NEW b \in BOOLEAN, o = <<a, b>>
        PROVE  o[1] = a /\ a # "ok" /\ a # "refused" /\ o[2] = b
    BY <2>5 DEF Blind, Stray, Transient
  <2> QED
    BY <2>1, <2>2, <2>3, <2>4, <2>5
<1>4. misled' \in 0..MaxMisled
  BY <1>3, FindingAssumption DEF Post, TypeOK
<1>5. x.id = job[c].id /\ x.kind = kind /\ x.told = (o[1] = "ok")
      /\ x.inline = job[c].inline /\ x.body = job[c].body
  OBVIOUS
<1> HIDE DEF x
<1> QED
  BY <1>1, <1>2, <1>3, <1>4, <1>5

-----------------------------------------------------------------------------
(* The steps of the page, and those of the backend. *)

LEMMA PublishInit == Init => PublishInv
<1> SUFFICES ASSUME Init PROVE PublishInv
  OBVIOUS
<1>1. Idle \in Job
  BY FindingAssumption DEF Idle, Job, Fallbacks, Retries
<1>2. TypeOK
  <2>1. job \in [Caller -> Job]
    BY <1>1 DEF Init
  <2>2. modal \in BOOLEAN /\ takes \in BOOLEAN
    BY DEF Init
  <2>3. /\ staged \subseteq Finding /\ published \subseteq Finding /\ github \subseteq Item
        /\ inDiff \subseteq Placed /\ commands \in 0..MaxPublish /\ misled \in 0..MaxMisled
    BY FindingAssumption DEF Init
  <2> QED
    BY <2>1, <2>2, <2>3 DEF TypeOK
<1>3. IsFiniteSet(github)
  BY FS_EmptySet DEF Init
<1>4. \A c \in Caller : job[c].pc = "idle"
  BY DEF Init, Idle
<1>5. IdsAreFresh /\ PostedOnce
  BY <1>4 DEF Init, IdsAreFresh, PostedOnce
<1>6. \A c \in Caller : JobOK(job[c])
  BY <1>4 DEF JobOK
<1>7. ModalCovers
  BY <1>4 DEF ModalCovers, Busy, Caller
<1> QED
  BY <1>2, <1>3, <1>5, <1>6, <1>7 DEF PublishInv

\* What is staged and whether the modal is open is no part of a request.
LEMMA PageStep ==
    ASSUME PublishInv, UNCHANGED <<published, job, github, fixed, commands, misled>>,
           staged' \subseteq Finding, modal' \in BOOLEAN,
           ~Busy \/ UNCHANGED <<staged, modal>>
    PROVE  PublishInv'
<1> USE DEF PublishInv
<1>1. TypeOK'
  BY DEF TypeOK, fixed
<1>2. \A c \in Caller : JobOK(job[c])'
  BY JobFrame DEF TypeOK
<1>3. IdsAreFresh' /\ PostedOnce' /\ IsFiniteSet(github')
  BY DEF IdsAreFresh, PostedOnce
<1>4. ModalCovers'
  BY DEF ModalCovers, Busy
<1> QED
  BY <1>1, <1>2, <1>3, <1>4

\* A request gets an identity that nothing on GitHub and no other request has.
LEMMA SendStep ==
    ASSUME PublishInv, NEW c \in Caller, NEW pc \in {"head", "inline", "comment"},
           NEW inline \in SUBSET Placed, NEW body \in SUBSET (Finding \ Placed),
           Send(c, pc, inline, body),
           c = Modal => modal /\ staged = inline \cup body
    PROVE  PublishInv'
<1> USE DEF PublishInv
<1> DEFINE j == [Idle EXCEPT !.pc = pc, !.id = commands + 1, !.sent = inline \cup body,
                             !.inline = inline, !.body = body]
<1>1. /\ job[c].pc = "idle" /\ commands \in Nat /\ commands < MaxPublish
      /\ commands' = commands + 1 /\ job' = [job EXCEPT ![c] = j]
      /\ UNCHANGED <<staged, modal, published, github, fixed, misled>>
  BY FindingAssumption DEF Send, TypeOK
<1>2. /\ j.pc = pc /\ j.id = commands + 1 /\ j.sent = inline \cup body /\ j.inline = inline
      /\ j.body = body /\ j.fallback = "none"
  BY DEF Idle
<1>3. j \in Job
  <2>1. Idle \in Job
    BY FindingAssumption DEF Idle, Job, Fallbacks, Retries
  <2>2. commands + 1 \in 0..MaxPublish
    BY <1>1, FindingAssumption
  <2>3. inline \in SUBSET Finding /\ body \in SUBSET Finding
    BY FindingAssumption
  <2> QED
    BY <2>1, <2>2, <2>3 DEF Job
<1> HIDE DEF j
<1>4. job' \in [Caller -> Job] /\ job'[c] = j /\ \A d \in Caller : d # c => job'[d] = job[d]
  BY <1>1, <1>3 DEF TypeOK
<1>5. TypeOK'
  BY <1>1, <1>4, FindingAssumption DEF TypeOK, fixed
<1>6. \A i \in github : i.id # commands + 1
  BY <1>1 DEF IdsAreFresh
<1>7. \A d \in Caller : JobOK(job[d])'
  <2>1. JobOK(job[c])'
    BY <1>1, <1>2, <1>4, <1>6 DEF JobOK, PayloadOK, ToldOK
  <2>2. ASSUME NEW d \in Caller, d # c PROVE JobOK(job[d])'
    BY <2>2, <1>1, <1>4, JobFrame DEF TypeOK
  <2> QED
    BY <2>1, <2>2
<1>8. IdsAreFresh'
  <2>1. \A d \in Caller : job[d].pc # "idle" => job[d].id \in 1..commands
    BY DEF JobOK
  <2> QED
    BY <2>1, <1>1, <1>2, <1>4 DEF IdsAreFresh
<1>9. PostedOnce' /\ IsFiniteSet(github')
  BY <1>1 DEF PostedOnce
<1>10. ModalCovers'
  BY <1>1, <1>2, <1>4 DEF ModalCovers, Busy, Caller
<1> QED
  BY <1>5, <1>7, <1>8, <1>9, <1>10

\* The answer comes to the page and the request is over.
LEMMA HandleStep ==
    ASSUME PublishInv, NEW c \in Caller, job' = [job EXCEPT ![c] = Idle],
           UNCHANGED <<github, fixed, commands, misled>>, published' \subseteq Finding,
           staged' \subseteq Finding, modal' \in BOOLEAN,
           c # Modal => UNCHANGED <<staged, modal>>
    PROVE  PublishInv'
<1> USE DEF PublishInv
<1>1. Idle \in Job /\ Idle.pc = "idle"
  BY FindingAssumption DEF Idle, Job, Fallbacks, Retries
<1>2. job' \in [Caller -> Job] /\ job'[c] = Idle /\ \A d \in Caller : d # c => job'[d] = job[d]
  BY <1>1 DEF TypeOK
<1>3. TypeOK'
  BY <1>2 DEF TypeOK, fixed
<1>4. \A d \in Caller : JobOK(job[d])'
  <2>1. JobOK(job[c])'
    BY <1>1, <1>2 DEF JobOK
  <2>2. ASSUME NEW d \in Caller, d # c PROVE JobOK(job[d])'
    BY <2>2, <1>2, JobFrame DEF TypeOK
  <2> QED
    BY <2>1, <2>2
<1>5. IdsAreFresh' /\ PostedOnce' /\ IsFiniteSet(github')
  BY <1>1, <1>2 DEF IdsAreFresh, PostedOnce
<1>6. ModalCovers'
  BY <1>1, <1>2 DEF ModalCovers, Busy, Caller
<1> QED
  BY <1>3, <1>4, <1>5, <1>6

\* A request that is being served, in terms of its record.
LEMMA Serving ==
    ASSUME PublishInv, NEW c \in Caller,
           job[c].pc \in {"head", "review", "comment", "inline"}
    PROVE  /\ job[c] \in Job
           /\ job[c].id \in 1..commands /\ job[c].id \in 1..MaxPublish
           /\ PayloadOK(job[c])
           /\ \A i \in github : i.told => i.id # job[c].id
<1>1. job[c] \in Job /\ commands \in 0..MaxPublish
  BY DEF PublishInv, TypeOK
<1>2. JobOK(job[c])
  BY DEF PublishInv
<1>3. job[c].id \in 1..commands /\ PayloadOK(job[c]) /\ ToldOK(job[c])
  BY <1>2 DEF JobOK
<1> QED
  BY <1>1, <1>3, FindingAssumption DEF ToldOK

LEMMA GetHeadStep == ASSUME PublishInv, NEW c \in Caller, GetHead(c) PROVE PublishInv'
<1> DEFINE k == job[c]
<1>1. /\ k.pc = "head" /\ k \in Job /\ k.id \in 1..commands /\ PayloadOK(k)
      /\ \A i \in github : i.told => i.id # k.id
  BY Serving DEF GetHead
<1>2. k.fallback = "none"
  BY <1>1 DEF PayloadOK, Job, Fallbacks
<1>3. UNCHANGED <<staged, modal, published, github, fixed, commands, misled>>
  BY DEF GetHead
<1>4. ASSUME NEW j \in Job, job' = [job EXCEPT ![c] = j],
             \/ j = [k EXCEPT !.pc = "review"]
             \/ j = [k EXCEPT !.pc = "failed", !.tries = 0, !.fallback = "none"]
      PROVE  PublishInv'
  <2>1. job'[c] = j
    BY <1>4 DEF PublishInv, TypeOK
  <2>2. /\ j.pc \in {"review", "failed"} /\ j.id = k.id /\ j.sent = k.sent
        /\ j.inline = k.inline /\ j.body = k.body /\ j.fallback = "none"
    BY <1>1, <1>2, <1>4 DEF Job
  <2>3. JobOK(job[c])'
    BY <1>1, <1>2, <1>3, <2>1, <2>2 DEF JobOK, PayloadOK, ToldOK, fixed
  <2>4. misled' \in 0..MaxMisled
    BY <1>3 DEF PublishInv, TypeOK
  <2> QED
    BY <1>1, <1>3, <1>4, <2>2, <2>3, <2>4, ServeStep
<1>5. PICK ok \in BOOLEAN : job' = [job EXCEPT ![c] = IF ok THEN [@ EXCEPT !.pc = "review"]
                                                        ELSE Failed(@)]
  BY DEF GetHead
<1>6. [k EXCEPT !.pc = "review"] \in Job
  BY <1>1 DEF Job
<1>7. [k EXCEPT !.pc = "failed", !.tries = 0, !.fallback = "none"] \in Job
  <2>1. 0 \in 0..Retries /\ "none" \in Fallbacks
    BY DEF Retries, Fallbacks
  <2> QED
    BY <1>1, <2>1 DEF Job
<1>8. CASE ok
  BY <1>4, <1>5, <1>6, <1>8
<1>9. CASE ~ok
  BY <1>4, <1>5, <1>7, <1>9 DEF Failed, Answered
<1> QED
  BY <1>8, <1>9

\* The five ways in which a post of a review can go on.
LEMMA PostReviewStep == ASSUME PublishInv, NEW c \in Caller, PostReview(c) PROVE PublishInv'
<1> DEFINE k == job[c]
           acceptable == takes /\ k.inline \subseteq inDiff
<1>1. /\ k.pc = "review" /\ k \in Job /\ k.id \in 1..commands /\ k.id \in 1..MaxPublish
      /\ PayloadOK(k) /\ \A i \in github : i.told => i.id # k.id
  BY Serving DEF PostReview
<1>2. /\ k.sent = k.inline \cup k.body
      /\ k.fallback \in {"none", "comments_folded_into_body"}
      /\ k.fallback = "none" => k.inline = k.sent \cap Placed
      /\ k.fallback = "comments_folded_into_body" =>
            k.inline = {} /\ (k.misread \/ ~(takes /\ k.sent \cap Placed \subseteq inDiff))
  BY <1>1 DEF PayloadOK, Job, Fallbacks
<1>3. UNCHANGED <<staged, modal, published, fixed, commands>>
  BY DEF PostReview
<1>4. PICK o \in Outcomes(acceptable) :
         /\ Post(k, "review", o)
         /\ job' = [job EXCEPT ![c] = Reviewed(k, o[1])]
  BY DEF PostReview
<1> DEFINE m == k.misread \/ Misread(k, o[1])
<1>a. job' = [job EXCEPT ![c] = [AfterReview(k, o[1]) EXCEPT !.misread = m]]
  BY <1>4 DEF Reviewed
<1>b. /\ m \in BOOLEAN /\ (k.misread => m)
      /\ o[1] \in Stray /\ ~(o[1] \in Transient /\ k.tries < Retries) => m
  BY <1>1 DEF Misread, Refusal, Again, Reads422, Job
<1>5. /\ misled' \in 0..MaxMisled
      /\ \/ UNCHANGED github
         \/ \E x \in Item : x.id = k.id /\ github' = github \cup {x}
      /\ o[1] = "ok" => acceptable /\ \E x \in github' :
            /\ x.id = k.id /\ x.told /\ x.kind = "review"
            /\ x.inline = k.inline /\ x.body = k.body
      /\ o[1] = "refused" => ~acceptable
      /\ o[1] # "ok" => \A x \in github' \ github : ~x.told
  <2>1. acceptable \in BOOLEAN
    BY DEF PublishInv, TypeOK
  <2> HIDE DEF acceptable
  <2> QED
    BY <1>1, <1>4, <2>1, PostResult DEF PublishInv
<1>6. o[1] # "ok" => \A i \in github' : i.told => i.id # k.id
  BY <1>1, <1>5
<1>7. ASSUME NEW j \in Job, job' = [job EXCEPT ![c] = j], j.pc # "idle",
             j.id = k.id, j.sent = k.sent,
             PayloadOK(j),
             j.pc = "published" =>
                o[1] = "ok" /\ j.inline = k.inline /\ j.body = k.body /\ j.fallback = k.fallback,
             j.pc # "published" => o[1] # "ok"
      PROVE  PublishInv'
  <2>1. job'[c] = j
    BY <1>7 DEF PublishInv, TypeOK
  <2>2. ToldOK(job[c])'
    <3>1. CASE j.pc = "published"
      <4>1. /\ j.fallback \in {"none", "comments_folded_into_body"}
            /\ j.fallback = "none" => j.inline = j.sent \cap Placed
            /\ j.fallback = "comments_folded_into_body" => j.inline = {}
            /\ j.sent = j.inline \cup j.body
        BY <1>2, <1>7, <3>1
      <4> QED
        BY <1>3, <1>5, <1>7, <2>1, <3>1, <4>1 DEF ToldOK
    <3>2. CASE j.pc # "published"
      BY <1>6, <1>7, <2>1, <3>2 DEF ToldOK
    <3> QED
      BY <3>1, <3>2
  <2>3. JobOK(job[c])'
    BY <1>1, <1>3, <1>7, <2>1, <2>2 DEF JobOK, PayloadOK, fixed
  <2> QED
    BY <1>1, <1>3, <1>5, <1>7, <2>3, ServeStep
<1> HIDE DEF k, acceptable, m
<1>8. CASE o[1] = "ok"
  <2> DEFINE j == [k EXCEPT !.pc = "published", !.tries = 0, !.fallback = k.fallback,
                            !.misread = m]
  <2>1. /\ j.misread = m /\ j.pc = "published" /\ j.id = k.id /\ j.sent = k.sent /\ j.fallback = k.fallback
        /\ j.inline = k.inline /\ j.body = k.body
    BY <1>1 DEF Job
  <2>2. j \in Job
    <3>1. 0 \in 0..Retries /\ k.fallback \in Fallbacks
      BY <1>1, <1>8 DEF Job, Retries, Fallbacks
    <3> QED
      BY <1>1, <1>b, <3>1 DEF Job
  <2>3. job' = [job EXCEPT ![c] = j]
    BY <1>a, <1>8 DEF AfterReview, Again, Refusal, Reads422, Stray, Transient, Answered
  <2> HIDE DEF j
  <2>4. PayloadOK(j)
    BY <1>1, <1>2, <1>5, <1>b, <1>8, <2>1 DEF PayloadOK, acceptable, Reads422
  <2> QED
    BY <1>7, <1>8, <2>1, <2>2, <2>3, <2>4 DEF Reads422, Stray, Transient
<1>9. CASE o[1] # "ok" /\ o[1] \in Transient /\ k.tries < Retries
  <2> DEFINE j == [k EXCEPT !.tries = k.tries + 1, !.misread = m]
  <2>1. /\ j.misread = m /\ j.pc = "review" /\ j.id = k.id /\ j.sent = k.sent /\ j.fallback = k.fallback
        /\ j.inline = k.inline /\ j.body = k.body
    BY <1>1 DEF Job
  <2>2. j \in Job
    <3>1. k.tries + 1 \in 0..Retries /\ k.fallback \in Fallbacks
      BY <1>1, <1>9 DEF Job, Retries, Fallbacks
    <3> QED
      BY <1>1, <1>b, <3>1 DEF Job
  <2>3. job' = [job EXCEPT ![c] = j]
    <3>1. AfterReview(k, o[1]) = [k EXCEPT !.tries = k.tries + 1]
      BY <1>9 DEF AfterReview, Again, Refusal
    <3> QED
      BY <1>a, <3>1
  <2> HIDE DEF j
  <2>4. PayloadOK(j)
    BY <1>1, <1>2, <1>5, <1>b, <1>9, <2>1 DEF PayloadOK, acceptable, Reads422
  <2> QED
    BY <1>7, <1>9, <2>1, <2>2, <2>3, <2>4 DEF Reads422, Stray, Transient
<1>10. CASE /\ o[1] \in Reads422 /\ k.inline # {}
             /\ ~(o[1] \in Transient /\ k.tries < Retries)
  <2> DEFINE j == [k EXCEPT !.inline = {}, !.body = k.body \cup k.inline, !.tries = 0,
                            !.fallback = "comments_folded_into_body", !.misread = m]
  <2>1. /\ j.misread = m /\ j.pc = "review" /\ j.id = k.id /\ j.sent = k.sent
        /\ j.fallback = "comments_folded_into_body"
        /\ j.inline = {} /\ j.body = k.body \cup k.inline
    BY <1>1 DEF Job
  <2>2. j \in Job
    <3>1. 0 \in 0..Retries /\ "comments_folded_into_body" \in Fallbacks
      BY <1>1, <1>10 DEF Job, Retries, Fallbacks
    <3> QED
      BY <1>1, <1>b, <3>1 DEF Job
  <2>3. job' = [job EXCEPT ![c] = j]
    BY <1>a, <1>10 DEF AfterReview, Again, Refusal, Reads422, Stray, Transient, Folded
  <2> HIDE DEF j
  <2>4. PayloadOK(j)
    BY <1>1, <1>2, <1>5, <1>b, <1>10, <2>1 DEF PayloadOK, acceptable, Reads422
  <2> QED
    BY <1>7, <1>10, <2>1, <2>2, <2>3, <2>4 DEF Reads422, Stray, Transient
<1>11. CASE /\ o[1] \in Reads422 /\ k.inline = {}
             /\ ~(o[1] \in Transient /\ k.tries < Retries)
  <2> DEFINE j == [k EXCEPT !.pc = "comment", !.tries = 0, !.fallback = "posted_as_comment",
                            !.misread = m]
  <2>1. /\ j.misread = m /\ j.pc = "comment" /\ j.id = k.id /\ j.sent = k.sent /\ j.fallback = "posted_as_comment"
        /\ j.inline = {} /\ j.body = k.body
    BY <1>1, <1>11 DEF Job
  <2>2. j \in Job
    <3>1. 0 \in 0..Retries /\ "posted_as_comment" \in Fallbacks
      BY <1>1, <1>11 DEF Job, Retries, Fallbacks
    <3> QED
      BY <1>1, <1>b, <3>1 DEF Job
  <2>3. job' = [job EXCEPT ![c] = j]
    BY <1>a, <1>11 DEF AfterReview, Again, Refusal, Reads422, Stray, Transient
  <2> HIDE DEF j
  <2>4. PayloadOK(j)
    BY <1>1, <1>2, <1>5, <1>b, <1>11, <2>1 DEF PayloadOK, acceptable, Reads422
  <2> QED
    BY <1>7, <1>11, <2>1, <2>2, <2>3, <2>4 DEF Reads422, Stray, Transient
<1>12. CASE /\ o[1] # "ok" /\ o[1] \notin Reads422
            /\ ~(o[1] \in Transient /\ k.tries < Retries)
  <2> DEFINE j == [k EXCEPT !.pc = "failed", !.tries = 0, !.fallback = "none",
                            !.misread = m]
  <2>1. /\ j.misread = m /\ j.pc = "failed" /\ j.id = k.id /\ j.sent = k.sent /\ j.fallback = "none"
        /\ j.inline = k.inline /\ j.body = k.body
    BY <1>1 DEF Job
  <2>2. j \in Job
    <3>1. 0 \in 0..Retries /\ "none" \in Fallbacks
      BY <1>1, <1>12 DEF Job, Retries, Fallbacks
    <3> QED
      BY <1>1, <1>b, <3>1 DEF Job
  <2>3. job' = [job EXCEPT ![c] = j]
    BY <1>a, <1>12 DEF AfterReview, Again, Refusal, Reads422, Stray, Transient, Failed, Answered
  <2> HIDE DEF j
  <2>4. PayloadOK(j)
    BY <1>1, <1>2, <1>5, <1>b, <1>12, <2>1 DEF PayloadOK, acceptable, Reads422
  <2> QED
    BY <1>7, <1>12, <2>1, <2>2, <2>3, <2>4 DEF Reads422, Stray, Transient
<1> QED
  BY <1>8, <1>9, <1>10, <1>11, <1>12

\* A plain post ends the request, well or badly.
LEMMA PlainPostStep ==
    ASSUME PublishInv, NEW c \in Caller, NEW kind \in {"comment", "inline"},
           job[c].pc = kind, NEW acceptable \in BOOLEAN, PlainPost(c, kind, acceptable)
    PROVE  PublishInv'
<1> DEFINE k == job[c]
<1>1. /\ k.pc = kind /\ k \in Job /\ k.id \in 1..commands /\ k.id \in 1..MaxPublish
      /\ PayloadOK(k) /\ \A i \in github : i.told => i.id # k.id
  BY Serving
<1>2. /\ k.sent = k.inline \cup k.body
      /\ k.fallback \in Fallbacks
      /\ k.fallback = "none" => k.inline = k.sent \cap Placed
      /\ k.fallback # "comments_folded_into_body"
      /\ k.fallback = "posted_as_comment" =>
            kind = "comment" /\ k.inline = {} /\ (k.misread \/ ~takes)
  BY <1>1 DEF PayloadOK, Job
<1>3. UNCHANGED <<staged, modal, published, fixed, commands>>
  BY DEF PlainPost
<1>4. PICK o \in Outcomes(acceptable) :
         /\ Post(k, kind, o)
         /\ job' = [job EXCEPT ![c] = IF o[1] = "ok" THEN Answered(k, "published", k.fallback)
                                                    ELSE Failed(k)]
  BY DEF PlainPost
<1>5. /\ misled' \in 0..MaxMisled
      /\ \/ UNCHANGED github
         \/ \E x \in Item : x.id = k.id /\ github' = github \cup {x}
      /\ o[1] = "ok" => \E x \in github' :
            /\ x.id = k.id /\ x.told /\ x.kind = kind
            /\ x.inline = k.inline /\ x.body = k.body
      /\ o[1] # "ok" => \A x \in github' \ github : ~x.told
  BY <1>1, <1>4, PostResult DEF PublishInv
<1>6. o[1] # "ok" => \A i \in github' : i.told => i.id # k.id
  BY <1>1, <1>5
<1> HIDE DEF k
<1>7. CASE o[1] = "ok"
  <2> DEFINE j == [k EXCEPT !.pc = "published", !.tries = 0, !.fallback = k.fallback]
  <2>1. /\ j.pc = "published" /\ j.id = k.id /\ j.sent = k.sent /\ j.fallback = k.fallback
        /\ j.inline = k.inline /\ j.body = k.body /\ j.misread = k.misread
    BY <1>1 DEF Job
  <2>2. j \in Job
    <3>1. 0 \in 0..Retries
      BY DEF Retries
    <3> QED
      BY <1>1, <3>1 DEF Job
  <2>3. job' = [job EXCEPT ![c] = j]
    BY <1>4, <1>7 DEF Answered
  <2> HIDE DEF j
  <2>4. job'[c] = j
    BY <2>3 DEF PublishInv, TypeOK
  <2>5. PayloadOK(job[c])'
    BY <1>2, <1>3, <2>1, <2>4 DEF PayloadOK, fixed
  <2>6. ToldOK(job[c])'
    BY <1>2, <1>3, <1>5, <1>7, <2>1, <2>4 DEF ToldOK
  <2>7. JobOK(job[c])'
    BY <1>1, <1>3, <2>1, <2>4, <2>5, <2>6 DEF JobOK
  <2> QED
    BY <1>1, <1>3, <1>5, <2>1, <2>2, <2>3, <2>7, ServeStep DEF k
<1>8. CASE o[1] # "ok"
  <2> DEFINE j == [k EXCEPT !.pc = "failed", !.tries = 0, !.fallback = "none"]
  <2>1. j.pc = "failed" /\ j.id = k.id /\ j.sent = k.sent /\ j.fallback = "none"
    BY <1>1 DEF Job
  <2>2. j \in Job
    <3>1. 0 \in 0..Retries /\ "none" \in Fallbacks
      BY DEF Retries, Fallbacks
    <3> QED
      BY <1>1, <3>1 DEF Job
  <2>3. job' = [job EXCEPT ![c] = j]
    BY <1>4, <1>8 DEF Answered, Failed
  <2> HIDE DEF j
  <2>4. job'[c] = j
    BY <2>3 DEF PublishInv, TypeOK
  <2>5. PayloadOK(job[c])' /\ ToldOK(job[c])'
    BY <1>6, <1>8, <2>1, <2>4 DEF PayloadOK, ToldOK
  <2>6. JobOK(job[c])'
    BY <1>1, <1>3, <2>1, <2>4, <2>5 DEF JobOK
  <2> QED
    BY <1>1, <1>3, <1>5, <2>1, <2>2, <2>3, <2>6, ServeStep DEF k
<1> QED
  BY <1>7, <1>8

-----------------------------------------------------------------------------

LEMMA PublishStep == PublishInv /\ [Next]_vars => PublishInv'
<1> SUFFICES ASSUME PublishInv, [Next]_vars PROVE PublishInv'
  OBVIOUS
<1>0. TypeOK
  BY DEF PublishInv
<1>1. ASSUME NEW f \in Finding, Stage(f) PROVE PublishInv'
  BY <1>0, <1>1, PageStep DEF Stage, TypeOK, PublishInv, ModalCovers
<1>2. ASSUME NEW f \in Finding, Unstage(f) PROVE PublishInv'
  BY <1>0, <1>2, PageStep DEF Unstage, TypeOK
<1>3. CASE OpenModal
  BY <1>0, <1>3, PageStep DEF OpenModal, TypeOK, PublishInv, ModalCovers
<1>4. CASE CloseModal
  BY <1>0, <1>4, PageStep DEF CloseModal, TypeOK
<1>5. CASE PublishStagedReview
  <2>1. /\ modal /\ Modal \in Caller
        /\ staged \cap Placed \in SUBSET Placed /\ staged \ Placed \in SUBSET (Finding \ Placed)
        /\ Send(Modal, "head", staged \cap Placed, staged \ Placed)
        /\ staged = (staged \cap Placed) \cup (staged \ Placed)
    BY <1>0, <1>5 DEF PublishStagedReview, TypeOK, Caller
  <2> QED
    BY <2>1, SendStep
<1>6. ASSUME NEW f \in Finding, PublishFinding(f) PROVE PublishInv'
  <2>1. f \in Caller /\ f # Modal
    BY FindingAssumption DEF Caller
  <2>2. \/ Send(f, "head", {f} \cap Placed, {f} \ Placed)
        \/ f \in Placed /\ Send(f, "inline", {f}, {})
        \/ f \notin Placed /\ Send(f, "comment", {}, {f})
    BY <1>6 DEF PublishFinding
  <2> QED
    BY <2>1, <2>2, SendStep
<1>7. ASSUME NEW f \in Finding, HandleCard(f) PROVE PublishInv'
  <2>1. f \in Caller /\ f # Modal
    BY FindingAssumption DEF Caller
  <2> QED
    BY <1>0, <1>7, <2>1, HandleStep DEF HandleCard, TypeOK
<1>8. CASE HandleModal
  BY <1>0, <1>8, HandleStep DEF HandleModal, TypeOK, Caller
<1>9. ASSUME NEW c \in Caller, GetHead(c) PROVE PublishInv'
  BY <1>9, GetHeadStep
<1>10. ASSUME NEW c \in Caller, PostReview(c) PROVE PublishInv'
  BY <1>10, PostReviewStep
<1>11. ASSUME NEW c \in Caller, PostComment(c) PROVE PublishInv'
  BY <1>11, PlainPostStep DEF PostComment
<1>12. ASSUME NEW c \in Caller, PostInlineComment(c) PROVE PublishInv'
  BY <1>12, PlainPostStep DEF PostInlineComment
<1>13. CASE UNCHANGED vars
  BY <1>0, <1>13, PageStep DEF vars, fixed, TypeOK
<1> QED
  BY <1>1, <1>2, <1>3, <1>4, <1>5, <1>6, <1>7, <1>8, <1>9, <1>10, <1>11, <1>12, <1>13
     DEF Next, Serve

LEMMA PublishCorrect == Spec => []PublishInv
BY PublishInit, PublishStep, PTL DEF Spec

(***************************************************************************)
(* For any findings, commands and misleading answers: what the page is told*)
(* of a publish request is what create_review and the plain posts left on  *)
(* the PR; a failed request left nothing whose answer came; no request     *)
(* posted twice unless an answer was lost.                                 *)
(***************************************************************************)
THEOREM ExactlyPublished == Spec => []PublishIsExact
<1>1. PublishInv => PublishIsExact
  <2> SUFFICES ASSUME PublishInv PROVE PublishIsExact
    OBVIOUS
  <2> USE DEF PublishInv
  <2>1. \A c \in Caller : job[c] \in Job
    BY DEF TypeOK
  <2>2. AnswerIsTrue
    <3> SUFFICES ASSUME NEW c \in Caller, job[c].pc = "published"
                 PROVE  \E i \in github :
                           /\ i.id = job[c].id /\ i.told
                           /\ i.inline \cup i.body = job[c].sent
                           /\ CASE job[c].fallback = "none" -> i.inline = job[c].sent \cap Placed
                                [] job[c].fallback = "comments_folded_into_body" ->
                                      i.kind = "review" /\ i.inline = {}
                                [] job[c].fallback = "posted_as_comment" -> i.kind = "comment"
      BY DEF AnswerIsTrue
    <3>1. ToldOK(job[c]) /\ job[c].fallback \in Fallbacks
      BY <2>1 DEF JobOK, Job
    <3> QED
      BY <3>1 DEF ToldOK, Fallbacks
  <2>3. FailedLeavesNothing
    BY DEF FailedLeavesNothing, JobOK, ToldOK
  <2> QED
    BY <2>2, <2>3 DEF PublishIsExact
<1> QED
  BY <1>1, PublishCorrect, PTL

(***************************************************************************)
(* Whatever errors pass, a comment takes the place of a review only where  *)
(* GitHub takes no review, and the inline comments go into the text only   *)
(* where one of them is out of the diff, unless the request misread the    *)
(* text of an error as a refusal.                                          *)
(***************************************************************************)
THEOREM FallbacksAreNeeded == Spec => []NoNeedlessFallback
<1>1. PublishInv => NoNeedlessFallback
  BY DEF PublishInv, NoNeedlessFallback, JobOK, PayloadOK
<1> QED
  BY <1>1, PublishCorrect, PTL

(***************************************************************************)
(* While the modal's request is under way, and when its answer clears what *)
(* is staged, no staged finding goes that is not on the PR: what is staged *)
(* is then still what was sent.                                            *)
(***************************************************************************)
THEOREM NothingStagedIsDropped == Spec => StagedNeverDropped
<1>1. PublishInv /\ [Next]_vars =>
         [\A f \in staged \ staged' : Busy => \E i \in github : i.told /\ Holds(i, f)]_vars
  <2> SUFFICES ASSUME PublishInv, Next, NEW f \in staged, f \notin staged', Busy
               PROVE  \E i \in github : i.told /\ Holds(i, f)
    OBVIOUS
  <2>1. HandleModal /\ job[Modal].pc = "published"
    BY DEF Next, Serve, Stage, Unstage, PublishFinding, HandleCard, OpenModal, CloseModal,
           PublishStagedReview, HandleModal, Send, GetHead, PostReview, PostComment,
           PostInlineComment, PlainPost
  <2>2. staged = job[Modal].sent /\ ToldOK(job[Modal])
    BY <2>1 DEF PublishInv, ModalCovers, JobOK, Caller
  <2>3. PICK i \in github : i.told /\ i.inline \cup i.body = staged
    BY <2>1, <2>2 DEF ToldOK
  <2> QED
    BY <2>3 DEF Holds
<1> QED
  BY <1>1, PublishCorrect, PTL DEF Spec, StagedNeverDropped

-----------------------------------------------------------------------------
(* Comments: induction over the naturals, with a set where the library has an operator. *)

LEMMA LeastNatural ==
    ASSUME NEW T \in SUBSET Nat, T # {}
    PROVE  \E m \in T : \A k \in T : m <= k
<1> DEFINE R == OpToRel(<, Nat)
<1>1. IsWellFoundedOn(R, Nat)
  BY NatLessThanWellFounded
<1>2. \A i, j \in Nat : <<i, j>> \in R <=> i < j
  BY DEF OpToRel
<1> HIDE DEF R
<1>3. PICK m \in T : \A k \in T : ~(<<k, m>> \in R)
  BY <1>1, WFMin
<1>4. \A k \in T : ~(k < m)
  BY <1>2, <1>3
<1> QED
  BY <1>3, <1>4

LEMMA InductionOnSet ==
    ASSUME NEW S, 0 \in S, \A n \in Nat : n \in S => n + 1 \in S
    PROVE  \A n \in Nat : n \in S
<1> DEFINE T == Nat \ S
<1> SUFFICES ASSUME T # {} PROVE FALSE
  OBVIOUS
<1>1. PICK m \in T : \A k \in T : m <= k
  BY LeastNatural
<1>2. m # 0 /\ m - 1 \in Nat /\ m - 1 \notin T
  BY <1>1
<1> QED
  BY <1>1, <1>2

-----------------------------------------------------------------------------
(* Threads *)

\* Replies are written after what they answer.
RepliesAreLater == \A c \in DOMAIN comments : comments[c].parent \in Nat /\ comments[c].parent < c

\* RootOf(S) is the function its definition describes: following replies ends, as each
\* goes to an earlier comment.
LEMMA RootOfIs ==
    ASSUME comments \in Seq(Comment), RepliesAreLater, NEW S \in SUBSET DOMAIN comments
    PROVE  RootOf(S) = [c \in S |-> IF comments[c].parent \in S
                                    THEN RootOf(S)[comments[c].parent] ELSE c]
<1> DEFINE parent(c) == comments[c].parent
           upto(n) == {c \in S : c <= n}
           Root(g, n) == g = [c \in upto(n) |-> IF parent(c) \in S THEN g[parent(c)] ELSE c]
           Rooted == {n \in Nat : \E g : Root(g, n)}
<1>1. /\ Len(comments) \in Nat /\ S \subseteq 1 .. Len(comments)
      /\ \A c \in S : parent(c) \in Nat /\ parent(c) < c
  BY DEF RepliesAreLater
<1>2. 0 \in Rooted
  <2>1. upto(0) = {}
    BY <1>1
  <2>2. Root([c \in {} |-> c], 0)
    BY <2>1
  <2> QED
    BY <2>2
<1>3. ASSUME NEW n \in Nat, n \in Rooted PROVE n + 1 \in Rooted
  <2>1. PICK g : Root(g, n)
    BY <1>3
  <2> DEFINE h == [c \in upto(n + 1) |-> IF parent(c) \in S THEN g[parent(c)] ELSE c]
  <2>2. ASSUME NEW c \in upto(n) PROVE h[c] = g[c]
    <3>1. c \in upto(n + 1)
      BY <1>1
    <3>2. h[c] = IF parent(c) \in S THEN g[parent(c)] ELSE c
      BY <3>1
    <3>3. g[c] = IF parent(c) \in S THEN g[parent(c)] ELSE c
      BY <2>1, <2>2
    <3> QED
      BY <3>2, <3>3
  <2>3. \A c \in upto(n + 1) : parent(c) \in S => parent(c) \in upto(n)
    BY <1>1
  <2>4. \A c \in upto(n + 1) : parent(c) \in S => h[parent(c)] = g[parent(c)]
    BY <2>2, <2>3
  <2>5. Root(h, n + 1)
    BY <2>4
  <2> HIDE DEF h, Root
  <2>6. \E f : Root(f, n + 1)
    BY <2>5
  <2> QED
    BY <2>6
<1> HIDE DEF Rooted
<1>4. Len(comments) \in Rooted
  BY <1>1, <1>2, <1>3, InductionOnSet
<1> USE DEF Rooted
<1>5. PICK g : Root(g, Len(comments))
  BY <1>4
<1>6. upto(Len(comments)) = S
  BY <1>1
<1>7. g = [c \in S |-> IF parent(c) \in S THEN g[parent(c)] ELSE c]
  BY <1>5, <1>6
<1> QED
  BY <1>7, Zenon DEF RootOf

\* The root of a comment an answer holds is one it holds, and its own root.
LEMMA RootsAreRoots ==
    ASSUME comments \in Seq(Comment), RepliesAreLater, NEW S \in SUBSET DOMAIN comments
    PROVE  \A c \in S : RootOf(S)[c] \in S /\ RootOf(S)[RootOf(S)[c]] = RootOf(S)[c]
<1> DEFINE root == RootOf(S)
           parent(c) == comments[c].parent
           Done == {n \in Nat : \A c \in S : c <= n => root[c] \in S /\ root[root[c]] = root[c]}
<1>1. /\ Len(comments) \in Nat /\ S \subseteq 1 .. Len(comments)
      /\ \A c \in S : parent(c) \in Nat /\ parent(c) < c
  BY DEF RepliesAreLater
<1>2. root = [c \in S |-> IF parent(c) \in S THEN root[parent(c)] ELSE c]
  BY RootOfIs
<1> HIDE DEF root
<1>3. \A c \in S : root[c] = IF parent(c) \in S THEN root[parent(c)] ELSE c
  BY <1>2
<1>4. 0 \in Done
  BY <1>1
<1>5. ASSUME NEW n \in Nat, n \in Done PROVE n + 1 \in Done
  <2> SUFFICES ASSUME NEW c \in S, c <= n + 1
               PROVE  root[c] \in S /\ root[root[c]] = root[c]
    OBVIOUS
  <2>1. CASE parent(c) \in S
    <3>1. parent(c) <= n
      BY <1>1
    <3> QED
      BY <1>3, <1>5, <2>1, <3>1
  <2>2. CASE parent(c) \notin S
    BY <1>3, <2>2
  <2> QED
    BY <2>1, <2>2
<1> HIDE DEF Done
<1>6. Len(comments) \in Done
  BY <1>1, <1>4, <1>5, InductionOnSet
<1> QED
  BY <1>1, <1>6 DEF Done, root

-----------------------------------------------------------------------------
(* Comments: the inductive invariant *)

Answer == [last : Time \cup {None}, seen : SUBSET Id, upto : 0..MaxComments,
           partial : BOOLEAN, stamp : Time, given : BOOLEAN]

\* What was fetched is all there was, but for what was deleted and what failed to come.
Fetched(v) ==
    /\ v.upto <= Len(comments) /\ v.seen \subseteq 1 .. v.upto
    /\ \A c \in (1 .. v.upto) \ v.seen :
          c \in deleted \/ (v.partial /\ comments[c].kind = "review")

\* An answer shows no comment written after its visit was recorded.
LogOK ==
    /\ log \in Seq(Answer)
    /\ \A k \in DOMAIN log :
          /\ Fetched(log[k])
          /\ log[k].stamp <= clock
          /\ \A c \in log[k].seen : comments[c].born <= log[k].stamp

\* Every visit is that of an answer, ...
VisitIsLogged == visit # None => \E k \in DOMAIN log : log[k].stamp = visit

\* ... and a request that has read it fetches what that answer had, or could not have.
Follows(j, v) ==
    /\ v.stamp = j.last
    /\ j.pc = "fetched" =>
          \A c \in j.seen \ v.seen : c > v.upto \/ (v.partial /\ comments[c].kind = "review")

ReadingOK ==
    \A r \in Request : reading[r].pc # "idle" =>
        /\ reading[r].pc = "fetched" => Fetched(reading[r])
        /\ reading[r].last # None => \E k \in DOMAIN log : Follows(reading[r], log[k])

CommentsInv ==
    /\ CommentsTypeOK
    /\ \A c \in DOMAIN comments : comments[c].born <= clock
    /\ LogOK /\ VisitIsLogged /\ ReadingOK
    /\ UnmarkedIsExplained

-----------------------------------------------------------------------------
(* Steps *)

\* Comments are only added, and stay as they were written.
Grown ==
    /\ Len(comments) \in Nat /\ Len(comments') \in Nat /\ Len(comments) <= Len(comments')
    /\ DOMAIN comments = 1 .. Len(comments) /\ DOMAIN comments' = 1 .. Len(comments')
    /\ \A c \in 1 .. Len(comments) : comments'[c] = comments[c]
    /\ deleted \subseteq deleted'
    /\ clock \in Nat /\ clock' \in Nat /\ clock <= clock'

\* What a step does to the answers.
LogGrown ==
    \/ log' = log
    \/ \E r \in Request : SetLastVisited(r)

LEMMA StepGrows ==
    ASSUME CommentsTypeOK, [CommentsNext]_commentVars
    PROVE  Grown /\ LogGrown
<1>1. Len(comments) \in Nat /\ DOMAIN comments = 1 .. Len(comments) /\ clock \in Nat
  BY DEF CommentsTypeOK, Time
<1>2. UNCHANGED <<comments, deleted, clock>> => Grown
  BY <1>1 DEF Grown
<1>3. CASE Tock
  BY <1>1, <1>3 DEF Tock, Grown, LogGrown
<1>4. ASSUME NEW a \in {"us", "them"}, NEW k \in {"pr", "review"}, NEW p \in 0 .. MaxComments,
             Write(a, k, p)
      PROVE  Grown /\ LogGrown
  <2> DEFINE new == [author |-> a, kind |-> k, parent |-> p, born |-> clock]
  <2>1. comments' = Append(comments, new) /\ UNCHANGED <<clock, deleted, log>>
    BY <1>4 DEF Write
  <2>2. comments \in Seq(Comment) /\ new \in Comment
    BY DEF CommentsTypeOK, Comment
  <2> HIDE DEF new
  <2>3. /\ Len(comments') = Len(comments) + 1 /\ DOMAIN comments' = 1 .. Len(comments) + 1
        /\ \A c \in 1 .. Len(comments) : comments'[c] = comments[c]
    BY <2>1, <2>2
  <2> QED
    BY <1>1, <2>1, <2>3 DEF Grown, LogGrown
<1>5. ASSUME NEW c \in Id, Delete(c) PROVE Grown /\ LogGrown
  BY <1>1, <1>5 DEF Delete, Grown, LogGrown
<1>6. ASSUME NEW r \in Request, Begin(r) \/ FetchComments(r) \/ FetchFails(r) \/ SetLastVisited(r)
      PROVE  Grown /\ LogGrown
  BY <1>2, <1>6 DEF Begin, FetchComments, FetchFails, SetLastVisited, LogGrown
<1>7. CASE UNCHANGED commentVars
  BY <1>2, <1>7 DEF commentVars, LogGrown
<1> QED
  BY <1>3, <1>4, <1>5, <1>6, <1>7 DEF CommentsNext

LEMMA CommentsTypeStep ==
    ASSUME CommentsTypeOK, LogOK, ReadingOK, [CommentsNext]_commentVars
    PROVE  CommentsTypeOK'
<1> USE CommentsAssumption
<1>1. CASE Tock
  BY <1>1 DEF Tock, CommentsTypeOK, Time
<1>2. ASSUME NEW a \in {"us", "them"}, NEW k \in {"pr", "review"}, NEW p \in 0 .. MaxComments,
             Write(a, k, p)
      PROVE  CommentsTypeOK'
  <2> DEFINE new == [author |-> a, kind |-> k, parent |-> p, born |-> clock]
  <2>1. comments' = Append(comments, new) /\ UNCHANGED <<clock, deleted, visit, reading, log>>
    BY <1>2 DEF Write
  <2>2. comments \in Seq(Comment) /\ new \in Comment /\ new.parent = p
    BY DEF CommentsTypeOK, Comment
  <2>3. Len(comments) < MaxComments /\ (p # 0 => p \in DOMAIN comments)
    BY <1>2 DEF Write, Present
  <2> HIDE DEF new
  <2>4. /\ comments' \in Seq(Comment) /\ Len(comments') = Len(comments) + 1
        /\ DOMAIN comments = 1 .. Len(comments) /\ DOMAIN comments' = 1 .. Len(comments) + 1
        /\ \A c \in 1 .. Len(comments) : comments'[c] = comments[c]
        /\ comments'[Len(comments) + 1] = new /\ Len(comments) \in Nat
    BY <2>1, <2>2
  <2>5. \A c \in DOMAIN comments' : comments'[c].parent < c
    BY <2>2, <2>3, <2>4 DEF CommentsTypeOK
  <2> QED
    BY <2>1, <2>3, <2>4, <2>5 DEF CommentsTypeOK, Reading
<1>3. ASSUME NEW c \in Id, Delete(c) PROVE CommentsTypeOK'
  BY <1>3 DEF Delete, Present, CommentsTypeOK
<1>4. ASSUME NEW r \in Request, Begin(r) PROVE CommentsTypeOK'
  <2>1. NotReading \in Reading
    BY DEF NotReading, Reading
  <2>2. [NotReading EXCEPT !.pc = "read", !.last = visit] \in Reading
    BY <2>1 DEF Reading, CommentsTypeOK
  <2> QED
    BY <1>4, <2>2 DEF Begin, CommentsTypeOK
<1>5. ASSUME NEW r \in Request, FetchComments(r) PROVE CommentsTypeOK'
  <2>1. PICK partial \in BOOLEAN :
             reading' = [reading EXCEPT ![r] =
                           [@ EXCEPT !.pc = "fetched",
                                     !.seen = {c \in Present : partial => comments[c].kind = "pr"},
                                     !.upto = Len(comments),
                                     !.partial = partial]]
    BY <1>5 DEF FetchComments
  <2>2. Len(comments) \in 0 .. MaxComments /\ DOMAIN comments \subseteq Id
    BY DEF CommentsTypeOK, Id
  <2>3. {c \in Present : partial => comments[c].kind = "pr"} \subseteq Id
    BY <2>2 DEF Present
  <2>4. reading[r] \in Reading
    BY DEF CommentsTypeOK
  <2>5. reading' \in [Request -> Reading]
    BY <2>1, <2>2, <2>3, <2>4 DEF CommentsTypeOK, Reading
  <2> QED
    BY <1>5, <2>5 DEF FetchComments, CommentsTypeOK
<1>6. ASSUME NEW r \in Request, FetchFails(r) PROVE CommentsTypeOK'
  BY <1>6 DEF FetchFails, CommentsTypeOK, NotReading, Reading
<1>7. ASSUME NEW r \in Request, SetLastVisited(r) PROVE CommentsTypeOK'
  <2>1. UNCHANGED <<clock, comments, deleted>> /\ visit' \in Time
    BY <1>7 DEF SetLastVisited, CommentsTypeOK
  <2>2. reading' \in [Request -> Reading]
    BY <1>7 DEF SetLastVisited, CommentsTypeOK, NotReading, Reading
  <2>3. Visit(r) \in Answer /\ Visit(r).seen \subseteq DOMAIN comments
    <3>1. reading[r] \in Reading /\ clock \in Time
      BY DEF CommentsTypeOK
    <3>2. Visit(r) \in Answer /\ Visit(r).seen = reading[r].seen
      BY <3>1 DEF Visit, Answer, Reading
    <3>3. Fetched(reading[r])
      BY <1>7 DEF SetLastVisited, ReadingOK
    <3>4. reading[r].upto \in Nat /\ Len(comments) \in Nat /\ DOMAIN comments = 1 .. Len(comments)
      BY <3>1 DEF Reading, CommentsTypeOK
    <3> QED
      BY <3>2, <3>3, <3>4 DEF Fetched
  <2>4. log' = Append(log, Visit(r)) /\ log \in Seq(Answer)
    BY <1>7 DEF SetLastVisited, LogOK
  <2> HIDE DEF Visit
  <2>5. \A n \in DOMAIN log' : log'[n] = Visit(r) \/ (n \in DOMAIN log /\ log'[n] = log[n])
    BY <2>3, <2>4
  <2>6. \A n \in DOMAIN log' : log'[n].seen \subseteq DOMAIN comments
    BY <2>3, <2>5 DEF CommentsTypeOK
  <2> QED
    BY <2>1, <2>2, <2>6 DEF CommentsTypeOK
<1>8. CASE UNCHANGED commentVars
  BY <1>8 DEF commentVars, CommentsTypeOK
<1> QED
  BY <1>1, <1>2, <1>3, <1>4, <1>5, <1>6, <1>7, <1>8 DEF CommentsNext

LEMMA LogStep ==
    ASSUME CommentsTypeOK, CommentsTypeOK', LogOK, ReadingOK,
           \A c \in DOMAIN comments : comments[c].born <= clock, [CommentsNext]_commentVars
    PROVE  LogOK'
<1>1. Grown /\ LogGrown
  BY StepGrows
<1> DEFINE Good(v) == /\ Fetched(v)
                      /\ v.stamp <= clock
                      /\ \A c \in v.seen : comments[c].born <= v.stamp
           GoodThen(v) == /\ v.upto <= Len(comments') /\ v.seen \subseteq 1 .. v.upto
                          /\ \A c \in (1 .. v.upto) \ v.seen :
                                c \in deleted' \/ (v.partial /\ comments'[c].kind = "review")
                          /\ v.stamp <= clock'
                          /\ \A c \in v.seen : comments'[c].born <= v.stamp
<1>2. ASSUME NEW v \in Answer, Good(v) PROVE GoodThen(v)
  <2>1. v.upto \in Nat /\ v.stamp \in Nat
    BY DEF Answer, Time
  <2>2. \A c \in 1 .. v.upto : c \in 1 .. Len(comments)
    BY <1>1, <1>2, <2>1 DEF Grown, Fetched
  <2> QED
    BY <1>1, <1>2, <2>1, <2>2 DEF Grown, Fetched
<1>3. log \in Seq(Answer) /\ \A k \in DOMAIN log : Good(log[k])
  BY DEF LogOK
<1>4. ASSUME log' \in Seq(Answer), \A k \in DOMAIN log' : GoodThen(log'[k]) PROVE LogOK'
  BY <1>4 DEF LogOK, Fetched
<1>5. CASE log' = log
  <2>1. \A k \in DOMAIN log : log[k] \in Answer
    BY <1>3
  <2> HIDE DEF Good, GoodThen
  <2> QED
    BY <1>2, <1>3, <1>4, <1>5, <2>1
<1>6. ASSUME NEW r \in Request, SetLastVisited(r) PROVE LogOK'
  <2>1. Visit(r) \in Answer
    BY DEF CommentsTypeOK, Visit, Answer, Reading
  <2>2. Good(Visit(r))
    <3>1. Fetched(reading[r])
      BY <1>6 DEF SetLastVisited, ReadingOK
    <3>2. Visit(r).seen \subseteq DOMAIN comments
      <4>1. reading[r].upto \in Nat /\ Len(comments) \in Nat /\ DOMAIN comments = 1 .. Len(comments)
        BY DEF Reading, CommentsTypeOK
      <4> QED
        BY <3>1, <4>1 DEF Fetched, Visit
    <3> QED
      BY <3>1, <3>2 DEF Visit, Fetched, CommentsTypeOK, Time
  <2>3. log' = Append(log, Visit(r))
    BY <1>6 DEF SetLastVisited
  <2> HIDE DEF Good, GoodThen
  <2>4. /\ log' \in Seq(Answer)
        /\ \A k \in DOMAIN log' : log'[k] = Visit(r) \/ (k \in DOMAIN log /\ log'[k] = log[k])
    BY <1>3, <2>1, <2>3
  <2>5. \A k \in DOMAIN log' : log'[k] \in Answer /\ Good(log'[k])
    BY <1>3, <2>1, <2>2, <2>4
  <2> QED
    BY <1>2, <1>4, <2>4, <2>5
<1> QED
  BY <1>1, <1>5, <1>6 DEF LogGrown

LEMMA BornStep ==
    ASSUME CommentsTypeOK, \A c \in DOMAIN comments : comments[c].born <= clock,
           [CommentsNext]_commentVars
    PROVE  (\A c \in DOMAIN comments : comments[c].born <= clock)'
<1>1. Grown /\ \A c \in DOMAIN comments : comments[c].born \in Nat
  <2>1. \A c \in DOMAIN comments : comments[c] \in Comment
    BY DEF CommentsTypeOK
  <2> QED
    BY <2>1, StepGrows DEF Comment, Time
<1>2. CASE comments' = comments
  BY <1>1, <1>2 DEF Grown
<1>3. ASSUME NEW a \in {"us", "them"}, NEW k \in {"pr", "review"}, NEW p \in 0 .. MaxComments,
             Write(a, k, p)
      PROVE  (\A c \in DOMAIN comments : comments[c].born <= clock)'
  <2> DEFINE new == [author |-> a, kind |-> k, parent |-> p, born |-> clock]
  <2>1. comments' = Append(comments, new) /\ clock' = clock /\ new.born = clock
    BY <1>3 DEF Write
  <2> HIDE DEF new
  <2>2. comments \in Seq(Comment)
    BY DEF CommentsTypeOK
  <2>3. \A c \in DOMAIN comments' : \/ comments'[c] = new
                                    \/ (c \in DOMAIN comments /\ comments'[c] = comments[c])
    BY <2>1, <2>2
  <2> QED
    BY <1>1, <2>1, <2>3 DEF Grown
<1>4. comments' = comments \/ \E a \in {"us", "them"}, k \in {"pr", "review"},
          p \in 0 .. MaxComments : Write(a, k, p)
  BY DEF CommentsNext, commentVars, Tock, Delete, Begin, FetchComments, FetchFails, SetLastVisited
<1> QED
  BY <1>2, <1>3, <1>4

LEMMA VisitStep ==
    ASSUME LogOK, VisitIsLogged, [CommentsNext]_commentVars
    PROVE  VisitIsLogged'
<1>1. CASE visit' = visit /\ log' = log
  BY <1>1 DEF VisitIsLogged
<1>2. ASSUME NEW r \in Request, SetLastVisited(r) PROVE VisitIsLogged'
  <2>1. log' = Append(log, Visit(r)) /\ visit' = clock /\ Visit(r).stamp = clock
    BY <1>2 DEF SetLastVisited, Visit
  <2> HIDE DEF Visit
  <2>2. Len(log) + 1 \in DOMAIN log' /\ log'[Len(log) + 1] = Visit(r)
    BY <2>1 DEF LogOK
  <2> QED
    BY <2>1, <2>2 DEF VisitIsLogged
<1> QED
  BY <1>1, <1>2 DEF CommentsNext, commentVars, Tock, Write, Delete, Begin, FetchComments, FetchFails

LEMMA LogExtends ==
    ASSUME LogOK, [CommentsNext]_commentVars
    PROVE  /\ \A k \in DOMAIN log : k \in DOMAIN log' /\ log'[k] = log[k]
           /\ \A n \in DOMAIN log' \ DOMAIN log :
                 /\ DOMAIN log = 1 .. n - 1
                 /\ \E r \in Request : SetLastVisited(r) /\ log'[n] = Visit(r)
<1>1. CASE log' = log
  BY <1>1
<1>2. ASSUME NEW r \in Request, SetLastVisited(r)
      PROVE  /\ \A k \in DOMAIN log : k \in DOMAIN log' /\ log'[k] = log[k]
             /\ \A n \in DOMAIN log' \ DOMAIN log : DOMAIN log = 1 .. n - 1 /\ log'[n] = Visit(r)
  <2>1. log' = Append(log, Visit(r)) /\ log \in Seq(Answer)
    BY <1>2 DEF SetLastVisited, LogOK
  <2> HIDE DEF Visit
  <2> QED
    BY <2>1
<1>3. log' = log \/ \E r \in Request : SetLastVisited(r)
  BY DEF CommentsNext, commentVars, Tock, Write, Delete, Begin, FetchComments, FetchFails
<1> QED
  BY <1>1, <1>2, <1>3

\* A request that a step leaves alone still follows the answer it read the visit of.
LEMMA RequestFrame ==
    ASSUME CommentsTypeOK, LogOK, ReadingOK, [CommentsNext]_commentVars,
           NEW r \in Request, reading'[r] = reading[r], reading[r].pc # "idle"
    PROVE  /\ reading'[r].pc = "fetched" => Fetched(reading[r])'
           /\ reading'[r].last # None => \E k \in DOMAIN log' : Follows(reading[r], log[k])'
<1>1. Grown
  BY StepGrows
<1>2. \A k \in DOMAIN log : k \in DOMAIN log' /\ log'[k] = log[k]
  BY LogExtends
<1>3. reading[r].pc = "fetched" => Fetched(reading[r])
  BY DEF ReadingOK
<1>4. reading[r] \in Reading
  BY DEF CommentsTypeOK
<1>5. reading[r].pc = "fetched" =>
          /\ reading[r].upto \in Nat
          /\ \A c \in 1 .. reading[r].upto : c \in 1 .. Len(comments)
  BY <1>1, <1>3, <1>4 DEF Reading, Fetched, Grown
<1>6. reading'[r].pc = "fetched" => Fetched(reading[r])'
  BY <1>1, <1>3, <1>5 DEF Fetched, Grown
<1>7. ASSUME reading[r].last # None PROVE \E k \in DOMAIN log' : Follows(reading[r], log[k])'
  <2>1. PICK k \in DOMAIN log : Follows(reading[r], log[k])
    BY <1>7 DEF ReadingOK
  <2>2. reading[r].pc = "fetched" => reading[r].seen \subseteq 1 .. Len(comments)
    BY <1>3, <1>5 DEF Fetched
  <2>3. Follows(reading[r], log[k])'
    BY <1>1, <1>2, <2>1, <2>2 DEF Follows, Grown
  <2> QED
    BY <1>2, <2>3
<1> QED
  BY <1>6, <1>7

LEMMA ReadingStep ==
    ASSUME CommentsTypeOK, CommentsTypeOK', LogOK, VisitIsLogged, ReadingOK,
           [CommentsNext]_commentVars
    PROVE  ReadingOK'
<1> DEFINE Good(r) == /\ reading[r].pc = "fetched" => Fetched(reading[r])
                      /\ reading[r].last # None => \E k \in DOMAIN log : Follows(reading[r], log[k])
<1> SUFFICES ASSUME NEW r \in Request, reading'[r].pc # "idle"
             PROVE  Good(r)'
  BY DEF ReadingOK
<1>1. CASE reading'[r] = reading[r]
  BY <1>1, RequestFrame
<1>2. ASSUME Begin(r) PROVE Good(r)'
  <2>1. reading'[r].pc = "read" /\ reading'[r].last = visit /\ log' = log
    BY <1>2 DEF Begin, NotReading, CommentsTypeOK
  <2> QED
    BY <2>1 DEF VisitIsLogged, Follows
<1>3. ASSUME FetchComments(r) PROVE Good(r)'
  <2>1. PICK partial \in BOOLEAN :
             reading' = [reading EXCEPT ![r] =
                           [@ EXCEPT !.pc = "fetched",
                                     !.seen = {c \in Present : partial => comments[c].kind = "pr"},
                                     !.upto = Len(comments),
                                     !.partial = partial]]
    BY <1>3 DEF FetchComments
  <2>2. reading[r] \in Reading /\ reading \in [Request -> Reading]
    BY DEF CommentsTypeOK
  <2>3. /\ reading[r].pc = "read" /\ UNCHANGED <<comments, deleted, log>>
    BY <1>3 DEF FetchComments
  <2>4. /\ reading'[r].pc = "fetched" /\ reading'[r].last = reading[r].last
        /\ reading'[r].seen = {c \in Present : partial => comments[c].kind = "pr"}
        /\ reading'[r].upto = Len(comments) /\ reading'[r].partial = partial
    BY <2>1, <2>2 DEF Reading
  <2>5. /\ Len(comments) \in Nat /\ DOMAIN comments = 1 .. Len(comments)
        /\ \A c \in DOMAIN comments : comments[c].kind \in {"pr", "review"}
    <3>1. comments \in Seq(Comment)
      BY DEF CommentsTypeOK
    <3>2. \A c \in DOMAIN comments : comments[c] \in Comment
      BY <3>1
    <3> QED
      BY <3>1, <3>2 DEF Comment
  <2>6. Fetched(reading[r])'
    BY <2>3, <2>4, <2>5 DEF Fetched, Present
  <2>7. ASSUME reading[r].last # None PROVE \E k \in DOMAIN log : Follows(reading[r], log[k])'
    <3>1. PICK k \in DOMAIN log : Follows(reading[r], log[k])
      BY <2>3, <2>7 DEF ReadingOK
    <3>2. log[k] \in Answer /\ Fetched(log[k])
      BY DEF LogOK
    <3>4. log[k].upto \in Nat
      BY <3>2 DEF Answer
    <3>3. Follows(reading[r], log[k])'
      BY <2>3, <2>4, <2>5, <3>1, <3>2, <3>4 DEF Follows, Fetched, Present
    <3> QED
      BY <3>3
  <2> QED
    BY <2>3, <2>4, <2>6, <2>7
<1>4. CASE \E q \in Request : FetchFails(q) \/ SetLastVisited(q)
  BY <1>1, <1>4 DEF FetchFails, SetLastVisited, CommentsTypeOK, NotReading
<1>5. CASE \E q \in Request \ {r} : Begin(q) \/ FetchComments(q)
  BY <1>1, <1>5 DEF Begin, FetchComments, CommentsTypeOK
<1> QED
  BY <1>1, <1>2, <1>3, <1>4, <1>5 DEF CommentsNext, commentVars, Tock, Write, Delete

LEMMA SecondIs ==
    ASSUME NEW t \in Nat
    PROVE  Second(t) \in Int /\ Second(t) <= t
BY CommentsAssumption DEF Second

LEMMA UnmarkedStep ==
    ASSUME CommentsTypeOK, LogOK, ReadingOK, UnmarkedIsExplained, [CommentsNext]_commentVars
    PROVE  UnmarkedIsExplained'
<1>1. Grown
  BY StepGrows
<1>2. \A k \in DOMAIN log : k \in DOMAIN log' /\ log'[k] = log[k]
  BY LogExtends
<1> SUFFICES ASSUME NEW n \in DOMAIN log', log'[n].last # None,
                    NEW c \in log'[n].seen \ New(log[n])', ~Ours(c)', Dated(c)'
             PROVE  \E k \in 1 .. (n - 1) :
                        /\ log'[k].stamp = log'[n].last
                        /\ \/ c \in log'[k].seen
                           \/ /\ c > log'[k].upto
                              /\ Second(comments'[c].born) <= log'[k].stamp
                           \/ log'[k].partial
  BY DEF UnmarkedIsExplained
<1>3. CASE n \in DOMAIN log
  <2>1. c \in DOMAIN comments /\ comments'[c] = comments[c]
    BY <1>1, <1>2, <1>3 DEF CommentsTypeOK, Grown
  <2>2. c \in log[n].seen \ New(log[n]) /\ ~Ours(c) /\ Dated(c) /\ log[n].last # None
    BY <1>2, <1>3, <2>1 DEF New, NewCommentIds, IsNew, Ours, Dated
  <2>3. PICK k \in 1 .. (n - 1) :
                /\ log[k].stamp = log[n].last
                /\ \/ c \in log[k].seen
                   \/ /\ c > log[k].upto
                      /\ Second(comments[c].born) <= log[k].stamp
                   \/ log[k].partial
    BY <1>3, <2>2 DEF UnmarkedIsExplained
  <2>4. k \in DOMAIN log
    BY <1>3 DEF LogOK
  <2> QED
    BY <1>2, <1>3, <2>1, <2>3, <2>4
<1>4. CASE n \notin DOMAIN log
  <2>1. PICK r \in Request : SetLastVisited(r) /\ log'[n] = Visit(r)
    BY <1>4, LogExtends
  <2>2. DOMAIN log = 1 .. n - 1
    BY <1>4, LogExtends
  <2>3. /\ reading[r].pc = "fetched" /\ comments' = comments
        /\ log'[n].last = reading[r].last /\ log'[n].seen = reading[r].seen
    BY <2>1 DEF SetLastVisited, Visit
  <2>4. PICK k \in DOMAIN log : Follows(reading[r], log[k])
    BY <2>3 DEF ReadingOK
  <2>5. c \in DOMAIN comments
    <3>1. reading[r] \in Reading /\ Fetched(reading[r])
      BY <2>3 DEF ReadingOK, CommentsTypeOK
    <3> QED
      BY <1>1, <2>3, <3>1 DEF Fetched, Reading, Grown
  <2>6. comments[c].born \in Nat
    <3>1. comments[c] \in Comment
      BY <2>5 DEF CommentsTypeOK
    <3> QED
      BY <3>1 DEF Comment, Time
  <2>7. log[k].stamp = reading[r].last /\ log[k].stamp \in Nat
    <3>1. log[k] \in Answer
      BY <2>4 DEF LogOK
    <3> QED
      BY <2>4, <3>1 DEF Follows, Answer, Time
  <2>8. Second(comments[c].born) <= log[k].stamp
    <3>1. ~(Second(comments[c].born) > reading[r].last)
      BY <2>3 DEF New, NewCommentIds, IsNew, Ours, Dated
    <3>2. Second(comments[c].born) \in Int
      BY <2>6, SecondIs
    <3> QED
      BY <2>7, <3>1, <3>2
  <2>9. c \notin log[k].seen => c > log[k].upto \/ (log[k].partial /\ comments[c].kind = "review")
    BY <2>3, <2>4 DEF Follows
  <2> QED
    BY <1>2, <2>2, <2>3, <2>4, <2>7, <2>8, <2>9
<1> QED
  BY <1>3, <1>4

LEMMA CommentsInvInit == CommentsInit => CommentsInv
<1> SUFFICES ASSUME CommentsInit PROVE CommentsInv
  OBVIOUS
<1> USE CommentsAssumption DEF CommentsInit
<1>1. /\ comments \in Seq(Comment) /\ Len(comments) <= MaxComments
      /\ \A c \in DOMAIN comments : comments[c].parent < c /\ comments[c].born = 0
  <2> DEFINE first == [author |-> "us", kind |-> "review", parent |-> 0, born |-> 0]
  <2>1. first \in Comment /\ first.parent = 0 /\ first.born = 0
    BY DEF Comment, Time
  <2>2. comments \in {<<>>, <<first>>}
    OBVIOUS
  <2> HIDE DEF first
  <2>3. CASE comments = <<>>
    BY <2>3
  <2>4. CASE comments = <<first>>
    BY <2>1, <2>4
  <2> QED
    BY <2>2, <2>3, <2>4
<1>2. /\ log \in Seq(Answer) /\ visit \in Time \cup {None}
      /\ \A k \in DOMAIN log : log[k] = Before
      /\ visit # None => 1 \in DOMAIN log /\ log[1].stamp = visit
  <2>1. Before \in Answer /\ Before.stamp = 0 /\ 0 \in Time
    BY DEF Before, Answer, Time
  <2>2. CASE visit = None /\ log = <<>>
    BY <2>2
  <2>3. CASE visit = 0 /\ log = <<Before>>
    <3> HIDE DEF CommentsInit
    <3> QED
      BY <2>1, <2>3
  <2> QED
    BY <2>2, <2>3
<1>3. /\ Before.seen = {} /\ Before.upto = 0 /\ Before.stamp = 0 /\ Before.last = None
      /\ NotReading \in Reading /\ NotReading.pc = "idle"
  BY DEF Before, NotReading, Reading
<1>4. CommentsTypeOK
  BY <1>1, <1>2, <1>3 DEF CommentsTypeOK, Time
<1>5. LogOK
  BY <1>1, <1>2, <1>3 DEF LogOK, Fetched
<1>6. VisitIsLogged /\ ReadingOK /\ UnmarkedIsExplained
  BY <1>2, <1>3 DEF VisitIsLogged, ReadingOK, UnmarkedIsExplained
<1> QED
  BY <1>1, <1>4, <1>5, <1>6 DEF CommentsInv

LEMMA CommentsInvStep == CommentsInv /\ [CommentsNext]_commentVars => CommentsInv'
BY CommentsTypeStep, LogStep, BornStep, VisitStep, ReadingStep, UnmarkedStep DEF CommentsInv

LEMMA CommentsCorrect == CommentsSpec => []CommentsInv
BY CommentsInvInit, CommentsInvStep, PTL DEF CommentsSpec

\* What an answer marks was written after the visit it is compared with, what an
\* answer shows before its own visit was recorded.
LEMMA MarkedOnceHolds == ASSUME CommentsInv PROVE MarkedOnce
<1> SUFFICES ASSUME NEW n \in DOMAIN log, NEW k \in DOMAIN log,
                    NEW c \in New(log[n]) \cap New(log[k])
             PROVE  log[n].last # None /\ log[n].last < log[k].stamp
  BY DEF MarkedOnce
<1>1. log[n] \in Answer /\ log[k] \in Answer
  BY DEF CommentsInv, LogOK
<1>2. c \in log[k].seen /\ log[n].last # None /\ Second(comments[c].born) > log[n].last
  BY DEF New, NewCommentIds, IsNew
<1>3. comments[c].born <= log[k].stamp /\ comments[c] \in Comment
  BY <1>2 DEF CommentsInv, LogOK, CommentsTypeOK
<1>4. log[n].last \in Nat /\ log[k].stamp \in Nat /\ comments[c].born \in Nat
  BY <1>1, <1>2, <1>3 DEF Answer, Comment, Time
<1>5. Second(comments[c].born) \in Int /\ Second(comments[c].born) <= comments[c].born
  BY <1>4, SecondIs
<1> QED
  BY <1>2, <1>3, <1>4, <1>5

(***************************************************************************)
(* Over any sequence of visits, overlapping ones included, whatever fails  *)
(* to come and whatever is deleted, get_pr_detail marks each comment of    *)
(* another user as new once, but for the comments it cannot know of.       *)
(***************************************************************************)
THEOREM CommentsAreNewOnce == CommentsSpec => []NewOnce
<1>1. CommentsInv => NewOnce
  BY MarkedOnceHolds DEF NewOnce, CommentsInv
<1> QED
  BY <1>1, CommentsCorrect, PTL

(***************************************************************************)
(* In every answer, though comments of a thread have been deleted or did   *)
(* not come, the dot on a thread of ours and the marks on its replies      *)
(* agree: the root that build_threads finds is the same for all of them.   *)
(***************************************************************************)
THEOREM ThreadsTellTheirReplies == CommentsSpec => []ThreadTellsReplies
<1>1. ASSUME CommentsInv PROVE ThreadTellsReplies
  <2> SUFFICES ASSUME NEW n \in DOMAIN log
               PROVE  LET S == log[n].seen
                          last == log[n].last
                      IN /\ \A c \in S : IsNewReply(S, last, c) =>
                               c \in New(log[n]) /\ HasNewReplies(S, last, RootOf(S)[c])
                         /\ \A c \in S : HasNewReplies(S, last, c) =>
                               \E d \in S : d # c /\ RootOf(S)[d] = c /\ IsNewReply(S, last, d)
    BY DEF ThreadTellsReplies
  <2> DEFINE S == log[n].seen
             last == log[n].last
             root == RootOf(S)
  <2>1. comments \in Seq(Comment) /\ S \subseteq DOMAIN comments
    BY <1>1 DEF CommentsInv, CommentsTypeOK
  <2>2. RepliesAreLater
    <3>1. \A c \in DOMAIN comments : comments[c] \in Comment
      BY <2>1
    <3> QED
      BY <1>1, <3>1 DEF RepliesAreLater, CommentsInv, CommentsTypeOK, Comment
  <2> HIDE DEF S
  <2>3. \A c \in S : root[c] \in S /\ root[root[c]] = root[c]
    BY <2>1, <2>2, RootsAreRoots
  <2>4. \A c \in S : IsNewReply(S, last, c) => HasNewReplies(S, last, root[c]) /\ IsNew(c, last)
    BY <2>3 DEF IsNewReply, HasNewReplies, NewReplies
  <2>5. \A c \in S : IsNew(c, last) => c \in New(log[n])
    BY DEF New, NewCommentIds, S
  <2>6. \A c \in S : HasNewReplies(S, last, c) =>
            \E d \in S : d # c /\ root[d] = c /\ IsNewReply(S, last, d)
    BY DEF IsNewReply, HasNewReplies, NewReplies
  <2> QED
    BY <2>4, <2>5, <2>6 DEF S
<1> QED
  BY <1>1, CommentsCorrect, PTL
=============================================================================
