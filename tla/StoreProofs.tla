------------------------------ MODULE StoreProofs ------------------------------
(***************************************************************************)
(* Proofs about Store, for any number of worker threads, repositories,     *)
(* keys and values, and any numbers of requests and faults.                *)
(***************************************************************************)
EXTENDS Store, TLAPS

-----------------------------------------------------------------------------
(* The inductive invariant *)

Saved == [Key -> Valid \cup Invalid \cup {Missing}]
Arg == Repo \cup Saved \cup (SUBSET Key) \cup {Missing}
Stored == (SUBSET Repo) \cup DocContent \cup {"data"} \cup Blank

Job == [pc : {"idle", "read", "open", "close", "unlink"}, op : Ops, on : File,
        arg : Arg, new : Stored, unlink : File \cup {Missing}]

\* Each request goes its own way: what it is about, what it removes when it has
\* written, and where it can be.
Request(j) ==
    \/ /\ j.op = "add" /\ j.on = Repos /\ j.arg \in Repo /\ j.unlink = Missing
       /\ j.pc \in {"read", "open", "close"}
    \/ /\ j.op = "remove" /\ j.on = Repos /\ j.arg \in Repo /\ j.unlink = Prs(j.arg)
       /\ j.pc \in {"read", "open", "close", "unlink"}
    \/ /\ j.op = "save" /\ j.on \in Doc /\ j.arg \in Saved /\ j.unlink = Missing
       /\ j.pc = "read" \/ (j.pc \in {"open", "close"} /\ ~IsBad(j.arg))
    \/ /\ j.op = "reset" /\ j.on \in Doc /\ j.arg \in SUBSET Key /\ j.unlink = Missing
       /\ j.pc \in {"read", "open", "close"}
    \/ /\ j.op = "write" /\ j.on \in Whole /\ j.new = "data" /\ j.unlink = Missing
       /\ j.pc \in {"open", "close"}
    \/ /\ j.op = "clear" /\ j.on \in Other /\ j.unlink = j.on
       /\ j.pc = "unlink"

Ready(j) ==
    /\ Request(j)
    /\ j.new \in Content(j.on) \cup {Missing}
    /\ j.pc \in {"open", "close"} => j.new \in Content(j.on)

FilesOK ==
    /\ file \in [File -> Stored] /\ truth \in [File -> Stored]
    /\ \A f \in File : file[f] \in Content(f) \cup Blank /\ truth[f] \in Content(f) \cup {Missing}
    /\ overlapped \subseteq File /\ broken \subseteq File
    /\ requests \in 0..MaxRequests /\ faults \in 0..MaxFaults

JobsOK ==
    /\ job \in [Thread -> Job]
    /\ \A t \in Thread : job[t] = Idle \/ Ready(job[t])

\* A file none of whose requests overlapped has one request at most, ...
OneAtATime ==
    \A f \in File \ overlapped : \A t, u \in Busy(f) : t = u

\* ... which finds the file as it emptied it, ...
FoundEmpty ==
    \A t \in Thread :
        job[t].pc = "close" /\ job[t].on \notin overlapped => file[job[t].on] = Empty

\* ... and is about to write what is promised.  A document that was broken is read as
\* an empty one: it loses keys, and has no others.
PromisedTo(t) == Promised(job[t].op, job[t].on, job[t].arg, truth[job[t].on])

WritesPromised ==
    \A t \in Thread :
        job[t].pc \in {"open", "close"} /\ job[t].on \notin overlapped =>
            /\ job[t].on \notin Doc \cap broken => job[t].new = PromisedTo(t)
            /\ job[t].on \in Doc =>
                  \A k \in Key : job[t].new[k] \in {PromisedTo(t)[k], Missing}

\* What a file holds, between two requests and in one.
HoldsTruth ==
    \A f \in File \ overlapped :
        /\ f \notin broken /\ ~BeingWritten(f) => file[f] = truth[f]
        /\ f = Repos => file[f] \in {truth[f], Empty}
        /\ f \in Doc => \A k \in Key : Reading(f)[k] \in {Known(f, truth[f])[k], Missing}

\* A list that is refreshed is that of a listed repository; one of an unlisted one is
\* about to be removed.
ListsBelong ==
    \A r \in Repo :
        Prs(r) \notin overlapped \cup broken /\ r \notin Known(Repos, truth[Repos]) =>
            /\ \A t \in Thread : ~(job[t].op = "write" /\ job[t].on = Prs(r))
            /\ truth[Prs(r)] = Missing
               \/ \E t \in Thread : job[t].pc = "unlink" /\ job[t].unlink = Prs(r)

StoreInv ==
    /\ FilesOK /\ JobsOK
    /\ OneAtATime /\ FoundEmpty /\ WritesPromised /\ HoldsTruth
    /\ ListsBelong

-----------------------------------------------------------------------------
(* Files and what they may hold *)

LEMMA FileNames ==
    /\ Repos \notin Doc /\ Repos \notin Whole /\ Doc \cap Whole = {}
    /\ Settings # Prompts
    /\ \A r \in Repo : Prs(r) \in Whole /\ Prs(r) \notin Other
    /\ \A r, q \in Repo : Prs(r) = Prs(q) => r = q
    /\ \A f \in File : f = Repos \/ f \in Doc \/ f \in Whole
    /\ Repos \in File /\ Doc \subseteq File /\ Whole \subseteq File /\ Other \subseteq Whole
<1>1. \A r : Prs(r)[1] = "prs" /\ Prs(r)[2] = r
  BY DEF Prs
<1>2. Repos[1] = "repos" /\ Settings[1] = "settings" /\ Prompts[1] = "prompts"
  BY DEF Repos, Settings, Prompts
<1>3. \A f \in Whole : f \in Other \/ \E r \in Repo : f = Prs(r)
  BY DEF Whole
<1>4. \A r \in Repo : Prs(r) \in Whole /\ Prs(r) \notin Other
  BY FilesAssumption DEF Whole
<1>5. Repos \notin Other /\ Doc \cap Other = {}
  BY FilesAssumption
<1>6. Repos \notin Doc /\ Settings # Prompts
  BY <1>2 DEF Doc
<1>7. Repos \notin Whole
  BY <1>1, <1>2, <1>3, <1>5
<1>8. Doc \cap Whole = {}
  BY <1>1, <1>2, <1>3, <1>5 DEF Doc
<1> QED
  BY <1>1, <1>4, <1>6, <1>7, <1>8 DEF File, Whole

LEMMA Contents ==
    /\ Content(Repos) = SUBSET Repo
    /\ \A f \in Doc : Content(f) = DocContent
    /\ \A f \in Whole : Content(f) = {"data"}
    /\ \A f \in File : Content(f) \cup Blank \subseteq Stored
<1>1. Content(Repos) = SUBSET Repo
  BY FileNames DEF Content
<1>2. \A f \in Doc : Content(f) = DocContent
  BY FileNames DEF Content
<1>3. \A f \in Whole : Content(f) = {"data"}
  BY FileNames DEF Content
<1>4. ASSUME NEW f \in File PROVE Content(f) \cup Blank \subseteq Stored
  <2>1. f = Repos \/ f \in Doc \/ f \in Whole
    BY FileNames
  <2>2. CASE f = Repos
    BY <1>1, <2>2 DEF Stored
  <2>3. CASE f \in Doc
    BY <1>2, <2>3 DEF Stored
  <2>4. CASE f \in Whole
    BY <1>3, <2>4 DEF Stored
  <2> QED
    BY <2>1, <2>2, <2>3, <2>4
<1> QED
  BY <1>1, <1>2, <1>3, <1>4

LEMMA KnownType ==
    ASSUME NEW f \in File, NEW c \in Content(f) \cup {Missing}
    PROVE  /\ f = Repos => Known(f, c) \in SUBSET Repo
           /\ f \in Doc => Known(f, c) \in DocContent
  BY FileNames, Contents DEF Known, NoKeys, DocContent

\* What a handler makes of what it reads is what is promised, if it reads the truth.
LEMMA PromisedType ==
    ASSUME NEW j, Request(j), j.pc \in {"open", "close"}, NEW c \in Content(j.on) \cup {Missing}
    PROVE  Promised(j.op, j.on, j.arg, c) \in Content(j.on)
<1>1. CASE j.op = "add" \/ j.op = "remove"
  BY <1>1, KnownType, Contents, FileNames DEF Request, Promised
<1>2. CASE j.op = "save" \/ j.op = "reset"
  <2>1. j.on \in Doc /\ j.on \in File /\ Known(j.on, c) \in DocContent
    BY <1>2, KnownType, FileNames DEF Request
  <2>2. CASE j.op = "save"
    <3>1. j.arg \in Saved /\ ~IsBad(j.arg)
      BY <2>2 DEF Request
    <3>2. \A k \in Key : j.arg[k] \in Valid \cup {Missing}
      BY <3>1 DEF Saved, IsBad
    <3>3. Promised(j.op, j.on, j.arg, c) =
            [k \in Key |-> IF j.arg[k] # Missing THEN j.arg[k] ELSE Known(j.on, c)[k]]
      BY <2>2, <3>1 DEF Promised
    <3> QED
      BY <2>1, <3>2, <3>3, Contents DEF DocContent
  <2>3. CASE j.op = "reset"
    <3>1. Promised(j.op, j.on, j.arg, c) =
            [k \in Key |-> IF k \in j.arg THEN Missing ELSE Known(j.on, c)[k]]
      BY <2>3 DEF Promised
    <3> QED
      BY <2>1, <3>1, Contents DEF DocContent
  <2> QED
    BY <1>2, <2>2, <2>3
<1>3. CASE j.op = "write"
  BY <1>3, Contents DEF Request, Promised
<1> QED
  BY <1>1, <1>2, <1>3 DEF Request

LEMMA NewIsPromised ==
    ASSUME NEW j, Request(j), j.pc = "read", NEW c \in Content(j.on) \cup {Missing},
           ~Unwritten(j, Known(j.on, c))
    PROVE  /\ j.op = "save" => ~IsBad(j.arg)
           /\ NewContent(j, Known(j.on, c)) = Promised(j.op, j.on, j.arg, c)
<1>1. CASE j.op = "add" \/ j.op = "remove"
  BY <1>1 DEF NewContent, Promised
<1>2. CASE j.op = "save"
  <2>1. j.on \in Doc
    BY <1>2 DEF Request
  <2>2. ~IsBad(j.arg)
    BY <1>2, <2>1 DEF Doc, Unwritten, ValidSettings, ValidPrompt, IsBad
  <2> QED
    BY <1>2, <2>2 DEF NewContent, Promised, Merged
<1>3. CASE j.op = "reset"
  BY <1>3 DEF NewContent, Promised, Popped
<1> QED
  BY <1>1, <1>2, <1>3 DEF Request

\* And a document read with fewer keys is written with fewer.
LEMMA NewHasFewer ==
    ASSUME NEW j, Request(j), j.pc = "read", j.on \in Doc, NEW old, NEW c,
           \A k \in Key : old[k] \in {Known(j.on, c)[k], Missing},
           ~Unwritten(j, old)
    PROVE  \A k \in Key :
              NewContent(j, old)[k] \in {Promised(j.op, j.on, j.arg, c)[k], Missing}
<1>1. j.op = "save" \/ j.op = "reset"
  BY FileNames DEF Request
<1>2. CASE j.op = "save"
  <2>1. ~IsBad(j.arg)
    BY <1>2 DEF Doc, Unwritten, ValidSettings, ValidPrompt, IsBad
  <2> QED
    BY <1>2, <2>1 DEF NewContent, Promised, Merged
<1>3. CASE j.op = "reset"
  BY <1>3 DEF NewContent, Promised, Popped
<1> QED
  BY <1>1, <1>2, <1>3

-----------------------------------------------------------------------------
(* What the steps do to the requests *)

LEMMA IdleIsNoRequest == Idle \in Job /\ Idle.pc = "idle" /\ ~Request(Idle)
  BY FileNames DEF Idle, Job, Ops, Arg, Stored, Blank, Request

LEMMA BusyRequests ==
    ASSUME JobsOK, NEW t \in Thread, job[t].pc # "idle"
    PROVE  /\ Ready(job[t]) /\ Request(job[t]) /\ job[t] \in Job
           /\ job[t].on \in File /\ job[t].on # Missing
           /\ t \in Busy(job[t].on)
           /\ job[t].unlink # Missing => job[t].unlink \in Whole /\ t \in Busy(job[t].unlink)
<1>1. job[t] \in Job /\ Ready(job[t]) /\ Request(job[t])
  BY IdleIsNoRequest DEF JobsOK, Ready
<1>2. job[t].on \in File /\ job[t].on # Missing
  BY <1>1, FilesAssumption DEF Job
<1>3. job[t].unlink # Missing => job[t].unlink \in Whole
  BY <1>1, FileNames DEF Request
<1> QED
  BY <1>1, <1>2, <1>3 DEF Busy

\* A request that arrives.
Arrival(t, j) ==
    /\ job[t].pc = "idle"
    /\ job' = [job EXCEPT ![t] = j]
    /\ overlapped' = overlapped \cup {f \in {j.on, j.unlink} \ {Missing} : Busy(f) # {}}
    /\ requests < MaxRequests /\ requests' = requests + 1
    /\ UNCHANGED <<file, truth, broken, faults>>

LEMMA BeginArrives ==
    ASSUME NEW t, NEW pc, NEW op, NEW on, NEW arg, NEW new, NEW unlink,
           Begin(t, pc, op, on, arg, new, unlink)
    PROVE  Arrival(t, [pc |-> pc, op |-> op, on |-> on, arg |-> arg, new |-> new,
                       unlink |-> unlink])
  BY DEF Begin, Arrival

LEMMA ArriveStep ==
    ASSUME FilesOK, NEW t \in Thread, Arrive(t)
    PROVE  \E j \in Job :
              /\ Arrival(t, j) /\ Ready(j) /\ j.pc \in {"read", "open", "unlink"}
              /\ j.pc = "open" => j.new = Promised(j.op, j.on, j.arg, truth[j.on])
              /\ j.op = "write" =>
                    \A r \in Repo : j.on = Prs(r) => r \in Known(Repos, truth[Repos])
<1> DEFINE Goal(j) ==
              /\ Arrival(t, j) /\ j \in Job /\ Ready(j) /\ j.pc \in {"read", "open", "unlink"}
              /\ j.pc = "open" => j.new = Promised(j.op, j.on, j.arg, truth[j.on])
              /\ j.op = "write" =>
                    \A r \in Repo : j.on = Prs(r) => r \in Known(Repos, truth[Repos])
<1>0. /\ Missing \in Stored /\ "data" \in Stored /\ Missing \in Arg
      /\ Settings \in Doc /\ Prompts \in Doc /\ NoKeys \in DocContent /\ DocContent \subseteq Stored
      /\ \A op \in {"add", "remove", "save", "reset", "write", "clear"} : op \in Ops
  BY DEF Stored, Blank, Arg, Doc, NoKeys, DocContent, Ops
<1>1. ASSUME NEW r \in Repo, AddRepo(t, r) PROVE \E j : Goal(j)
  <2> DEFINE j == [pc |-> "read", op |-> "add", on |-> Repos, arg |-> r, new |-> Missing,
                   unlink |-> Missing]
  <2>1. Arrival(t, j)
    BY <1>1, BeginArrives DEF AddRepo
  <2>2. j \in Job
    BY <1>0, FileNames DEF Job, Arg
  <2>3. Ready(j)
    BY DEF Ready, Request
  <2> QED
    BY <2>1, <2>2, <2>3
<1>2. ASSUME NEW r \in Repo, RemoveRepo(t, r) PROVE \E j : Goal(j)
  <2> DEFINE j == [pc |-> "read", op |-> "remove", on |-> Repos, arg |-> r, new |-> Missing,
                   unlink |-> Prs(r)]
  <2>1. Arrival(t, j)
    BY <1>2, BeginArrives DEF RemoveRepo
  <2>2. j \in Job
    BY <1>0, FileNames DEF Job, Arg
  <2>3. Ready(j)
    BY DEF Ready, Request
  <2> QED
    BY <2>1, <2>2, <2>3
<1>3. ASSUME NEW r \in Repo, RefreshPrs(t, r) PROVE \E j : Goal(j)
  <2> DEFINE j == [pc |-> "open", op |-> "write", on |-> Prs(r), arg |-> Missing, new |-> "data",
                   unlink |-> Missing]
  <2>1. Arrival(t, j) /\ r \in Known(Repos, truth[Repos])
    BY <1>3, BeginArrives DEF RefreshPrs
  <2>2. j \in Job
    BY <1>0, FileNames DEF Job
  <2>3. Ready(j)
    BY FileNames, Contents DEF Ready, Request
  <2>4. j.new = Promised(j.op, j.on, j.arg, truth[j.on])
    BY DEF Promised
  <2>5. \A q \in Repo : j.on = Prs(q) => q = r
    BY FileNames
  <2> QED
    BY <2>1, <2>2, <2>3, <2>4, <2>5
<1>4. ASSUME NEW f \in Other, WriteOther(t, f) PROVE \E j : Goal(j)
  <2> DEFINE j == [pc |-> "open", op |-> "write", on |-> f, arg |-> Missing, new |-> "data",
                   unlink |-> Missing]
  <2>1. Arrival(t, j)
    BY <1>4, BeginArrives DEF WriteOther
  <2>2. j \in Job
    BY <1>0, FileNames DEF Job
  <2>3. Ready(j)
    BY FileNames, Contents DEF Ready, Request
  <2>4. j.new = Promised(j.op, j.on, j.arg, truth[j.on])
    BY DEF Promised
  <2>5. \A q \in Repo : j.on # Prs(q)
    BY FileNames
  <2> QED
    BY <2>1, <2>2, <2>3, <2>4, <2>5
<1>5. ASSUME NEW f \in Other, ClearOther(t, f) PROVE \E j : Goal(j)
  <2> DEFINE j == [pc |-> "unlink", op |-> "clear", on |-> f, arg |-> Missing, new |-> Missing,
                   unlink |-> f]
  <2>1. Arrival(t, j)
    BY <1>5, BeginArrives DEF ClearOther
  <2>2. j \in Job
    BY <1>0, FileNames DEF Job
  <2>3. Ready(j)
    BY DEF Ready, Request
  <2> QED
    BY <2>1, <2>2, <2>3
<1>6. ASSUME NEW p \in Partial, SaveReviewSettings(t, p) PROVE \E j : Goal(j)
  <2> DEFINE j == [pc |-> "read", op |-> "save", on |-> Settings, arg |-> p, new |-> Missing,
                   unlink |-> Missing]
  <2>1. Arrival(t, j)
    BY <1>6, BeginArrives DEF SaveReviewSettings
  <2>2. p \in Saved
    BY DEF Partial, Saved
  <2>3. j \in Job
    BY <1>0, <2>2, FileNames DEF Job, Arg
  <2>4. Ready(j)
    BY <1>0, <2>2 DEF Ready, Request
  <2> QED
    BY <2>1, <2>3, <2>4
<1>7. ASSUME ResetReviewSettings(t) PROVE \E j : Goal(j)
  <2> DEFINE j == [pc |-> "open", op |-> "reset", on |-> Settings, arg |-> Key, new |-> NoKeys,
                   unlink |-> Missing]
  <2>1. Arrival(t, j)
    BY <1>7, BeginArrives DEF ResetReviewSettings
  <2>2. j \in Job
    BY <1>0, FileNames DEF Job, Arg
  <2>3. Ready(j)
    BY <1>0, Contents DEF Ready, Request
  <2>4. j.new = Promised(j.op, j.on, j.arg, truth[j.on])
    BY DEF Promised, NoKeys
  <2> QED
    BY <2>1, <2>2, <2>3, <2>4
<1>8. ASSUME NEW k \in Key, NEW v \in Valid \cup Invalid, SavePrompt(t, k, v)
      PROVE  \E j : Goal(j)
  <2> DEFINE p == [NoKeys EXCEPT ![k] = v]
             j == [pc |-> "read", op |-> "save", on |-> Prompts, arg |-> p, new |-> Missing,
                   unlink |-> Missing]
  <2>1. Arrival(t, j)
    BY <1>8, BeginArrives DEF SavePrompt
  <2>2. p \in Saved
    BY DEF NoKeys, Saved
  <2> HIDE DEF p
  <2>3. j \in Job
    BY <1>0, <2>2, FileNames DEF Job, Arg
  <2>4. Ready(j)
    BY <1>0, <2>2 DEF Ready, Request
  <2> QED
    BY <2>1, <2>3, <2>4
<1>9. ASSUME NEW k \in Key, ResetPrompt(t, k) PROVE \E j : Goal(j)
  <2> DEFINE j == [pc |-> "read", op |-> "reset", on |-> Prompts, arg |-> {k}, new |-> Missing,
                   unlink |-> Missing]
  <2>1. Arrival(t, j)
    BY <1>9, BeginArrives DEF ResetPrompt
  <2>2. j \in Job
    BY <1>0, FileNames DEF Job, Arg
  <2>3. Ready(j)
    BY <1>0 DEF Ready, Request
  <2> QED
    BY <2>1, <2>2, <2>3
<1>10. \E j : Goal(j)
  BY <1>1, <1>2, <1>3, <1>4, <1>5, <1>6, <1>7, <1>8, <1>9 DEF Arrive
<1> QED
  BY <1>10

\* A step of a request: it goes on with the same files, or is over.
GoesOn(t, j) ==
    /\ job[t].pc # "idle"
    /\ job' = [job EXCEPT ![t] = j]
    /\ \/ j = Idle
       \/ Ready(j) /\ j.op = job[t].op /\ j.on = job[t].on /\ j.unlink = job[t].unlink
                   /\ j.arg = job[t].arg
    /\ UNCHANGED <<overlapped, requests>>

LEMMA BusyWhileGoingOn ==
    ASSUME JobsOK, NEW t \in Thread, NEW j, GoesOn(t, j), NEW f
    PROVE  Busy(f)' \subseteq Busy(f)
<1>1. job'[t] = j /\ \A u \in Thread \ {t} : job'[u] = job[u]
  BY DEF JobsOK, GoesOn
<1>2. Idle.pc = "idle"
  BY IdleIsNoRequest
<1>3. ASSUME NEW u \in Thread, job'[u].pc # "idle", f \in {job'[u].on, job'[u].unlink}
      PROVE  job[u].pc # "idle" /\ f \in {job[u].on, job[u].unlink}
  BY <1>1, <1>2, <1>3 DEF GoesOn
<1> QED
  BY <1>3 DEF Busy

\* What is read, and the request when it is written next.
LEMMA ReadStep ==
    ASSUME FilesOK, JobsOK, NEW t \in Thread, Read(t)
    PROVE  /\ UNCHANGED <<file, truth, broken, faults>> /\ job[t].pc = "read"
           /\ \E j \in Job :
                 /\ GoesOn(t, j)
                 /\ j # Idle =>
                      /\ j.pc = "open" /\ ~Unreadable(job[t].on)
                      /\ ~Unwritten(job[t], Reading(job[t].on))
                      /\ j.new = NewContent(job[t], Reading(job[t].on))
<1> DEFINE j == job[t]
           old == Reading(j.on)
           new == NewContent(j, old)
           next == [j EXCEPT !.pc = "open", !.new = new]
<1>1. /\ UNCHANGED <<file, truth, broken, faults, overlapped, requests>> /\ j.pc = "read"
      /\ IF Unreadable(j.on) \/ Unwritten(j, old) THEN job' = [job EXCEPT ![t] = Idle]
         ELSE job' = [job EXCEPT ![t] = next]
  BY DEF Read, Done
<1>2. j \in Job /\ Request(j) /\ j.on \in File
  BY <1>1, BusyRequests
<1>3. CASE Unreadable(j.on) \/ Unwritten(j, old)
  <2>1. GoesOn(t, Idle)
    BY <1>1, <1>3 DEF GoesOn
  <2> QED
    BY <1>1, <2>1, IdleIsNoRequest
<1>4. CASE ~Unreadable(j.on) /\ ~Unwritten(j, old)
  <2> DEFINE c == IF file[j.on] \in Blank THEN Missing ELSE file[j.on]
  <2>1. c \in Content(j.on) \cup {Missing}
    BY <1>2 DEF FilesOK
  <2>2. old = Known(j.on, c)
    BY DEF Reading
  <2> HIDE DEF c
  <2>3. /\ j.op = "save" => ~IsBad(j.arg)
        /\ new = Promised(j.op, j.on, j.arg, c)
    BY <1>1, <1>2, <1>4, <2>1, <2>2, NewIsPromised
  <2>4. /\ next.pc = "open" /\ next.new = new /\ next.op = j.op /\ next.on = j.on
        /\ next.unlink = j.unlink /\ next.arg = j.arg
    BY <1>2 DEF Job
  <2> HIDE DEF new
  <2>5. Request(next)
    <3> HIDE DEF next, j
    <3> QED
      BY <1>1, <1>2, <2>3, <2>4 DEF Request
  <2>6. new \in Content(j.on)
    <3>1. Promised(next.op, next.on, next.arg, c) \in Content(next.on)
      <4> HIDE DEF next
      <4> QED
        BY <2>1, <2>4, <2>5, PromisedType
    <3> QED
      BY <2>3, <2>4, <3>1
  <2>7. Ready(next)
    <3> HIDE DEF next
    <3> QED
      BY <2>4, <2>5, <2>6 DEF Ready
  <2>8. next \in Job
    <3>1. new \in Stored
      BY <1>2, <2>6, Contents
    <3> QED
      BY <1>2, <3>1 DEF Job
  <2> HIDE DEF next
  <2>9. GoesOn(t, next)
    BY <1>1, <1>4, <2>4, <2>7 DEF GoesOn
  <2> QED
    BY <1>1, <1>4, <2>4, <2>8, <2>9 DEF new
<1> QED
  BY <1>3, <1>4

LEMMA OpenStep ==
    ASSUME JobsOK, NEW t \in Thread, Open(t)
    PROVE  /\ job[t].pc = "open" /\ file' = [file EXCEPT ![job[t].on] = Empty]
           /\ UNCHANGED <<truth, broken, faults>>
           /\ \E j \in Job : GoesOn(t, j) /\ j.pc = "close" /\ j.new = job[t].new
<1> DEFINE j == job[t]
           next == [j EXCEPT !.pc = "close"]
<1>1. /\ j.pc = "open" /\ file' = [file EXCEPT ![j.on] = Empty] /\ job' = [job EXCEPT ![t] = next]
      /\ UNCHANGED <<truth, broken, faults, overlapped, requests>>
  BY DEF Open
<1>2. j \in Job /\ Ready(j)
  BY <1>1, BusyRequests
<1>3. /\ next \in Job /\ next.pc = "close" /\ next.new = j.new /\ next.op = j.op /\ next.on = j.on
      /\ next.unlink = j.unlink /\ next.arg = j.arg
  BY <1>2 DEF Job
<1> HIDE DEF next, j
<1>4. Ready(next)
  BY <1>1, <1>2, <1>3 DEF Ready, Request
<1>5. GoesOn(t, next)
  BY <1>1, <1>3, <1>4 DEF GoesOn, j
<1> QED
  BY <1>1, <1>3, <1>5 DEF j

LEMMA CloseStep ==
    ASSUME JobsOK, NEW t \in Thread, Close(t)
    PROVE  /\ job[t].pc = "close"
           /\ \E left \in {job[t].new} \cup
                          (IF file[job[t].on] \in {Empty, job[t].new} THEN {} ELSE {Garbage}) :
                 file' = [file EXCEPT ![job[t].on] = left]
           /\ truth' = [truth EXCEPT ![job[t].on] =
                           Promised(job[t].op, job[t].on, job[t].arg, @)]
           /\ UNCHANGED <<broken, faults>>
           /\ \E j \in Job :
                 /\ GoesOn(t, j) /\ j.pc \notin {"open", "close"}
                 /\ job[t].unlink # Missing => j.pc = "unlink" /\ j.unlink = job[t].unlink
<1> DEFINE j == job[t]
           next == [j EXCEPT !.pc = "unlink"]
<1>1. /\ j.pc = "close"
      /\ IF j.unlink = Missing THEN job' = [job EXCEPT ![t] = Idle]
         ELSE job' = [job EXCEPT ![t] = next]
      /\ UNCHANGED <<broken, faults, overlapped, requests>>
  BY DEF Close, Done
<1>2. j \in Job /\ Ready(j)
  BY <1>1, BusyRequests
<1>3. \E i \in Job : /\ GoesOn(t, i) /\ i.pc \notin {"open", "close"}
                     /\ j.unlink # Missing => i.pc = "unlink" /\ i.unlink = j.unlink
  <2>1. CASE j.unlink = Missing
    <3>1. GoesOn(t, Idle)
      BY <1>1, <2>1 DEF GoesOn
    <3> QED
      BY <2>1, <3>1, IdleIsNoRequest
  <2>2. CASE j.unlink # Missing
    <3>1. /\ next \in Job /\ next.pc = "unlink" /\ next.new = j.new /\ next.op = j.op
          /\ next.on = j.on /\ next.unlink = j.unlink /\ next.arg = j.arg
      BY <1>2 DEF Job
    <3> HIDE DEF next, j
    <3>2. Ready(next)
      BY <1>1, <1>2, <2>2, <3>1 DEF Ready, Request
    <3>3. GoesOn(t, next)
      BY <1>1, <2>2, <3>1, <3>2 DEF GoesOn, j
    <3> QED
      BY <3>1, <3>3
  <2> QED
    BY <2>1, <2>2
<1> QED
  BY <1>1, <1>3 DEF Close, Commit

LEMMA UnlinkStep ==
    ASSUME JobsOK, NEW t \in Thread, Unlink(t)
    PROVE  /\ job[t].pc = "unlink" /\ GoesOn(t, Idle)
           /\ job[t].unlink \in Whole
           /\ file' = [file EXCEPT ![job[t].unlink] = Missing]
           /\ truth' = [truth EXCEPT ![job[t].unlink] = Missing]
           /\ UNCHANGED <<broken, faults>>
<1>1. job[t].pc = "unlink"
  BY DEF Unlink
<1>2. job[t].unlink \in Whole
  BY <1>1, BusyRequests, FileNames DEF Request
<1> QED
  BY <1>1, <1>2 DEF Unlink, Done, GoesOn

LEMMA WriteFailsStep ==
    ASSUME JobsOK, NEW t \in Thread, WriteFails(t)
    PROVE  /\ job[t].pc \in {"open", "close"} /\ GoesOn(t, Idle)
           /\ faults < MaxFaults /\ faults' = faults + 1
           /\ broken' = broken \cup {job[t].on}
           /\ UNCHANGED <<file, truth>>
<1>1. job[t].pc \in {"open", "close"}
  BY DEF WriteFails
<1> QED
  BY <1>1 DEF WriteFails, Done, GoesOn

LEMMA CrashStep ==
    ASSUME Crash
    PROVE  /\ \A t \in Thread : job'[t] = Idle
           /\ job' \in [Thread -> Job]
           /\ \A f : Busy(f)' = {}
           /\ broken \subseteq broken' /\ broken' \subseteq broken \cup File
           /\ \A f \in File \ broken' : Busy(f) = {}
           /\ faults < MaxFaults /\ faults' = faults + 1
           /\ UNCHANGED <<file, truth, overlapped, requests>>
<1>1. \A t \in Thread : job'[t] = Idle
  BY DEF Crash
<1>2. \A f : Busy(f)' = {}
  BY <1>1, IdleIsNoRequest DEF Busy
<1> QED
  BY <1>1, <1>2, IdleIsNoRequest DEF Crash

LEMMA StepCases ==
    ASSUME [Next]_vars
    PROVE  \/ UNCHANGED vars
           \/ Crash
           \/ \E t \in Thread : Arrive(t)
           \/ \E t \in Thread : Read(t) \/ Open(t) \/ Close(t) \/ Unlink(t) \/ WriteFails(t)
  BY DEF Next, Step

LEMMA JobsGoOn ==
    ASSUME FilesOK, JobsOK, NEW t \in Thread,
           Read(t) \/ Open(t) \/ Close(t) \/ Unlink(t) \/ WriteFails(t)
    PROVE  \E j \in Job : GoesOn(t, j)
  BY ReadStep, OpenStep, CloseStep, UnlinkStep, WriteFailsStep, IdleIsNoRequest

-----------------------------------------------------------------------------
(* Types *)

LEMMA JobsStep ==
    ASSUME FilesOK, JobsOK, [Next]_vars
    PROVE  JobsOK'
<1>1. CASE UNCHANGED vars
  BY <1>1 DEF JobsOK, vars
<1>2. CASE Crash
  BY <1>2, CrashStep DEF JobsOK
<1>3. ASSUME NEW t \in Thread, NEW j \in Job, job' = [job EXCEPT ![t] = j], j = Idle \/ Ready(j)
      PROVE  JobsOK'
  <2>1. job' \in [Thread -> Job] /\ job'[t] = j /\ \A u \in Thread \ {t} : job'[u] = job[u]
    BY <1>3 DEF JobsOK
  <2> QED
    BY <1>3, <2>1 DEF JobsOK
<1>4. CASE \E t \in Thread : Arrive(t)
  BY <1>3, <1>4, ArriveStep DEF Arrival
<1>5. CASE \E t \in Thread : Read(t) \/ Open(t) \/ Close(t) \/ Unlink(t) \/ WriteFails(t)
  BY <1>3, <1>5, JobsGoOn DEF GoesOn
<1> QED
  BY <1>1, <1>2, <1>4, <1>5, StepCases

LEMMA FilesStep ==
    ASSUME FilesOK, JobsOK, [Next]_vars
    PROVE  FilesOK'
<1>0. /\ MaxRequests \in Nat /\ MaxFaults \in Nat /\ requests \in Nat /\ faults \in Nat
      /\ requests \in 0..MaxRequests /\ faults \in 0..MaxFaults
      /\ Empty \in Blank /\ Garbage \in Blank /\ Missing \in Blank
  BY StoreAssumption DEF FilesOK, Blank
<1>1. CASE UNCHANGED vars
  BY <1>1 DEF FilesOK, vars
<1>2. CASE Crash
  BY <1>0, <1>2, CrashStep DEF FilesOK
<1>3. CASE \E t \in Thread : Arrive(t)
  <2>1. PICK t \in Thread, j \in Job : Arrival(t, j)
    BY <1>3, ArriveStep
  <2>2. {j.on, j.unlink} \ {Missing} \subseteq File
    BY DEF Job
  <2>3. overlapped' \subseteq File
    BY <2>1, <2>2 DEF Arrival, FilesOK
  <2> QED
    BY <1>0, <2>1, <2>3 DEF Arrival, FilesOK
<1>4. ASSUME NEW f \in File, NEW c \in Content(f) \cup Blank, NEW d \in Content(f) \cup {Missing},
             file' = [file EXCEPT ![f] = c], truth' = [truth EXCEPT ![f] = d] \/ truth' = truth,
             UNCHANGED <<overlapped, broken, requests, faults>>
      PROVE  FilesOK'
  <2>1. c \in Stored /\ d \in Stored
    BY <1>0, Contents
  <2> QED
    BY <1>4, <2>1 DEF FilesOK
<1>5. ASSUME NEW t \in Thread, Read(t) \/ Open(t) \/ Close(t) \/ Unlink(t) \/ WriteFails(t)
      PROVE  FilesOK'
  <2>1. job[t].pc # "idle" /\ UNCHANGED <<overlapped, requests>>
    BY <1>5, JobsGoOn DEF GoesOn
  <2>2. job[t].on \in File /\ Ready(job[t]) /\ Request(job[t])
    BY <2>1, BusyRequests
  <2>3. CASE Read(t)
    BY <2>1, <2>3, ReadStep DEF FilesOK
  <2>4. CASE Open(t)
    BY <1>0, <1>4, <2>1, <2>2, <2>4, OpenStep
  <2>5. CASE Close(t)
    <3>1. job[t].new \in Content(job[t].on) /\ truth[job[t].on] \in Content(job[t].on) \cup {Missing}
      BY <2>2, <2>5, CloseStep DEF Ready, FilesOK
    <3>2. PromisedTo(t) \in Content(job[t].on)
      BY <2>2, <2>5, <3>1, CloseStep, PromisedType DEF PromisedTo
    <3>3. PICK left \in {job[t].new} \cup
                        (IF file[job[t].on] \in {Empty, job[t].new} THEN {} ELSE {Garbage}) :
             file' = [file EXCEPT ![job[t].on] = left]
      BY <2>5, CloseStep
    <3>4. left \in Content(job[t].on) \cup Blank
      BY <1>0, <3>1, <3>3
    <3>5. truth' = [truth EXCEPT ![job[t].on] = PromisedTo(t)]
      BY <2>2, <2>5, CloseStep DEF PromisedTo, FilesOK
    <3>6. UNCHANGED <<broken, faults>>
      BY <2>5, CloseStep
    <3> QED
      BY <1>4, <2>1, <2>2, <3>2, <3>3, <3>4, <3>5, <3>6
  <2>6. CASE Unlink(t)
    <3>1. /\ job[t].unlink \in Whole
          /\ file' = [file EXCEPT ![job[t].unlink] = Missing]
          /\ truth' = [truth EXCEPT ![job[t].unlink] = Missing]
          /\ UNCHANGED <<broken, faults>>
      BY <2>6, UnlinkStep
    <3>2. job[t].unlink \in File
      BY <3>1, FileNames
    <3> QED
      BY <1>0, <1>4, <2>1, <3>1, <3>2
  <2>7. CASE WriteFails(t)
    BY <1>0, <2>1, <2>2, <2>7, WriteFailsStep DEF FilesOK
  <2> QED
    BY <1>5, <2>3, <2>4, <2>5, <2>6, <2>7
<1> QED
  BY <1>1, <1>2, <1>3, <1>5, StepCases

-----------------------------------------------------------------------------
(* Requests that do not overlap *)

LEMMA ArrivalBusy ==
    ASSUME JobsOK, NEW t \in Thread, NEW j \in Job, Arrival(t, j), NEW f \in File
    PROVE  /\ Busy(f)' \subseteq Busy(f) \cup {t}
           /\ f \notin overlapped' => f \notin overlapped /\ (t \in Busy(f)' => Busy(f) = {})
<1>1. job'[t] = j /\ \A u \in Thread \ {t} : job'[u] = job[u]
  BY DEF JobsOK, Arrival
<1>2. Busy(f)' \subseteq Busy(f) \cup {t}
  BY <1>1 DEF Busy
<1>3. t \in Busy(f)' => f \in {j.on, j.unlink} \ {Missing}
  BY <1>1, FilesAssumption DEF Busy
<1> QED
  BY <1>2, <1>3 DEF Arrival

LEMMA OthersStay ==
    ASSUME JobsOK, NEW t \in Thread, NEW j, job' = [job EXCEPT ![t] = j]
    PROVE  job'[t] = j /\ \A u \in Thread : u # t => job'[u] = job[u]
  BY DEF JobsOK

LEMMA OneAtATimeStep ==
    ASSUME FilesOK, JobsOK, OneAtATime, [Next]_vars
    PROVE  OneAtATime'
<1>1. CASE UNCHANGED vars
  BY <1>1 DEF OneAtATime, Busy, vars
<1>2. CASE Crash
  BY <1>2, CrashStep DEF OneAtATime
<1>3. CASE \E t \in Thread : Arrive(t)
  <2>1. PICK t \in Thread, j \in Job : Arrival(t, j)
    BY <1>3, ArriveStep
  <2>2. ASSUME NEW f \in File, f \notin overlapped', NEW u \in Busy(f)', NEW v \in Busy(f)'
        PROVE  u = v
    BY <2>1, <2>2, ArrivalBusy DEF OneAtATime
  <2> QED
    BY <2>2 DEF OneAtATime
<1>4. CASE \E t \in Thread : Read(t) \/ Open(t) \/ Close(t) \/ Unlink(t) \/ WriteFails(t)
  <2>1. PICK t \in Thread, j \in Job : GoesOn(t, j)
    BY <1>4, JobsGoOn
  <2>2. \A f \in File : Busy(f)' \subseteq Busy(f)
    BY <2>1, BusyWhileGoingOn
  <2> QED
    BY <2>1, <2>2 DEF GoesOn, OneAtATime
<1> QED
  BY <1>1, <1>2, <1>3, <1>4, StepCases

LEMMA Elsewhere ==
    ASSUME JobsOK, OneAtATime, NEW t \in Thread, NEW u \in Thread, t # u,
           job[t].pc # "idle", job[u].pc # "idle",
           NEW f \in File \ overlapped, f \in {job[t].on, job[t].unlink}
    PROVE  job[u].on # f /\ job[u].unlink # f
  BY DEF OneAtATime, Busy

LEMMA FoundEmptyStep ==
    ASSUME FilesOK, JobsOK, OneAtATime, FoundEmpty, [Next]_vars
    PROVE  FoundEmpty'
<1>0. Idle.pc = "idle"
  BY IdleIsNoRequest
<1>1. CASE UNCHANGED vars
  BY <1>1 DEF FoundEmpty, vars
<1>2. CASE Crash
  BY <1>0, <1>2, CrashStep DEF FoundEmpty
<1>3. CASE \E t \in Thread : Arrive(t)
  <2>1. PICK t \in Thread, j \in Job : Arrival(t, j) /\ j.pc # "close"
    BY <1>3, ArriveStep
  <2>2. job'[t] = j /\ \A u \in Thread : u # t => job'[u] = job[u]
    BY <2>1, OthersStay DEF Arrival
  <2>3. file' = file /\ overlapped \subseteq overlapped'
    BY <2>1 DEF Arrival
  <2> QED
    BY <2>1, <2>2, <2>3 DEF FoundEmpty
<1>4. ASSUME NEW t \in Thread, NEW j, GoesOn(t, j),
             NEW f \in File, f \in {job[t].on, job[t].unlink}, NEW c,
             file' = [file EXCEPT ![f] = c] \/ file' = file,
             j.pc = "close" => f = job[t].on /\ file' = [file EXCEPT ![f] = Empty]
      PROVE  FoundEmpty'
  <2>1. job'[t] = j /\ \A u \in Thread : u # t => job'[u] = job[u]
    BY <1>4, OthersStay DEF GoesOn
  <2>2. overlapped' = overlapped /\ job[t].pc # "idle"
    BY <1>4 DEF GoesOn
  <2>3. ASSUME NEW u \in Thread, job'[u].pc = "close", job'[u].on \notin overlapped
        PROVE  file'[job'[u].on] = Empty
    <3>1. CASE u = t
      <4>1. j.on = job[t].on
        BY <1>0, <1>4, <2>1, <2>3, <3>1 DEF GoesOn
      <4> QED
        BY <1>4, <2>1, <2>3, <3>1, <4>1 DEF FilesOK
    <3>2. CASE u # t
      <4>1. job'[u] = job[u] /\ file[job[u].on] = Empty
        BY <2>1, <2>3, <3>2 DEF FoundEmpty
      <4>2. job[u].on \in File
        BY <2>3, <4>1, BusyRequests
      <4>3. job[u].on # f
        BY <1>4, <2>2, <2>3, <3>2, <4>1, <4>2, Elsewhere
      <4> QED
        BY <1>4, <4>1, <4>2, <4>3 DEF FilesOK
    <3> QED
      BY <3>1, <3>2
  <2> QED
    BY <2>2, <2>3 DEF FoundEmpty
<1>5. ASSUME NEW t \in Thread, Read(t) \/ Open(t) \/ Close(t) \/ Unlink(t) \/ WriteFails(t)
      PROVE  FoundEmpty'
  <2>1. job[t].pc # "idle" /\ job[t].on \in File
    BY <1>5, JobsGoOn, BusyRequests DEF GoesOn
  <2>2. CASE Read(t)
    BY <1>0, <1>4, <2>1, <2>2, ReadStep
  <2>3. CASE Open(t)
    BY <1>4, <2>1, <2>3, OpenStep
  <2>4. CASE Close(t)
    BY <1>4, <2>1, <2>4, CloseStep
  <2>5. CASE Unlink(t)
    <3>1. job[t].unlink \in File
      BY <2>5, UnlinkStep, FileNames
    <3> QED
      BY <1>0, <1>4, <2>1, <2>5, <3>1, UnlinkStep
  <2>6. CASE WriteFails(t)
    BY <1>0, <1>4, <2>1, <2>6, WriteFailsStep
  <2> QED
    BY <1>5, <2>2, <2>3, <2>4, <2>5, <2>6
<1> QED
  BY <1>1, <1>2, <1>3, <1>5, StepCases

-----------------------------------------------------------------------------
(* What is written *)

\* A file that is read, and not broken, is read as it should be.
LEMMA ReadsTruth ==
    ASSUME FilesOK, NEW f \in File, file[f] = truth[f]
    PROVE  Reading(f) = Known(f, truth[f])
<1>1. truth[f] \in Content(f) \cup {Missing}
  BY DEF FilesOK
<1>2. CASE truth[f] = Missing
  BY <1>2 DEF Reading, Blank
<1>3. CASE truth[f] \in Content(f)
  BY <1>3, FilesAssumption DEF Reading
<1> QED
  BY <1>1, <1>2, <1>3

LEMMA ReadGives ==
    ASSUME FilesOK, JobsOK, OneAtATime, HoldsTruth, NEW t \in Thread, job[t].pc = "read",
           ~Unreadable(job[t].on), ~Unwritten(job[t], Reading(job[t].on)),
           job[t].on \notin overlapped
    PROVE  LET new == NewContent(job[t], Reading(job[t].on)) IN
           /\ job[t].on \notin Doc \cap broken => new = PromisedTo(t)
           /\ job[t].on \in Doc => \A k \in Key : new[k] \in {PromisedTo(t)[k], Missing}
<1> DEFINE j == job[t]
           f == job[t].on
<1>1. f \in File /\ Request(j) /\ t \in Busy(f)
  BY BusyRequests
<1>2. f = Repos \/ f \in Doc
  BY <1>1 DEF Request
<1>3. truth[f] \in Content(f) \cup {Missing}
  BY <1>1 DEF FilesOK
<1>4. ~BeingWritten(f)
  BY <1>1 DEF OneAtATime, BeingWritten
<1>5. ASSUME f \notin Doc \cap broken
      PROVE  NewContent(j, Reading(f)) = PromisedTo(t)
  <2>1. file[f] = truth[f]
    <3>1. CASE f = Repos
      BY <1>1, <3>1, FileNames DEF HoldsTruth, Unreadable, Broken
    <3>2. CASE f \in Doc
      BY <1>1, <1>4, <1>5, <3>2 DEF HoldsTruth
    <3> QED
      BY <1>2, <3>1, <3>2
  <2>2. Reading(f) = Known(f, truth[f])
    BY <1>1, <2>1, ReadsTruth
  <2> QED
    BY <1>1, <1>3, <2>2, NewIsPromised DEF PromisedTo
<1>6. ASSUME f \in Doc
      PROVE  \A k \in Key : NewContent(j, Reading(f))[k] \in {PromisedTo(t)[k], Missing}
  <2>1. \A k \in Key : Reading(f)[k] \in {Known(f, truth[f])[k], Missing}
    BY <1>1, <1>6 DEF HoldsTruth
  <2> QED
    BY <1>1, <1>6, <2>1, NewHasFewer DEF PromisedTo
<1> QED
  BY <1>5, <1>6

LEMMA WritesStep ==
    ASSUME FilesOK, JobsOK, OneAtATime, WritesPromised, HoldsTruth, [Next]_vars
    PROVE  WritesPromised'
<1> DEFINE Good(t) ==
             job[t].pc \in {"open", "close"} /\ job[t].on \notin overlapped =>
               /\ job[t].on \notin Doc \cap broken => job[t].new = PromisedTo(t)
               /\ job[t].on \in Doc =>
                     \A k \in Key : job[t].new[k] \in {PromisedTo(t)[k], Missing}
<1>0. Idle.pc = "idle"
  BY IdleIsNoRequest
<1>a. \A u \in Thread : Good(u)
  BY DEF WritesPromised
<1>1. CASE UNCHANGED vars
  BY <1>1 DEF WritesPromised, PromisedTo, vars
<1>2. CASE Crash
  BY <1>0, <1>2, CrashStep DEF WritesPromised
<1>3. CASE \E t \in Thread : Arrive(t)
  <2>1. PICK t \in Thread, j \in Job :
           /\ Arrival(t, j)
           /\ j.pc # "close"
           /\ j.pc = "open" => j.new = Promised(j.op, j.on, j.arg, truth[j.on])
    BY <1>3, ArriveStep
  <2>2. job'[t] = j /\ \A u \in Thread : u # t => job'[u] = job[u]
    BY <2>1, OthersStay DEF Arrival
  <2>3. /\ truth' = truth /\ overlapped \subseteq overlapped' /\ broken' = broken
    BY <2>1 DEF Arrival
  <2>4. Good(t)'
    BY <2>1, <2>2, <2>3 DEF PromisedTo
  <2>5. ASSUME NEW u \in Thread, u # t PROVE Good(u)'
    BY <1>a, <2>2, <2>3, <2>5 DEF PromisedTo
  <2>6. \A u \in Thread : Good(u)'
    BY <2>4, <2>5
  <2> QED
    BY <2>6 DEF WritesPromised
<1>4. ASSUME NEW t \in Thread, NEW j, GoesOn(t, j), Good(t)',
             NEW f \in File, f \in {job[t].on, job[t].unlink}, NEW c,
             truth' = [truth EXCEPT ![f] = c] \/ truth' = truth,
             broken \subseteq broken'
      PROVE  WritesPromised'
  <2>1. job'[t] = j /\ \A u \in Thread : u # t => job'[u] = job[u]
    BY <1>4, OthersStay DEF GoesOn
  <2>2. overlapped' = overlapped /\ job[t].pc # "idle"
    BY <1>4 DEF GoesOn
  <2>3. ASSUME NEW u \in Thread, u # t PROVE Good(u)'
    <3>1. SUFFICES ASSUME job[u].pc \in {"open", "close"}, job[u].on \notin overlapped
                   PROVE  Good(u)'
      BY <2>1, <2>2, <2>3
    <3>2. job[u].on \in File
      BY <3>1, BusyRequests
    <3>3. job[u].on # f
      BY <1>4, <2>2, <2>3, <3>1, <3>2, Elsewhere
    <3>4. truth'[job[u].on] = truth[job[u].on]
      BY <1>4, <3>2, <3>3 DEF FilesOK
    <3>5. PromisedTo(u)' = PromisedTo(u)
      BY <2>1, <2>3, <3>4 DEF PromisedTo
    <3> QED
      BY <1>4, <1>a, <2>1, <2>2, <2>3, <3>1, <3>5
  <2>4. \A u \in Thread : Good(u)'
    BY <1>4, <2>3
  <2> QED
    BY <2>4 DEF WritesPromised
<1>5. ASSUME NEW t \in Thread, Read(t) \/ Open(t) \/ Close(t) \/ Unlink(t) \/ WriteFails(t)
      PROVE  WritesPromised'
  <2>1. job[t].pc # "idle" /\ job[t].on \in File
    BY <1>5, JobsGoOn, BusyRequests DEF GoesOn
  <2>2. CASE Read(t)
    <3>1. PICK j \in Job :
             /\ GoesOn(t, j)
             /\ j # Idle => /\ j.pc = "open" /\ ~Unreadable(job[t].on)
                            /\ ~Unwritten(job[t], Reading(job[t].on))
                            /\ j.new = NewContent(job[t], Reading(job[t].on))
      BY <2>2, ReadStep
    <3>2. job'[t] = j /\ UNCHANGED <<truth, broken, overlapped>> /\ job[t].pc = "read"
      BY <2>2, <3>1, ReadStep, OthersStay DEF GoesOn
    <3>3. CASE j = Idle
      <4>1. Good(t)'
        BY <1>0, <3>2, <3>3
      <4> QED
        BY <1>4, <2>1, <3>1, <3>2, <4>1
    <3>4. CASE j # Idle
      <4>1. j.on = job[t].on /\ j.op = job[t].op /\ j.arg = job[t].arg
        BY <3>1, <3>4 DEF GoesOn
      <4>2. PromisedTo(t)' = PromisedTo(t)
        BY <3>2, <4>1 DEF PromisedTo
      <4>3. Good(t)'
        BY <3>1, <3>2, <3>4, <4>1, <4>2, ReadGives
      <4> QED
        BY <1>4, <2>1, <3>1, <3>2, <4>3
    <3> QED
      BY <3>3, <3>4
  <2>3. CASE Open(t)
    <3>1. PICK j \in Job : GoesOn(t, j) /\ j.pc = "close" /\ j.new = job[t].new
      BY <2>3, OpenStep
    <3>2. job'[t] = j /\ UNCHANGED <<truth, broken, overlapped>> /\ job[t].pc = "open"
      BY <2>3, <3>1, OpenStep, OthersStay DEF GoesOn
    <3>3. j.on = job[t].on /\ j.op = job[t].op /\ j.arg = job[t].arg
      BY <1>0, <3>1 DEF GoesOn
    <3>4. PromisedTo(t)' = PromisedTo(t)
      BY <3>2, <3>3 DEF PromisedTo
    <3>5. Good(t)'
      BY <1>a, <3>1, <3>2, <3>3, <3>4
    <3> QED
      BY <1>4, <2>1, <3>1, <3>2, <3>5
  <2>4. CASE Close(t)
    <3>1. PICK j \in Job : GoesOn(t, j) /\ j.pc \notin {"open", "close"}
      BY <2>4, CloseStep
    <3>2. job'[t] = j
      BY <3>1, OthersStay DEF GoesOn
    <3>3. Good(t)'
      BY <3>1, <3>2
    <3> QED
      BY <1>4, <2>1, <2>4, <3>1, <3>3, CloseStep
  <2>5. CASE Unlink(t)
    <3>1. job[t].unlink \in File /\ GoesOn(t, Idle)
      BY <2>5, UnlinkStep, FileNames
    <3>2. Good(t)'
      BY <1>0, <3>1, OthersStay DEF GoesOn
    <3> QED
      BY <1>4, <2>5, <3>1, <3>2, UnlinkStep
  <2>6. CASE WriteFails(t)
    <3>1. GoesOn(t, Idle)
      BY <2>6, WriteFailsStep
    <3>2. Good(t)'
      BY <1>0, <3>1, OthersStay DEF GoesOn
    <3> QED
      BY <1>4, <2>1, <2>6, <3>1, <3>2, WriteFailsStep
  <2> QED
    BY <1>5, <2>2, <2>3, <2>4, <2>5, <2>6
<1> QED
  BY <1>1, <1>2, <1>3, <1>5, StepCases

-----------------------------------------------------------------------------
(* What the files hold *)

\* Nothing is written or removed, and no request begins or ends writing.
LEMMA HoldsStill ==
    ASSUME HoldsTruth, NEW f \in File, f \notin overlapped,
           file'[f] = file[f], truth'[f] = truth[f], broken \subseteq broken',
           f \notin broken' /\ BeingWritten(f) => BeingWritten(f)'
    PROVE  /\ f \notin broken' /\ ~BeingWritten(f)' => file'[f] = truth'[f]
           /\ f = Repos => file'[f] \in {truth'[f], Empty}
           /\ f \in Doc => \A k \in Key : Reading(f)'[k] \in {Known(f, truth'[f])[k], Missing}
<1>1. Reading(f)' = Reading(f)
  BY DEF Reading
<1> QED
  BY <1>1 DEF HoldsTruth

LEMMA WritingGoesOn ==
    ASSUME JobsOK, NEW t \in Thread, NEW j, job' = [job EXCEPT ![t] = j], NEW f,
           BeingWritten(f), job[t].pc # "close" \/ job[t].on # f
    PROVE  BeingWritten(f)'
<1>1. PICK u \in Thread : job[u].pc = "close" /\ job[u].on = f
  BY DEF BeingWritten, Busy
<1>2. u # t
  BY <1>1
<1>3. job'[u] = job[u]
  BY <1>2, OthersStay
<1> QED
  BY <1>1, <1>3 DEF BeingWritten, Busy

LEMMA HoldsStep ==
    ASSUME FilesOK, JobsOK, OneAtATime, FoundEmpty, WritesPromised, HoldsTruth, [Next]_vars
    PROVE  HoldsTruth'
<1> DEFINE Good(f) ==
             /\ f \notin broken /\ ~BeingWritten(f) => file[f] = truth[f]
             /\ f = Repos => file[f] \in {truth[f], Empty}
             /\ f \in Doc => \A k \in Key : Reading(f)[k] \in {Known(f, truth[f])[k], Missing}
<1>1. CASE UNCHANGED vars
  BY <1>1 DEF HoldsTruth, Reading, BeingWritten, Busy, vars
<1>2. CASE Crash
  <2>1. ASSUME NEW f \in File, f \notin overlapped PROVE Good(f)'
    <3>1. f \notin broken' => ~BeingWritten(f)
      BY <1>2, CrashStep DEF BeingWritten
    <3> QED
      BY <1>2, <2>1, <3>1, CrashStep, HoldsStill
  <2> QED
    BY <1>2, <2>1, CrashStep DEF HoldsTruth
<1>3. CASE \E t \in Thread : Arrive(t)
  <2>1. PICK t \in Thread, j \in Job : Arrival(t, j)
    BY <1>3, ArriveStep
  <2>2. /\ job[t].pc = "idle" /\ job' = [job EXCEPT ![t] = j]
        /\ file' = file /\ truth' = truth /\ broken' = broken /\ overlapped \subseteq overlapped'
    BY <2>1 DEF Arrival
  <2>3. ASSUME NEW f \in File, f \notin overlapped' PROVE Good(f)'
    <3>1. BeingWritten(f) => BeingWritten(f)'
      BY <2>2, WritingGoesOn
    <3> QED
      BY <2>2, <2>3, <3>1, HoldsStill
  <2> QED
    BY <2>3 DEF HoldsTruth
<1>4. ASSUME NEW t \in Thread, NEW j, GoesOn(t, j), NEW g \in File, NEW c, NEW d,
             file' = [file EXCEPT ![g] = c], truth' = [truth EXCEPT ![g] = d],
             broken' = broken, g \notin overlapped => Good(g)',
             job[t].pc = "close" => g = job[t].on
      PROVE  HoldsTruth'
  <2>1. job' = [job EXCEPT ![t] = j] /\ overlapped' = overlapped
    BY <1>4 DEF GoesOn
  <2>2. ASSUME NEW f \in File, f \notin overlapped, f # g PROVE Good(f)'
    <3>1. file'[f] = file[f] /\ truth'[f] = truth[f]
      BY <1>4, <2>2 DEF FilesOK
    <3>2. BeingWritten(f) => BeingWritten(f)'
      BY <1>4, <2>1, <2>2, WritingGoesOn
    <3> QED
      BY <1>4, <2>2, <3>1, <3>2, HoldsStill
  <2> QED
    BY <1>4, <2>1, <2>2 DEF HoldsTruth
<1>5. ASSUME NEW t \in Thread, Read(t) \/ WriteFails(t)
      PROVE  HoldsTruth'
  <2>1. PICK j : GoesOn(t, j)
    BY <1>5, JobsGoOn
  <2>2. /\ file' = file /\ truth' = truth /\ overlapped' = overlapped /\ broken \subseteq broken'
        /\ job[t].pc # "close" \/ job[t].on \in broken'
        /\ job' = [job EXCEPT ![t] = j]
    BY <1>5, <2>1, ReadStep, WriteFailsStep DEF GoesOn
  <2>3. ASSUME NEW f \in File, f \notin overlapped PROVE Good(f)'
    <3>1. f \notin broken' /\ BeingWritten(f) => BeingWritten(f)'
      BY <2>2, WritingGoesOn
    <3> QED
      BY <2>2, <2>3, <3>1, HoldsStill
  <2> QED
    BY <2>2, <2>3 DEF HoldsTruth
<1>6. ASSUME NEW t \in Thread, Open(t)
      PROVE  HoldsTruth'
  <2>1. PICK j \in Job : GoesOn(t, j) /\ j.pc = "close"
    BY <1>6, OpenStep
  <2>2. PICK f \in File :
           /\ f = job[t].on
           /\ job[t].pc = "open" /\ file' = [file EXCEPT ![f] = Empty] /\ truth' = truth
           /\ broken' = broken
    BY <1>6, OpenStep, BusyRequests
  <2>3. f \in {job[t].on, job[t].unlink}
    BY <2>2
  <2>4. file'[f] = Empty /\ truth' = [truth EXCEPT ![f] = truth[f]]
    BY <2>2, <2>3 DEF FilesOK
  <2>5. BeingWritten(f)'
    <3>1. job'[t] = j /\ j.on = f
      BY <2>1, <2>2, OthersStay, IdleIsNoRequest DEF GoesOn
    <3> QED
      BY <2>1, <3>1 DEF BeingWritten, Busy
  <2>6. f \in Doc => \A k \in Key : Reading(f)'[k] = Missing
    BY <2>4, FileNames DEF Reading, Known, NoKeys, Blank
  <2>7. Good(f)'
    BY <2>4, <2>5, <2>6
  <2> QED
    BY <1>4, <2>1, <2>2, <2>3, <2>4, <2>7
<1>7. ASSUME NEW t \in Thread, Close(t)
      PROVE  HoldsTruth'
  <2>f. PICK f \in File : f = job[t].on
    BY <1>7, CloseStep, BusyRequests
  <2>n. PICK new : new = job[t].new
    OBVIOUS
  <2>0. f = job[t].on /\ new = job[t].new
    BY <2>f, <2>n
  <2>1. PICK j \in Job : GoesOn(t, j)
    BY <1>7, CloseStep
  <2>2. /\ job[t].pc = "close" /\ broken' = broken
        /\ truth' = [truth EXCEPT ![f] = Promised(job[t].op, job[t].on, job[t].arg, @)]
    BY <1>7, <2>0, CloseStep
  <2>3. PICK left \in {new} \cup (IF file[f] \in {Empty, new} THEN {} ELSE {Garbage}) :
           file' = [file EXCEPT ![f] = left]
    BY <1>7, <2>0, CloseStep
  <2>4. Ready(job[t]) /\ Request(job[t])
    BY <2>2, BusyRequests
  <2>p. PICK promised : promised = PromisedTo(t)
    OBVIOUS
  <2>5. truth' = [truth EXCEPT ![f] = promised]
    BY <2>0, <2>2, <2>p DEF PromisedTo, FilesOK
  <2>6. new \in Content(f) /\ promised \in Content(f)
    BY <2>0, <2>2, <2>4, <2>p, PromisedType DEF Ready, FilesOK, PromisedTo
  <2>7. ASSUME f \notin overlapped PROVE Good(f)'
    <3>1. left = new
      BY <2>0, <2>2, <2>3, <2>7 DEF FoundEmpty
    <3>2. file'[f] = new /\ truth'[f] = promised
      BY <2>3, <2>4, <2>5, <3>1 DEF FilesOK
    <3>3. /\ f \notin Doc \cap broken => new = promised
          /\ f \in Doc => \A k \in Key : new[k] \in {promised[k], Missing}
      BY <2>0, <2>2, <2>7, <2>p DEF WritesPromised
    <3>4. new \notin Blank /\ promised # Missing
      BY <2>6, FilesAssumption DEF Blank
    <3>5. Reading(f)' = new /\ Known(f, truth'[f]) = promised
      BY <3>2, <3>4 DEF Reading, Known, Blank
    <3>6. f = Repos => f \notin Doc
      BY FileNames
    <3> QED
      BY <2>2, <3>2, <3>3, <3>5, <3>6
  <2>8. broken' = broken /\ (job[t].pc = "close" => f = job[t].on)
    BY <2>0, <2>2
  <2> HIDE DEF Good
  <2> QED
    BY <1>4, <2>1, <2>3, <2>5, <2>7, <2>8
<1>8. ASSUME NEW t \in Thread, Unlink(t)
      PROVE  HoldsTruth'
  <2>1. PICK f \in Whole :
        /\ f = job[t].unlink /\ job[t].pc = "unlink" /\ GoesOn(t, Idle) /\ broken' = broken
        /\ file' = [file EXCEPT ![f] = Missing] /\ truth' = [truth EXCEPT ![f] = Missing]
    BY <1>8, UnlinkStep
  <2>2. f \in File /\ f # Repos /\ f \notin Doc
    BY <2>1, FileNames
  <2>3. Good(f)'
    BY <2>1, <2>2 DEF FilesOK
  <2> QED
    BY <1>4, <2>1, <2>2, <2>3
<1> QED
  BY <1>1, <1>2, <1>3, <1>5, <1>6, <1>7, <1>8, StepCases

-----------------------------------------------------------------------------
(* Lists of pull requests *)

LEMMA ListsStep ==
    ASSUME FilesOK, JobsOK, OneAtATime, ListsBelong, [Next]_vars
    PROVE  ListsBelong'
<1> DEFINE Pending(r) == \E t \in Thread : job[t].pc = "unlink" /\ job[t].unlink = Prs(r)
           Good(r) ==
             /\ \A t \in Thread : ~(job[t].op = "write" /\ job[t].on = Prs(r))
             /\ truth[Prs(r)] = Missing \/ Pending(r)
           Bare(r) == Prs(r) \notin overlapped \cup broken /\ r \notin Known(Repos, truth[Repos])
<1>0. Idle.pc = "idle" /\ Idle.op = "none"
  BY IdleIsNoRequest DEF Idle
<1>a. \A r \in Repo : Bare(r) => Good(r)
  BY DEF ListsBelong
<1>1. CASE UNCHANGED vars
  BY <1>1 DEF ListsBelong, vars
<1>2. CASE Crash
  <2>1. ASSUME NEW r \in Repo, Bare(r)' PROVE Good(r)'
    <3>1. Bare(r) /\ Prs(r) \in File /\ Busy(Prs(r)) = {} /\ truth' = truth
      BY <1>2, <2>1, CrashStep, FileNames
    <3>2. ~Pending(r)
      BY <3>1 DEF Busy
    <3>3. truth'[Prs(r)] = Missing
      BY <1>a, <3>1, <3>2
    <3> QED
      BY <1>0, <1>2, <3>3, CrashStep
  <2> QED
    BY <2>1 DEF ListsBelong
<1>3. CASE \E t \in Thread : Arrive(t)
  <2>1. PICK t \in Thread, j \in Job :
           /\ Arrival(t, j)
           /\ j.op = "write" => \A r \in Repo : j.on = Prs(r) => r \in Known(Repos, truth[Repos])
    BY <1>3, ArriveStep
  <2>2. job'[t] = j /\ \A u \in Thread : u # t => job'[u] = job[u]
    BY <2>1, OthersStay DEF Arrival
  <2>3. job[t].pc = "idle" /\ truth' = truth /\ overlapped \subseteq overlapped' /\ broken' = broken
    BY <2>1 DEF Arrival
  <2>4. ASSUME NEW r \in Repo, Bare(r)' PROVE Good(r)'
    <3>1. Bare(r) /\ Good(r)
      BY <1>a, <2>3, <2>4
    <3>2. ~(j.op = "write" /\ j.on = Prs(r))
      BY <2>1, <3>1
    <3>3. Pending(r) => Pending(r)'
      BY <2>2, <2>3
    <3> QED
      BY <2>2, <2>3, <3>1, <3>2, <3>3
  <2> QED
    BY <2>4 DEF ListsBelong
<1>4. ASSUME NEW t \in Thread, NEW j, GoesOn(t, j)
      PROVE  /\ job'[t] = j /\ \A u \in Thread : u # t => job'[u] = job[u]
             /\ overlapped' = overlapped
             /\ \A r \in Repo :
                  (\A u \in Thread : ~(job[u].op = "write" /\ job[u].on = Prs(r))) =>
                  (\A u \in Thread : ~(job'[u].op = "write" /\ job'[u].on = Prs(r)))
             /\ \A r \in Repo : Pending(r) /\ ~(job[t].pc = "unlink" /\ job[t].unlink = Prs(r))
                                  => Pending(r)'
  <2>1. /\ job'[t] = j /\ \A u \in Thread : u # t => job'[u] = job[u]
        /\ overlapped' = overlapped
    BY <1>4, OthersStay DEF GoesOn
  <2>2. j = Idle \/ (j.op = job[t].op /\ j.on = job[t].on)
    BY <1>4 DEF GoesOn
  <2> QED
    BY <1>0, <2>1, <2>2
<1>5. ASSUME NEW t \in Thread, Read(t) \/ Open(t) \/ WriteFails(t)
      PROVE  ListsBelong'
  <2>1. PICK j : GoesOn(t, j)
    BY <1>5, JobsGoOn
  <2>2. job[t].pc # "unlink" /\ truth' = truth /\ broken \subseteq broken'
    BY <1>5, ReadStep, OpenStep, WriteFailsStep
  <2>3. ASSUME NEW r \in Repo, Bare(r)' PROVE Good(r)'
    <3>1. overlapped' = overlapped
      BY <1>4, <2>1
    <3>2. Good(r)
      BY <1>a, <2>2, <2>3, <3>1
    <3> QED
      BY <1>4, <2>1, <2>2, <3>2
  <2> QED
    BY <2>3 DEF ListsBelong
<1>6. ASSUME NEW t \in Thread, Unlink(t)
      PROVE  ListsBelong'
  <2>1. /\ GoesOn(t, Idle) /\ job[t].unlink \in Whole /\ broken' = broken
        /\ truth' = [truth EXCEPT ![job[t].unlink] = Missing]
    BY <1>6, UnlinkStep
  <2>2. truth'[Repos] = truth[Repos]
    BY <2>1, FileNames DEF FilesOK
  <2>3. ASSUME NEW r \in Repo, Bare(r)' PROVE Good(r)'
    <3>1. Good(r) /\ Prs(r) \in File
      BY <1>4, <1>a, <2>1, <2>2, <2>3, FileNames
    <3>2. CASE job[t].unlink = Prs(r)
      BY <1>4, <2>1, <3>1, <3>2 DEF FilesOK
    <3>3. CASE job[t].unlink # Prs(r)
      BY <1>4, <2>1, <3>1, <3>3 DEF FilesOK
    <3> QED
      BY <3>2, <3>3
  <2> QED
    BY <2>3 DEF ListsBelong
<1>7. ASSUME NEW t \in Thread, Close(t)
      PROVE  ListsBelong'
  <2> DEFINE f == job[t].on
  <2>1. PICK j \in Job :
           /\ GoesOn(t, j)
           /\ job[t].unlink # Missing => j.pc = "unlink" /\ j.unlink = job[t].unlink
    BY <1>7, CloseStep
  <2>2. /\ job[t].pc = "close" /\ broken' = broken
        /\ truth' = [truth EXCEPT ![f] = Promised(job[t].op, job[t].on, job[t].arg, @)]
    BY <1>7, CloseStep
  <2>3. f \in File /\ Request(job[t]) /\ t \in Busy(f)
    BY <2>2, BusyRequests
  <2>4. truth'[f] = Promised(job[t].op, f, job[t].arg, truth[f])
        /\ \A g \in File : g # f => truth'[g] = truth[g]
    BY <2>2, <2>3 DEF FilesOK
  <2>5. ASSUME NEW r \in Repo, Bare(r)' PROVE Good(r)'
    <3>1. Prs(r) \in File /\ Prs(r) # Repos /\ Prs(r) \notin overlapped \cup broken
      BY <1>4, <2>1, <2>2, <2>5, FileNames
    <3>2. CASE Bare(r)
      <4>1. Good(r)
        BY <1>a, <3>2
      <4>2. f # Prs(r)
        <5>1. SUFFICES ASSUME f = Prs(r) PROVE FALSE
          OBVIOUS
        <5>2. f \in Whole /\ f \notin Other /\ f # Repos /\ f \notin Doc
          BY <5>1, FileNames
        <5>3. job[t].op = "write"
          BY <2>3, <5>2 DEF Request
        <5> QED
          BY <4>1, <5>1, <5>3
      <4>3. truth'[Prs(r)] = truth[Prs(r)]
        BY <2>4, <3>1, <4>2
      <4> QED
        BY <1>4, <2>1, <2>2, <4>1, <4>3
    <3>3. CASE ~Bare(r)
      <4>1. r \in Known(Repos, truth[Repos]) /\ r \notin Known(Repos, truth'[Repos])
        BY <2>5, <3>1, <3>3
      <4>2. f = Repos
        BY <2>4, <4>1, FileNames
      <4>3. job[t].op \in {"add", "remove"} /\ truth[Repos] \in (SUBSET Repo) \cup {Missing}
        BY <2>3, <4>2, FileNames, Contents DEF Request, FilesOK
      <4>4. truth'[Repos] = IF job[t].op = "add" THEN Known(Repos, truth[Repos]) \cup {job[t].arg}
                            ELSE Known(Repos, truth[Repos]) \ {job[t].arg}
        BY <2>4, <4>2, <4>3 DEF Promised
      <4>5. truth'[Repos] \in Content(Repos)
        <5>1. truth[f] \in Content(f) \cup {Missing}
          BY <2>3 DEF FilesOK
        <5> QED
          BY <2>2, <2>3, <2>4, <4>2, <5>1, PromisedType
      <4>6. Known(Repos, truth'[Repos]) = truth'[Repos]
        BY <4>5, FilesAssumption, FileNames DEF Known, Blank
      <4>7. job[t].op = "remove" /\ job[t].arg = r
        BY <4>1, <4>3, <4>4, <4>6
      <4>8. job[t].unlink = Prs(r) /\ job[t].unlink # Missing
        BY <2>3, <3>1, <4>7, FilesAssumption DEF Request
      <4>9. Pending(r)'
        BY <1>4, <2>1, <4>8
      <4>10. ASSUME NEW u \in Thread, job[u].op = "write", job[u].on = Prs(r) PROVE FALSE
        <5>1. u # t
          BY <4>7, <4>10
        <5>2. job[u].pc # "idle"
          BY <1>0, <4>10 DEF JobsOK, Ready, Request
        <5> QED
          BY <2>2, <3>1, <4>8, <4>10, <5>1, <5>2, Elsewhere
      <4> QED
        BY <1>4, <2>1, <4>9, <4>10
    <3> QED
      BY <3>2, <3>3
  <2> QED
    BY <2>5 DEF ListsBelong
<1> QED
  BY <1>1, <1>2, <1>3, <1>5, <1>6, <1>7, StepCases

-----------------------------------------------------------------------------
(* The theorems *)

LEMMA StoreInvInit == Init => StoreInv
<1> SUFFICES ASSUME Init PROVE StoreInv
  OBVIOUS
<1>0. Missing \in Stored /\ Missing \in Blank /\ MaxRequests \in Nat /\ MaxFaults \in Nat
  BY StoreAssumption DEF Stored, Blank
<1>1. FilesOK
  BY <1>0 DEF Init, FilesOK
<1>2. JobsOK
  BY IdleIsNoRequest DEF Init, JobsOK
<1>3. \A f : Busy(f) = {}
  BY IdleIsNoRequest DEF Init, Busy
<1>4. \A t \in Thread : job[t].pc = "idle" /\ job[t].op = "none"
  BY DEF Init, Idle
<1>5. OneAtATime /\ FoundEmpty /\ WritesPromised
  BY <1>3, <1>4 DEF OneAtATime, FoundEmpty, WritesPromised
<1>6. \A f \in File : file[f] = truth[f] /\ truth[f] = Missing
  BY DEF Init
<1>7. HoldsTruth
  BY <1>1, <1>6, ReadsTruth DEF HoldsTruth
<1>8. ListsBelong
  BY <1>4, <1>6, FileNames DEF ListsBelong
<1> QED
  BY <1>1, <1>2, <1>5, <1>7, <1>8 DEF StoreInv

LEMMA StoreInvStep == StoreInv /\ [Next]_vars => StoreInv'
  BY FilesStep, JobsStep, OneAtATimeStep, FoundEmptyStep, WritesStep, HoldsStep, ListsStep
     DEF StoreInv

LEMMA StoreCorrect == Spec => []StoreInv
  BY StoreInvInit, StoreInvStep, PTL DEF Spec

LEMMA NotWritten ==
    ASSUME StoreInv, NEW f \in File \ (overlapped \cup broken)
    PROVE  IF BeingWritten(f) THEN file[f] = Empty ELSE file[f] = truth[f]
<1>1. CASE BeingWritten(f)
  <2>1. PICK t \in Thread : job[t].pc = "close" /\ job[t].on = f
    BY <1>1 DEF BeingWritten, Busy
  <2> QED
    BY <1>1, <2>1 DEF StoreInv, FoundEmpty
<1>2. CASE ~BeingWritten(f)
  BY <1>2 DEF StoreInv, HoldsTruth
<1> QED
  BY <1>1, <1>2

\* Requests that do not overlap, and that nothing interrupts, leave exactly what they
\* were told to.
THEOREM RequestsAreExact == Spec => []SerialIsExact
<1>1. ASSUME StoreInv PROVE SerialIsExact
  BY <1>1, NotWritten DEF SerialIsExact
<1>2. StoreInv => SerialIsExact
  BY <1>1
<1> QED
  BY <1>2, StoreCorrect, PTL

\* Whatever is interrupted and when, a reader gets what was acknowledged, what holds
\* without it, or an error.
THEOREM ReadersAreNotMisled == Spec => []NothingGarbled
<1>1. ASSUME StoreInv PROVE TypeOK
  <2>1. FilesOK /\ JobsOK
    BY <1>1 DEF StoreInv
  <2>2. ASSUME NEW t \in Thread
        PROVE  /\ job[t].pc \in {"idle", "read", "open", "close", "unlink"}
               /\ job[t].op \in Ops
               /\ job[t].on \in File
               /\ job[t].new \in Content(job[t].on) \cup {Missing}
               /\ job[t].unlink \in Whole \cup {Missing}
    <3>1. job[t] \in Job
      BY <2>1 DEF JobsOK
    <3>2. CASE job[t] = Idle
      BY <3>1, <3>2 DEF Job, Idle
    <3>3. CASE job[t] # Idle
      <4>1. Ready(job[t]) /\ Request(job[t])
        BY <2>1, <3>3 DEF JobsOK, Ready
      <4>2. job[t].unlink \in Whole \cup {Missing}
        BY <4>1, FileNames DEF Request
      <4> QED
        BY <3>1, <4>1, <4>2 DEF Job, Ready
    <3> QED
      BY <3>2, <3>3
  <2> QED
    BY <2>1, <2>2 DEF TypeOK, FilesOK
<1>2. ASSUME StoreInv PROVE ReposExactOrUnreadable
  BY <1>2, FileNames DEF StoreInv, HoldsTruth, ReposExactOrUnreadable
<1>3. ASSUME StoreInv PROVE SavedOrDefault
  <2>1. ASSUME NEW d \in Doc \ overlapped, NEW k \in Key
        PROVE  Effective(d, Reading(d))[k] \in
                 {Effective(d, Known(d, truth[d]))[k], Effective(d, NoKeys)[k]}
    <3>1. Reading(d)[k] = Known(d, truth[d])[k] \/ Reading(d)[k] = Missing
      BY <1>3, <2>1, FileNames DEF StoreInv, HoldsTruth
    <3>2. NoKeys[k] = Missing
      BY DEF NoKeys
    <3>3. ASSUME NEW b, NEW c, b[k] = c[k] PROVE Effective(d, b)[k] = Effective(d, c)[k]
      BY <3>3 DEF Effective
    <3> QED
      BY <3>1, <3>2, <3>3
  <2> QED
    BY <2>1 DEF SavedOrDefault
<1>4. StoreInv => NothingGarbled
  BY <1>1, <1>2, <1>3 DEF NothingGarbled
<1> QED
  BY <1>4, StoreCorrect, PTL

\* The PR list of a repository that is not listed is gone, if nothing overlapped or
\* interrupted its removal.
THEOREM NoListIsLeft == Spec => []NoListWithoutRepo
<1>1. ASSUME StoreInv, NEW r \in Repo,
             file[Repos] \notin Blank, r \notin file[Repos], Busy(Prs(r)) = {},
             {Repos, Prs(r)} \cap (overlapped \cup broken) = {}
      PROVE  file[Prs(r)] = Missing
  <2>1. Repos \in File \ (overlapped \cup broken) /\ Prs(r) \in File \ (overlapped \cup broken)
    BY <1>1, FileNames
  <2>2. file[Repos] = truth[Repos]
    BY <1>1, <2>1, NotWritten DEF Blank
  <2>3. r \notin Known(Repos, truth[Repos])
    BY <1>1, <2>2 DEF Known, Blank
  <2>4. ~\E t \in Thread : job[t].pc = "unlink" /\ job[t].unlink = Prs(r)
    BY <1>1 DEF Busy
  <2>5. truth[Prs(r)] = Missing
    BY <1>1, <2>3, <2>4 DEF StoreInv, ListsBelong
  <2>6. ~BeingWritten(Prs(r))
    BY <1>1 DEF BeingWritten
  <2> QED
    BY <1>1, <2>1, <2>5, <2>6, NotWritten
<1>2. StoreInv => NoListWithoutRepo
  BY <1>1 DEF NoListWithoutRepo
<1> QED
  BY <1>2, StoreCorrect, PTL
=============================================================================
