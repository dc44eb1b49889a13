------------------------------- MODULE Store -------------------------------
(***************************************************************************)
(* The JSON files of the backend, used by request handlers that run in     *)
(* worker threads without a lock: the list of repositories, the PR lists,  *)
(* reviews and visits (json_file_cache.py), the review settings and the    *)
(* prompts (settings_store.py).  A file is written in place: opening it    *)
(* empties it, closing it writes all of it.  The process can die and the   *)
(* disk can fail in between.  Beside each file stands its truth: what it   *)
(* would hold if every acknowledged request were one step.                 *)
(***************************************************************************)
EXTENDS Naturals, FiniteSets

CONSTANTS
    Thread,      \* worker threads
    Repo,
    Key,         \* settings keys, prompt names
    Valid,       \* values that pass validation: in bounds, the placeholders right
    Invalid,     \* values that do not
    Env, Default, \* the value of each key in the environment, or Missing, and built in
    Other,       \* files written as a whole: reviews, visits, the GitHub login
    Missing, Empty, Garbage,   \* a file that is not there, emptied, or not JSON
    MaxRequests, \* bound: requests that change a file
    MaxFaults    \* bound: crashes and failing writes

ASSUME StoreAssumption ==
    /\ Valid \cap Invalid = {}
    /\ Missing \notin Valid
    /\ Env \in [Key -> Valid \cup {Missing}]
    /\ Default \in [Key -> Valid]
    /\ MaxRequests \in Nat
    /\ MaxFaults \in Nat

VARIABLES
    file,        \* what is on disk
    truth,       \* what should be
    job,         \* the request each thread serves
    overlapped,  \* files two of whose requests were open at once
    broken,      \* files a crash or a failing write may have left emptied
    requests, faults

vars == <<file, truth, job, overlapped, broken, requests, faults>>

Repos == <<"repos">>
Settings == <<"settings">>
Prompts == <<"prompts">>
Doc == {Settings, Prompts}
Prs(r) == <<"prs", r>>
Whole == {Prs(r) : r \in Repo} \cup Other
File == {Repos} \cup Doc \cup Whole

Blank == {Missing, Empty, Garbage}
Broken == {Empty, Garbage}

\* A document maps the keys it has to values; a key it has not is Missing.
DocContent == [Key -> Valid \cup {Missing}]
NoKeys == [k \in Key |-> Missing]

Content(f) ==
    CASE f = Repos -> SUBSET Repo
      [] f \in Doc -> DocContent
      [] OTHER -> {"data"}

\* A file that is not there, emptied or not JSON is told from every content, and no
\* file has the name of another.  The code makes the name of a repository's files by
\* putting "_" for "/" (_slug): two repositories of one name, such as a/b_c and a_b/c,
\* are left out, and with them every owner that has "_" in its name.
ASSUME FilesAssumption ==
    /\ Missing \notin Broken
    /\ \A f \in File : \A c \in Content(f) : c \notin Blank
    /\ Missing \notin File
    /\ Other \cap ({Repos} \cup Doc \cup {Prs(r) : r \in Repo}) = {}

(***************************************************************************)
(* A request: op on `on`, with its argument, the content it will write and *)
(* the file it removes when it has.                                        *)
(***************************************************************************)
Idle == [pc |-> "idle", op |-> "none", on |-> Repos, arg |-> Missing,
         new |-> Missing, unlink |-> Missing]
Ops == {"none", "add", "remove", "save", "reset", "write", "clear"}

-----------------------------------------------------------------------------
(* What the user is promised of each request, as one step. *)

IsBad(partial) == \E k \in Key : partial[k] \in Invalid

Known(f, content) ==
    IF content = Missing THEN (IF f = Repos THEN {} ELSE NoKeys) ELSE content

Promised(op, f, arg, content) ==
    LET known == Known(f, content) IN
    CASE op = "add" -> known \cup {arg}
      [] op = "remove" -> known \ {arg}
      [] op = "save" -> IF IsBad(arg) THEN content
                        ELSE [k \in Key |-> IF arg[k] # Missing THEN arg[k] ELSE known[k]]
      [] op = "reset" -> [k \in Key |-> IF k \in arg THEN Missing ELSE known[k]]
      [] op = "write" -> "data"
      [] op = "clear" -> Missing

-----------------------------------------------------------------------------
(* What the handlers make of what they read. *)

\* Every key is checked before anything is stored.
ValidSettings(partial) == \A k \in Key : partial[k] \notin Invalid

\* The placeholders are the ones the prompt is rendered with.
ValidPrompt(partial) == \A k \in Key : partial[k] \notin Invalid

\* Mutant: what is stored wins.
MergedKeeping(stored, partial) ==
    [k \in Key |-> IF stored[k] # Missing THEN stored[k] ELSE partial[k]]

\* The keys given replace those stored; the others stay.
Merged(stored, partial) ==
    [k \in Key |-> IF partial[k] = Missing THEN stored[k] ELSE partial[k]]

Popped(stored, keys) == [k \in Key |-> IF k \in keys THEN Missing ELSE stored[k]]

NewContent(j, old) ==
    CASE j.op = "add" -> old \cup {j.arg}
      [] j.op = "remove" -> old \ {j.arg}
      [] j.op = "save" -> Merged(old, j.arg)
      [] j.op = "reset" -> Popped(old, j.arg)

\* A stored value, else one of the environment - for settings -, else the default.
Effective(d, content) ==
    [k \in Key |-> CASE content[k] # Missing -> content[k]
                     [] content[k] = Missing /\ d = Settings /\ Env[k] # Missing -> Env[k]
                     [] OTHER -> Default[k]]

-----------------------------------------------------------------------------

Init ==
    /\ file = [f \in File |-> Missing]
    /\ truth = [f \in File |-> Missing]
    /\ job = [t \in Thread |-> Idle]
    /\ overlapped = {}
    /\ broken = {}
    /\ requests = 0
    /\ faults = 0

Busy(f) == {t \in Thread : job[t].pc # "idle" /\ f \in {job[t].on, job[t].unlink}}

\* A request for files `fs` comes to an idle thread.
Begin(t, pc, op, on, arg, new, unlink) ==
    /\ job[t].pc = "idle"
    /\ requests < MaxRequests
    /\ requests' = requests + 1
    /\ job' = [job EXCEPT ![t] = [pc |-> pc, op |-> op, on |-> on, arg |-> arg,
                                  new |-> new, unlink |-> unlink]]
    /\ overlapped' = overlapped \cup {f \in {on, unlink} \ {Missing} : Busy(f) # {}}
    /\ UNCHANGED <<file, truth, broken, faults>>

AddRepo(t, r) == Begin(t, "read", "add", Repos, r, Missing, Missing)
RemoveRepo(t, r) == Begin(t, "read", "remove", Repos, r, Missing, Prs(r))

\* The page refreshes the list of a repository it shows.
RefreshPrs(t, r) ==
    /\ r \in Known(Repos, truth[Repos])
    /\ Begin(t, "open", "write", Prs(r), Missing, "data", Missing)

WriteOther(t, f) == Begin(t, "open", "write", f, Missing, "data", Missing)
ClearOther(t, f) == Begin(t, "unlink", "clear", f, Missing, Missing, f)

Partial == [Key -> Valid \cup Invalid \cup {Missing}] \ {NoKeys}

SaveReviewSettings(t, partial) == Begin(t, "read", "save", Settings, partial, Missing, Missing)
ResetReviewSettings(t) == Begin(t, "open", "reset", Settings, Key, NoKeys, Missing)

SavePrompt(t, k, v) ==
    Begin(t, "read", "save", Prompts, [NoKeys EXCEPT ![k] = v], Missing, Missing)
ResetPrompt(t, k) == Begin(t, "read", "reset", Prompts, {k}, Missing, Missing)

-----------------------------------------------------------------------------
(* The handlers, step by step. *)

Done(t) == job' = [job EXCEPT ![t] = Idle]

\* The request is acknowledged, or rejected without effect.
Commit(t) == truth' = [truth EXCEPT ![job[t].on] = Promised(job[t].op, job[t].on, job[t].arg, @)]

Unreadable(f) == file[f] \in Broken /\ f \notin Doc
\* Mutant: what is stored is not read before a document is saved.
ReadingNothing(f) == Known(f, IF file[f] \in Blank \/ f \in Doc THEN Missing ELSE file[f])

Reading(f) == Known(f, IF file[f] \in Blank THEN Missing ELSE file[f])

\* A repository already listed and what does not pass validation are not written.
Unwritten(j, old) ==
    \/ j.op = "add" /\ j.arg \in old
    \/ j.op = "save" /\ j.on = Settings /\ ~ValidSettings(j.arg)
    \/ j.op = "save" /\ j.on = Prompts /\ ~ValidPrompt(j.arg)

Read(t) ==
    LET j == job[t]
        old == Reading(j.on)
    IN /\ j.pc = "read"
       /\ IF Unreadable(j.on) \/ Unwritten(j, old)
          THEN Done(t)
          ELSE job' = [job EXCEPT ![t] = [@ EXCEPT !.pc = "open", !.new = NewContent(j, old)]]
       /\ UNCHANGED <<file, truth, overlapped, broken, requests, faults>>

Open(t) ==
    /\ job[t].pc = "open"
    /\ file' = [file EXCEPT ![job[t].on] = Empty]
    /\ job' = [job EXCEPT ![t] = [@ EXCEPT !.pc = "close"]]
    /\ UNCHANGED <<truth, overlapped, broken, requests, faults>>

\* Mutant: the PR list of a removed repository stays.
CloseKeepsPrs(t) ==
    LET f == job[t].on IN
    /\ job[t].pc = "close"
    /\ \E left \in {job[t].new} \cup (IF file[f] \in {Empty, job[t].new} THEN {} ELSE {Garbage}) :
          file' = [file EXCEPT ![f] = left]
    /\ Commit(t)
    /\ Done(t)
    /\ UNCHANGED <<overlapped, broken, requests, faults>>

(***************************************************************************)
(* All is written at the start of the file when it is closed.  What        *)
(* another thread wrote since it was opened remains after it where that is *)
(* longer.                                                                 *)
(***************************************************************************)
Close(t) ==
    LET f == job[t].on IN
    /\ job[t].pc = "close"
    /\ \E left \in {job[t].new} \cup (IF file[f] \in {Empty, job[t].new} THEN {} ELSE {Garbage}) :
          file' = [file EXCEPT ![f] = left]
    /\ Commit(t)
    /\ IF job[t].unlink = Missing THEN Done(t)
       ELSE job' = [job EXCEPT ![t] = [@ EXCEPT !.pc = "unlink"]]
    /\ UNCHANGED <<overlapped, broken, requests, faults>>

Unlink(t) ==
    LET f == job[t].unlink IN
    /\ job[t].pc = "unlink"
    /\ file' = [file EXCEPT ![f] = Missing]
    /\ truth' = [truth EXCEPT ![f] = Missing]
    /\ Done(t)
    /\ UNCHANGED <<overlapped, broken, requests, faults>>

(***************************************************************************)
(* The disk is full: opening or writing fails.  settings_store logs it and *)
(* answers with what it reads then, the cache raises.                      *)
(***************************************************************************)
WriteFails(t) ==
    /\ job[t].pc \in {"open", "close"}
    /\ faults < MaxFaults
    /\ faults' = faults + 1
    /\ broken' = broken \cup {job[t].on}
    /\ Done(t)
    /\ UNCHANGED <<file, truth, overlapped, requests>>

Crash ==
    /\ faults < MaxFaults
    /\ faults' = faults + 1
    /\ broken' = broken \cup {f \in File : \E t \in Busy(f) : TRUE}
    /\ job' = [t \in Thread |-> Idle]
    /\ UNCHANGED <<file, truth, overlapped, requests>>

Step(t) == Read(t) \/ Open(t) \/ Close(t) \/ Unlink(t) \/ WriteFails(t)

Arrive(t) ==
    \/ \E r \in Repo : AddRepo(t, r) \/ RemoveRepo(t, r) \/ RefreshPrs(t, r)
    \/ \E f \in Other : WriteOther(t, f) \/ ClearOther(t, f)
    \/ \E p \in Partial : SaveReviewSettings(t, p)
    \/ ResetReviewSettings(t)
    \/ \E k \in Key : ResetPrompt(t, k) \/ \E v \in Valid \cup Invalid : SavePrompt(t, k, v)

Next == Crash \/ \E t \in Thread : Arrive(t) \/ Step(t)

Spec == Init /\ [][Next]_vars

-----------------------------------------------------------------------------

TypeOK ==
    /\ \A f \in File : file[f] \in Content(f) \cup Blank /\ truth[f] \in Content(f) \cup {Missing}
    /\ \A t \in Thread :
          /\ job[t].pc \in {"idle", "read", "open", "close", "unlink"}
          /\ job[t].op \in Ops
          /\ job[t].on \in File
          /\ job[t].new \in Content(job[t].on) \cup {Missing}
          /\ job[t].unlink \in Whole \cup {Missing}
    /\ overlapped \subseteq File
    /\ broken \subseteq File
    /\ requests \in 0..MaxRequests
    /\ faults \in 0..MaxFaults

BeingWritten(f) == \E t \in Busy(f) : job[t].pc = "close" /\ job[t].on = f

(***************************************************************************)
(* Requests that do not overlap on a file, and that no crash or full disk  *)
(* interrupts, leave exactly what they were told to: an update keeps what  *)
(* it does not name and a rejected one changes nothing.                    *)
(***************************************************************************)
SerialIsExact ==
    \A f \in File \ (overlapped \cup broken) :
        IF BeingWritten(f) THEN file[f] = Empty ELSE file[f] = truth[f]

(***************************************************************************)
(* Neither a crash nor a full disk makes the list of repositories silently *)
(* shorter: without overlapping requests it is what was acknowledged, or   *)
(* emptied and reported as unreadable by every request from then on.       *)
(***************************************************************************)
ReposExactOrUnreadable ==
    Repos \notin overlapped => file[Repos] \in {truth[Repos], Empty}

(***************************************************************************)
(* At any moment, also in the middle of a save, after a crash or with a    *)
(* full disk, a reader gets for each setting and prompt what was last      *)
(* acknowledged or what holds without any stored value, never a value that *)
(* was replaced before.                                                    *)
(***************************************************************************)
SavedOrDefault ==
    \A d \in Doc \ overlapped : \A k \in Key :
        Effective(d, Reading(d))[k] \in
            {Effective(d, Known(d, truth[d]))[k], Effective(d, NoKeys)[k]}

(***************************************************************************)
(* Whatever is interrupted and when, a reader gets what was acknowledged,  *)
(* what holds without it, or an error; and every variable keeps its type.  *)
(***************************************************************************)
NothingGarbled == TypeOK /\ ReposExactOrUnreadable /\ SavedOrDefault

(***************************************************************************)
(* The PR list of a repository that is not on the list is gone, unless it  *)
(* was refreshed while the repository was being removed or the removal was *)
(* interrupted.                                                            *)
(***************************************************************************)
NoListWithoutRepo ==
    \A r \in Repo :
        /\ file[Repos] \notin Blank
        /\ r \notin file[Repos]
        /\ Busy(Prs(r)) = {}
        /\ {Repos, Prs(r)} \cap (overlapped \cup broken) = {}
        => file[Prs(r)] = Missing

=============================================================================
