------------------------------- MODULE CliStream -------------------------------
(***************************************************************************)
(* One AI CLI run: BaseCLIAIAdapter.stream_cli (app/adapters/ai/_base.py), *)
(* its three helper tasks, the child process at the other end of three     *)
(* pipes, and the caller, which can be cancelled at an await or close the  *)
(* generator at a yield.  Lines are counted, not modelled; pipes are       *)
(* bounded, so that writing to a full one blocks.                          *)
(***************************************************************************)
EXTENDS Naturals, Sequences, FiniteSets

CONSTANTS
    Strictness,    \* values of raise_on_nonzero_exit among the adapters
    PromptSize,    \* units of stdin_payload, 0 when the prompt is in argv
    PipeSize,      \* units a pipe holds
    MaxOut,        \* bound: lines the child writes to stdout
    MaxErr,        \* bound: lines the child writes to stderr
    Faults         \* what the child may do that the code does not expect

FaultKind == {"overlong line", "undecodable stdout", "stderr held open", "lingers"}

ASSUME CliAssumption ==
    /\ Strictness \subseteq BOOLEAN
    /\ PromptSize \in Nat /\ PipeSize \in Nat \ {0}
    /\ MaxOut \in Nat /\ MaxErr \in Nat
    /\ Faults \subseteq FaultKind

Stream == {"out", "err"}

VARIABLES
    strict,     \* raise_on_nonzero_exit
    phase,      \* where stream_cli is
    proc,       \* "none", "running" or "exited"
    rc,         \* proc.returncode: "none", "zero" or "nonzero"
    pipe,       \* units in each pipe
    open,       \* the output streams somebody can still write to
    wrote,      \* lines the child has written to each stream
    helper,     \* the stdin writer ("in") and the two feeders
    toSend,     \* units of the prompt not yet in the pipe
    mux,        \* the fan-in queue
    doneWith,   \* streams whose DONE item has been taken
    lines,      \* output_lines: stdout lines given to the caller
    noted,      \* warning lines the stderr feeder has accumulated
    warned,     \* stderr_warning_lines
    timedOut    \* timed_out

childVars == <<proc, rc, pipe, open, wrote>>
mainVars == <<strict, phase, doneWith, lines, warned, timedOut>>
helperVars == <<helper, toSend, mux, noted>>
vars == <<childVars, mainVars, helperVars>>

Init ==
    /\ strict \in Strictness
    /\ phase = "spawn"
    /\ proc = "none" /\ rc = "none"
    /\ pipe = [s \in Stream \cup {"in"} |-> 0]
    /\ open = {}
    /\ wrote = [s \in Stream |-> 0]
    /\ helper = [h \in Stream \cup {"in"} |-> "absent"]
    /\ toSend = PromptSize
    /\ mux = <<>>
    /\ doneWith = {}
    /\ lines = 0 /\ noted = 0 /\ warned = 0
    /\ timedOut = FALSE

-----------------------------------------------------------------------------
(* The child process *)

ChildReads ==
    /\ proc = "running" /\ pipe["in"] > 0
    /\ pipe' = [pipe EXCEPT !["in"] = @ - 1]
    /\ UNCHANGED <<proc, rc, open, wrote, mainVars, helperVars>>

ChildWrites(s) ==
    /\ proc = "running" /\ s \in open
    /\ pipe[s] < PipeSize
    /\ wrote[s] < IF s = "out" THEN MaxOut ELSE MaxErr
    /\ pipe' = [pipe EXCEPT ![s] = @ + 1]
    /\ wrote' = [wrote EXCEPT ![s] = @ + 1]
    /\ UNCHANGED <<proc, rc, open, mainVars, helperVars>>

\* The streams that stay open when the child is gone, in a process it started.
LeftOpen == IF "stderr held open" \in Faults THEN {{}, open \cap {"err"}} ELSE {{}}

ChildExits ==
    /\ proc = "running"
    /\ proc' = "exited"
    /\ rc' \in {"zero", "nonzero"}
    /\ open' \in LeftOpen
    /\ UNCHANGED <<pipe, wrote, mainVars, helperVars>>

\* It closes an output and goes on running.
ChildLingers ==
    /\ "lingers" \in Faults
    /\ proc = "running"
    /\ \E s \in open : open' = open \ {s}
    /\ UNCHANGED <<proc, rc, pipe, wrote, mainVars, helperVars>>

Child == ChildReads \/ (\E s \in Stream : ChildWrites(s)) \/ ChildExits \/ ChildLingers

\* proc.kill(), which does nothing to a process that has exited - as long as asyncio
\* has not seen it gone and its pipes closed.
Kill ==
    IF proc = "running"
    THEN proc' = "exited" /\ rc' = "nonzero" /\ open' \in LeftOpen
    ELSE UNCHANGED <<proc, rc, open>>

-----------------------------------------------------------------------------
(* The helper tasks *)

Alive(h) == helper[h] = "running"
Cancelled == [h \in DOMAIN helper |-> IF Alive(h) THEN "cancelled" ELSE helper[h]]

\* _drain_stdin; a child that has exited breaks the pipe, which is tolerated.
WriterSends ==
    /\ Alive("in") /\ toSend > 0 /\ pipe["in"] < PipeSize /\ proc = "running"
    /\ toSend' = toSend - 1
    /\ pipe' = [pipe EXCEPT !["in"] = @ + 1]
    /\ UNCHANGED <<proc, rc, open, wrote, mainVars, helper, mux, noted>>

WriterEnds ==
    /\ Alive("in") /\ (toSend = 0 \/ proc = "exited")
    /\ helper' = [helper EXCEPT !["in"] = "ended"]
    /\ UNCHANGED <<childVars, mainVars, toSend, mux, noted>>

\* _feed_stdout_to_queue
OutReads ==
    /\ Alive("out") /\ pipe["out"] > 0
    /\ mux' = Append(mux, "stdout")
    /\ pipe' = [pipe EXCEPT !["out"] = @ - 1]
    /\ UNCHANGED <<proc, rc, open, wrote, mainVars, helper, toSend, noted>>

\* (a bug to catch: the timer ends the feeder and tells nobody)
OutTimesOutSilently ==
    /\ Alive("out") /\ pipe["out"] = 0 /\ "out" \in open
    /\ helper' = [helper EXCEPT !["out"] = "ended"]
    /\ UNCHANGED <<childVars, mainVars, toSend, mux, noted>>

\* No line for `timeout` seconds.
OutTimesOut ==
    /\ Alive("out") /\ pipe["out"] = 0 /\ "out" \in open
    /\ helper' = [helper EXCEPT !["out"] = "ended"]
    /\ mux' = Append(mux, "timeout")
    /\ UNCHANGED <<childVars, mainVars, toSend, noted>>

OutEOF ==
    /\ Alive("out") /\ pipe["out"] = 0 /\ "out" \notin open
    /\ helper' = [helper EXCEPT !["out"] = "ended"]
    /\ mux' = Append(mux, "stdout_done")
    /\ UNCHANGED <<childVars, mainVars, toSend, noted>>

\* _feed_stderr_to_queue: a progress line, a warning kept for the end, or noise.
ErrReads ==
    /\ Alive("err") /\ pipe["err"] > 0
    /\ pipe' = [pipe EXCEPT !["err"] = @ - 1]
    /\ \/ mux' = Append(mux, "progress") /\ UNCHANGED noted
       \/ noted' = noted + 1 /\ UNCHANGED mux
       \/ UNCHANGED <<mux, noted>>
    /\ UNCHANGED <<proc, rc, open, wrote, mainVars, helper, toSend>>

ErrEOF ==
    /\ Alive("err") /\ pipe["err"] = 0 /\ "err" \notin open
    /\ helper' = [helper EXCEPT !["err"] = "ended"]
    /\ mux' = Append(mux, "stderr_done")
    /\ UNCHANGED <<childVars, mainVars, toSend, noted>>

\* readline raises on a line longer than the StreamReader's limit, decode on one
\* that is no UTF-8: the task is over and nothing says so to the queue.
FeederFails(s) ==
    /\ "overlong line" \in Faults
    /\ Alive(s) /\ pipe[s] > 0
    /\ helper' = [helper EXCEPT ![s] = "failed"]
    /\ UNCHANGED <<childVars, mainVars, toSend, mux, noted>>

Writer == WriterSends \/ WriterEnds
OutFeeder == OutReads \/ OutTimesOut \/ OutEOF \/ FeederFails("out")
ErrFeeder == ErrReads \/ ErrEOF \/ FeederFails("err")

-----------------------------------------------------------------------------
(* stream_cli *)

SpawnFails ==
    /\ phase = "spawn"
    /\ phase' = "raised"
    /\ UNCHANGED <<childVars, strict, doneWith, lines, warned, timedOut, helperVars>>

Spawn ==
    /\ phase = "spawn"
    /\ phase' = "stream"
    /\ proc' = "running" /\ open' = Stream
    /\ helper' = [h \in Stream \cup {"in"} |->
                    IF h = "in" /\ PromptSize = 0 THEN "absent" ELSE "running"]
    /\ UNCHANGED <<strict, rc, pipe, wrote, doneWith, lines, warned, timedOut, toSend, mux, noted>>

\* (a bug to catch: the loop ends when one of the streams does)
TakeUntilEither ==
    /\ phase = "stream" /\ mux # <<>> /\ Head(mux) \in {"stdout_done", "stderr_done"}
    /\ mux' = Tail(mux)
    /\ doneWith' = Stream
    /\ phase' = "drain"
    /\ warned' = IF Head(mux) = "stderr_done" THEN noted ELSE warned
    /\ UNCHANGED <<strict, childVars, lines, timedOut, helper, toSend, noted>>

\* The loop ends when both streams have.
TakeDone ==
    /\ phase = "stream" /\ mux # <<>> /\ Head(mux) \in {"stdout_done", "stderr_done"}
    /\ mux' = Tail(mux)
    /\ doneWith' = doneWith \cup {IF Head(mux) = "stdout_done" THEN "out" ELSE "err"}
    /\ phase' = IF doneWith' = Stream THEN "drain" ELSE "stream"
    /\ warned' = IF Head(mux) = "stderr_done" THEN noted ELSE warned
    /\ UNCHANGED <<strict, childVars, lines, timedOut, helper, toSend, noted>>

\* A line is yielded; "given" is the generator suspended at a yield.
TakeLine ==
    /\ phase = "stream" /\ mux # <<>> /\ Head(mux) \in {"stdout", "progress"}
    /\ mux' = Tail(mux)
    /\ phase' = "given"
    /\ lines' = IF Head(mux) = "stdout" THEN lines + 1 ELSE lines
    /\ UNCHANGED <<strict, childVars, doneWith, warned, timedOut, helper, toSend, noted>>

\* The process is killed, "[TIMEOUT]" yielded and the loop left.
TakeTimeout ==
    /\ phase = "stream" /\ mux # <<>> /\ Head(mux) = "timeout"
    /\ mux' = Tail(mux)
    /\ Kill
    /\ timedOut' = TRUE
    /\ doneWith' = Stream
    /\ phase' = "given"
    /\ UNCHANGED <<strict, pipe, wrote, lines, warned, helper, toSend, noted>>

Resume ==
    /\ phase = "given"
    /\ phase' = IF doneWith = Stream THEN "drain" ELSE "stream"
    /\ UNCHANGED <<childVars, strict, doneWith, lines, warned, timedOut, helperVars>>

\* What is still queued is dropped but for the warnings.
Drain ==
    /\ phase = "drain"
    /\ mux' = <<>>
    /\ warned' = IF \E i \in DOMAIN mux : mux[i] = "stderr_done" THEN noted ELSE warned
    /\ phase' = IF Alive("err") THEN "last warnings" ELSE "reap"
    /\ UNCHANGED <<strict, childVars, doneWith, lines, timedOut, helper, toSend, noted>>

\* wait_for(stderr_feeder): it ends, fails (which is raised) or takes too long.
LastWarnings ==
    /\ phase = "last warnings" /\ helper["err"] = "ended"
    /\ mux' = <<>>
    /\ warned' = noted
    /\ phase' = "reap"
    /\ UNCHANGED <<strict, childVars, doneWith, lines, timedOut, helper, toSend, noted>>

LastWarningsTimeOut ==
    /\ phase = "last warnings" /\ Alive("err")
    /\ helper' = [helper EXCEPT !["err"] = "cancelled"]
    /\ phase' = "reap"
    /\ UNCHANGED <<strict, childVars, doneWith, lines, warned, timedOut, toSend, mux, noted>>

\* wait_for(proc.wait()) and the `finally` that reaps the helpers.
Reap ==
    /\ phase = "reap"
    /\ phase' = "report"
    /\ helper' = Cancelled
    /\ UNCHANGED <<strict, childVars, doneWith, lines, warned, timedOut, toSend, mux, noted>>

Failure == rc # "zero"

\* The warnings are yielded, then the run either raises or ends.
Report ==
    /\ phase = "report"
    /\ phase' = IF \/ timedOut /\ strict
                   \/ Failure /\ (strict \/ lines = 0) /\ ~timedOut
                THEN "raised" ELSE "done"
    /\ UNCHANGED <<childVars, strict, doneWith, lines, warned, timedOut, helperVars>>

\* _cleanup: kill, reap, cancel the helpers.
Cleanup ==
    /\ Kill
    /\ helper' = Cancelled
    /\ UNCHANGED <<strict, pipe, wrote, doneWith, lines, warned, timedOut, toSend, mux, noted>>

\* (a bug to catch: a cancelled run does not clean up)
CancelForgetsChild ==
    /\ phase \in {"spawn", "stream", "last warnings", "reap"}
    /\ phase' = "cancelled"
    /\ helper' = Cancelled
    /\ UNCHANGED <<strict, childVars, doneWith, lines, warned, timedOut, toSend, mux, noted>>

\* CancelledError at an await.
Cancel ==
    /\ phase \in {"spawn", "stream", "last warnings", "reap"}
    /\ phase' = "cancelled"
    /\ Cleanup

\* An exception: a line that is no UTF-8, a child that is gone when it is to be killed
\* (ProcessLookupError), a feeder that has failed.
Raise ==
    /\ \/ phase = "stream" /\ mux # <<>> /\ Head(mux) = "stdout"
          /\ "undecodable stdout" \in Faults
       \/ phase = "stream" /\ mux # <<>> /\ Head(mux) = "timeout"
          /\ proc = "exited" /\ open = {}
       \/ phase = "last warnings" /\ helper["err"] = "failed"
    /\ phase' = "raised"
    /\ Cleanup

\* GeneratorExit at a yield: neither `except` clause catches it, only the
\* `finally` runs.
Close ==
    /\ \/ phase = "given"
       \/ phase = "report" /\ (warned > 0 \/ Failure)
    /\ phase' = "closed"
    /\ helper' = Cancelled
    /\ UNCHANGED <<strict, childVars, doneWith, lines, warned, timedOut, toSend, mux, noted>>

Main ==
    \/ SpawnFails \/ Spawn
    \/ TakeDone \/ TakeLine \/ TakeTimeout \/ Resume
    \/ Drain \/ LastWarnings \/ LastWarningsTimeOut \/ Reap \/ Report \/ Raise

Next == Child \/ Writer \/ OutFeeder \/ ErrFeeder \/ Main \/ Cancel \/ Close

Spec == Init /\ [][Next]_vars

\* The event loop serves every task, timers included; the caller that does not
\* leave reads on.  The child may stop at any point.
Fairness ==
    /\ WF_vars(Main)
    /\ WF_vars(Writer) /\ WF_vars(OutFeeder) /\ WF_vars(ErrFeeder)

FairSpec == Spec /\ Fairness

-----------------------------------------------------------------------------
(* Properties *)

Over == {"done", "raised", "cancelled", "closed"}
Tag == {"stdout", "progress", "stdout_done", "stderr_done", "timeout"}

\* Every variable keeps its type; a pipe never holds more than it can.
TypeOK ==
    /\ strict \in BOOLEAN
    /\ phase \in Over \cup {"spawn", "stream", "given", "drain", "last warnings",
                            "reap", "report"}
    /\ proc \in {"none", "running", "exited"} /\ rc \in {"none", "zero", "nonzero"}
    /\ pipe \in [Stream \cup {"in"} -> 0 .. PipeSize]
    /\ open \subseteq Stream
    /\ wrote \in [Stream -> Nat]
    /\ helper \in [Stream \cup {"in"} ->
                     {"absent", "running", "ended", "failed", "cancelled"}]
    /\ toSend \in 0 .. PromptSize
    /\ mux \in Seq(Tag)
    /\ doneWith \subseteq Stream
    /\ lines \in Nat /\ noted \in Nat /\ warned \in Nat
    /\ timedOut \in BOOLEAN

\* A run that ends by itself, without a timeout, has given the caller every line
\* the child wrote to stdout and every warning it wrote to stderr.
NothingLost ==
    phase \in {"report", "done"} /\ ~timedOut =>
        lines = wrote["out"] /\ warned = noted

\* The warnings a timed-out child left are shown if its stderr came to an end.
LateWarningsShown ==
    phase \in {"reap", "report", "done"} /\ helper["err"] = "ended" => warned = noted

\* What the child had to say reaches the caller, in time or late, and every variable
\* keeps its type.
OutputIsComplete == TypeOK /\ NothingLost /\ LateWarningsShown

\* No helper task survives the run, however it ends.
NoHelperOutlives == phase \in Over => \A h \in DOMAIN helper : ~Alive(h)

\* A run leaves its process behind in two ways only: its generator is closed at a
\* yield (GeneratorExit passes both except clauses), or the child closes its outputs and
\* stays (the wait for it is bounded and nothing is done when it times out).  A
\* cancelled run never does.
OrphanIsExplained ==
    phase \in Over /\ proc = "running" =>
        \/ phase = "closed"
        \/ phase # "cancelled" /\ open = {}

\* Whatever ends a run, it leaves no helper task and, but for the two ways named, no
\* process behind.
NothingOutlives == NoHelperOutlives /\ OrphanIsExplained

\* Whatever the child does, the inactivity timer or a bounded wait ends the run, but for
\* two cases: a feeder that fails, and a stderr that stays open for ever when stdout has
\* ended, held by the child or by a process it started - the timer watches stdout only.
OverUnlessStarved ==
    \/ <>(phase \in Over \/ \E s \in Stream : helper[s] = "failed")
    \/ <>[]("out" \notin open /\ "err" \in open)
=============================================================================
