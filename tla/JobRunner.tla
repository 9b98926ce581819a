------------------------------ MODULE JobRunner ------------------------------
(***************************************************************************)
(* One background job (docker/migration-runner/server.py): a script, the   *)
(* pipes of its two streams, the coroutines that drain them, the           *)
(* supervisor, and the agent that calls tail_python_job with the offsets   *)
(* it was given last.  The coroutines share one event loop, so what lies   *)
(* between two awaits is one action.                                       *)
(*                                                                         *)
(* Lines are numbered; Marker is the line the supervisor adds when the job *)
(* has timed out.  Time is abstract: a job may time out at any moment, and *)
(* a tail of a job that is not done may return at any moment.  The code    *)
(* has no bound on its buffers; jobs never leave _jobs.                    *)
(***************************************************************************)
EXTENDS Integers, SequencesExt

CONSTANTS
  MaxLines,   \* bound: lines a script writes to a stream
  PipeLines,  \* lines a pipe holds before its writer blocks
  Long,       \* lines of each stream that exceed the reader's limit
  None        \* exit_code while it is not set

Streams == {"stdout", "stderr"}
Marker  == 0
Codes   == {0, 1}
TimedOut == -1

ASSUME JobAssumptions ==
  /\ MaxLines \in Nat
  /\ PipeLines \in Nat \ {0}
  /\ Long \in [Streams -> SUBSET Nat]
  /\ None \notin Codes \cup {TimedOut}

VARIABLES
  proc,     \* the script: its state, its exit code, lines written
  child,    \* a process it has started holds the pipes open
  drain,    \* the two _drain coroutines, and how many lines each has read
  sup,      \* where _supervise is
  job,      \* the lists, exit_code and done of _Job
  call,     \* the tail in flight: with its offsets, or with its answer
  agent     \* what the agent has received

processVars == <<proc, child>>
jobVars     == <<processVars, drain, sup, job, call, agent>>

Perhaps == Codes \cup {TimedOut, None}
Calls   == [pc : {"asked"}, offset : [Streams -> Nat]]
Answers == [pc : {"answered"}, status : {"running", "done"}, exit : Perhaps,
            delta : [Streams -> Seq(Nat)], offset : [Streams -> Nat]]
NoCall  == [pc |-> "none"]

JobTypeOK ==
  /\ proc  \in [pc : {"running", "dying", "ended"}, code : Codes \cup {TimedOut},
                written : [Streams -> Nat]]
  /\ child \in BOOLEAN
  /\ drain \in [Streams -> [pc : {"reading", "ended", "raised", "cancelled"},
                            read : Nat]]
  /\ sup   \in {"gather", "reap", "killWait", "returned"}
  /\ job   \in [lines : [Streams -> Seq(Nat)], exit : Perhaps, done : BOOLEAN]
  /\ call  \in Calls \cup Answers \cup {NoCall}
  /\ agent \in [status : {"running", "done"}, exit : Perhaps,
                lines : [Streams -> Seq(Nat)], offset : [Streams -> Nat]]

JobInit ==
  /\ proc  = [pc |-> "running", code |-> TimedOut, written |-> [x \in Streams |-> 0]]
  /\ child = FALSE
  /\ drain = [x \in Streams |-> [pc |-> "reading", read |-> 0]]
  /\ sup   = "gather"
  /\ job   = [lines |-> [x \in Streams |-> <<>>], exit |-> None, done |-> FALSE]
  /\ call  = NoCall
  /\ agent = [status |-> "running", exit |-> None,
              lines |-> [x \in Streams |-> <<>>], offset |-> [x \in Streams |-> 0]]

-----------------------------------------------------------------------------
(* The script. *)

\* print() blocks on a full pipe.
WriteLine(x) ==
  /\ proc.pc = "running"
  /\ proc.written[x] < MaxLines
  /\ proc.written[x] - drain[x].read < PipeLines
  /\ proc' = [proc EXCEPT !.written[x] = @ + 1]
  /\ UNCHANGED <<child, drain, sup, job, call, agent>>

Exit(code) ==
  /\ proc.pc = "running"
  /\ proc' = [proc EXCEPT !.pc = "ended", !.code = code]
  /\ UNCHANGED <<child, drain, sup, job, call, agent>>

StartChild ==
  /\ proc.pc = "running"
  /\ child' = TRUE
  /\ UNCHANGED <<proc, drain, sup, job, call, agent>>

EndChild ==
  /\ child
  /\ child' = FALSE
  /\ UNCHANGED <<proc, drain, sup, job, call, agent>>

\* SIGKILL takes effect.
Die ==
  /\ proc.pc = "dying"
  /\ proc' = [proc EXCEPT !.pc = "ended"]
  /\ UNCHANGED <<child, drain, sup, job, call, agent>>

-----------------------------------------------------------------------------
(* _drain *)

Reading(x) == drain[x].pc = "reading"
NextLine(x) == drain[x].read + 1
Waiting(x) == NextLine(x) <= proc.written[x]

\* A script keeps its streams open as long as it lives.
AtEof(x) == ~Waiting(x) /\ proc.pc = "ended" /\ ~child

\* Mutant: an empty line is taken for the end of the stream.
StopAtLine(x) ==
  /\ Reading(x) /\ Waiting(x)
  /\ NextLine(x) \notin Long[x]
  /\ drain' = [drain EXCEPT ![x] = [pc |-> "ended", read |-> @.read + 1]]
  /\ UNCHANGED <<processVars, sup, job, call, agent>>

ReadLine(x) ==
  /\ Reading(x) /\ Waiting(x)
  /\ NextLine(x) \notin Long[x]
  /\ drain' = [drain EXCEPT ![x].read = @ + 1]
  /\ job'   = [job EXCEPT !.lines[x] = Append(@, NextLine(x))]
  /\ UNCHANGED <<processVars, sup, call, agent>>

\* readline() raises ValueError for a line above 64 KiB.
ReadLong(x) ==
  /\ Reading(x) /\ Waiting(x)
  /\ NextLine(x) \in Long[x]
  /\ drain' = [drain EXCEPT ![x].pc = "raised"]
  /\ UNCHANGED <<processVars, sup, job, call, agent>>

ReadEof(x) ==
  /\ Reading(x) /\ AtEof(x)
  /\ drain' = [drain EXCEPT ![x].pc = "ended"]
  /\ UNCHANGED <<processVars, sup, job, call, agent>>

-----------------------------------------------------------------------------
(* _supervise *)

Drained ==
  /\ sup = "gather"
  /\ \A x \in Streams : drain[x].pc = "ended"
  /\ sup' = "reap"
  /\ UNCHANGED <<processVars, drain, job, call, agent>>

Finish(exit, lines) ==
  /\ job' = [lines |-> lines, exit |-> exit, done |-> TRUE]
  /\ sup' = "returned"

Reap ==
  /\ sup = "reap"
  /\ proc.pc = "ended"
  /\ Finish(proc.code, job.lines)
  /\ UNCHANGED <<processVars, drain, call, agent>>

\* gather() passes on what a drain raises and lets the other one run; only the
\* finally block follows.
DrainRaised ==
  /\ sup = "gather"
  /\ \E x \in Streams : drain[x].pc = "raised"
  /\ Finish(None, job.lines)
  /\ UNCHANGED <<processVars, drain, call, agent>>

Undrained ==
  /\ sup = "gather"
  /\ \E x \in Streams : Reading(x)
  /\ \A x \in Streams : drain[x].pc # "raised"

CancelDrains ==
  drain' = [x \in Streams |-> IF Reading(x) THEN [drain[x] EXCEPT !.pc = "cancelled"]
                                            ELSE drain[x]]

\* Mutant: the drains are cancelled and the process is not killed.
WaitLonger ==
  /\ Undrained
  /\ CancelDrains
  /\ sup'  = "reap"
  /\ UNCHANGED <<processVars, job, call, agent>>

\* wait_for cancels the drains, then the process is killed if it still lives.
\* One that has ended is left alone while something holds its pipes.
Timeout ==
  /\ Undrained
  /\ CancelDrains
  /\ proc' = IF proc.pc = "running" THEN [proc EXCEPT !.pc = "dying"] ELSE proc
  /\ sup'  = "killWait"
  /\ UNCHANGED <<child, job, call, agent>>

\* kill() of a process that has ended with its pipes closed raises
\* ProcessLookupError; only the finally block follows.
KillRaises ==
  /\ Undrained
  /\ proc.pc = "ended" /\ ~child
  /\ CancelDrains
  /\ Finish(None, job.lines)
  /\ UNCHANGED <<processVars, call, agent>>

\* The process has ended, or five seconds have passed.
GiveUp ==
  /\ sup = "killWait"
  /\ Finish(TimedOut, [job.lines EXCEPT !["stderr"] = Append(@, Marker)])
  /\ UNCHANGED <<processVars, drain, call, agent>>

-----------------------------------------------------------------------------
(* tail_python_job and its caller. *)

Ask ==
  /\ call = NoCall
  /\ agent.status = "running"
  /\ call' = [pc |-> "asked", offset |-> agent.offset]
  /\ UNCHANGED <<processVars, drain, sup, job, agent>>

\* The answer, but for the offsets to come back with.
AnswerWith(offset) ==
  /\ call.pc = "asked"
  /\ call' = [pc     |-> "answered",
              status |-> IF job.done THEN "done" ELSE "running",
              exit   |-> job.exit,
              delta  |-> [x \in Streams |->
                            SubSeq(job.lines[x], call.offset[x] + 1, Len(job.lines[x]))],
              offset |-> offset]
  /\ UNCHANGED <<processVars, drain, sup, job, agent>>

\* Mutant: the new offset is the old one plus one.
AnswerOneLine == AnswerWith([x \in Streams |-> call.offset[x] + 1])

\* Between the last look at the job and the return there is no await.
Answer == AnswerWith([x \in Streams |-> Len(job.lines[x])])

Receive ==
  /\ call.pc = "answered"
  /\ agent' = [status |-> call.status, exit |-> call.exit,
               lines  |-> [x \in Streams |-> agent.lines[x] \o call.delta[x]],
               offset |-> call.offset]
  /\ call' = NoCall
  /\ UNCHANGED <<processVars, drain, sup, job>>

\* The tool call times out at the client, before or after it was answered.
Lose ==
  /\ call # NoCall
  /\ call' = NoCall
  /\ UNCHANGED <<processVars, drain, sup, job, agent>>

-----------------------------------------------------------------------------
DrainStep(x) == ReadLine(x) \/ ReadLong(x) \/ ReadEof(x)
Supervise == Drained \/ Reap \/ DrainRaised \/ Timeout \/ KillRaises \/ GiveUp
Script == (\E x \in Streams : WriteLine(x)) \/ (\E code \in Codes : Exit(code))
            \/ StartChild \/ EndChild

JobNext ==
  \/ Script \/ Die \/ Supervise
  \/ \E x \in Streams : DrainStep(x)
  \/ Ask \/ Answer \/ Receive \/ Lose

JobSpec == JobInit /\ [][JobNext]_jobVars

\* The event loop runs what is ready, deadlines pass, and a killed process dies.
JobFairness ==
  /\ \A x \in Streams : WF_jobVars(DrainStep(x))
  /\ WF_jobVars(Supervise)
  /\ WF_jobVars(Die)

FairJobSpec == JobSpec /\ JobFairness

-----------------------------------------------------------------------------
\* What the agent has put together from its answers is a part from the start of
\* what the script wrote, every line once and in order, with the Marker at most
\* at the end, however many answers were lost.
Written(x) == [i \in 1..proc.written[x] |-> i]

DeliveredInOrder ==
  \A x \in Streams :
    \/ IsPrefix(agent.lines[x], Written(x))
    \/ /\ x = "stderr" /\ job.exit = TimedOut
       /\ agent.lines[x] # <<>> /\ Last(agent.lines[x]) = Marker
       /\ IsPrefix(Front(agent.lines[x]), Written(x))

\* An agent that was told 'done' with the script's own exit code has all the
\* script wrote, whichever of the streams ended first.
DoneMeansAll ==
  agent.status = "done" /\ agent.exit \in Codes =>
    \A x \in Streams : agent.lines[x] = Written(x)

\* A job ends, even one whose script hangs, blocks on a full pipe or leaves a
\* child behind.
JobEnds == <>job.done

\* server.py:175-176 "Drain the script's stdout/stderr, enforce the timeout, then
\* mark the job done": no script runs on after its job is done.
DoneMeansStopped == job.done => proc.pc # "running"
=============================================================================
