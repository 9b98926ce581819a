-------------------------------- MODULE LiveRun --------------------------------
(***************************************************************************)
(* useLiveRun (migration-dashboard/src/hooks/useLiveRun.ts): the detail of *)
(* the selected run, polled with getRun, and its milestones, received from *)
(* the event stream.                                                       *)
(*                                                                         *)
(* A GET is read by the server and applied by the browser in different     *)
(* steps, and get_run (state.py) reads in several SELECTs outside a        *)
(* transaction.  Of the detail the status and the flag are kept.  The      *)
(* sparkline and the progress of bytes are left out.                       *)
(***************************************************************************)
EXTENDS EventStream, FiniteSetsExt

CONSTANTS
  MaxMilestones,   \* milestones kept
  MaxFailures      \* bound: GETs that fail in one behaviour

ASSUME LiveRunAssumptions ==
  /\ MaxMilestones \in Nat \ {0}
  /\ MaxFailures \in Nat

VARIABLES
  detail,       \* the run on the screen, or Unknown
  poll,         \* the GET of the detail
  milestones,   \* the milestones on the screen, newest first
  failures      \* how many GETs have failed, for the bound

liveVars == <<detail, poll, milestones, failures>>

Status         == ActiveStatus \cup TerminalStatus \cup {"absent"}
DisplayStatus  == {"running", "paused", "done", "failed"}
EndStatus      == {"done", "failed"}
MilestoneKinds == {"started", "table_done", "paused", "resumed", "cancelled",
                   "failed", "done", "step_validated", "step_benchmarked"}

Shown == [run : Runs, status : DisplayStatus]
Poll  == [pc : {"off", "due", "row", "answer"}, run : Runs \cup {Unknown},
          status : Status, flag : Flags]

NoPoll     == [pc |-> "off", run |-> Unknown, status |-> "absent", flag |-> "run"]
DuePoll(r) == [NoPoll EXCEPT !.pc = "due", !.run = r]

LiveRunTypeOK ==
  /\ detail \in Shown \cup {Unknown}
  /\ poll \in Poll
  /\ milestones \in Seq([run : Runs, n : Nat \ {0}])
  /\ Len(milestones) <= MaxMilestones
  /\ failures \in Nat

LiveRunInit ==
  detail = Unknown /\ poll = NoPoll /\ milestones = <<>> /\ failures = 0

-----------------------------------------------------------------------------
(* The effects of a change of the run. *)

\* The detail of the last run stays on the screen until the first answer.
ResetLive(r) ==
  /\ milestones' = <<>>
  /\ detail' = IF r = Unknown THEN Unknown ELSE detail
  /\ UNCHANGED failures

\* The answer to a GET for the last run is dropped.
ResetPoll(r) == poll' = IF r = Unknown THEN NoPoll ELSE DuePoll(r)

\* lastEventIdRef, which the effect before the subscription has reset.
Since(h) == 0

-----------------------------------------------------------------------------
(* The poll: the next GET is sent after the answer to the last. *)

\* The first SELECT of get_run; without a row the answer is 404.
ReadRun ==
  /\ poll.pc = "due"
  /\ poll' = [poll EXCEPT !.pc = IF RunExists(poll.run) THEN "row" ELSE "answer",
                          !.status = runs[poll.run].status]
  /\ UNCHANGED <<detail, milestones, failures>>

\* The others, outside a transaction with the first.
ReadFlag ==
  /\ poll.pc = "row"
  /\ poll' = [poll EXCEPT !.pc = "answer", !.flag = ControlFlag(poll.run)]
  /\ UNCHANGED <<detail, milestones, failures>>

\* Mutant: a flag 'pause' shows as paused whatever the status.
PausedByFlag(status, flag) ==
  IF flag = "pause" THEN "paused" ELSE IF status = "cancelled" THEN "failed" ELSE status

\* A pause that was asked for and not reached yet shows as paused.
MapStatus(status, flag) ==
  IF flag = "pause" /\ status = "running" THEN "paused"
  ELSE IF status = "cancelled" THEN "failed" ELSE status

\* setRun; a 404 leaves what is shown.  The GET is sent again in both cases.
ShowRun ==
  /\ poll.pc = "answer"
  /\ detail' = IF poll.status = "absent" THEN detail
               ELSE [run |-> poll.run, status |-> MapStatus(poll.status, poll.flag)]
  /\ poll' = DuePoll(poll.run)
  /\ UNCHANGED <<milestones, failures>>

\* Mutant: the loop ends with an error.
FailForGood ==
  /\ poll.pc \in {"row", "answer"}
  /\ failures < MaxFailures
  /\ failures' = failures + 1
  /\ poll' = NoPoll
  /\ UNCHANGED <<detail, milestones>>

FailPoll ==
  /\ poll.pc \in {"row", "answer"}
  /\ failures < MaxFailures
  /\ failures' = failures + 1
  /\ poll' = DuePoll(poll.run)
  /\ UNCHANGED <<detail, milestones>>

Polling == ReadRun \/ ReadFlag \/ ShowRun

-----------------------------------------------------------------------------
\* eventToMilestone and setMilestones, the newest first.
AddMilestone(h) ==
  LET m == [run |-> stream[h].run, n |-> NextId(h)] IN
  milestones' =
    IF NextEvent(h).kind \in MilestoneKinds
    THEN SubSeq(<<m>> \o milestones, 1, Min({MaxMilestones, Len(milestones) + 1}))
    ELSE milestones

ReceiveLive(h) ==
  /\ Receive(h)
  /\ AddMilestone(h)
  /\ UNCHANGED <<detail, poll, failures>>
=============================================================================
