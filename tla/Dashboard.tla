------------------------------- MODULE Dashboard -------------------------------
(***************************************************************************)
(* The dashboard beside the writers: the list of runs and the selection    *)
(* (App.tsx), the hooks of the selected run (LiveRun, RowList), and the    *)
(* runs that other processes create, pause, end, delete and benchmark.     *)
(*                                                                         *)
(* The hooks share nothing but the selection, so a behaviour mounts one of *)
(* them: the poll and the milestones of useLiveRun, or a list of rows.     *)
(* Run ids end in the time of their creation: the newest is the largest.   *)
(***************************************************************************)
EXTENDS LiveRun, RowList

CONSTANT MaxActs     \* bound: writes of others and clicks in one behaviour

ASSUME DashboardAssumptions ==
  /\ Runs \subseteq Nat /\ Runs # {}
  /\ Hooks = {"poll", "milestones", "list"}
  /\ MaxActs \in Nat

VARIABLES
  mounted,      \* the hook on the screen
  listed,       \* the runs of the last list
  selected,     \* the run selected, or Unknown
  born,         \* history: the runs that were ever created
  acts          \* how many writes others have made, and clicks, for the bound

appVars  == <<listed, selected>>
dbVars   == <<storeVars, rowsOf, untold, born>>
hookVars == <<liveVars, listVars, streamVars>>
viewVars == <<dbVars, hookVars, appVars, mounted, acts>>

ExistingRuns == {r \in Runs : RunExists(r)}

DashboardTypeOK ==
  /\ StreamTypeOK /\ LiveRunTypeOK /\ RowListTypeOK
  /\ mounted \in Hooks
  /\ listed \subseteq Runs
  /\ selected \in Runs \cup {Unknown}
  /\ born \subseteq Runs
  /\ acts \in Nat

\* The page is opened when the first run has just been created.
DashboardInit ==
  LET first == Min(Runs) IN
  /\ runs = [r \in Runs |-> IF r = first
       THEN [status |-> "running", ended |-> FALSE] ELSE NoRun]
  /\ controls = [r \in Runs |-> IF r = first THEN "run" ELSE "absent"]
  /\ runTables = [r \in Runs |-> [t \in Tables |-> NoTable]]
  /\ validations = [r \in Runs |-> [t \in Tables |-> "absent"]]
  /\ batches = [r \in Runs |-> {}]
  /\ events = [r \in Runs |-> <<>>]
  /\ born = {first}
  /\ Log!LogInit /\ StreamInit /\ LiveRunInit /\ RowListInit
  /\ mounted \in Hooks
  /\ listed = {} /\ selected = Unknown
  /\ acts = 0

-----------------------------------------------------------------------------
(* The other processes, and the buttons of the dashboard. *)

CreateRun(r) ==
  /\ \A q \in born : q < r
  /\ ActiveRuns = {}
  /\ InsertRun(r)
  /\ born' = born \cup {r}
  /\ UNCHANGED <<rowsOf, untold>>

\* Status, flag and events change in transactions of their own, in any order.
ChangeRun(r) ==
  /\ \/ IsActive(r) /\ \E status \in {"done", "cancelled"} : EndRun(r, status)
     \/ \E flag \in {"run", "pause"} : SetControlFlag(r, flag)
     \/ /\ RunExists(r)
        /\ \E kind \in {"paused", "validation_done"} : WriteEvent(r, [kind |-> kind])
  /\ UNCHANGED <<rowsOf, untold, born>>

RemoveRun(r) ==
  /\ RunExists(r) /\ ~IsActive(r)
  /\ DeleteRun(r)
  /\ Log!Remove(r)
  /\ UNCHANGED born

\* A benchmark or a validation of the run.
WriteRows(r) ==
  /\ RunExists(r)
  /\ \/ Log!Clear(r) /\ UNCHANGED storeVars
     \/ \E v \in RowValues : Log!Put(r, v) /\ UNCHANGED storeVars
     \/ untold[r] /\ Log!Tell(r) /\ WriteEvent(r, [kind |-> "benchmark_row"])
  /\ UNCHANGED born

Elsewhere ==
  /\ acts < MaxActs
  /\ acts' = acts + 1
  /\ \E r \in Runs : CreateRun(r) \/ ChangeRun(r) \/ RemoveRun(r) \/ WriteRows(r)
  /\ UNCHANGED <<hookVars, appVars, mounted>>

-----------------------------------------------------------------------------
\* A change of the selection runs the effects of the hook.
Select(r) ==
  /\ selected' = r
  /\ IF mounted = "poll" THEN ResetPoll(r) ELSE UNCHANGED poll
  /\ ResetLive(r)
  /\ IF mounted = "list" THEN ResetList(r) ELSE UNCHANGED listVars
  /\ stream' = [h \in Hooks |-> IF r # Unknown /\ h = mounted /\ h # "poll"
                                THEN Subscription(r, Since(h)) ELSE NoSource]
  /\ UNCHANGED breaks

Newest(list) == IF list = {} THEN Unknown ELSE Max(list)

\* Mutant: a run is selected when none is, never in place of one that is gone.
SelectFirst ==
  /\ listed' = ExistingRuns
  /\ IF selected = Unknown /\ ExistingRuns # {} THEN Select(Newest(ExistingRuns))
     ELSE UNCHANGED <<selected, hookVars>>
  /\ UNCHANGED <<dbVars, mounted, acts>>

\* Every two seconds.  The newest run is selected when none is, or when the one
\* that was is gone.  The list is read and applied in one step: a change of the
\* selection drops a list on its way, and nothing else looks at it.
ShowRuns ==
  /\ listed' = ExistingRuns
  /\ IF selected \notin ExistingRuns /\ selected # Newest(ExistingRuns)
     THEN Select(Newest(ExistingRuns))
     ELSE UNCHANGED <<selected, hookVars>>
  /\ UNCHANGED <<dbVars, mounted, acts>>

\* The user selects a run of the list on the screen.
PickRun(r) ==
  /\ r \in listed /\ r # selected
  /\ acts < MaxActs
  /\ acts' = acts + 1
  /\ Select(r)
  /\ UNCHANGED <<dbVars, listed, mounted>>

-----------------------------------------------------------------------------
Outside == UNCHANGED <<dbVars, appVars, mounted, acts>>

Poller     == Polling /\ Outside /\ UNCHANGED <<streamVars, listVars>>
PollFails  == FailPoll /\ Outside /\ UNCHANGED <<streamVars, listVars>>
Milestones == ReceiveLive("milestones") /\ Outside /\ UNCHANGED listVars
Rows       == ReceiveList("list") /\ Outside /\ UNCHANGED liveVars
Fetches    == Fetching /\ Outside /\ UNCHANGED <<streamVars, liveVars>>
Connects(h) == Connect(h) /\ Outside /\ UNCHANGED <<liveVars, listVars>>
Breaks(h)   == Break(h) /\ Outside /\ UNCHANGED <<liveVars, listVars>>

FetchFails ==
  /\ failures < MaxFailures
  /\ failures' = failures + 1
  /\ \E i \in DOMAIN fetches : FailFetch(i)
  /\ Outside /\ UNCHANGED <<streamVars, detail, poll, milestones>>

DashboardNext ==
  \/ Elsewhere
  \/ ShowRuns
  \/ \E r \in Runs : PickRun(r)
  \/ Poller \/ PollFails
  \/ Milestones
  \/ Rows \/ Fetches \/ FetchFails
  \/ \E h \in Hooks : Connects(h) \/ Breaks(h)

\* The browser runs its timers and callbacks, and the server answers.  Nothing
\* obliges the writers, the user or the network to anything.
DashboardFairness ==
  /\ WF_viewVars(ShowRuns) /\ WF_viewVars(Poller)
  /\ WF_viewVars(Milestones) /\ WF_viewVars(Rows) /\ WF_viewVars(Fetches)
  /\ \A h \in Hooks : WF_viewVars(Connects(h))

DashboardSpec ==
  DashboardInit /\ [][DashboardNext]_viewVars /\ DashboardFairness

-----------------------------------------------------------------------------
IsMilestone(r, n) == events[r][n].kind \in MilestoneKinds

\* The milestones on the screen are those of the selected run, in the order of
\* its log and without a gap.  A connection that was opened again tells the log
\* from its first milestone on, never from the middle, and no connection tells of
\* one twice.
MilestonesInOrder ==
  \A i \in DOMAIN milestones :
    LET m == milestones[i]
        before == {k \in 1 .. m.n - 1 : IsMilestone(m.run, k)} IN
    /\ m.run = selected
    /\ before # {} => IF i < Len(milestones)
                       THEN milestones[i + 1].n = Max(before)
                       ELSE i = MaxMilestones
    /\ Cardinality({j \in DOMAIN milestones : milestones[j] = m})
         <= stream["milestones"].opened

\* A run that was shown as ended is not shown as active again, though its flag
\* can still be written and is read outside the transaction of its status.
EndedStaysEnded ==
  [][detail # Unknown /\ detail' # Unknown =>
       (detail.run = detail'.run /\ detail.status \in EndStatus =>
          detail'.status \in EndStatus)]_viewVars

\* Once the writers have stopped, the selection is a run that exists, if there
\* is one.
SelectionSettles ==
  <>[](IF ExistingRuns = {} THEN selected = Unknown ELSE selected \in ExistingRuns)

\* ... and the detail is that of the selected run, though its SELECTs are torn.
DetailSettles ==
  <>[](mounted = "poll" /\ selected \in ExistingRuns =>
         detail = [run |-> selected,
                   status |-> MapStatus(runs[selected].status, ControlFlag(selected))])

\* ... and the milestones begin with the last MaxMilestones of its log, or with all
\* of a shorter one, the newest first, if its connection was not closed for good.
MilestonesSettle ==
  <>[](mounted = "milestones" /\ selected \in ExistingRuns
         /\ stream["milestones"].state # "closed" =>
         LET told == {n \in DOMAIN events[selected] : IsMilestone(selected, n)} IN
         \A n \in told :
           LET place == Cardinality({k \in told : k >= n}) IN
           place <= MaxMilestones =>
             /\ place \in DOMAIN milestones
             /\ milestones[place] = [run |-> selected, n |-> n])

\* ... and the rows are those of the database, unless the connection was closed for
\* good, the answer to an earlier GET came last, an error is shown, or a call has
\* died between a write and its event.  (useBenchmarks.ts:2 "refetches on each
\* benchmark_row / benchmark_done SSE event".)
RowsSettle ==
  <>[](mounted = "list" /\ selected \in ExistingRuns =>
         \/ rows = rowsOf[selected]
         \/ rowsLate \/ rowsError \/ untold[selected] \/ stream["list"].state = "closed")
-----------------------------------------------------------------------------
(* Why they hold *)

\* The connections are for the run that is selected, and begin with its first event.
Subscribed ==
  \A h \in Hooks :
    LET s == stream[h] IN
    /\ s.since = 0
    /\ s.state # "none" => selected # Unknown /\ s.run = selected
    /\ s.state = "open" => s.cursor <= Len(events[s.run]) /\ s.opened > 0

\* A run id is used once, so a run that has ended is over for good.
IsOver(r) == r \in born /\ ~IsActive(r)

\* What the poll has read of a run that is shown as ended is not that it is active.
PollFollows ==
  /\ ExistingRuns \subseteq born
  /\ poll.pc \in {"row", "answer"} /\ poll.status \in TerminalStatus => IsOver(poll.run)
  /\ detail # Unknown /\ detail.status \in EndStatus =>
       /\ IsOver(detail.run)
       /\ poll.pc \in {"row", "answer"} /\ poll.run = detail.run =>
            poll.status \notin ActiveStatus
=============================================================================
