------------------------------ MODULE EventStream ------------------------------
(***************************************************************************)
(* The server-sent events of a run: runs_events (migrationkit/api.py) at   *)
(* one end, subscribeEvents (migration-dashboard/src/lib/api.ts) and the   *)
(* browser's EventSource at the other.                                     *)
(*                                                                         *)
(* The generator of a connection polls the log for the events after its    *)
(* cursor and yields them one by one; the frames of a connection arrive in *)
(* order.  What is yielded and not yet received cannot be told from what   *)
(* is not yet yielded, because a new connection begins again at the        *)
(* "since" of its URL, so receiving an event is one step here and the      *)
(* cursor is the browser's.  An event id is its position in the log of its *)
(* run: ids are given in the order in which writers commit.                *)
(***************************************************************************)
EXTENDS StateStore

CONSTANTS
  Hooks,         \* the hooks of the dashboard that subscribe
  OwnOnError,    \* those that replace the onerror of subscribeEvents
  GiveUpAfter,   \* errors in a row after which onerror closes
  MaxBreaks      \* bound: connections lost in one behaviour

ASSUME EventStreamAssumptions ==
  /\ OwnOnError \subseteq Hooks
  /\ GiveUpAfter \in Nat \ {0}
  /\ MaxBreaks \in Nat

VARIABLES
  stream,    \* the EventSource of each hook
  breaks     \* how many connections were lost, for the bound

streamVars == <<stream, breaks>>

\* "opened" is history: the connections this EventSource has opened.
EventSource == [state  : {"none", "connecting", "open", "closed"},
                run    : Runs \cup {Unknown},
                since  : Nat,
                cursor : Nat,
                errors : Nat,
                opened : Nat]

NoSource == [state |-> "none", run |-> Unknown, since |-> 0, cursor |-> 0,
             errors |-> 0, opened |-> 0]

StreamTypeOK ==
  /\ stream \in [Hooks -> EventSource]
  /\ breaks \in Nat

StreamInit ==
  /\ stream = [h \in Hooks |-> NoSource]
  /\ breaks = 0

\* new EventSource(".../events?since=")
Subscription(r, since) ==
  [NoSource EXCEPT !.state = "connecting", !.run = r, !.since = since]

\* The browser opens the URL it was given, the first time and after an error
\* alike; the generator begins at its "since" whatever Last-Event-ID says.
Connect(h) ==
  /\ stream[h].state = "connecting"
  /\ stream' = [stream EXCEPT ![h].state = "open", ![h].cursor = stream[h].since,
                              ![h].opened = @ + 1]
  /\ UNCHANGED breaks

\* Is there an event after the cursor?  The status of the run plays no part:
\* the stream of a run that has ended stays open.
HasNext(h) ==
  /\ stream[h].state = "open"
  /\ stream[h].cursor < Len(events[stream[h].run])

NextId(h) == stream[h].cursor + 1
NextEvent(h) == events[stream[h].run][NextId(h)]

\* Mutant: the cursor of the generator is the last id of the log.
ReceiveLast(h) ==
  /\ HasNext(h)
  /\ stream' = [stream EXCEPT ![h].cursor = Len(events[stream[h].run]),
                              ![h].errors = 0]
  /\ UNCHANGED breaks

\* Mutant: the cursor does not move past what was yielded.
ReceiveAgain(h) ==
  /\ HasNext(h)
  /\ stream' = [stream EXCEPT ![h].errors = 0]
  /\ UNCHANGED breaks

\* onmessage.  Heartbeats are comments and never get here.
Receive(h) ==
  /\ HasNext(h)
  /\ stream' = [stream EXCEPT ![h].cursor = NextId(h), ![h].errors = 0]
  /\ UNCHANGED breaks

\* onerror closes after a streak of errors, unless the hook has put its own
\* handler in its place.
GivesUp(h) == h \notin OwnOnError /\ stream[h].errors + 1 >= GiveUpAfter

\* The connection is lost or cannot be opened: the browser tries again, or
\* gives up itself when the answer is not a 200.
Break(h) ==
  /\ stream[h].state \in {"connecting", "open"}
  /\ breaks < MaxBreaks
  /\ breaks' = breaks + 1
  /\ \E next \in {"connecting", "closed"} :
       stream' = [stream EXCEPT
         ![h].state  = IF GivesUp(h) THEN "closed" ELSE next,
         ![h].errors = @ + 1]
=============================================================================
