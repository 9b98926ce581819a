------------------------------ MODULE ControlApi ------------------------------
(***************************************************************************)
(* The HTTP handlers that change a run (migrationkit/api.py): pause,       *)
(* resume, cancel, mark and delete.  They run in a thread pool, so several *)
(* may be in flight.  Every one reads the run and then writes in another   *)
(* transaction, whatever the run has become in between.                    *)
(***************************************************************************)
EXTENDS StateStore

CONSTANTS
  Callers,    \* requests that can be in flight at once
  MaxCalls    \* bound: requests accepted in one behaviour

ASSUME ControlApiAssumptions == MaxCalls \in Nat

VARIABLES
  request,    \* the request each caller has in flight
  calls       \* how many were accepted, for the bound

apiVars == <<request, calls>>

FlagOf   == [pause |-> "pause", resume |-> "run", cancel |-> "cancel"]
FlagOps  == DOMAIN FlagOf
Requests == [op : FlagOps \cup {"mark", "delete"}, run : Runs]
NoRequest == [op |-> "idle"]

ApiTypeOK ==
  /\ request \in [Callers -> Requests \cup {NoRequest}]
  /\ calls \in Nat

ApiInit ==
  /\ request = [c \in Callers |-> NoRequest]
  /\ calls = 0

\* Mutant: the status of the run to delete is not looked at.
AcceptAny(c, op, r) ==
  /\ request[c] = NoRequest
  /\ calls < MaxCalls
  /\ RunExists(r)
  /\ request' = [request EXCEPT ![c] = [op |-> op, run |-> r]]
  /\ calls' = calls + 1
  /\ UNCHANGED storeVars

\* get_run, or the SELECT of delete_run.  A request answered 404 or 409 here
\* leaves no trace.
Accept(c, op, r) ==
  /\ request[c] = NoRequest
  /\ calls < MaxCalls
  /\ RunExists(r)
  /\ op = "delete" => ~IsActive(r)
  /\ request' = [request EXCEPT ![c] = [op |-> op, run |-> r]]
  /\ calls' = calls + 1
  /\ UNCHANGED storeVars

Respond(c) == request' = [request EXCEPT ![c] = NoRequest] /\ UNCHANGED calls

WriteFlag(c) ==
  /\ request[c].op \in FlagOps
  /\ SetControlFlag(request[c].run, FlagOf[request[c].op])
  /\ Respond(c)

Mark(c) ==
  /\ request[c].op = "mark"
  /\ WriteEvent(request[c].run, [kind |-> "step_validated"])
  /\ Respond(c)

Delete(c) ==
  /\ request[c].op = "delete"
  /\ DeleteRun(request[c].run)
  /\ Respond(c)

\* The server is restarted, or the write raises and the answer is a 500.
Abort(c) ==
  /\ request[c] # NoRequest
  /\ Respond(c)
  /\ UNCHANGED storeVars

Handle(c) == WriteFlag(c) \/ Mark(c) \/ Delete(c)

ApiNext ==
  \E c \in Callers :
    \/ \E q \in Requests : Accept(c, q.op, q.run)
    \/ Handle(c)
    \/ Abort(c)
=============================================================================
