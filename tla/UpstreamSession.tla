---------------------------- MODULE UpstreamSession ----------------------------
(***************************************************************************)
(* The session that the Gemini shim (docker/mcp-gemini-shim/server.py)     *)
(* keeps to the MCP server behind it: opened before the first request is   *)
(* served, in attempts of four awaits each, shared by every request, and   *)
(* closed at the end.                                                      *)
(*                                                                         *)
(* The upstream server may stop and start again at any time; a transport   *)
(* or a session belongs to the incarnation it was opened with.  Schemas,   *)
(* tools and delays are left out.                                          *)
(***************************************************************************)
EXTENDS Integers

CONSTANTS
  Attempts,       \* len(delays) + 1
  MaxRestarts     \* bound: incarnations of the upstream server

ASSUME UpstreamAssumptions ==
  /\ Attempts \in Nat \ {0}
  /\ MaxRestarts \in Nat \ {0}

VARIABLES
  upstream,   \* whether the upstream server is up, and its incarnation
  shim,       \* the shim: its control location, the attempt and its "stack"
  session,    \* _upstream_session
  stack,      \* _upstream_stack
  opened,     \* the transports that are open
  request     \* the request that is being forwarded

shimVars == <<upstream, shim, session, stack, opened, request>>

\* What an attempt has entered: its transport, the session, initialize().
Steps  == {"sse", "session", "initialize", "tools"}
NextStep == [sse |-> "session", session |-> "initialize", initialize |-> "tools"]

\* "since" is history: what had been awaited with success when it was committed.
Session == [attempt : 0 .. Attempts, epoch : Nat, since : SUBSET Steps]
None    == [attempt |-> 0, epoch |-> 0, since |-> {}]

Transport == [attempt : 1 .. Attempts, epoch : Nat]

UpstreamTypeOK ==
  /\ upstream \in [up : BOOLEAN, epoch : Nat]
  /\ shim \in [pc : Steps \cup {"aclose", "serving", "closing", "exited"},
               attempt : 1 .. Attempts, epoch : Nat, done : SUBSET Steps]
  /\ session \in Session /\ stack \in Session
  /\ opened \subseteq Transport
  /\ request \in {"none", "sent", "answered", "failed"}

\* The shim may be brought up first.
UpstreamInit ==
  /\ upstream = [up |-> FALSE, epoch |-> 0]
  /\ shim = [pc |-> "sse", attempt |-> 1, epoch |-> 0, done |-> {}]
  /\ session = None /\ stack = None
  /\ opened = {} /\ request = "none"

-----------------------------------------------------------------------------
UpstreamStops ==
  /\ upstream.up
  /\ upstream' = [upstream EXCEPT !.up = FALSE]
  /\ UNCHANGED <<shim, session, stack, opened, request>>

UpstreamStarts ==
  /\ ~upstream.up /\ upstream.epoch < MaxRestarts
  /\ upstream' = [up |-> TRUE, epoch |-> upstream.epoch + 1]
  /\ UNCHANGED <<shim, session, stack, opened, request>>

\* A server that was started again does not know the sessions of the last one.
Reaches(epoch) == upstream.up /\ upstream.epoch = epoch

-----------------------------------------------------------------------------
(* _open_upstream *)

EnterTransport ==
  /\ shim.pc = "sse" /\ upstream.up
  /\ opened' = opened \cup {[attempt |-> shim.attempt, epoch |-> upstream.epoch]}
  /\ shim' = [shim EXCEPT !.pc = "session", !.epoch = upstream.epoch, !.done = {"sse"}]
  /\ UNCHANGED <<upstream, session, stack, request>>

\* ClientSession, then initialize(); entering the session needs no answer.
Advance ==
  /\ shim.pc \in {"session", "initialize"}
  /\ shim.pc = "initialize" => Reaches(shim.epoch)
  /\ shim' = [shim EXCEPT !.pc = NextStep[shim.pc], !.done = @ \cup {shim.pc}]
  /\ UNCHANGED <<upstream, session, stack, opened, request>>

ThisSession ==
  [attempt |-> shim.attempt, epoch |-> shim.epoch, since |-> shim.done \cup {shim.pc}]

\* list_tools(), and the assignments to the globals.
Commit ==
  /\ shim.pc = "tools" /\ Reaches(shim.epoch)
  /\ stack' = ThisSession /\ session' = ThisSession
  /\ shim' = [shim EXCEPT !.pc = "serving"]
  /\ UNCHANGED <<upstream, opened, request>>

\* Any of the awaits raises.
AttemptFails ==
  /\ shim.pc \in Steps
  /\ shim' = [shim EXCEPT !.pc = "aclose"]
  /\ UNCHANGED <<upstream, session, stack, opened, request>>

\* Mutant: the partial stack is dropped.
DropStack ==
  /\ shim.pc = "aclose"
  /\ shim' = IF shim.attempt = Attempts THEN [shim EXCEPT !.pc = "exited"]
             ELSE [pc |-> "sse", attempt |-> shim.attempt + 1, epoch |-> 0, done |-> {}]
  /\ UNCHANGED <<upstream, session, stack, opened, request>>

\* Mutant: the attempts are not counted.
CloseAndRepeat ==
  /\ shim.pc = "aclose"
  /\ opened' = {x \in opened : x.attempt # shim.attempt}
  /\ shim' = [shim EXCEPT !.pc = "sse", !.epoch = 0, !.done = {}]
  /\ UNCHANGED <<upstream, session, stack, request>>

\* stack.aclose(), which leaves every context even if one of them raises; then
\* the next attempt, or RuntimeError, with which the server exits.
CloseAttempt ==
  /\ shim.pc = "aclose"
  /\ opened' = {x \in opened : x.attempt # shim.attempt}
  /\ shim' = IF shim.attempt = Attempts THEN [shim EXCEPT !.pc = "exited"]
             ELSE [pc |-> "sse", attempt |-> shim.attempt + 1, epoch |-> 0, done |-> {}]
  /\ UNCHANGED <<upstream, session, stack, request>>

-----------------------------------------------------------------------------
(* The server. *)

\* list_tools or call_tool.
Accept ==
  /\ shim.pc = "serving" /\ request # "sent"
  /\ request' = "sent"
  /\ UNCHANGED <<upstream, shim, session, stack, opened>>

ForwardFails ==
  /\ request = "sent"
  /\ request' = "failed"
  /\ UNCHANGED <<upstream, shim, session, stack, opened>>

Forward ==
  /\ request = "sent" /\ Reaches(session.epoch)
  /\ request' = "answered"
  /\ UNCHANGED <<upstream, shim, session, stack, opened>>

\* The end of the lifespan, once the requests are done.
Shutdown ==
  /\ shim.pc = "serving" /\ request # "sent"
  /\ shim' = [shim EXCEPT !.pc = "closing"]
  /\ UNCHANGED <<upstream, session, stack, opened, request>>

\* _close_upstream, which leaves the session in its variable.
CloseUpstream ==
  /\ shim.pc = "closing"
  /\ opened' = {x \in opened : x.attempt # stack.attempt}
  /\ stack' = None
  /\ shim' = [shim EXCEPT !.pc = "exited"]
  /\ UNCHANGED <<upstream, session, request>>

Opening == EnterTransport \/ Advance \/ Commit \/ AttemptFails \/ CloseAttempt

UpstreamNext ==
  \/ UpstreamStops \/ UpstreamStarts
  \/ Opening
  \/ Accept \/ Forward \/ ForwardFails
  \/ Shutdown \/ CloseUpstream

-----------------------------------------------------------------------------
\* server.py:146-147 "Clean up the partial stack so we don't leak file handles on
\* retry": a transport that is open is that of the attempt that is being made, or
\* of the stack that will be closed at the end.
NothingLeaks ==
  \A x \in opened :
    \/ shim.pc \in Steps \cup {"aclose"} /\ x.attempt = shim.attempt
    \/ x.attempt = stack.attempt

\* server.py:139-140 "Commit only on success": what requests are forwarded to has
\* answered initialize() and list_tools() on the transport that the stack closes.
CommittedIsWhole ==
  session # None => /\ session.since = Steps
                    /\ stack \in {session, None}
=============================================================================
