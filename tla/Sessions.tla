-------------------------------- MODULE Sessions --------------------------------
(***************************************************************************)
(* The two clients that keep what a server gave them and renew or reuse it *)
(* for all their callers: the dashboard with its token, and the shim with  *)
(* its session.  They share nothing, so a behaviour runs one of them.      *)
(***************************************************************************)
EXTENDS TokenRefresh, UpstreamSession

VARIABLE client   \* the client of this behaviour

sessionsVars == <<tokenVars, shimVars, client>>

SessionsInit ==
  client \in {"dashboard", "shim"} /\ TokenInit /\ UpstreamInit

Dashboard(A) == client = "dashboard" /\ A /\ UNCHANGED <<shimVars, client>>
Shim(A)      == client = "shim" /\ A /\ UNCHANGED <<tokenVars, client>>

SessionsNext == Dashboard(TokenNext) \/ Shim(UpstreamNext)

\* Every POST, request and await is answered, or fails.  Nothing obliges the
\* servers to accept a token or to be up.
SessionsFairness ==
  /\ WF_sessionsVars(Dashboard(Renewing))
  /\ \A c \in Callers : WF_sessionsVars(Dashboard(Fetching(c)))
  /\ WF_sessionsVars(Shim(Opening))

SessionsSpec == SessionsInit /\ [][SessionsNext]_sessionsVars /\ SessionsFairness

SessionsTypeOK ==
  TokenTypeOK /\ UpstreamTypeOK /\ client \in {"dashboard", "shim"}

\* The startup of a shim ends: it serves, or it exits after its last attempt.
StartupEnds == client = "shim" => <>(shim.pc \in {"serving", "exited"})
=============================================================================
