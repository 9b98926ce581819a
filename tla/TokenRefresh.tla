------------------------------ MODULE TokenRefresh ------------------------------
(***************************************************************************)
(* The access token of the dashboard (migration-dashboard/src/lib/         *)
(* librechat.ts): fetchWithAuth sends a request with the cached token and, *)
(* on 401, once more with a token that getAccessToken was made to renew.   *)
(*                                                                         *)
(* JavaScript runs one callback at a time and gives way only at an await,  *)
(* so a step is what a caller does up to its next await.  Tokens are       *)
(* numbered as the server issues them.  The server may stop accepting them *)
(* at any time; a refresh asks for a cookie that may be gone, a login may  *)
(* fail, and their answers take time.                                      *)
(***************************************************************************)
EXTENDS Integers, FiniteSets

CONSTANTS
  Callers,      \* concurrent calls of fetchWithAuth
  MaxTokens     \* bound: tokens that are issued

ASSUME TokenRefreshAssumptions == MaxTokens \in Nat

VARIABLES
  accessToken,   \* the cached token; 0 is null
  inflight,      \* the renewal whose promise callers share; 0 is null
  renewals,      \* the renewals that have not settled
  issued,        \* the last token of the server
  expired,       \* tokens up to this one are refused
  call           \* each call of fetchWithAuth

tokenVars == <<accessToken, inflight, renewals, issued, expired, call>>

Renewal == [id : Nat \ {0}, pc : {"refresh", "login", "answer"}, token : Nat]

EndPcs == {"idle", "ok", "denied", "failed"}

\* "first" is history: the token of the first send.
Call == [pc    : EndPcs \cup {"ask", "wait", "send"},
         force : BOOLEAN, promise : Nat, token : Nat, first : Nat]

NewCall == [pc |-> "ask", force |-> FALSE, promise |-> 0, token |-> 0, first |-> 0]

TokenTypeOK ==
  /\ accessToken \in Nat /\ inflight \in Nat
  /\ issued \in Nat /\ expired \in Nat
  /\ renewals \in SUBSET Renewal
  /\ call \in [Callers -> Call]

TokenInit ==
  /\ accessToken = 0 /\ inflight = 0 /\ renewals = {}
  /\ issued = 0 /\ expired = 0
  /\ call = [c \in Callers |-> [NewCall EXCEPT !.pc = "idle"]]

-----------------------------------------------------------------------------
(* getAccessToken *)

Begin(c) ==
  /\ call[c].pc \in EndPcs
  /\ call' = [call EXCEPT ![c] = NewCall]
  /\ UNCHANGED <<accessToken, inflight, renewals, issued, expired>>

\* Mutant: the cached token is good enough whatever "force" says.
CachedAnyway(c) == accessToken # 0

Cached(c) == accessToken # 0 /\ ~call[c].force

TakeCached(c) ==
  /\ call[c].pc = "ask" /\ Cached(c)
  /\ call' = [call EXCEPT ![c].pc = "send", ![c].token = accessToken]
  /\ UNCHANGED <<accessToken, inflight, renewals, issued, expired>>

\* Mutant: a promise in flight is not looked at.
JoinNone(c) == FALSE

\* A renewal in flight is shared, "force" or not.
CanJoin(c) == inflight # 0

Join(c) ==
  /\ call[c].pc = "ask" /\ ~Cached(c) /\ CanJoin(c)
  /\ call' = [call EXCEPT ![c].pc = "wait", ![c].promise = inflight]
  /\ UNCHANGED <<accessToken, inflight, renewals, issued, expired>>

\* A number that no renewal has.
NewId == CHOOSE i \in 1 .. Cardinality(renewals) + 1 : \A x \in renewals : x.id # i

Renew(c) ==
  /\ call[c].pc = "ask" /\ ~Cached(c) /\ ~CanJoin(c)
  /\ inflight' = NewId
  /\ renewals' = renewals \cup {[id |-> NewId, pc |-> "refresh", token |-> 0]}
  /\ call' = [call EXCEPT ![c].pc = "wait", ![c].promise = NewId]
  /\ UNCHANGED <<accessToken, issued, expired>>

-----------------------------------------------------------------------------
(* The renewal. *)

\* The server answers either POST with a token.
Issue(x) ==
  /\ x.pc \in {"refresh", "login"}
  /\ issued < MaxTokens
  /\ issued' = issued + 1
  /\ renewals' = (renewals \ {x}) \cup {[x EXCEPT !.pc = "answer", !.token = issued']}
  /\ UNCHANGED <<accessToken, inflight, expired, call>>

\* tryRefresh returns null, for any error.
RefreshFails(x) ==
  /\ x.pc = "refresh"
  /\ renewals' = (renewals \ {x}) \cup {[x EXCEPT !.pc = "login"]}
  /\ UNCHANGED <<accessToken, inflight, issued, expired, call>>

Waiting(c, x) == call[c].pc = "wait" /\ call[c].promise = x.id

\* The promise settles: "finally" runs before those who wait for it go on.
Fulfil(x) ==
  /\ x.pc = "answer"
  /\ accessToken' = x.token
  /\ inflight' = 0
  /\ renewals' = renewals \ {x}
  /\ call' = [c \in Callers |-> IF Waiting(c, x)
       THEN [call[c] EXCEPT !.pc = "send", !.token = x.token] ELSE call[c]]
  /\ UNCHANGED <<issued, expired>>

\* Mutant: "then" in the place of "finally".
RejectAndKeep(x) ==
  /\ x.pc = "login"
  /\ renewals' = renewals \ {x}
  /\ call' = [c \in Callers |-> IF Waiting(c, x)
       THEN [call[c] EXCEPT !.pc = "failed"] ELSE call[c]]
  /\ UNCHANGED <<accessToken, inflight, issued, expired>>

\* loginAsDemoUser throws.
Reject(x) ==
  /\ x.pc = "login"
  /\ inflight' = 0
  /\ renewals' = renewals \ {x}
  /\ call' = [c \in Callers |-> IF Waiting(c, x)
       THEN [call[c] EXCEPT !.pc = "failed"] ELSE call[c]]
  /\ UNCHANGED <<accessToken, issued, expired>>

-----------------------------------------------------------------------------
(* fetchWithAuth *)

\* The answer is returned, or the fetch throws.
Answered(c) ==
  /\ call[c].pc = "send"
  /\ \E pc \in {"ok", "failed"} :
       /\ pc = "ok" => call[c].token > expired
       /\ call' = [call EXCEPT ![c].pc = pc]
  /\ UNCHANGED <<accessToken, inflight, renewals, issued, expired>>

\* 401: once more with "force"; the second time it is the answer.
Unauthorized(c) ==
  /\ call[c].pc = "send" /\ call[c].token <= expired
  /\ call' = IF call[c].force THEN [call EXCEPT ![c].pc = "denied"]
             ELSE [call EXCEPT ![c].pc = "ask", ![c].force = TRUE,
                               ![c].first = call[c].token]
  /\ UNCHANGED <<accessToken, inflight, renewals, issued, expired>>

\* The server no longer accepts the tokens it has issued so far.
Expire ==
  /\ expired < issued
  /\ expired' = issued
  /\ UNCHANGED <<accessToken, inflight, renewals, issued, call>>

Renewing == \E x \in renewals : Issue(x) \/ RefreshFails(x) \/ Fulfil(x) \/ Reject(x)
Fetching(c) == TakeCached(c) \/ Join(c) \/ Renew(c) \/ Answered(c) \/ Unauthorized(c)

TokenNext == Renewing \/ Expire \/ \E c \in Callers : Begin(c) \/ Fetching(c)

-----------------------------------------------------------------------------
\* librechat.ts:65-66 "Concurrent callers share the same in-flight request so we
\* don't hit /api/auth/login multiple times on a cold page load", forced callers
\* included.
OneRenewal == \A x, y \in renewals : x = y

\* librechat.ts:91-92 "Retries once with a force-refreshed token on 401": the
\* second send has a token that the server issued after that of the first, though
\* the renewal may have been begun by another caller.
RetryIsNewer ==
  \A c \in Callers : call[c].pc = "send" /\ call[c].force => call[c].token > call[c].first

\* The cache never goes back to an older token.
CacheMovesOn == [][accessToken' >= accessToken]_tokenVars

\* A call returns or throws; a login that failed does not hold up later ones.
CallsSettle == \A c \in Callers : call[c].pc = "ask" ~> call[c].pc \in EndPcs
=============================================================================
