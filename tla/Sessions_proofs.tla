---------------------------- MODULE Sessions_proofs ----------------------------
(***************************************************************************)
(* The safety of the two clients, for any number of callers, tokens,       *)
(* attempts and restarts.                                                  *)
(*                                                                         *)
(* The dashboard: the promise in flight is that of the only renewal        *)
(* (InFlight), and a token that is on its way is newer than any that a     *)
(* call has seen (Newer): so a call that joins the renewal of another gets *)
(* what it asked for.  The shim: where an attempt is says what it has      *)
(* entered (Attempting), and the variables of the session are assigned     *)
(* only when all of it has been.                                           *)
(***************************************************************************)
EXTENDS Sessions, FiniteSetTheorems, TLAPS

InFlight ==
  /\ OneRenewal
  /\ inflight = 0 => renewals = {}
  /\ \A x \in renewals : x.id = inflight

Newer ==
  /\ accessToken <= issued
  /\ \A x \in renewals : x.pc = "answer" => accessToken < x.token /\ x.token <= issued
  /\ \A c \in Callers : call[c].token <= accessToken /\ call[c].first <= accessToken

TokenInv == TokenTypeOK /\ InFlight /\ Newer /\ RetryIsNewer

-----------------------------------------------------------------------------
LEMMA InitTokenInv == TokenInit => TokenInv
  <1> SUFFICES ASSUME TokenInit PROVE TokenInv
    OBVIOUS
  <1>1. \A c \in Callers :
          /\ call[c] \in Call
          /\ call[c].token = 0 /\ call[c].first = 0 /\ call[c].pc = "idle"
    BY DEF TokenInit, Call, NewCall, EndPcs
  <1>2. call \in [Callers -> Call]
    BY <1>1 DEF TokenInit
  <1>3. TokenTypeOK
    BY <1>2 DEF TokenInit, TokenTypeOK
  <1>4. InFlight
    BY DEF TokenInit, InFlight, OneRenewal
  <1>5. Newer
    BY <1>1 DEF TokenInit, Newer
  <1>6. RetryIsNewer
    BY <1>1 DEF RetryIsNewer
  <1> QED
    BY <1>3, <1>4, <1>5, <1>6 DEF TokenInv

LEMMA NewIdType == renewals = {} => NewId \in Nat \ {0}
  <1> SUFFICES ASSUME renewals = {} PROVE NewId \in Nat \ {0}
    OBVIOUS
  <1>1. Cardinality(renewals) = 0
    BY FS_EmptySet
  <1>2. \E i \in 1 .. Cardinality(renewals) + 1 : \A x \in renewals : x.id # i
    BY <1>1
  <1>3. NewId \in 1 .. Cardinality(renewals) + 1
    BY <1>2 DEF NewId
  <1> QED
    BY <1>1, <1>3

\* A renewal that takes the place of x.
LEMMA StepRenewal ==
  ASSUME TokenInv, NEW x \in renewals, NEW y \in Renewal, y.id = x.id,
         renewals' = (renewals \ {x}) \cup {y}, UNCHANGED inflight
  PROVE  renewals' = {y} /\ renewals' \in SUBSET Renewal /\ InFlight'
  <1>1. renewals' = {y}
    BY DEF TokenInv, InFlight, OneRenewal
  <1> QED
    BY <1>1 DEF TokenInv, InFlight, OneRenewal, TokenTypeOK, Renewal

LEMMA RenewingInv == TokenInv /\ Renewing => TokenInv' /\ accessToken' >= accessToken
  <1> SUFFICES ASSUME TokenInv, NEW x \in renewals,
                      Issue(x) \/ RefreshFails(x) \/ Fulfil(x) \/ Reject(x)
               PROVE  TokenInv' /\ accessToken' >= accessToken
    BY DEF Renewing
  <1>0. x \in Renewal /\ accessToken \in Nat /\ issued \in Nat
    BY DEF TokenInv, TokenTypeOK
  <1>1. CASE Issue(x)
    <2> DEFINE y == [x EXCEPT !.pc = "answer", !.token = issued']
    <2>10. issued' = issued + 1 /\ issued' \in Nat
      BY <1>0, <1>1 DEF Issue
    <2>1. y \in Renewal /\ y.id = x.id /\ y.token = issued'
      BY <1>0, <2>10 DEF Renewal
    <2>2. renewals' = {y} /\ renewals' \in SUBSET Renewal /\ InFlight'
      BY <1>1, <2>1, StepRenewal DEF Issue
    <2> HIDE DEF y
    <2>5. /\ accessToken' = accessToken /\ inflight' = inflight /\ expired' = expired
          /\ call' = call
      BY <1>1 DEF Issue
    <2>6. accessToken <= issued
      BY DEF TokenInv, Newer
    <2>7. \A z \in renewals' : accessToken' < z.token /\ z.token <= issued'
      <3>1. accessToken' < issued' /\ issued' <= issued'
        BY <1>0, <2>5, <2>6, <2>10
      <3> QED
        BY <2>1, <2>2, <3>1
    <2>8. \A c \in Callers :
            call'[c].token <= accessToken' /\ call'[c].first <= accessToken'
      BY <2>5 DEF TokenInv, Newer
    <2>3. Newer'
      BY <1>0, <2>5, <2>6, <2>7, <2>8, <2>10 DEF Newer
    <2>4. TokenTypeOK'
      BY <1>0, <2>2, <2>5, <2>10 DEF TokenInv, TokenTypeOK
    <2>9. RetryIsNewer'
      BY <2>5 DEF TokenInv, RetryIsNewer
    <2> QED
      BY <1>0, <2>2, <2>3, <2>4, <2>5, <2>9 DEF TokenInv
  <1>2. CASE RefreshFails(x)
    <2> DEFINE y == [x EXCEPT !.pc = "login"]
    <2>1. y \in Renewal /\ y.id = x.id /\ y.pc = "login"
      BY <1>0 DEF Renewal
    <2>2. renewals' = {y} /\ renewals' \in SUBSET Renewal /\ InFlight'
      BY <1>2, <2>1, StepRenewal DEF RefreshFails
    <2>3. Newer' /\ TokenTypeOK' /\ RetryIsNewer'
      BY <1>0, <1>2, <2>1, <2>2 DEF RefreshFails, TokenInv, Newer, TokenTypeOK, RetryIsNewer
    <2> QED
      BY <1>0, <1>2, <2>2, <2>3 DEF RefreshFails, TokenInv
  <1>3. CASE Fulfil(x)
    <2>1. accessToken < x.token /\ x.token <= issued /\ x.token \in Nat
      BY <1>0, <1>3 DEF Fulfil, TokenInv, Newer, Renewal
    <2>2. renewals' = {} /\ InFlight'
      BY <1>3 DEF Fulfil, TokenInv, InFlight, OneRenewal
    <2>3. \A c \in Callers :
            /\ call'[c] \in Call
            /\ call'[c].first = call[c].first
            /\ call'[c].token \in {call[c].token, x.token}
            /\ call'[c].force = call[c].force
            /\ \/ call'[c] = call[c]
               \/ call'[c].pc = "send" /\ call'[c].token = x.token
      BY <1>0, <1>3, <2>1 DEF Fulfil, TokenInv, TokenTypeOK, Call
    <2>4. \A c \in Callers : call[c] \in Call
      BY DEF TokenInv, TokenTypeOK
    <2>8. accessToken' = x.token /\ issued' = issued
      BY <1>3 DEF Fulfil
    <2>9. \A c \in Callers :
            /\ call[c].token \in Nat /\ call[c].token <= accessToken
            /\ call[c].first \in Nat /\ call[c].first <= accessToken
      BY <2>4 DEF TokenInv, Newer, Call
    <2>10. \A c \in Callers :
             call'[c].token <= accessToken' /\ call'[c].first <= accessToken'
      BY <1>0, <2>1, <2>3, <2>8, <2>9
    <2>5. Newer'
      BY <2>1, <2>2, <2>8, <2>10 DEF Newer
    <2>6. RetryIsNewer'
      BY <1>0, <2>1, <2>3, <2>4 DEF TokenInv, Newer, RetryIsNewer, Call
    <2>7. TokenTypeOK'
      <3>1. call' \in [Callers -> Call]
        BY <1>3, <2>3 DEF Fulfil
      <3> QED
        BY <1>3, <2>1, <2>2, <2>8, <3>1 DEF Fulfil, TokenInv, TokenTypeOK
    <2>11. accessToken' >= accessToken
      BY <1>0, <2>1, <2>8
    <2> QED
      BY <2>2, <2>5, <2>6, <2>7, <2>11 DEF TokenInv
  <1>4. CASE Reject(x)
    <2>1. renewals' = {} /\ InFlight'
      BY <1>4 DEF Reject, TokenInv, InFlight, OneRenewal
    <2>2. \A c \in Callers :
            /\ call'[c] \in Call
            /\ call'[c].first = call[c].first /\ call'[c].token = call[c].token
            /\ call'[c] = call[c] \/ call'[c].pc = "failed"
      BY <1>4 DEF Reject, TokenInv, TokenTypeOK, Call, EndPcs
    <2>3. Newer' /\ RetryIsNewer' /\ TokenTypeOK'
      BY <1>4, <2>1, <2>2 DEF Reject, TokenInv, Newer, RetryIsNewer, TokenTypeOK
    <2> QED
      BY <1>0, <1>4, <2>1, <2>3 DEF Reject, TokenInv
  <1> QED
    BY <1>1, <1>2, <1>3, <1>4

\* A step of one call.
LEMMA CallStep ==
  ASSUME TokenInv, NEW c \in Callers, NEW x \in Call,
         call' = [call EXCEPT ![c] = x],
         x.token <= accessToken, x.first <= accessToken,
         x.pc = "send" /\ x.force => x.token > x.first,
         UNCHANGED <<accessToken, issued, expired>>
  PROVE  /\ call' \in [Callers -> Call]
         /\ \A d \in Callers :
              call'[d].token <= accessToken' /\ call'[d].first <= accessToken'
         /\ RetryIsNewer'
  <1>1. call \in [Callers -> Call]
    BY DEF TokenInv, TokenTypeOK
  <1>2. call' \in [Callers -> Call] /\ \A d \in Callers : call'[d] = x \/ call'[d] = call[d]
    BY <1>1
  <1>3. \A d \in Callers : call'[d].token <= accessToken' /\ call'[d].first <= accessToken'
    BY <1>2 DEF TokenInv, Newer
  <1>4. RetryIsNewer'
    BY <1>2 DEF TokenInv, RetryIsNewer
  <1> QED
    BY <1>2, <1>3, <1>4

\* One that leaves the renewals alone.
LEMMA CallInv ==
  ASSUME TokenInv, NEW c \in Callers, NEW x \in Call,
         call' = [call EXCEPT ![c] = x],
         x.token <= accessToken, x.first <= accessToken,
         x.pc = "send" /\ x.force => x.token > x.first,
         UNCHANGED <<accessToken, inflight, renewals, issued, expired>>
  PROVE  TokenInv'
  <1>1. /\ call' \in [Callers -> Call]
        /\ \A d \in Callers :
             call'[d].token <= accessToken' /\ call'[d].first <= accessToken'
        /\ RetryIsNewer'
    BY CallStep
  <1>2. TokenTypeOK'
    BY <1>1 DEF TokenInv, TokenTypeOK
  <1>3. InFlight'
    BY DEF TokenInv, InFlight, OneRenewal
  <1>4. Newer'
    BY <1>1 DEF TokenInv, Newer
  <1> QED
    BY <1>1, <1>2, <1>3, <1>4 DEF TokenInv

LEMMA FetchingInv ==
  ASSUME TokenInv, NEW c \in Callers, Begin(c) \/ Fetching(c)
  PROVE  TokenInv' /\ UNCHANGED accessToken
  <1>0. /\ call[c] \in Call /\ accessToken \in Nat /\ inflight \in Nat
        /\ call \in [Callers -> Call]
    BY DEF TokenInv, TokenTypeOK
  <1>00. /\ call[c].token <= accessToken /\ call[c].first <= accessToken
         /\ accessToken <= accessToken /\ 0 <= accessToken
    BY <1>0 DEF TokenInv, Newer
  <1>1. CASE Begin(c)
    <2>1. /\ NewCall \in Call /\ NewCall.token = 0 /\ NewCall.first = 0
          /\ NewCall.pc = "ask"
      BY DEF NewCall, Call, EndPcs
    <2>2. /\ call' = [call EXCEPT ![c] = NewCall]
          /\ UNCHANGED <<accessToken, inflight, renewals, issued, expired>>
      BY <1>1 DEF Begin
    <2> HIDE DEF NewCall
    <2>3. TokenInv'
      BY <1>00, <2>1, <2>2, CallInv
    <2> QED
      BY <2>2, <2>3
  <1>2. CASE TakeCached(c)
    <2> DEFINE x == [call[c] EXCEPT !.pc = "send", !.token = accessToken]
    <2>1. /\ x \in Call /\ x.token = accessToken /\ x.first = call[c].first
          /\ ~x.force
      BY <1>0, <1>2 DEF TakeCached, Cached, Call
    <2>2. /\ call' = [call EXCEPT ![c] = x]
          /\ UNCHANGED <<accessToken, inflight, renewals, issued, expired>>
      BY <1>0, <1>2 DEF TakeCached
    <2> HIDE DEF x
    <2>3. TokenInv'
      BY <1>00, <2>1, <2>2, CallInv
    <2> QED
      BY <2>2, <2>3
  <1>3. CASE Join(c)
    <2> DEFINE x == [call[c] EXCEPT !.pc = "wait", !.promise = inflight]
    <2>1. /\ x \in Call /\ x.token = call[c].token /\ x.first = call[c].first
          /\ x.pc = "wait"
      BY <1>0 DEF Call
    <2>2. /\ call' = [call EXCEPT ![c] = x]
          /\ UNCHANGED <<accessToken, inflight, renewals, issued, expired>>
      BY <1>0, <1>3 DEF Join
    <2> HIDE DEF x
    <2>3. TokenInv'
      BY <1>00, <2>1, <2>2, CallInv
    <2> QED
      BY <2>2, <2>3
  <1>4. CASE Renew(c)
    <2> DEFINE x == [call[c] EXCEPT !.pc = "wait", !.promise = NewId]
               y == [id |-> NewId, pc |-> "refresh", token |-> 0]
    <2>1. renewals = {}
      BY <1>4 DEF Renew, CanJoin, TokenInv, InFlight
    <2>2. NewId \in Nat \ {0}
      BY <2>1, NewIdType
    <2>3. /\ x \in Call /\ x.token = call[c].token /\ x.first = call[c].first
          /\ x.pc = "wait"
      BY <1>0, <2>2 DEF Call
    <2>4. /\ renewals' = {y} /\ inflight' = NewId /\ y \in Renewal /\ y.id = NewId
          /\ y.pc = "refresh"
      BY <1>4, <2>1, <2>2 DEF Renew, Renewal
    <2>5. /\ call' = [call EXCEPT ![c] = x]
          /\ UNCHANGED <<accessToken, issued, expired>>
      BY <1>0, <1>4 DEF Renew
    <2> HIDE DEF x, y
    <2>6. InFlight'
      BY <2>2, <2>4 DEF InFlight, OneRenewal
    <2>7. /\ call' \in [Callers -> Call]
          /\ \A d \in Callers :
               call'[d].token <= accessToken' /\ call'[d].first <= accessToken'
          /\ RetryIsNewer'
      BY <1>00, <2>3, <2>5, CallStep
    <2>8. TokenTypeOK'
      BY <2>2, <2>4, <2>5, <2>7 DEF TokenInv, TokenTypeOK
    <2>9. Newer'
      BY <2>4, <2>5, <2>7 DEF TokenInv, Newer
    <2> QED
      BY <2>5, <2>6, <2>7, <2>8, <2>9 DEF TokenInv
  <1>5. CASE Answered(c)
    <2>1. PICK pc \in {"ok", "failed"} : call' = [call EXCEPT ![c].pc = pc]
      BY <1>5 DEF Answered
    <2> DEFINE x == [call[c] EXCEPT !.pc = pc]
    <2>2. /\ x \in Call /\ x.token = call[c].token /\ x.first = call[c].first
          /\ x.pc # "send"
      BY <1>0 DEF Call, EndPcs
    <2>3. /\ call' = [call EXCEPT ![c] = x]
          /\ UNCHANGED <<accessToken, inflight, renewals, issued, expired>>
      BY <1>0, <1>5, <2>1 DEF Answered
    <2> HIDE DEF x
    <2>4. TokenInv'
      BY <1>00, <2>2, <2>3, CallInv
    <2> QED
      BY <2>3, <2>4
  <1>6. CASE Unauthorized(c)
    <2> DEFINE x == [call[c] EXCEPT !.pc = "denied"]
               y == [call[c] EXCEPT !.pc = "ask", !.force = TRUE, !.first = call[c].token]
    <2>1. /\ x \in Call /\ x.token = call[c].token /\ x.first = call[c].first
          /\ x.pc # "send"
      BY <1>0 DEF Call, EndPcs
    <2>2. /\ y \in Call /\ y.token = call[c].token /\ y.first = call[c].token
          /\ y.pc # "send"
      BY <1>0 DEF Call
    <2>3. /\ call' = [call EXCEPT ![c] = x] \/ call' = [call EXCEPT ![c] = y]
          /\ UNCHANGED <<accessToken, inflight, renewals, issued, expired>>
      BY <1>0, <1>6 DEF Unauthorized
    <2> HIDE DEF x, y
    <2>4. CASE call' = [call EXCEPT ![c] = x]
      BY <1>00, <2>1, <2>3, <2>4, CallInv
    <2>5. CASE call' = [call EXCEPT ![c] = y]
      BY <1>00, <2>2, <2>3, <2>5, CallInv
    <2> QED
      BY <2>3, <2>4, <2>5
  <1> QED
    BY <1>1, <1>2, <1>3, <1>4, <1>5, <1>6 DEF Fetching

LEMMA NextTokenInv == TokenInv /\ [TokenNext]_tokenVars => TokenInv' /\ accessToken' >= accessToken
  <1> SUFFICES ASSUME TokenInv, [TokenNext]_tokenVars
               PROVE  TokenInv' /\ accessToken' >= accessToken
    OBVIOUS
  <1>0. accessToken \in Nat
    BY DEF TokenInv, TokenTypeOK
  <1>1. CASE Renewing
    BY <1>1, RenewingInv
  <1>2. CASE Expire
    BY <1>0, <1>2 DEF Expire, TokenInv, TokenTypeOK, InFlight, OneRenewal, Newer, RetryIsNewer
  <1>3. ASSUME NEW c \in Callers, Begin(c) \/ Fetching(c)
        PROVE  TokenInv' /\ accessToken' >= accessToken
    BY <1>0, <1>3, FetchingInv
  <1>4. CASE UNCHANGED tokenVars
    BY <1>0, <1>4 DEF tokenVars, TokenInv, TokenTypeOK, InFlight, OneRenewal, Newer,
       RetryIsNewer
  <1> QED
    BY <1>1, <1>2, <1>3, <1>4 DEF TokenNext

-----------------------------------------------------------------------------
(* The shim. *)

\* What an attempt has been answered before it waits where it is.
Done == [sse |-> {}, session |-> {"sse"}, initialize |-> {"sse", "session"},
         tools |-> {"sse", "session", "initialize"}]

Attempting ==
  shim.pc \in Steps \cup {"aclose"} =>
    /\ session = None /\ stack = None
    /\ \A x \in opened : x.attempt = shim.attempt
    /\ shim.pc \in Steps => shim.done = Done[shim.pc]
    /\ shim.pc = "sse" => opened = {}

Serving ==
  /\ shim.pc \in {"serving", "closing"} =>
       /\ stack = session /\ session.since = Steps
       /\ \A x \in opened : x.attempt = stack.attempt
  /\ shim.pc = "exited" => opened = {} /\ stack = None
  /\ session # None => session.since = Steps

ShimInv == UpstreamTypeOK /\ Attempting /\ Serving

LEMMA InitShimInv == UpstreamInit => ShimInv
  BY UpstreamAssumptions
     DEF UpstreamInit, ShimInv, UpstreamTypeOK, Attempting, Serving, None, Session, Steps,
         Done, Transport

LEMMA NextShimInv == ShimInv /\ [UpstreamNext]_shimVars => ShimInv'
  <1> SUFFICES ASSUME ShimInv, [UpstreamNext]_shimVars PROVE ShimInv'
    OBVIOUS
  <1> USE UpstreamAssumptions
  <1> USE DEF ShimInv
  <1>0. None \in Session
    BY DEF None, Session
  <1>1. CASE UpstreamStops \/ UpstreamStarts
    <2>1. UNCHANGED <<shim, session, stack, opened, request>>
      BY <1>1 DEF UpstreamStops, UpstreamStarts
    <2>2. upstream' \in [up : BOOLEAN, epoch : Nat]
      <3>1. upstream \in [up : BOOLEAN, epoch : Nat] /\ upstream.epoch + 1 \in Nat
        BY DEF UpstreamTypeOK
      <3>2. CASE UpstreamStops
        BY <3>1, <3>2 DEF UpstreamStops
      <3>3. CASE UpstreamStarts
        BY <3>1, <3>3 DEF UpstreamStarts
      <3> QED
        BY <1>1, <3>2, <3>3
    <2>3. UpstreamTypeOK'
      BY <2>1, <2>2 DEF UpstreamTypeOK
    <2> QED
      BY <2>1, <2>3 DEF Attempting, Serving
  <1>2. CASE EnterTransport
    <2> DEFINE x == [attempt |-> shim.attempt, epoch |-> upstream.epoch]
    <2>1. x \in Transport /\ x.attempt = shim.attempt /\ upstream.epoch \in Nat
      BY DEF UpstreamTypeOK, Transport
    <2>2. /\ shim.pc = "sse" /\ opened' = opened \cup {x}
          /\ shim' = [shim EXCEPT !.pc = "session", !.epoch = upstream.epoch, !.done = {"sse"}]
          /\ UNCHANGED <<upstream, session, stack, request>>
      BY <1>2 DEF EnterTransport
    <2> HIDE DEF x
    <2>3. /\ shim' \in [pc : Steps \cup {"aclose", "serving", "closing", "exited"},
                        attempt : 1 .. Attempts, epoch : Nat, done : SUBSET Steps]
          /\ shim'.pc = "session" /\ shim'.attempt = shim.attempt /\ shim'.done = {"sse"}
      BY <2>1, <2>2 DEF UpstreamTypeOK, Steps
    <2>4. UpstreamTypeOK'
      BY <2>1, <2>2, <2>3 DEF UpstreamTypeOK
    <2>5. Attempting'
      BY <2>1, <2>2, <2>3 DEF Attempting, Steps, Done
    <2>6. Serving'
      BY <2>2, <2>3 DEF Serving
    <2> QED
      BY <2>4, <2>5, <2>6
  <1>3. CASE Advance
    <2>1. /\ shim.pc \in {"session", "initialize"}
          /\ shim' = [shim EXCEPT !.pc = NextStep[shim.pc], !.done = @ \cup {shim.pc}]
          /\ UNCHANGED <<upstream, session, stack, opened, request>>
      BY <1>3 DEF Advance
    <2>2. NextStep[shim.pc] \in {"initialize", "tools"}
      BY <2>1 DEF NextStep
    <2>3. shim' \in [pc : Steps \cup {"aclose", "serving", "closing", "exited"},
                     attempt : 1 .. Attempts, epoch : Nat, done : SUBSET Steps]
      BY <2>1, <2>2 DEF UpstreamTypeOK, Steps
    <2>4. /\ shim'.attempt = shim.attempt /\ shim'.pc = NextStep[shim.pc]
          /\ shim'.done = shim.done \cup {shim.pc}
      BY <2>1 DEF UpstreamTypeOK
    <2>5. shim'.done = Done[shim'.pc]
      <3>1. shim.done = Done[shim.pc]
        BY <2>1 DEF Attempting, Steps
      <3> QED
        BY <2>1, <2>4, <3>1 DEF Done, NextStep
    <2>6. Attempting'
      BY <2>1, <2>2, <2>4, <2>5 DEF Attempting, Steps
    <2>7. UpstreamTypeOK' /\ Serving'
      BY <2>1, <2>2, <2>3, <2>4 DEF UpstreamTypeOK, Serving
    <2> QED
      BY <2>6, <2>7
  <1>4. CASE Commit
    <2>1. ThisSession \in Session /\ ThisSession.since = Steps
          /\ ThisSession.attempt = shim.attempt
      BY <1>4 DEF Commit, ThisSession, UpstreamTypeOK, Attempting, Session, Steps, Done
    <2> QED
      BY <1>4, <2>1 DEF Commit, UpstreamTypeOK, Attempting, Serving, Steps
  <1>5. CASE AttemptFails
    BY <1>5 DEF AttemptFails, UpstreamTypeOK, Attempting, Serving, Steps
  <1>6. CASE CloseAttempt
    <2>1. opened' = {}
      BY <1>6 DEF CloseAttempt, Attempting
    <2>2. session = None /\ stack = None
      BY <1>6 DEF CloseAttempt, Attempting
    <2>3. CASE shim.attempt = Attempts
      BY <1>6, <2>1, <2>2, <2>3
         DEF CloseAttempt, UpstreamTypeOK, Attempting, Serving, Steps
    <2>4. CASE shim.attempt # Attempts
      <3>1. shim.attempt + 1 \in 1 .. Attempts
        BY <2>4 DEF UpstreamTypeOK
      <3>2. shim' = [pc |-> "sse", attempt |-> shim.attempt + 1, epoch |-> 0, done |-> {}]
        BY <1>6, <2>4 DEF CloseAttempt
      <3> QED
        BY <1>6, <2>1, <2>2, <3>1, <3>2
           DEF CloseAttempt, UpstreamTypeOK, Attempting, Serving, Steps, Done
    <2> QED
      BY <2>3, <2>4
  <1>7. CASE Accept \/ Forward \/ ForwardFails
    BY <1>7 DEF Accept, Forward, ForwardFails, UpstreamTypeOK, Attempting, Serving
  <1>8. CASE Shutdown
    BY <1>8 DEF Shutdown, UpstreamTypeOK, Attempting, Serving, Steps
  <1>9. CASE CloseUpstream
    <2>1. opened' = {}
      BY <1>9 DEF CloseUpstream, Serving
    <2> QED
      BY <1>0, <1>9, <2>1 DEF CloseUpstream, UpstreamTypeOK, Attempting, Serving, Steps
  <1>10. CASE UNCHANGED shimVars
    BY <1>10 DEF shimVars, UpstreamTypeOK, Attempting, Serving
  <1> QED
    BY <1>1, <1>2, <1>3, <1>4, <1>5, <1>6, <1>7, <1>8, <1>9, <1>10
       DEF UpstreamNext, Opening

LEMMA ShimSafe == ShimInv => NothingLeaks /\ CommittedIsWhole
  BY DEF ShimInv, UpstreamTypeOK, Attempting, Serving, NothingLeaks, CommittedIsWhole, Steps

-----------------------------------------------------------------------------
(* Both. *)

SessionsInv == TokenInv /\ ShimInv /\ client \in {"dashboard", "shim"}

LEMMA InitSessionsInv == SessionsInit => SessionsInv
  BY InitTokenInv, InitShimInv DEF SessionsInit, SessionsInv

LEMMA NextSessionsInv ==
  SessionsInv /\ [SessionsNext]_sessionsVars => SessionsInv' /\ [accessToken' >= accessToken]_tokenVars
  <1> SUFFICES ASSUME SessionsInv, [SessionsNext]_sessionsVars
               PROVE  SessionsInv' /\ [accessToken' >= accessToken]_tokenVars
    OBVIOUS
  <1>1. CASE Dashboard(TokenNext)
    <2>1. [UpstreamNext]_shimVars /\ UNCHANGED client
      BY <1>1 DEF Dashboard, shimVars
    <2>2. TokenInv' /\ accessToken' >= accessToken
      BY <1>1, NextTokenInv DEF Dashboard, SessionsInv
    <2>3. ShimInv'
      BY <2>1, NextShimInv DEF SessionsInv
    <2> QED
      BY <2>1, <2>2, <2>3 DEF SessionsInv
  <1>2. CASE Shim(UpstreamNext)
    <2>1. [TokenNext]_tokenVars /\ UNCHANGED <<tokenVars, client>>
      BY <1>2 DEF Shim
    <2>2. TokenInv'
      BY <2>1, NextTokenInv DEF SessionsInv
    <2>3. ShimInv'
      BY <1>2, NextShimInv DEF Shim, SessionsInv
    <2> QED
      BY <2>1, <2>2, <2>3 DEF SessionsInv
  <1>3. CASE UNCHANGED sessionsVars
    <2>1. UNCHANGED <<tokenVars, shimVars, client>>
      BY <1>3 DEF sessionsVars
    <2>2. TokenInv'
      BY <2>1, NextTokenInv DEF SessionsInv
    <2>3. ShimInv'
      BY <2>1, NextShimInv DEF SessionsInv
    <2> QED
      BY <2>1, <2>2, <2>3 DEF SessionsInv
  <1> QED
    BY <1>1, <1>2, <1>3 DEF SessionsNext

LEMMA SessionsInvariant == SessionsSpec => []SessionsInv
  <1>1. SessionsInv /\ [SessionsNext]_sessionsVars => SessionsInv'
    BY NextSessionsInv
  <1> QED
    BY <1>1, InitSessionsInv, PTL DEF SessionsSpec

\* The variables of both clients have their types.
THEOREM SessionsTypeCorrect == SessionsSpec => []SessionsTypeOK
  <1>1. SessionsInv => SessionsTypeOK
    BY DEF SessionsInv, TokenInv, ShimInv, SessionsTypeOK
  <1> QED
    BY <1>1, SessionsInvariant, PTL

\* However many calls need a token at once, librechat.ts makes one renewal.
THEOREM RenewalsAreShared == SessionsSpec => []OneRenewal
  <1>1. SessionsInv => OneRenewal
    BY DEF SessionsInv, TokenInv, InFlight
  <1> QED
    BY <1>1, SessionsInvariant, PTL

\* The second send of fetchWithAuth never repeats the token that was refused, nor
\* has one from before it: a renewal that it joins is answered after the first send.
THEOREM RetriesAreNewer == SessionsSpec => []RetryIsNewer
  <1>1. SessionsInv => RetryIsNewer
    BY DEF SessionsInv, TokenInv
  <1> QED
    BY <1>1, SessionsInvariant, PTL

\* Answers of renewals are stored in the order the server gave the tokens.
THEOREM TheCacheMovesOn == SessionsSpec => CacheMovesOn
  <1>1. SessionsInv /\ [SessionsNext]_sessionsVars => [accessToken' >= accessToken]_tokenVars
    BY NextSessionsInv
  <1> QED
    BY <1>1, SessionsInvariant, PTL DEF SessionsSpec, CacheMovesOn

\* However its attempts fail, the shim of server.py has no transport open that it
\* would not close.
THEOREM NoTransportLeaks == SessionsSpec => []NothingLeaks
  <1>1. SessionsInv => NothingLeaks
    BY ShimSafe DEF SessionsInv
  <1> QED
    BY <1>1, SessionsInvariant, PTL

\* No request is forwarded to a session that has not answered initialize() and
\* list_tools().
THEOREM SessionsAreWhole == SessionsSpec => []CommittedIsWhole
  <1>1. SessionsInv => CommittedIsWhole
    BY ShimSafe DEF SessionsInv
  <1> QED
    BY <1>1, SessionsInvariant, PTL
=============================================================================
