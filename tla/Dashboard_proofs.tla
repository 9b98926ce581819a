---------------------------- MODULE Dashboard_proofs ----------------------------
(***************************************************************************)
(* What is proved of the dashboard: the conversations (Chat) and the hooks *)
(* of the selected run (Dashboard).                                        *)
(*                                                                         *)
(* The two specifications share no variable.  A proof of either first says *)
(* what each action does to the lists and records it changes, then proves  *)
(* the types, and then one invariant for each property: the requests that  *)
(* are under way are as much a part of it as the screen is.                *)
(***************************************************************************)
EXTENDS Chat, Dashboard, StateStore_proofs, SequenceTheorems, FiniteSetTheorems

-----------------------------------------------------------------------------
(* What a step does to the list of requests. *)

LEMMA RemoveAtProperties ==
  ASSUME NEW S, NEW s \in Seq(S), NEW i \in 1 .. Len(s)
  PROVE  /\ RemoveAt(s, i) \in Seq(S)
         /\ Len(RemoveAt(s, i)) = Len(s) - 1
         /\ \A k \in 1 .. Len(s) - 1 :
              RemoveAt(s, i)[k] = IF k < i THEN s[k] ELSE s[k + 1]
  <1> DEFINE front == SubSeq(s, 1, i - 1)
             back  == SubSeq(s, i + 1, Len(s))
  <1>1. Len(s) \in Nat /\ \A k \in 1 .. Len(s) : s[k] \in S
    OBVIOUS
  <1>2. /\ front \in Seq(S) /\ Len(front) = i - 1
        /\ \A k \in 1 .. i - 1 : front[k] = s[k]
    <2>1. \A k \in 1 .. i - 1 : s[k] \in S
      BY <1>1
    <2>2. /\ front \in Seq(S)
          /\ Len(front) = IF 1 <= i - 1 THEN (i - 1) - 1 + 1 ELSE 0
          /\ \A k \in 1 .. (i - 1) - 1 + 1 : front[k] = s[1 + k - 1]
      BY <2>1, <1>1, SubSeqProperties
    <2> QED
      BY <1>1, <2>2
  <1>3. /\ back \in Seq(S) /\ Len(back) = Len(s) - i
        /\ \A k \in 1 .. Len(s) - i : back[k] = s[i + k]
    <2>1. \A k \in i + 1 .. Len(s) : s[k] \in S
      BY <1>1
    <2>2. /\ back \in Seq(S)
          /\ Len(back) = IF i + 1 <= Len(s) THEN Len(s) - (i + 1) + 1 ELSE 0
          /\ \A k \in 1 .. Len(s) - (i + 1) + 1 : back[k] = s[(i + 1) + k - 1]
      BY <2>1, <1>1, SubSeqProperties
    <2> QED
      BY <1>1, <2>2
  <1> HIDE DEF front, back
  <1>4. /\ front \o back \in Seq(S)
        /\ Len(front \o back) = Len(front) + Len(back)
        /\ \A k \in 1 .. Len(front) + Len(back) :
             (front \o back)[k] = IF k <= Len(front) THEN front[k] ELSE back[k - Len(front)]
    BY <1>2, <1>3, ConcatProperties
  <1>5. Len(front) + Len(back) = Len(s) - 1
    BY <1>1, <1>2, <1>3
  <1>6. ASSUME NEW k \in 1 .. Len(s) - 1
        PROVE  (front \o back)[k] = IF k < i THEN s[k] ELSE s[k + 1]
    <2>1. CASE k < i
      BY <1>1, <1>2, <1>4, <1>5, <2>1
    <2>2. CASE ~(k < i)
      <3>1. k - (i - 1) \in 1 .. Len(s) - i /\ i + (k - (i - 1)) = k + 1
        BY <1>1, <2>2
      <3>2. (front \o back)[k] = back[k - (i - 1)]
        BY <1>1, <1>2, <1>4, <1>5, <2>2
      <3> QED
        BY <1>3, <2>2, <3>1, <3>2
    <2> QED
      BY <2>1, <2>2
  <1> QED
    BY <1>4, <1>5, <1>6 DEF RemoveAt, front, back

\* One request changes.
LEMMA OneMoves ==
  ASSUME requests \in Seq(Request), NEW i \in DOMAIN requests, NEW v \in Request,
         requests' = [requests EXCEPT ![i] = v]
  PROVE  /\ requests' \in Seq(Request) /\ Len(requests') = Len(requests)
         /\ requests'[i] = v
         /\ \A j \in DOMAIN requests \ {i} : requests'[j] = requests[j]
  <1>1. i \in 1 .. Len(requests)
    OBVIOUS
  <1> QED
    BY <1>1, ExceptSeq

-----------------------------------------------------------------------------
(* Types *)

LEMMA ChatInitType == ChatInit => ChatTypeOK
  BY EmptySeq, ChatAssumptions DEF ChatInit, ChatTypeOK, NewProcess, AgentIds, Page,
     Askers

ApiType == [loaded : BOOLEAN, agents : [Sources -> AgentIds], user : BOOLEAN]

BoundsType == [clicks : Nat, picks : Nat, moves : Nat, events : Nat, resets : Nat]

LEMMA LoadAgentsType ==
  ASSUME ChatTypeOK, NEW s, LoadAgents(s)
  PROVE  api' \in ApiType
  <1>1. api \in ApiType /\ mongo.agents \in [Sources -> AgentIds]
    BY DEF ChatTypeOK, ApiType
  <1>2. CASE UNCHANGED api
    BY <1>1, <1>2
  <1>3. ASSUME NEW read \in SUBSET Sources,
               api' = [api EXCEPT
                 !.loaded = TRUE,
                 !.agents = [x \in Sources |->
                   IF x \in read /\ mongo.agents[x] # 0 THEN mongo.agents[x]
                   ELSE api.agents[x]]]
        PROVE  api' \in ApiType
    <2> DEFINE got == [x \in Sources |->
                         IF x \in read /\ mongo.agents[x] # 0 THEN mongo.agents[x]
                         ELSE api.agents[x]]
    <2>1. got \in [Sources -> AgentIds]
      BY <1>1 DEF ApiType
    <2> HIDE DEF got
    <2>2. api' = [api EXCEPT !.loaded = TRUE, !.agents = got]
      BY <1>3 DEF got
    <2> QED
      BY <1>1, <2>1, <2>2 DEF ApiType
  <1> QED
    BY <1>2, <1>3 DEF LoadAgents

\* What the steps of the API have in common: one request moves on.
Serves(i, v) ==
  /\ requests' = [requests EXCEPT ![i] = v]
  /\ v.source = requests[i].source /\ v.late = requests[i].late
  /\ v.lost = requests[i].lost /\ v.pc # "manifest"
  /\ UNCHANGED <<mongo, page, bounds>>

Unfound(i, v) ==
  v.pc = "insert" => /\ v.after = Len(conversations)
                     /\ OfAgent(v.source, v.agent) = {}

LEMMA ReadManifestFields ==
  ASSUME ChatTypeOK, NEW i \in DOMAIN requests, ReadManifest(i)
  PROVE  /\ requests[i].pc = "manifest" /\ LoadAgents(requests[i].source)
         /\ UNCHANGED conversations
         /\ \E v \in Request :
              /\ Serves(i, v) /\ v.pc # "insert"
              /\ v.conv \in {0, requests[i].conv}
              /\ IF api'.agents[v.source] = 0 THEN v.agent = requests[i].agent
                 ELSE v.agent = api'.agents[v.source]
  <1> DEFINE r == requests[i]
             s == r.source
  <1>1. r \in Request
    BY ElementOfSeq DEF ChatTypeOK
  <1>2. api' \in ApiType
    BY LoadAgentsType DEF ReadManifest
  <1>3. api'.agents[s] \in Nat
    BY <1>1, <1>2 DEF ApiType, Request, AgentIds
  <1>4. CASE api'.agents[s] = 0
    <2> DEFINE v == [r EXCEPT !.pc = "answer", !.conv = 0]
    <2>1. requests' = [requests EXCEPT ![i] = v]
      BY <1>4 DEF ReadManifest, Fail
    <2>2. /\ v \in Request /\ v.source = s /\ v.late = r.late /\ v.lost = r.lost /\ v.pc = "answer"
          /\ v.conv = 0 /\ v.agent = r.agent
      BY <1>1 DEF Request
    <2> HIDE DEF v
    <2>3. Serves(i, v)
      BY <2>1, <2>2 DEF Serves, ReadManifest
    <2> QED
      BY <1>4, <2>2, <2>3 DEF ReadManifest
  <1>5. CASE api'.agents[s] # 0
    <2> DEFINE v == [r EXCEPT !.pc = "user", !.agent = api'.agents[s]]
    <2>1. requests' = [requests EXCEPT ![i] = v]
      BY <1>5 DEF ReadManifest
    <2>2. /\ v \in Request /\ v.source = s /\ v.late = r.late /\ v.lost = r.lost /\ v.pc = "user"
          /\ v.conv = r.conv /\ v.agent = api'.agents[s]
      BY <1>1, <1>3 DEF Request, AgentIds
    <2> HIDE DEF v
    <2>3. Serves(i, v)
      BY <2>1, <2>2 DEF Serves, ReadManifest
    <2> QED
      BY <1>5, <2>2, <2>3 DEF ReadManifest
  <1> QED
    BY <1>4, <1>5

LEMMA FailFields ==
  ASSUME ChatTypeOK, NEW i \in DOMAIN requests, Fail(i), UNCHANGED <<mongo, page, bounds>>
  PROVE  \E v \in Request :
           Serves(i, v) /\ v.pc # "insert" /\ v.conv = 0 /\ v.agent = requests[i].agent
  <1> DEFINE r == requests[i]
             v == [r EXCEPT !.pc = "answer", !.conv = 0]
  <1>1. r \in Request
    BY ElementOfSeq DEF ChatTypeOK
  <1>2. requests' = [requests EXCEPT ![i] = v]
    BY DEF Fail
  <1>3. /\ v \in Request /\ v.source = r.source /\ v.late = r.late /\ v.lost = r.lost /\ v.pc = "answer"
        /\ v.conv = 0 /\ v.agent = r.agent
    BY <1>1 DEF Request
  <1> HIDE DEF v
  <1>4. Serves(i, v)
    BY <1>2, <1>3 DEF Serves
  <1> QED
    BY <1>3, <1>4

LEMMA FindUserFields ==
  ASSUME ChatTypeOK, NEW i \in DOMAIN requests, FindUser(i)
  PROVE  /\ requests[i].pc = "user" /\ UNCHANGED conversations
         /\ api' = [api EXCEPT !.user = api.user \/ mongo.up]
         /\ \E v \in Request :
              Serves(i, v) /\ v.pc # "insert" /\ v.conv \in {0, requests[i].conv}
  <1> DEFINE r == requests[i]
             v == [r EXCEPT !.pc = "find"]
  <1>1. r \in Request
    BY ElementOfSeq DEF ChatTypeOK
  <1>2. CASE Fail(i)
    BY <1>2, FailFields DEF FindUser
  <1>3. CASE requests' = [requests EXCEPT ![i] = v]
    <2>1. /\ v \in Request /\ v.source = r.source /\ v.late = r.late /\ v.lost = r.lost /\ v.pc = "find"
          /\ v.conv = r.conv
      BY <1>1 DEF Request
    <2> HIDE DEF v
    <2>2. Serves(i, v)
      BY <1>3, <2>1 DEF Serves, FindUser
    <2> QED
      BY <2>1, <2>2 DEF FindUser
  <1> QED
    BY <1>2, <1>3 DEF FindUser

LEMMA FindConversationFields ==
  ASSUME ChatTypeOK, NEW i \in DOMAIN requests, FindConversation(i)
  PROVE  /\ requests[i].pc = "find" /\ UNCHANGED <<conversations, api>>
         /\ \E v \in Request :
              /\ Serves(i, v) /\ Unfound(i, v)
              /\ v.conv \in {0, requests[i].conv} \cup
                              OfAgent(requests[i].source, requests[i].agent)
  <1> DEFINE r == requests[i]
             found == OfAgent(r.source, r.agent)
  <1>1. r \in Request /\ Len(conversations) \in Nat /\ found \subseteq Nat
    BY ElementOfSeq DEF ChatTypeOK, OfAgent
  <1>2. CASE Fail(i)
    BY <1>2, FailFields DEF FindConversation, Unfound
  <1>3. ASSUME NEW c \in found,
               requests' = [requests EXCEPT ![i].pc = "answer", ![i].conv = c]
        PROVE  \E v \in Request :
                 Serves(i, v) /\ Unfound(i, v) /\ v.conv \in {0, r.conv} \cup found
    <2> DEFINE v == [r EXCEPT !.pc = "answer", !.conv = c]
    <2>1. requests' = [requests EXCEPT ![i] = v]
      BY <1>3
    <2>2. c \in Nat
      BY <1>1
    <2> HIDE DEF found
    <2>3. /\ v \in Request /\ v.source = r.source /\ v.late = r.late /\ v.lost = r.lost /\ v.pc = "answer"
          /\ v.conv = c
      BY <1>1, <2>2 DEF Request
    <2> HIDE DEF v
    <2>4. Serves(i, v) /\ Unfound(i, v)
      BY <2>1, <2>3 DEF Serves, Unfound, FindConversation
    <2> QED
      BY <1>3, <2>3, <2>4
  <1>4. ASSUME found = {},
               requests' = [requests EXCEPT ![i].pc = "insert",
                                            ![i].after = Len(conversations)]
        PROVE  \E v \in Request :
                 Serves(i, v) /\ Unfound(i, v) /\ v.conv \in {0, r.conv} \cup found
    <2> DEFINE v == [r EXCEPT !.pc = "insert", !.after = Len(conversations)]
    <2>1. requests' = [requests EXCEPT ![i] = v]
      BY <1>4
    <2>2. /\ v \in Request /\ v.source = r.source /\ v.late = r.late /\ v.lost = r.lost /\ v.pc = "insert"
          /\ v.conv = r.conv /\ v.agent = r.agent /\ v.after = Len(conversations)
      BY <1>1 DEF Request
    <2> HIDE DEF v
    <2>3. Serves(i, v) /\ Unfound(i, v)
      BY <1>4, <2>1, <2>2 DEF Serves, Unfound, FindConversation
    <2> QED
      BY <2>2, <2>3
  <1> QED
    BY <1>2, <1>3, <1>4 DEF FindConversation

Inserted(i) == [source |-> requests[i].source, agent |-> requests[i].agent,
                by |-> "request", after |-> requests[i].after]

LEMMA InsertConversationFields ==
  ASSUME ChatTypeOK, NEW i \in DOMAIN requests, InsertConversation(i)
  PROVE  /\ requests[i].pc = "insert" /\ UNCHANGED api
         /\ \E v \in Request :
              /\ Serves(i, v) /\ v.pc = "answer"
              /\ \/ v.conv = 0 /\ UNCHANGED conversations
                 \/ /\ v.conv = Len(conversations) + 1
                    /\ conversations' = Append(conversations, Inserted(i))
  <1> DEFINE r == requests[i]
  <1>1. r \in Request /\ Len(conversations) \in Nat
    BY ElementOfSeq DEF ChatTypeOK
  <1>2. CASE Fail(i) /\ UNCHANGED conversations
    <2> DEFINE v == [r EXCEPT !.pc = "answer", !.conv = 0]
    <2>1. requests' = [requests EXCEPT ![i] = v]
      BY <1>2 DEF Fail
    <2>2. /\ v \in Request /\ v.source = r.source /\ v.late = r.late /\ v.lost = r.lost /\ v.pc = "answer"
          /\ v.conv = 0
      BY <1>1 DEF Request
    <2> HIDE DEF v
    <2>3. Serves(i, v)
      BY <2>1, <2>2 DEF Serves, InsertConversation
    <2> QED
      BY <1>2, <2>2, <2>3 DEF InsertConversation
  <1>3. CASE /\ conversations' = Append(conversations, Inserted(i))
             /\ requests' = [requests EXCEPT ![i].pc = "answer",
                                             ![i].conv = Len(conversations) + 1]
    <2> DEFINE k == Len(conversations) + 1
               v == [r EXCEPT !.pc = "answer", !.conv = k]
    <2>1. requests' = [requests EXCEPT ![i] = v]
      BY <1>3
    <2>2. k \in Nat
      BY <1>1
    <2> HIDE DEF k
    <2>3. /\ v \in Request /\ v.source = r.source /\ v.late = r.late /\ v.lost = r.lost /\ v.pc = "answer"
          /\ v.conv = k
      BY <1>1, <2>2 DEF Request
    <2> HIDE DEF v
    <2>4. Serves(i, v)
      BY <2>1, <2>3 DEF Serves, InsertConversation
    <2> QED
      BY <1>3, <2>3, <2>4 DEF InsertConversation, k
  <1> QED
    BY <1>2, <1>3 DEF InsertConversation, Inserted

LEMMA RestartFields ==
  ASSUME ChatTypeOK, RestartApi
  PROVE  /\ requests' \in Seq(Request) /\ Len(requests') = Len(requests)
         /\ \A i \in DOMAIN requests :
              LET r == requests[i]
                  v == requests'[i] IN
              /\ v.source = r.source /\ v.late = r.late /\ v.lost = r.lost
              /\ v.pc = "answer" /\ v.conv \in {0, r.conv}
         /\ api' = NewProcess /\ UNCHANGED <<mongo, conversations, page>>
  <1> DEFINE v(i) == IF requests[i].pc = "answer" THEN requests[i]
                     ELSE [requests[i] EXCEPT !.pc = "answer", !.conv = 0]
             n == Len(requests)
  <1>1. n \in Nat /\ DOMAIN requests = 1 .. n
    BY LenProperties DEF ChatTypeOK
  <1>2. ASSUME NEW i \in 1 .. n
        PROVE  /\ v(i) \in Request
               /\ v(i).source = requests[i].source /\ v(i).late = requests[i].late
               /\ v(i).lost = requests[i].lost
               /\ v(i).pc = "answer" /\ v(i).conv \in {0, requests[i].conv}
    <2>1. requests[i] \in Request
      BY ElementOfSeq DEF ChatTypeOK
    <2> QED
      BY <2>1 DEF Request
  <1>3. requests' = [i \in 1 .. n |-> v(i)]
    BY <1>1 DEF RestartApi
  <1> HIDE DEF v
  <1>4. requests' \in [1 .. n -> Request]
    BY <1>2, <1>3
  <1>5. requests' \in Seq(Request) /\ Len(requests') = n
    BY <1>1, <1>4
  <1>6. \A i \in 1 .. n : requests'[i] = v(i)
    BY <1>3
  <1> QED
    BY <1>1, <1>2, <1>5, <1>6 DEF RestartApi

NewRequest(s) == [source |-> s, pc |-> "manifest", agent |-> 0, after |-> 0,
                  conv |-> 0, late |-> FALSE, lost |-> FALSE]

LEMMA ChangeSourceFields ==
  ASSUME ChatTypeOK, NEW s \in Sources, ChangeSource(s)
  PROVE  /\ requests' \in Seq(Request) /\ Len(requests') = Len(requests) + 1
         /\ requests'[Len(requests) + 1] = NewRequest(s)
         /\ \A i \in 1 .. Len(requests) : requests'[i] = requests[i]
         /\ page' = [page EXCEPT !.source = s, !.timer = page.shown]
         /\ UNCHANGED <<mongo, conversations, api>>
  <1>1. NewRequest(s) \in Request
    BY DEF NewRequest, Request, AgentIds
  <1>2. requests' = Append(requests, NewRequest(s)) /\ requests \in Seq(Request)
    BY DEF ChatTypeOK, ChangeSource, NewRequest
  <1> HIDE DEF NewRequest
  <1> QED
    BY <1>1, <1>2 DEF ChangeSource

\* The answer to request i is shown: those sent before it are late.
LEMMA ShowFields ==
  ASSUME ChatTypeOK, NEW i \in 1 .. Len(requests), ShowConversation(i)
  PROVE  /\ requests' \in Seq(Request) /\ Len(requests') = Len(requests) - 1
         /\ \A k \in 1 .. Len(requests) - 1 :
              LET r == requests[IF k < i THEN k ELSE k + 1]
                  v == requests'[k] IN
              /\ v.source = r.source /\ v.pc = r.pc /\ v.agent = r.agent
              /\ v.after = r.after /\ v.conv = r.conv
              /\ v.late = (r.late \/ k < i) /\ v.lost = r.lost
         /\ UNCHANGED <<mongo, conversations, api>>
  <1> DEFINE n == Len(requests)
             v(j) == [requests[j] EXCEPT !.late = @ \/ j < i]
             marked == [j \in 1 .. n |-> v(j)]
  <1>1. n \in Nat /\ DOMAIN requests = 1 .. n
    BY LenProperties DEF ChatTypeOK
  <1>2. ASSUME NEW j \in 1 .. n
        PROVE  /\ v(j) \in Request
               /\ v(j).source = requests[j].source /\ v(j).pc = requests[j].pc
               /\ v(j).agent = requests[j].agent /\ v(j).after = requests[j].after
               /\ v(j).conv = requests[j].conv
               /\ v(j).late = (requests[j].late \/ j < i) /\ v(j).lost = requests[j].lost
    <2>1. requests[j] \in Request
      BY ElementOfSeq DEF ChatTypeOK
    <2>2. (requests[j].late \/ j < i) \in BOOLEAN
      OBVIOUS
    <2> QED
      BY <2>1, <2>2 DEF Request
  <1>3. requests' = RemoveAt(marked, i)
    BY <1>1 DEF ShowConversation
  <1> HIDE DEF v
  <1>4. marked \in Seq(Request) /\ Len(marked) = n
    <2>1. marked \in [1 .. n -> Request]
      BY <1>2
    <2> QED
      BY <1>1, <2>1
  <1>5. \A j \in 1 .. n : marked[j] = v(j)
    OBVIOUS
  <1> HIDE DEF marked
  <1>6. /\ requests' \in Seq(Request) /\ Len(requests') = n - 1
        /\ \A k \in 1 .. n - 1 : requests'[k] = IF k < i THEN marked[k] ELSE marked[k + 1]
    BY <1>3, <1>4, RemoveAtProperties
  <1>7. ASSUME NEW k \in 1 .. n - 1
        PROVE  LET j == IF k < i THEN k ELSE k + 1 IN
               j \in 1 .. n /\ requests'[k] = v(j) /\ (j < i <=> k < i)
    BY <1>1, <1>5, <1>6
  <1>8. ASSUME NEW k \in 1 .. n - 1
        PROVE  LET r == requests[IF k < i THEN k ELSE k + 1]
                   w == requests'[k] IN
               /\ w.source = r.source /\ w.pc = r.pc /\ w.agent = r.agent
               /\ w.after = r.after /\ w.conv = r.conv
               /\ w.late = (r.late \/ k < i) /\ w.lost = r.lost
    <2> DEFINE j == IF k < i THEN k ELSE k + 1
    <2>1. j \in 1 .. n /\ requests'[k] = v(j) /\ (j < i <=> k < i)
      BY <1>7
    <2> HIDE DEF j
    <2>2. /\ v(j).source = requests[j].source /\ v(j).pc = requests[j].pc
          /\ v(j).agent = requests[j].agent /\ v(j).after = requests[j].after
          /\ v(j).conv = requests[j].conv /\ v(j).late = (requests[j].late \/ k < i)
          /\ v(j).lost = requests[j].lost
      BY <1>2, <2>1
    <2> QED
      BY <2>1, <2>2 DEF j
  <1> QED
    BY <1>6, <1>8 DEF ShowConversation

\* Whether the answer to request i is shown or dropped.
OneLess(i) ==
  /\ requests' \in Seq(Request) /\ Len(requests') = Len(requests) - 1
  /\ \A k \in 1 .. Len(requests) - 1 :
       LET r == requests[IF k < i THEN k ELSE k + 1]
           v == requests'[k] IN
       /\ v.source = r.source /\ v.pc = r.pc /\ v.agent = r.agent
       /\ v.after = r.after /\ v.conv = r.conv

LEMMA ShowIsOneLess ==
  ASSUME ChatTypeOK, NEW i \in 1 .. Len(requests), ShowConversation(i)
  PROVE  OneLess(i)
  BY Zenon, ShowFields DEF OneLess

LEMMA DropFields ==
  ASSUME ChatTypeOK, NEW i \in 1 .. Len(requests), DropAnswer(i)
  PROVE  /\ requests' \in Seq(Request) /\ Len(requests') = Len(requests) - 1
         /\ \A k \in 1 .. Len(requests) - 1 :
              requests'[k] = requests[IF k < i THEN k ELSE k + 1]
         /\ requests[i].lost /\ OneLess(i)
         /\ UNCHANGED <<mongo, conversations, api, page, bounds>>
  <1>1. requests \in Seq(Request) /\ requests' = RemoveAt(requests, i)
    BY DEF ChatTypeOK, DropAnswer
  <1>2. /\ requests' \in Seq(Request) /\ Len(requests') = Len(requests) - 1
        /\ \A k \in 1 .. Len(requests) - 1 :
             requests'[k] = IF k < i THEN requests[k] ELSE requests[k + 1]
    BY <1>1, RemoveAtProperties
  <1>3. \A k \in 1 .. Len(requests) - 1 :
          requests'[k] = requests[IF k < i THEN k ELSE k + 1]
    BY <1>2
  <1> QED
    BY <1>2, <1>3 DEF DropAnswer, OneLess

LEMMA ReopenFields ==
  ASSUME ChatTypeOK, ReopenPage
  PROVE  /\ requests' \in Seq(Request) /\ Len(requests') = Len(requests)
         /\ \A i \in 1 .. Len(requests) :
              LET r == requests[i]
                  v == requests'[i] IN
              /\ v.source = r.source /\ v.pc = r.pc /\ v.agent = r.agent
              /\ v.after = r.after /\ v.conv = r.conv /\ v.late /\ v.lost
         /\ UNCHANGED <<mongo, conversations, api>>
  <1> DEFINE v(i) == [requests[i] EXCEPT !.late = TRUE, !.lost = TRUE]
             n == Len(requests)
  <1>1. n \in Nat /\ DOMAIN requests = 1 .. n
    BY LenProperties DEF ChatTypeOK
  <1>2. ASSUME NEW i \in 1 .. n
        PROVE  /\ v(i) \in Request
               /\ v(i).source = requests[i].source /\ v(i).pc = requests[i].pc
               /\ v(i).agent = requests[i].agent /\ v(i).after = requests[i].after
               /\ v(i).conv = requests[i].conv
               /\ v(i).late = TRUE /\ v(i).lost = TRUE
    <2>1. requests[i] \in Request
      BY ElementOfSeq DEF ChatTypeOK
    <2> QED
      BY <2>1 DEF Request
  <1>3. requests' = [i \in 1 .. n |-> v(i)]
    BY <1>1 DEF ReopenPage
  <1> HIDE DEF v
  <1>4. requests' \in [1 .. n -> Request]
    BY <1>2, <1>3
  <1>5. requests' \in Seq(Request) /\ Len(requests') = n
    BY <1>1, <1>4
  <1>6. \A i \in 1 .. n : requests'[i] = v(i)
    BY <1>3
  <1> QED
    BY <1>2, <1>5, <1>6 DEF ReopenPage

\* A conversation is added to the others.
LEMMA AddedConversation ==
  ASSUME ChatTypeOK, NEW c \in Conversation, conversations' = Append(conversations, c)
  PROVE  /\ conversations' \in Seq(Conversation)
         /\ Len(conversations') = Len(conversations) + 1
         /\ conversations'[Len(conversations) + 1] = c
         /\ \A k \in 1 .. Len(conversations) : conversations'[k] = conversations[k]
  BY DEF ChatTypeOK

LEMMA InsertedType ==
  ASSUME ChatTypeOK, NEW i \in DOMAIN requests
  PROVE  Inserted(i) \in Conversation
  <1>1. requests[i] \in Request
    BY ElementOfSeq DEF ChatTypeOK
  <1> QED
    BY <1>1 DEF Inserted, Request, Conversation

BeganWith(s) == [source |-> s, agent |-> mongo.agents[s], by |-> "user", after |-> 0]

LEMMA BeginChatFields ==
  ASSUME ChatTypeOK, NEW s \in Sources, BeginChat(s)
  PROVE  /\ BeganWith(s) \in Conversation
         /\ conversations' = Append(conversations, BeganWith(s))
         /\ Move(Len(conversations) + 1) /\ UNCHANGED <<mongo, api, requests>>
  BY DEF ChatTypeOK, BeginChat, BeganWith, Conversation

\* A step of the API, whichever it is.
LEMMA ServeFields ==
  ASSUME ChatTypeOK, NEW i \in DOMAIN requests, Serve(i)
  PROVE  /\ api' \in ApiType
         /\ conversations' \in Seq(Conversation)
         /\ \/ UNCHANGED conversations
            \/ /\ requests[i].pc = "insert"
               /\ conversations' = Append(conversations, Inserted(i))
         /\ \E v \in Request :
              /\ Serves(i, v)
              /\ v.pc = "insert" => Unfound(i, v) /\ UNCHANGED conversations
              /\ \/ v.conv \in {0, requests[i].conv} \cup
                                 OfAgent(requests[i].source, requests[i].agent)
                 \/ /\ v.conv = Len(conversations) + 1
                    /\ conversations' = Append(conversations, Inserted(i))
  <1>1. conversations \in Seq(Conversation) /\ api \in ApiType /\ mongo.up \in BOOLEAN
    BY DEF ChatTypeOK, ApiType
  <1>2. CASE ReadManifest(i)
    <2>1. api' \in ApiType
      BY <1>2, LoadAgentsType DEF ReadManifest
    <2> QED
      BY <1>1, <1>2, <2>1, ReadManifestFields
  <1>3. CASE FindUser(i)
    <2>1. api' \in ApiType
      <3>1. (api.user \/ mongo.up) \in BOOLEAN
        OBVIOUS
      <3>2. api' = [api EXCEPT !.user = api.user \/ mongo.up]
        BY <1>3, FindUserFields
      <3> QED
        BY <1>1, <3>1, <3>2 DEF ApiType
    <2> QED
      BY <1>1, <1>3, <2>1, FindUserFields
  <1>4. CASE FindConversation(i)
    <2>1. UNCHANGED <<conversations, api>>
      BY <1>4, FindConversationFields
    <2>2. PICK v \in Request :
            /\ Serves(i, v) /\ Unfound(i, v)
            /\ v.conv \in {0, requests[i].conv} \cup
                            OfAgent(requests[i].source, requests[i].agent)
      BY <1>4, FindConversationFields
    <2> QED
      BY <1>1, <2>1, <2>2
  <1>5. CASE InsertConversation(i)
    <2>1. Inserted(i) \in Conversation
      BY InsertedType
    <2>2. conversations' \in Seq(Conversation)
      BY <1>1, <1>5, <2>1, AddedConversation, InsertConversationFields
    <2>3. PICK v \in Request :
            /\ Serves(i, v) /\ v.pc = "answer"
            /\ \/ v.conv = 0 /\ UNCHANGED conversations
               \/ /\ v.conv = Len(conversations) + 1
                  /\ conversations' = Append(conversations, Inserted(i))
      BY <1>5, InsertConversationFields
    <2>4. requests[i].pc = "insert" /\ UNCHANGED api
      BY <1>5, InsertConversationFields
    <2> QED
      BY <1>1, <2>2, <2>3, <2>4
  <1> QED
    BY <1>2, <1>3, <1>4, <1>5 DEF Serve

-----------------------------------------------------------------------------
(* The steps of the others. *)

\* Those that touch neither requests nor conversations.
Apart ==
  \/ MongoStops \/ MongoStarts \/ DeleteAgents \/ \E s \in Sources : MakeAgent(s)
  \/ OpenPage \/ Screen
  \/ \E c \in 0 .. Len(conversations) : PickConversation(c) \/ GoTo(c)
  \/ UNCHANGED chatVars

LEMMA ApartFields == Apart => UNCHANGED <<conversations, requests>>
  BY DEF Apart, MongoStops, MongoStarts, DeleteAgents, MakeAgent, OpenPage, Screen,
     Commit, Resubscribe, LoadFrame, SyncFrame, PickConversation, GoTo, chatVars

LEMMA AnyChatStep ==
  ASSUME [ChatNext]_chatVars
  PROVE  \/ Apart
         \/ RestartApi \/ ReopenPage
         \/ \E i \in DOMAIN requests :
              Serve(i) \/ ShowConversation(i) \/ DropAnswer(i)
         \/ \E s \in Sources : ChangeSource(s) \/ BeginChat(s)
  BY DEF ChatNext, Around, User, Apart

\* Conversations are only added.
LEMMA ConversationsStay ==
  ASSUME ChatTypeOK, [ChatNext]_chatVars
  PROVE  /\ conversations' \in Seq(Conversation)
         /\ Len(conversations') \in Nat /\ Len(conversations) <= Len(conversations')
         /\ \A k \in 1 .. Len(conversations) : conversations'[k] = conversations[k]
  <1>1. conversations \in Seq(Conversation) /\ Len(conversations) \in Nat
    BY DEF ChatTypeOK
  <1>2. CASE UNCHANGED conversations
    BY <1>1, <1>2
  <1>3. ASSUME NEW c \in Conversation, conversations' = Append(conversations, c)
        PROVE  /\ conversations' \in Seq(Conversation)
               /\ Len(conversations') \in Nat /\ Len(conversations) <= Len(conversations')
               /\ \A k \in 1 .. Len(conversations) : conversations'[k] = conversations[k]
    BY <1>1, <1>3
  <1>4. ASSUME NEW i \in DOMAIN requests, Serve(i)
        PROVE  \/ UNCHANGED conversations
               \/ \E c \in Conversation : conversations' = Append(conversations, c)
    BY <1>4, ServeFields, InsertedType
  <1>5. ASSUME NEW s \in Sources, BeginChat(s)
        PROVE  \E c \in Conversation : conversations' = Append(conversations, c)
    BY <1>5, BeginChatFields
  <1>6. \/ UNCHANGED conversations
        \/ \E c \in Conversation : conversations' = Append(conversations, c)
    BY <1>4, <1>5, AnyChatStep, ApartFields
    DEF RestartApi, ReopenPage, ShowConversation, DropAnswer, ChangeSource
  <1> QED
    BY <1>2, <1>3, <1>6

Fits(r) == r.conv # 0 => /\ r.conv \in 1 .. Len(conversations)
                         /\ conversations[r.conv].source = r.source

LEMMA AnswersFitIsFits ==
  ASSUME ChatTypeOK
  PROVE  AnswersFit <=> \A i \in 1 .. Len(requests) : Fits(requests[i])
  BY DEF ChatTypeOK, AnswersFit, Fits

\* The list of requests after a step, and that each is answered with a conversation
\* of its source.
LEMMA RequestsStep ==
  ASSUME ChatTypeOK, AnswersFit, [ChatNext]_chatVars
  PROVE  /\ requests' \in Seq(Request)
         /\ \A i \in 1 .. Len(requests') :
              LET v == requests'[i] IN
              v.conv # 0 => /\ v.conv \in 1 .. Len(conversations')
                            /\ conversations'[v.conv].source = v.source
         /\ AnswersFit'
  <1>1. /\ requests \in Seq(Request) /\ Len(requests) \in Nat
        /\ DOMAIN requests = 1 .. Len(requests) /\ Len(conversations) \in Nat
        /\ \A i \in 1 .. Len(requests) : requests[i] \in Request
    BY LenProperties, ElementOfSeq DEF ChatTypeOK
  <1>2. \A i \in 1 .. Len(requests) : Fits(requests[i])
    BY AnswersFitIsFits
  <1>3. /\ Len(conversations') \in Nat /\ Len(conversations) <= Len(conversations')
        /\ \A k \in 1 .. Len(conversations) : conversations'[k] = conversations[k]
    BY ConversationsStay
  <1>4. ASSUME NEW i \in 1 .. Len(requests), NEW v,
               v.source = requests[i].source, v.conv \in {0, requests[i].conv}
        PROVE  /\ v.conv # 0 => /\ v.conv \in 1 .. Len(conversations')
                                /\ conversations'[v.conv].source = v.source
    BY <1>1, <1>2, <1>3, <1>4 DEF Fits
  <1> DEFINE Good(v) == v.conv # 0 => /\ v.conv \in 1 .. Len(conversations')
                                      /\ conversations'[v.conv].source = v.source
  <1>5. SUFFICES /\ requests' \in Seq(Request)
                 /\ \A i \in 1 .. Len(requests') : Good(requests'[i])
    <2>1. DOMAIN conversations' = 1 .. Len(conversations')
      BY ConversationsStay
    <2> QED
      BY <1>5, <2>1 DEF AnswersFit
  <1>6. CASE Apart
    BY <1>1, <1>4, <1>6, ApartFields
  <1>7. CASE RestartApi
    BY <1>1, <1>4, <1>7, RestartFields
  <1>8. ASSUME NEW i \in DOMAIN requests, Serve(i)
        PROVE  /\ requests' \in Seq(Request)
               /\ \A j \in 1 .. Len(requests') : Good(requests'[j])
    <2>1. PICK v \in Request :
            /\ Serves(i, v)
            /\ \/ v.conv \in {0, requests[i].conv} \cup
                               OfAgent(requests[i].source, requests[i].agent)
               \/ /\ v.conv = Len(conversations) + 1
                  /\ conversations' = Append(conversations, Inserted(i))
      BY <1>8, ServeFields
    <2>2. /\ requests' \in Seq(Request) /\ Len(requests') = Len(requests)
          /\ requests'[i] = v
          /\ \A j \in DOMAIN requests \ {i} : requests'[j] = requests[j]
      BY <1>1, <2>1, OneMoves DEF Serves
    <2>3. Good(v)
      <3>1. CASE v.conv \in {0, requests[i].conv}
        BY <1>1, <1>4, <2>1, <3>1 DEF Serves
      <3>2. CASE v.conv \in OfAgent(requests[i].source, requests[i].agent)
        <4>1. /\ v.conv \in 1 .. Len(conversations)
              /\ conversations[v.conv].source = requests[i].source
          BY <3>2, LenProperties DEF OfAgent, ChatTypeOK
        <4> QED
          BY <1>1, <1>3, <2>1, <4>1 DEF Serves
      <3>3. CASE /\ v.conv = Len(conversations) + 1
                 /\ conversations' = Append(conversations, Inserted(i))
        BY <1>1, <2>1, <3>3, AddedConversation, InsertedType DEF Serves, Inserted
      <3> QED
        BY <2>1, <3>1, <3>2, <3>3
    <2>4. ASSUME NEW j \in 1 .. Len(requests), j # i PROVE Good(requests'[j])
      BY <1>1, <1>4, <2>2, <2>4
    <2> QED
      BY <2>2, <2>3, <2>4
  <1>9. ASSUME NEW i \in DOMAIN requests, ShowConversation(i) \/ DropAnswer(i)
        PROVE  /\ requests' \in Seq(Request)
               /\ \A j \in 1 .. Len(requests') : Good(requests'[j])
    <2>1. /\ requests' \in Seq(Request) /\ Len(requests') = Len(requests) - 1
          /\ \A k \in 1 .. Len(requests) - 1 :
               LET r == requests[IF k < i THEN k ELSE k + 1] IN
               requests'[k].source = r.source /\ requests'[k].conv = r.conv
      <3>1. OneLess(i)
        BY <1>1, <1>9, ShowIsOneLess, DropFields
      <3> QED
        BY Zenon, <3>1 DEF OneLess
    <2>2. ASSUME NEW k \in 1 .. Len(requests) - 1 PROVE Good(requests'[k])
      <3> DEFINE j == IF k < i THEN k ELSE k + 1
      <3>1. j \in 1 .. Len(requests)
        BY <1>1
      <3> QED
        BY <1>4, <2>1, <3>1
    <2> QED
      BY <2>1, <2>2
  <1>10. ASSUME NEW s \in Sources, ChangeSource(s)
         PROVE  /\ requests' \in Seq(Request)
                /\ \A j \in 1 .. Len(requests') : Good(requests'[j])
    <2>1. /\ requests' \in Seq(Request) /\ Len(requests') = Len(requests) + 1
          /\ requests'[Len(requests) + 1] = NewRequest(s)
          /\ \A i \in 1 .. Len(requests) : requests'[i] = requests[i]
      BY <1>10, ChangeSourceFields
    <2>2. ASSUME NEW j \in 1 .. Len(requests) + 1 PROVE Good(requests'[j])
      <3>1. CASE j \in 1 .. Len(requests)
        BY <1>4, <2>1, <3>1
      <3>2. CASE j = Len(requests) + 1
        <4>1. NewRequest(s).conv = 0
          BY DEF NewRequest
        <4> QED
          BY <2>1, <3>2, <4>1
      <3> QED
        BY <1>1, <3>1, <3>2
    <2> QED
      BY <2>1, <2>2
  <1>11. ASSUME NEW s \in Sources, BeginChat(s)
         PROVE  /\ requests' \in Seq(Request)
                /\ \A j \in 1 .. Len(requests') : Good(requests'[j])
    BY <1>1, <1>4, <1>11, BeginChatFields
  <1>12. CASE ReopenPage
    BY <1>1, <1>4, <1>12, ReopenFields
  <1> QED
    BY <1>6, <1>7, <1>8, <1>9, <1>10, <1>11, <1>12, AnyChatStep

\* What the page shows, knows and stores exists.
Within(p, k) ==
  /\ p.conv <= k /\ p.shown <= k /\ p.timer <= k /\ p.frame <= k /\ p.asked <= k

LEMMA PageFields ==
  ASSUME page \in Page
  PROVE  /\ page.conv \in Nat /\ page.shown \in Nat /\ page.timer \in Nat
         /\ page.frame \in Nat /\ page.asked \in Nat
         /\ page.by \in Askers /\ page.loaded \in BOOLEAN
  BY DEF Page

\* A step of React or the timer.
LEMMA ScreenFields ==
  ASSUME page \in Page, Screen
  PROVE  /\ page' \in Page /\ UNCHANGED <<mongo, conversations, api, requests, bounds>>
         /\ page'.source = page.source /\ page'.asked = page.asked
         /\ page'.by = page.by
         /\ \/ /\ page.conv # page.shown /\ page'.conv = page.conv
               /\ page'.shown = page.conv /\ page'.timer = page.shown
               /\ page'.frame = page.conv
            \/ /\ page'.conv = page.conv /\ page'.shown = page.shown
               /\ page'.timer \in {page.timer, page.shown} /\ page'.frame = page.frame
            \/ /\ page.frame # page.timer /\ page'.conv = page.frame
               /\ page'.shown = page.shown /\ page'.timer = page.timer
               /\ page'.frame = page.frame
  <1>1. CASE Commit
    BY <1>1 DEF Commit, Page
  <1>2. CASE Resubscribe
    BY <1>2 DEF Resubscribe, Page
  <1>3. CASE LoadFrame
    BY <1>3 DEF LoadFrame, Page
  <1>4. CASE SyncFrame
    BY <1>4 DEF SyncFrame, Page
  <1> QED
    BY <1>1, <1>2, <1>3, <1>4 DEF Screen

\* A page, or a render, that begins with a conversation.
OpensWith(c) ==
  /\ page' \in Page /\ page'.conv = c /\ page'.shown = c /\ page'.timer = c
  /\ page'.frame = c /\ page'.asked = c

LEMMA OpenedFields ==
  ASSUME page \in Page
  PROVE  /\ \A c \in Nat : PickConversation(c) =>
              OpensWith(c) /\ page'.source = page.source /\ page'.by = "pick"
         /\ ReopenPage => OpensWith(page.conv) /\ page'.by = "start"
  <1>1. ASSUME NEW c \in Nat, PickConversation(c)
        PROVE  OpensWith(c) /\ page'.source = page.source /\ page'.by = "pick"
    BY <1>1 DEF PickConversation, Opened, OpensWith, Page, Askers
  <1>2. ASSUME ReopenPage PROVE OpensWith(page.conv) /\ page'.by = "start"
    BY <1>2 DEF ReopenPage, Opened, OpensWith, Page, Askers
  <1> QED
    BY <1>1, <1>2

LEMMA MoveFields ==
  ASSUME page \in Page, NEW c \in Nat, Move(c)
  PROVE  /\ page' \in Page /\ page'.source = page.source /\ page'.conv = page.conv
         /\ page'.shown = page.shown /\ page'.timer = page.timer
         /\ page'.frame = c /\ page'.asked = c
         /\ page'.by = IF page.conv = page.shown THEN "frame" ELSE "race"
  <1> DEFINE who == IF page.conv = page.shown THEN "frame" ELSE "race"
  <1>1. who \in Askers
    BY DEF Askers
  <1>2. page' = [page EXCEPT !.frame = c, !.asked = c, !.by = who]
    BY DEF Move
  <1> HIDE DEF who
  <1>3. /\ page' \in Page /\ page'.source = page.source /\ page'.conv = page.conv
        /\ page'.shown = page.shown /\ page'.timer = page.timer
        /\ page'.frame = c /\ page'.asked = c /\ page'.by = who
    BY <1>1, <1>2 DEF Page
  <1> QED
    BY <1>3 DEF who

LEMMA ShownPage ==
  ASSUME ChatTypeOK, NEW i \in 1 .. Len(requests), ShowConversation(i)
  PROVE  LET c == requests[i].conv IN
         /\ page' \in Page /\ page'.source = page.source /\ page'.conv = c
         /\ page'.shown = page.shown /\ page'.timer = page.timer
         /\ page'.frame = page.frame /\ page'.asked = c
         /\ ~Steady => page'.by = "race"
         /\ requests[i].late => page'.by # "answer"
  <1> DEFINE c == requests[i].conv
             who == IF ~Steady THEN "race"
                    ELSE IF requests[i].late THEN "late" ELSE "answer"
  <1>1. requests[i] \in Request /\ page \in Page
    BY ElementOfSeq DEF ChatTypeOK
  <1>2. c \in Nat /\ who \in Askers
    BY <1>1 DEF Request, Askers
  <1>3. page' = [page EXCEPT !.conv = c, !.asked = c, !.by = who]
    BY DEF ShowConversation
  <1>4. /\ ~Steady => who = "race"
        /\ requests[i].late => who # "answer"
    OBVIOUS
  <1> HIDE DEF who, c
  <1>5. /\ page' \in Page /\ page'.source = page.source /\ page'.conv = c
        /\ page'.shown = page.shown /\ page'.timer = page.timer
        /\ page'.frame = page.frame /\ page'.asked = c /\ page'.by = who
    BY <1>1, <1>2, <1>3 DEF Page
  <1> QED
    BY <1>4, <1>5 DEF c

\* Every step that changes the page.
LEMMA AnyPageStep ==
  ASSUME [ChatNext]_chatVars
  PROVE  \/ UNCHANGED page
         \/ OpenPage \/ Screen \/ ReopenPage
         \/ \E c \in 0 .. Len(conversations) : PickConversation(c) \/ GoTo(c)
         \/ \E i \in DOMAIN requests : ShowConversation(i)
         \/ \E s \in Sources : ChangeSource(s) \/ BeginChat(s)
  <1>1. ASSUME NEW i \in DOMAIN requests, Serve(i) \/ DropAnswer(i) PROVE UNCHANGED page
    BY <1>1 DEF Serve, ReadManifest, FindUser, FindConversation, InsertConversation,
       DropAnswer
  <1>2. RestartApi => UNCHANGED page
    BY DEF RestartApi
  <1>3. MongoStops \/ MongoStarts \/ DeleteAgents \/ (\E s \in Sources : MakeAgent(s))
          \/ UNCHANGED chatVars => UNCHANGED page
    BY DEF MongoStops, MongoStarts, DeleteAgents, MakeAgent, chatVars
  <1> QED
    BY <1>1, <1>2, <1>3, AnyChatStep DEF Apart

LEMMA PageStep ==
  ASSUME ChatTypeOK, AnswersFit, [ChatNext]_chatVars
  PROVE  page' \in Page /\ Within(page', Len(conversations'))
  <1> DEFINE n == Len(conversations)
             m == Len(conversations')
  <1>1. n \in Nat /\ m \in Nat /\ n <= m
    BY ConversationsStay DEF ChatTypeOK
  <1>2. /\ page \in Page /\ Within(page, n) /\ page.conv \in Nat /\ page.shown \in Nat
        /\ page.timer \in Nat /\ page.frame \in Nat /\ page.asked \in Nat
    BY PageFields DEF ChatTypeOK, Within
  <1> HIDE DEF n, m
  <1>3. SUFFICES page' \in Page /\ Within(page', m)
    BY DEF m
  <1>4. CASE UNCHANGED page
    BY <1>1, <1>2, <1>4 DEF Within
  <1>5. CASE OpenPage
    BY <1>1, <1>2, <1>5, ChatAssumptions DEF OpenPage, Page, Within
  <1>6. CASE Screen
    BY <1>1, <1>2, <1>6, ScreenFields DEF Within
  <1>7. CASE ReopenPage
    BY <1>1, <1>2, <1>7, OpenedFields DEF OpensWith, Within
  <1>8. ASSUME NEW c \in 0 .. n, PickConversation(c)
        PROVE  page' \in Page /\ Within(page', m)
    BY <1>1, <1>2, <1>8, OpenedFields DEF OpensWith, Within
  <1>9. ASSUME NEW c \in Nat, c <= m, Move(c)
        PROVE  page' \in Page /\ Within(page', m)
    BY <1>1, <1>2, <1>9, MoveFields DEF Within
  <1>10. ASSUME NEW c \in 0 .. n, GoTo(c)
         PROVE  page' \in Page /\ Within(page', m)
    BY <1>1, <1>9, <1>10 DEF GoTo
  <1>11. ASSUME NEW i \in DOMAIN requests, ShowConversation(i)
         PROVE  page' \in Page /\ Within(page', m)
    <2>1. i \in 1 .. Len(requests)
      BY LenProperties DEF ChatTypeOK
    <2>2. requests[i].conv \in Nat /\ requests[i].conv <= n
      <3>1. Fits(requests[i]) /\ requests[i] \in Request
        BY <2>1, AnswersFitIsFits, ElementOfSeq DEF ChatTypeOK
      <3> QED
        BY <1>1, <3>1 DEF Fits, Request, n
    <2>3. /\ page' \in Page /\ page'.conv = requests[i].conv
          /\ page'.shown = page.shown /\ page'.timer = page.timer
          /\ page'.frame = page.frame /\ page'.asked = requests[i].conv
      BY <1>11, <2>1, ShownPage
    <2> QED
      BY <1>1, <1>2, <2>2, <2>3 DEF Within
  <1>12. ASSUME NEW s \in Sources, ChangeSource(s)
         PROVE  page' \in Page /\ Within(page', m)
    <2>1. page' = [page EXCEPT !.source = s, !.timer = page.shown]
      BY <1>12 DEF ChangeSource
    <2>2. /\ page' \in Page /\ page'.conv = page.conv /\ page'.shown = page.shown
          /\ page'.timer = page.shown /\ page'.frame = page.frame
          /\ page'.asked = page.asked
      BY <1>2, <2>1 DEF Page
    <2> QED
      BY <1>1, <1>2, <2>2 DEF Within
  <1>13. ASSUME NEW s \in Sources, BeginChat(s)
         PROVE  page' \in Page /\ Within(page', m)
    <2>1. Move(n + 1) /\ m = n + 1
      BY <1>13, BeginChatFields, AddedConversation DEF n, m
    <2>2. n + 1 \in Nat /\ n + 1 <= m
      BY <1>1, <2>1
    <2> QED
      BY <1>9, <2>1, <2>2
  <1> QED
    BY <1>4, <1>5, <1>6, <1>7, <1>8, <1>10, <1>11, <1>12, <1>13, AnyPageStep DEF n

LEMMA RestStep ==
  ASSUME ChatTypeOK, [ChatNext]_chatVars
  PROVE  /\ mongo' \in [up : BOOLEAN, agents : [Sources -> AgentIds]]
         /\ api' \in ApiType
         /\ bounds' \in BoundsType
  <1>1. /\ mongo \in [up : BOOLEAN, agents : [Sources -> AgentIds]]
        /\ api \in ApiType /\ NewProcess \in ApiType
        /\ bounds \in BoundsType
    BY DEF ChatTypeOK, ApiType, BoundsType, NewProcess, AgentIds
  <1> DEFINE Goal == /\ mongo' \in [up : BOOLEAN, agents : [Sources -> AgentIds]]
                     /\ api' \in ApiType
                     /\ bounds' \in BoundsType
  <1>2. Event => bounds' \in BoundsType
    <2>1. bounds.events + 1 \in Nat
      BY <1>1 DEF BoundsType
    <2> QED
      BY <1>1, <2>1 DEF Event, BoundsType
  <1>3. CASE MongoStops
    BY <1>1, <1>2, <1>3 DEF MongoStops
  <1>4. CASE MongoStarts
    BY <1>1, <1>4 DEF MongoStarts
  <1>5. CASE DeleteAgents
    <2> DEFINE none == [s \in Sources |-> 0]
    <2>1. none \in [Sources -> AgentIds]
      BY DEF AgentIds
    <2>2. mongo' = [mongo EXCEPT !.agents = none]
      BY <1>5 DEF DeleteAgents
    <2> HIDE DEF none
    <2> QED
      BY <1>1, <1>2, <1>5, <2>1, <2>2 DEF DeleteAgents
  <1>6. ASSUME NEW s \in Sources, MakeAgent(s) PROVE Goal
    <2>1. bounds.resets + 1 \in Nat
      BY <1>1 DEF BoundsType
    <2>2. mongo' = [mongo EXCEPT !.agents[s] = bounds.resets + 1]
      BY <1>6 DEF MakeAgent
    <2>3. mongo' \in [up : BOOLEAN, agents : [Sources -> AgentIds]]
      BY <1>1, <2>1, <2>2 DEF AgentIds
    <2>4. api' \in ApiType
      BY <1>1, <1>6 DEF MakeAgent
    <2>5. bounds' \in BoundsType
      BY <1>1, <1>6 DEF MakeAgent, BoundsType
    <2> QED
      BY <2>3, <2>4, <2>5
  <1>7. CASE RestartApi
    BY <1>1, <1>2, <1>7 DEF RestartApi
  <1>8. ASSUME NEW i \in DOMAIN requests, Serve(i) PROVE Goal
    <2>1. api' \in ApiType
      BY <1>8, ServeFields
    <2>2. UNCHANGED <<mongo, bounds>>
      BY <1>8 DEF Serve, ReadManifest, FindUser, FindConversation, InsertConversation
    <2> QED
      BY <1>1, <2>1, <2>2
  <1>9. CASE OpenPage
    BY <1>1, <1>9, LoadAgentsType DEF OpenPage
  <1>10. ASSUME NEW s \in Sources, ChangeSource(s) PROVE Goal
    BY <1>1, <1>10 DEF ChangeSource, BoundsType
  <1>11. ASSUME NEW c, Move(c) PROVE bounds' \in BoundsType
    BY <1>1, <1>11 DEF Move, BoundsType
  <1>12. Pick => bounds' \in BoundsType
    BY <1>1 DEF Pick, BoundsType
  <1>13. CASE UNCHANGED <<mongo, api, bounds>>
    BY <1>1, <1>13
  <1>14. ASSUME NEW i \in DOMAIN requests, ShowConversation(i) \/ DropAnswer(i)
         PROVE  UNCHANGED <<mongo, api, bounds>>
    BY <1>14 DEF ShowConversation, DropAnswer
  <1>15. Screen => UNCHANGED <<mongo, api, bounds>>
    BY DEF Screen, Commit, Resubscribe, LoadFrame, SyncFrame
  <1>16. CASE ReopenPage
    BY <1>1, <1>12, <1>16 DEF ReopenPage
  <1>17. ASSUME NEW c, PickConversation(c) \/ GoTo(c) PROVE Goal
    BY <1>1, <1>11, <1>12, <1>17 DEF PickConversation, GoTo
  <1>18. ASSUME NEW s \in Sources, BeginChat(s) PROVE Goal
    BY <1>1, <1>11, <1>18 DEF BeginChat
  <1> HIDE DEF Goal
  <1>19. Apart => Goal
    BY <1>3, <1>4, <1>5, <1>6, <1>9, <1>13, <1>15, <1>17 DEF Apart, chatVars, Goal
  <1> QED
    BY <1>7, <1>8, <1>10, <1>13, <1>14, <1>16, <1>18, <1>19, AnyChatStep DEF Goal

\* Type correctness takes with it that each answer is a conversation there is: the
\* page shows it.
ChatTypes == ChatTypeOK /\ AnswersFit

LEMMA ChatTypesStep == ChatTypes /\ [ChatNext]_chatVars => ChatTypes'
  <1> SUFFICES ASSUME ChatTypes, [ChatNext]_chatVars PROVE ChatTypes'
    OBVIOUS
  <1>1. ChatTypeOK /\ AnswersFit
    BY DEF ChatTypes
  <1>2. conversations' \in Seq(Conversation)
    BY <1>1, ConversationsStay
  <1>3. requests' \in Seq(Request) /\ AnswersFit'
    BY <1>1, RequestsStep
  <1>4. page' \in Page /\ Within(page', Len(conversations'))
    BY <1>1, PageStep
  <1>5. /\ mongo' \in [up : BOOLEAN, agents : [Sources -> AgentIds]]
        /\ api' \in ApiType
        /\ bounds' \in BoundsType
    BY <1>1, RestStep
  <1> QED
    BY <1>2, <1>3, <1>4, <1>5 DEF ChatTypes, ChatTypeOK, ApiType, BoundsType, Within

\* The variables of the page, the API and MongoDB have their types, and the page and
\* its iframe name conversations that exist.
THEOREM ChatTypeCorrect == ChatSpec => []ChatTypeOK
  <1>1. ChatInit => ChatTypes
    BY ChatInitType DEF ChatTypes, ChatInit, AnswersFit
  <1>2. ChatTypes => ChatTypeOK
    BY DEF ChatTypes
  <1> QED
    BY <1>1, <1>2, ChatTypesStep, PTL DEF ChatSpec

LEMMA AlwaysChatTypes == ChatSpec => []ChatTypes
  <1>1. ChatInit => ChatTypes
    BY ChatInitType DEF ChatTypes, ChatInit, AnswersFit
  <1> QED
    BY <1>1, ChatTypesStep, PTL DEF ChatSpec

-----------------------------------------------------------------------------
(* The conversation on the screen *)

ScreenInv == ChatTypes /\ AskedIsComing /\ LastIsOfPage

LEMMA AskedIsComingStep ==
  ASSUME ChatTypes, AskedIsComing, [ChatNext]_chatVars
  PROVE  AskedIsComing'
  <1>1. /\ ChatTypeOK /\ page \in Page /\ DOMAIN requests = 1 .. Len(requests)
        /\ Len(conversations) \in Nat
    BY LenProperties DEF ChatTypes, ChatTypeOK
  <1>2. CASE UNCHANGED page
    BY <1>2 DEF AskedIsComing, Steady
  <1>3. CASE OpenPage
    <2>1. page' = [page EXCEPT !.source = FirstSource]
      BY <1>3 DEF OpenPage
    <2>2. /\ page'.conv = page.conv /\ page'.shown = page.shown
          /\ page'.timer = page.timer /\ page'.frame = page.frame
          /\ page'.asked = page.asked /\ page'.by = page.by
      BY <1>1, <2>1 DEF Page
    <2> QED
      BY <2>2 DEF AskedIsComing, Steady
  <1>4. CASE Screen
    BY <1>1, <1>4, ScreenFields DEF AskedIsComing, Steady
  <1>5. CASE ReopenPage
    BY <1>1, <1>5, OpenedFields DEF OpensWith, AskedIsComing
  <1>6. ASSUME NEW c \in 0 .. Len(conversations), PickConversation(c)
        PROVE  AskedIsComing'
    BY <1>1, <1>6, OpenedFields DEF OpensWith, AskedIsComing
  <1>7. ASSUME NEW c \in Nat, Move(c) PROVE AskedIsComing'
    BY <1>1, <1>7, MoveFields DEF AskedIsComing
  <1>8. ASSUME NEW i \in 1 .. Len(requests), ShowConversation(i) PROVE AskedIsComing'
    <2>1. /\ page'.conv = requests[i].conv /\ page'.asked = requests[i].conv
          /\ page'.shown = page.shown /\ page'.timer = page.timer
          /\ page'.frame = page.frame /\ (~Steady => page'.by = "race")
      BY <1>1, <1>8, ShownPage
    <2> QED
      BY <2>1 DEF AskedIsComing, Steady
  <1>9. ASSUME NEW s \in Sources, ChangeSource(s) PROVE AskedIsComing'
    <2>1. page' = [page EXCEPT !.source = s, !.timer = page.shown]
      BY <1>9 DEF ChangeSource
    <2>2. /\ page'.conv = page.conv /\ page'.shown = page.shown
          /\ page'.timer = page.shown /\ page'.frame = page.frame
          /\ page'.asked = page.asked /\ page'.by = page.by
      BY <1>1, <2>1 DEF Page
    <2> QED
      BY <2>2 DEF AskedIsComing, Steady
  <1>10. ASSUME NEW c \in 0 .. Len(conversations), GoTo(c) PROVE AskedIsComing'
    BY <1>1, <1>7, <1>10 DEF GoTo
  <1>11. ASSUME NEW s \in Sources, BeginChat(s) PROVE AskedIsComing'
    BY <1>1, <1>7, <1>11, BeginChatFields
  <1> QED
    BY <1>1, <1>2, <1>3, <1>4, <1>5, <1>6, <1>8, <1>9, <1>10, <1>11, AnyPageStep

\* As long as the requests and the source are the same, and no answer is shown, the
\* last request is.
LEMMA LastKept ==
  ASSUME ScreenInv, [ChatNext]_chatVars,
         requests' \in Seq(Request), Len(requests') = Len(requests),
         \A i \in 1 .. Len(requests) : /\ requests'[i].source = requests[i].source
                                       /\ requests'[i].late = requests[i].late
                                       /\ requests'[i].lost = requests[i].lost,
         page'.source = page.source,
         page'.by = "answer" => page.by = "answer" /\ page'.asked = page.asked
  PROVE  LastIsOfPage'
  <1>1. /\ ChatTypeOK /\ Len(requests) \in Nat /\ Len(conversations) \in Nat
        /\ page.asked \in Nat /\ page.asked <= Len(conversations)
        /\ DOMAIN requests = 1 .. Len(requests) /\ DOMAIN requests' = 1 .. Len(requests)
    BY LenProperties DEF ScreenInv, ChatTypes, ChatTypeOK, Page
  <1>2. \A k \in 1 .. Len(conversations) : conversations'[k] = conversations[k]
    BY <1>1, ConversationsStay
  <1>3. \A i \in DOMAIN requests' : requests'[i].lost => requests'[i].late
    BY <1>1 DEF ScreenInv, LastIsOfPage
  <1>4. CASE /\ Len(requests) > 0 /\ ~requests[Len(requests)].late
             /\ requests[Len(requests)].source = page.source
    BY <1>1, <1>3, <1>4 DEF LastIsOfPage
  <1>5. CASE /\ \A i \in DOMAIN requests : requests[i].late
             /\ page.by = "answer" /\ page.asked # 0 =>
                  conversations[page.asked].source = page.source
    <2>1. page.asked # 0 => page.asked \in 1 .. Len(conversations)
      BY <1>1
    <2>2. page'.by = "answer" /\ page'.asked # 0 =>
            conversations'[page'.asked].source = page'.source
      BY <1>2, <1>5, <2>1
    <2>3. \A i \in DOMAIN requests' : requests'[i].late
      BY <1>1, <1>5
    <2> QED
      BY <1>3, <2>2, <2>3 DEF LastIsOfPage
  <1> QED
    BY <1>4, <1>5 DEF ScreenInv, LastIsOfPage

LEMMA EndOfRange ==
  ASSUME NEW n \in Nat, NEW i \in 1 .. n, i # n
  PROVE  \E m \in 1 .. n - 1 : m + 1 = n /\ ~(m < i) /\ m > 0 /\ m = n - 1
  OBVIOUS

LEMMA LastWhenShown ==
  ASSUME ScreenInv, [ChatNext]_chatVars, NEW i \in 1 .. Len(requests), ShowConversation(i)
  PROVE  LastIsOfPage'
  <1> DEFINE n == Len(requests)
             c == requests[i].conv
  <1>1. ChatTypeOK /\ n \in Nat /\ DOMAIN requests = 1 .. n
    BY LenProperties DEF ScreenInv, ChatTypes, ChatTypeOK
  <1>2. /\ requests' \in Seq(Request) /\ Len(requests') = n - 1
        /\ \A k \in 1 .. n - 1 :
             LET r == requests[IF k < i THEN k ELSE k + 1] IN
             /\ requests'[k].source = r.source
             /\ requests'[k].late = (r.late \/ k < i)
             /\ requests'[k].lost = r.lost
        /\ UNCHANGED conversations
    BY Zenon, <1>1, ShowFields
  <1>3. /\ page'.source = page.source /\ page'.asked = c
        /\ requests[i].late => page'.by # "answer"
    BY <1>1, ShownPage
  <1>4. DOMAIN requests' = 1 .. n - 1
    BY <1>2, LenProperties
  <1>5. ASSUME NEW k \in 1 .. n - 1, k < i PROVE requests'[k].late
    <2>1. requests'[k].late = (requests[k].late \/ k < i)
      BY <1>2, <1>5
    <2> QED
      BY <1>5, <2>1
  <1>6. ASSUME NEW k \in 1 .. n - 1, ~(k < i)
        PROVE  /\ requests'[k].source = requests[k + 1].source
               /\ requests'[k].late <=> requests[k + 1].late
               /\ requests'[k].lost = requests[k + 1].lost
    <2>1. /\ requests'[k].source = requests[k + 1].source
          /\ requests'[k].late = (requests[k + 1].late \/ k < i)
          /\ requests'[k].lost = requests[k + 1].lost
      BY <1>2, <1>6
    <2> QED
      BY <1>6, <2>1
  <1>7. ASSUME NEW k \in 1 .. n - 1, requests'[k].lost PROVE requests'[k].late
    <2>1. CASE ~(k < i)
      <3>1. k + 1 \in DOMAIN requests
        BY <1>1
      <3> QED
        BY <1>6, <1>7, <2>1, <3>1 DEF ScreenInv, LastIsOfPage
    <2> QED
      BY <1>5, <2>1
  <1>8. CASE n > 0 /\ ~requests[n].late /\ requests[n].source = page.source
    <2>1. CASE i = n
      <3>1. \A k \in 1 .. n - 1 : requests'[k].late
        BY <1>1, <1>5, <2>1
      <3>2. c # 0 => conversations[c].source = requests[n].source
        <4>1. Fits(requests[i])
          BY <1>1, AnswersFitIsFits DEF ScreenInv, ChatTypes
        <4> QED
          BY <2>1, <4>1 DEF Fits
      <3> QED
        BY <1>2, <1>3, <1>4, <1>7, <1>8, <3>1, <3>2 DEF LastIsOfPage
    <2>2. CASE i # n
      <3>1. PICK m \in 1 .. n - 1 : m + 1 = n /\ ~(m < i) /\ m > 0 /\ m = n - 1
        BY Zenon, <1>1, <2>2, EndOfRange
      <3>2. /\ requests'[m].source = requests[n].source
            /\ requests'[m].late <=> requests[n].late
        BY <1>6, <3>1
      <3>3. Len(requests') = m /\ page'.source = page.source
        BY <1>2, <1>3, <3>1
      <3>4. \A k \in DOMAIN requests' : requests'[k].lost => requests'[k].late
        BY <1>4, <1>7
      <3> HIDE DEF n
      <3> QED
        BY <1>8, <3>1, <3>2, <3>3, <3>4 DEF LastIsOfPage
    <2> QED
      BY <2>1, <2>2
  <1>9. CASE \A j \in 1 .. n : requests[j].late
    <2>1. ASSUME NEW k \in 1 .. n - 1 PROVE requests'[k].late
      <3>1. k + 1 \in 1 .. n
        BY <1>1
      <3> QED
        BY <1>5, <1>6, <1>9, <3>1
    <2> QED
      BY <1>3, <1>4, <1>7, <1>9, <2>1 DEF LastIsOfPage
  <1> QED
    BY <1>1, <1>8, <1>9 DEF ScreenInv, LastIsOfPage

\* A request whose answer is dropped was late: the last one, if it is not, stays.
LEMMA LastWhenDropped ==
  ASSUME ScreenInv, [ChatNext]_chatVars, NEW i \in 1 .. Len(requests), DropAnswer(i)
  PROVE  LastIsOfPage'
  <1> DEFINE n == Len(requests)
  <1>1. ChatTypeOK /\ n \in Nat /\ DOMAIN requests = 1 .. n
    BY LenProperties DEF ScreenInv, ChatTypes, ChatTypeOK
  <1>2. /\ requests' \in Seq(Request) /\ Len(requests') = n - 1 /\ requests[i].lost
        /\ \A k \in 1 .. n - 1 : requests'[k] = requests[IF k < i THEN k ELSE k + 1]
        /\ UNCHANGED <<conversations, page>>
    BY Zenon, <1>1, DropFields
  <1>3. DOMAIN requests' = 1 .. n - 1
    BY <1>2, LenProperties
  <1>4. ASSUME NEW k \in 1 .. n - 1
        PROVE  \E j \in 1 .. n : requests'[k] = requests[j]
    BY <1>1, <1>2
  <1>5. \A k \in DOMAIN requests' : requests'[k].lost => requests'[k].late
    BY <1>1, <1>3, <1>4 DEF ScreenInv, LastIsOfPage
  <1>6. CASE n > 0 /\ ~requests[n].late /\ requests[n].source = page.source
    <2>1. i # n
      BY <1>1, <1>2, <1>6 DEF ScreenInv, LastIsOfPage
    <2>2. PICK m \in 1 .. n - 1 : m + 1 = n /\ ~(m < i) /\ m > 0 /\ m = n - 1
      BY Zenon, <1>1, <2>1, EndOfRange
    <2>3. requests'[m] = requests[n] /\ Len(requests') = m
      BY <1>2, <2>2
    <2> HIDE DEF n
    <2> QED
      BY <1>2, <1>5, <1>6, <2>2, <2>3 DEF LastIsOfPage
  <1>7. CASE /\ \A j \in 1 .. n : requests[j].late
             /\ page.by = "answer" /\ page.asked # 0 =>
                  conversations[page.asked].source = page.source
    BY <1>2, <1>3, <1>4, <1>5, <1>7 DEF LastIsOfPage
  <1> QED
    BY <1>1, <1>6, <1>7 DEF ScreenInv, LastIsOfPage

LEMMA LastIsOfPageStep ==
  ASSUME ScreenInv, [ChatNext]_chatVars
  PROVE  LastIsOfPage'
  <1>1. /\ ChatTypeOK /\ requests \in Seq(Request) /\ page \in Page
        /\ Len(requests) \in Nat /\ DOMAIN requests = 1 .. Len(requests)
        /\ \A i \in 1 .. Len(requests) : requests[i] \in Request
        /\ Len(conversations) \in Nat
    BY LenProperties, ElementOfSeq DEF ScreenInv, ChatTypes, ChatTypeOK
  <1>2. CASE /\ UNCHANGED requests /\ page'.source = page.source
             /\ page'.by = "answer" => page.by = "answer" /\ page'.asked = page.asked
    BY <1>1, <1>2, LastKept
  <1>3. CASE OpenPage
    <2>1. /\ page.source = "none" /\ page' = [page EXCEPT !.source = FirstSource]
          /\ UNCHANGED <<conversations, requests>>
      BY <1>3 DEF OpenPage
    <2>2. page'.by = page.by /\ page'.asked = page.asked
      BY <1>1, <2>1 DEF Page
    <2>3. ~(Len(requests) > 0 /\ requests[Len(requests)].source = page.source)
      BY SMTT(30), <1>1, <2>1, ChatAssumptions DEF Request
    <2>4. ~(page.by = "answer" /\ page.asked # 0)
      <3>1. SUFFICES ASSUME page.by = "answer", page.asked # 0 PROVE FALSE
        OBVIOUS
      <3>2. conversations[page.asked].source = "none"
        BY <2>1, <2>3, <3>1 DEF ScreenInv, LastIsOfPage
      <3>3. page.asked \in 1 .. Len(conversations) /\ conversations \in Seq(Conversation)
        BY <1>1, <3>1, PageFields DEF ScreenInv, ChatTypes, ChatTypeOK
      <3>4. conversations[page.asked] \in Conversation
        BY <3>3, ElementOfSeq
      <3> QED
        BY <3>2, <3>4, ChatAssumptions DEF Conversation
    <2> QED
      BY <2>1, <2>2, <2>3, <2>4 DEF ScreenInv, LastIsOfPage
  <1>4. CASE Screen
    BY <1>1, <1>2, <1>4, ScreenFields
  <1>5. CASE RestartApi
    <2>1. UNCHANGED page
      BY <1>5 DEF RestartApi
    <2> QED
      BY <1>1, <1>5, <2>1, RestartFields, LastKept
  <1>6. ASSUME NEW i \in DOMAIN requests, Serve(i) PROVE LastIsOfPage'
    <2>1. PICK v \in Request : Serves(i, v)
      BY <1>1, <1>6, ServeFields
    <2>2. /\ requests' \in Seq(Request) /\ Len(requests') = Len(requests)
          /\ requests'[i] = v
          /\ \A j \in DOMAIN requests \ {i} : requests'[j] = requests[j]
      BY <1>1, <2>1, OneMoves DEF Serves
    <2>3. \A j \in 1 .. Len(requests) : /\ requests'[j].source = requests[j].source
                                        /\ requests'[j].late = requests[j].late
                                        /\ requests'[j].lost = requests[j].lost
      BY <1>1, <2>1, <2>2 DEF Serves
    <2>4. UNCHANGED page
      BY <2>1 DEF Serves
    <2> QED
      BY <2>2, <2>3, <2>4, LastKept
  <1>7. ASSUME NEW i \in DOMAIN requests, ShowConversation(i) \/ DropAnswer(i)
        PROVE  LastIsOfPage'
    BY <1>1, <1>7, LastWhenShown, LastWhenDropped
  <1>8. ASSUME NEW s \in Sources, ChangeSource(s) PROVE LastIsOfPage'
    <2> DEFINE n == Len(requests)
    <2>1. /\ requests' \in Seq(Request) /\ Len(requests') = n + 1
          /\ requests'[n + 1] = NewRequest(s)
          /\ \A i \in 1 .. n : requests'[i] = requests[i]
          /\ page' = [page EXCEPT !.source = s, !.timer = page.shown]
      BY <1>1, <1>8, ChangeSourceFields
    <2>2. /\ NewRequest(s).source = s /\ NewRequest(s).late = FALSE
          /\ NewRequest(s).lost = FALSE
      BY DEF NewRequest
    <2>3. page'.source = s
      BY <1>1, <2>1 DEF Page
    <2> HIDE DEF NewRequest
    <2>4. DOMAIN requests' = 1 .. n + 1 /\ n + 1 > 0
      BY <1>1, <2>1, LenProperties
    <2>5. ASSUME NEW k \in 1 .. n + 1, requests'[k].lost PROVE requests'[k].late
      <3>1. CASE k \in 1 .. n
        BY <1>1, <2>1, <2>5, <3>1 DEF ScreenInv, LastIsOfPage
      <3>2. CASE k = n + 1
        BY <2>1, <2>2, <2>5, <3>2
      <3> QED
        BY <1>1, <3>1, <3>2
    <2> QED
      BY <2>1, <2>2, <2>3, <2>4, <2>5 DEF LastIsOfPage
  <1>9. ASSUME NEW c \in Nat, Move(c), UNCHANGED requests PROVE LastIsOfPage'
    <2>1. page'.source = page.source /\ page'.by # "answer"
      BY <1>1, <1>9, MoveFields
    <2> QED
      BY <1>2, <1>9, <2>1
  <1>10. ASSUME NEW s \in Sources, BeginChat(s) PROVE LastIsOfPage'
    BY <1>1, <1>9, <1>10, BeginChatFields
  <1>11. ASSUME NEW c \in 0 .. Len(conversations), GoTo(c) PROVE LastIsOfPage'
    BY <1>1, <1>9, <1>11 DEF GoTo
  <1>12. ASSUME NEW c \in 0 .. Len(conversations), PickConversation(c)
         PROVE  LastIsOfPage'
    <2>1. page'.source = page.source /\ page'.by = "pick" /\ UNCHANGED requests
      BY <1>1, <1>12, OpenedFields DEF PickConversation
    <2> QED
      BY <1>2, <2>1
  <1>13. CASE ReopenPage
    <2>1. /\ Len(requests') = Len(requests) /\ DOMAIN requests' = 1 .. Len(requests)
          /\ \A i \in 1 .. Len(requests) : requests'[i].late
      BY <1>1, <1>13, ReopenFields, LenProperties
    <2>2. page'.by = "start"
      BY <1>1, <1>13, OpenedFields
    <2> QED
      BY <2>1, <2>2 DEF LastIsOfPage
  <1>14. ASSUME Apart, ~OpenPage, ~Screen,
                ~\E c \in 0 .. Len(conversations) : PickConversation(c) \/ GoTo(c)
         PROVE  UNCHANGED <<requests, page>>
    BY <1>14 DEF Apart, chatVars, MongoStops, MongoStarts, DeleteAgents, MakeAgent
  <1> QED
    BY <1>2, <1>3, <1>4, <1>5, <1>6, <1>7, <1>8, <1>10, <1>11, <1>12, <1>13, <1>14,
       AnyChatStep

LEMMA AlwaysAskedIsComing == ChatSpec => [](ChatTypes /\ AskedIsComing)
  <1>1. ChatInit => ChatTypes /\ AskedIsComing
    <2>1. ChatInit => ChatTypes
      BY ChatInitType DEF ChatTypes, ChatInit, AnswersFit
    <2>2. ChatInit => AskedIsComing
      BY DEF ChatInit, AskedIsComing
    <2> QED
      BY <2>1, <2>2
  <1>2. ChatTypes /\ AskedIsComing /\ [ChatNext]_chatVars => (ChatTypes /\ AskedIsComing)'
    BY ChatTypesStep, AskedIsComingStep
  <1> QED
    BY <1>1, <1>2, PTL DEF ChatSpec

\* A page at rest shows what was asked for last, although the timer may read the
\* iframe between an answer, its render and the effects of that; but for an iframe
\* that is left, or has been left, while something else is on its way to the screen.
THEOREM AskedIsShown == ChatSpec => []LastOneWins
  <1>1. AskedIsComing => LastOneWins
    BY DEF AskedIsComing, LastOneWins, AtRest, Steady
  <1> QED
    BY <1>1, AlwaysAskedIsComing, PTL

\* A page at rest that awaits no answer, and was last sent to its conversation by
\* the answer to the last of its requests, shows a conversation of its source.
THEOREM ScreenIsRight == ChatSpec => []RightConversation
  <1>1. ChatInit => ScreenInv
    <2>1. ChatInit => ChatTypes
      BY ChatInitType DEF ChatTypes, ChatInit, AnswersFit
    <2>2. ChatInit => AskedIsComing /\ LastIsOfPage
      BY DEF ChatInit, AskedIsComing, LastIsOfPage
    <2> QED
      BY <2>1, <2>2 DEF ScreenInv
  <1>2. ScreenInv /\ [ChatNext]_chatVars => ScreenInv'
    <2> SUFFICES ASSUME ScreenInv, [ChatNext]_chatVars PROVE ScreenInv'
      OBVIOUS
    <2>1. ChatTypes'
      BY ChatTypesStep DEF ScreenInv
    <2>2. AskedIsComing'
      BY AskedIsComingStep DEF ScreenInv
    <2>3. LastIsOfPage'
      BY LastIsOfPageStep
    <2> QED
      BY <2>1, <2>2, <2>3 DEF ScreenInv
  <1>3. ScreenInv => RightConversation
    <2> SUFFICES ASSUME ScreenInv, AtRest, \A i \in DOMAIN requests : requests[i].lost,
                        page.by = "answer", page.asked # 0
                 PROVE  conversations[page.conv].source = page.source
      BY DEF RightConversation
    <2>1. page.conv = page.asked
      BY DEF ScreenInv, AskedIsComing, AtRest, Steady
    <2>2. \A i \in DOMAIN requests : requests[i].late
      BY DEF ScreenInv, LastIsOfPage
    <2>3. Len(requests) \in Nat /\ DOMAIN requests = 1 .. Len(requests)
      BY LenProperties DEF ScreenInv, ChatTypes, ChatTypeOK
    <2>4. conversations[page.asked].source = page.source
      BY <2>2, <2>3 DEF ScreenInv, LastIsOfPage
    <2> QED
      BY <2>1, <2>4
  <1> QED
    BY <1>1, <1>2, <1>3, PTL DEF ChatSpec

-----------------------------------------------------------------------------
(* The conversations of an agent *)

OverlapInv == ChatTypes /\ NoneBefore /\ DuplicatesOverlap

Missed(r) ==
  r.pc = "insert" =>
    /\ r.after <= Len(conversations)
    /\ \A c \in 1 .. Len(conversations) :
         conversations[c].source = r.source /\ conversations[c].agent = r.agent
         => r.after < c

LEMMA NoneBeforeIsMissed ==
  ASSUME ChatTypeOK
  PROVE  NoneBefore <=> \A i \in 1 .. Len(requests) : Missed(requests[i])
  <1>1. /\ DOMAIN requests = 1 .. Len(requests)
        /\ DOMAIN conversations = 1 .. Len(conversations)
    BY LenProperties DEF ChatTypeOK
  <1>2. ASSUME NEW r
        PROVE  (\A c \in OfAgent(r.source, r.agent) : r.after < c)
                 <=> \A c \in 1 .. Len(conversations) :
                       conversations[c].source = r.source /\ conversations[c].agent = r.agent
                       => r.after < c
    BY <1>1, Zenon DEF OfAgent
  <1> QED
    BY <1>1, <1>2, Zenon DEF NoneBefore, Missed

LEMMA NoneBeforeStep ==
  ASSUME ChatTypes, NoneBefore, [ChatNext]_chatVars
  PROVE  NoneBefore'
  <1>1. /\ ChatTypeOK /\ requests \in Seq(Request) /\ Len(conversations) \in Nat
        /\ Len(requests) \in Nat /\ DOMAIN requests = 1 .. Len(requests)
        /\ \A i \in 1 .. Len(requests) : requests[i] \in Request
    BY LenProperties, ElementOfSeq DEF ChatTypes, ChatTypeOK
  <1>2. \A i \in 1 .. Len(requests) : Missed(requests[i])
    BY <1>1, NoneBeforeIsMissed
  <1>3. /\ Len(conversations') \in Nat /\ Len(conversations) <= Len(conversations')
        /\ \A k \in 1 .. Len(conversations) : conversations'[k] = conversations[k]
    BY <1>1, ConversationsStay
  <1> DEFINE Good(r) ==
        r.pc = "insert" =>
          /\ r.after <= Len(conversations')
          /\ \A c \in 1 .. Len(conversations') :
               conversations'[c].source = r.source /\ conversations'[c].agent = r.agent
               => r.after < c
  <1>4. ASSUME NEW i \in 1 .. Len(requests), NEW v,
               v.pc = "insert" => /\ requests[i].pc = "insert"
                                  /\ v.source = requests[i].source
                                  /\ v.agent = requests[i].agent
                                  /\ v.after = requests[i].after
        PROVE  Good(v)
    <2> SUFFICES ASSUME v.pc = "insert" PROVE Good(v)
      OBVIOUS
    <2>1. /\ v.source = requests[i].source /\ v.agent = requests[i].agent
          /\ v.after = requests[i].after /\ v.after \in Nat
      BY <1>1, <1>4 DEF Request
    <2>2. /\ v.after <= Len(conversations)
          /\ \A c \in 1 .. Len(conversations) :
               conversations[c].source = v.source /\ conversations[c].agent = v.agent
               => v.after < c
      BY <1>2, <1>4, <2>1 DEF Missed
    <2>3. v.after <= Len(conversations')
      BY <1>1, <1>3, <2>1, <2>2
    <2>4. ASSUME NEW c \in 1 .. Len(conversations'),
                 conversations'[c].source = v.source, conversations'[c].agent = v.agent
          PROVE  v.after < c
      <3>1. CASE c \in 1 .. Len(conversations)
        BY <1>3, <2>2, <2>4, <3>1
      <3>2. CASE c > Len(conversations)
        BY <1>1, <2>1, <2>2, <3>2
      <3> QED
        BY <1>1, <3>1, <3>2
    <2> QED
      BY <2>3, <2>4
  <1>5. SUFFICES \A i \in 1 .. Len(requests') : Good(requests'[i])
    <2>1. DOMAIN requests' = 1 .. Len(requests')
      BY ChatTypesStep, LenProperties DEF ChatTypes, ChatTypeOK
    <2>2. DOMAIN conversations' = 1 .. Len(conversations')
      BY <1>1, ConversationsStay
    <2> QED
      BY <1>5, <2>1, <2>2 DEF NoneBefore, OfAgent
  <1>6. CASE UNCHANGED requests
    BY <1>4, <1>6
  <1>7. CASE RestartApi
    <2>1. \A i \in 1 .. Len(requests') : requests'[i].pc = "answer"
      BY <1>1, <1>7, RestartFields
    <2> QED
      BY <2>1
  <1>8. ASSUME NEW i \in DOMAIN requests, Serve(i)
        PROVE  \A j \in 1 .. Len(requests') : Good(requests'[j])
    <2>1. PICK v \in Request :
            /\ Serves(i, v)
            /\ v.pc = "insert" => Unfound(i, v) /\ UNCHANGED conversations
      BY <1>1, <1>8, ServeFields
    <2>2. /\ Len(requests') = Len(requests) /\ requests'[i] = v
          /\ \A j \in DOMAIN requests \ {i} : requests'[j] = requests[j]
      BY <1>1, <2>1, OneMoves DEF Serves
    <2>3. Good(v)
      <3> SUFFICES ASSUME v.pc = "insert" PROVE Good(v)
        OBVIOUS
      <3>1. /\ v.after = Len(conversations) /\ OfAgent(v.source, v.agent) = {}
            /\ conversations' = conversations
        BY <2>1 DEF Unfound
      <3>2. DOMAIN conversations = 1 .. Len(conversations)
        BY <1>1, LenProperties DEF ChatTypeOK
      <3>3. \A c \in 1 .. Len(conversations) :
              ~(conversations[c].source = v.source /\ conversations[c].agent = v.agent)
        BY <3>1, <3>2 DEF OfAgent
      <3> QED
        BY <1>1, <3>1, <3>3
    <2>4. ASSUME NEW j \in 1 .. Len(requests), j # i PROVE Good(requests'[j])
      BY <1>1, <1>4, <2>2, <2>4
    <2> QED
      BY <2>2, <2>3, <2>4
  <1>9. ASSUME NEW i \in DOMAIN requests, ShowConversation(i) \/ DropAnswer(i)
        PROVE  \A j \in 1 .. Len(requests') : Good(requests'[j])
    <2>1. /\ Len(requests') = Len(requests) - 1
          /\ \A k \in 1 .. Len(requests) - 1 :
               LET r == requests[IF k < i THEN k ELSE k + 1] IN
               /\ requests'[k].source = r.source /\ requests'[k].pc = r.pc
               /\ requests'[k].agent = r.agent /\ requests'[k].after = r.after
      <3>1. OneLess(i)
        BY <1>1, <1>9, ShowIsOneLess, DropFields
      <3> QED
        BY Zenon, <3>1 DEF OneLess
    <2>2. ASSUME NEW k \in 1 .. Len(requests) - 1 PROVE Good(requests'[k])
      <3> DEFINE j == IF k < i THEN k ELSE k + 1
      <3>1. j \in 1 .. Len(requests)
        BY <1>1
      <3>2. /\ requests'[k].source = requests[j].source /\ requests'[k].pc = requests[j].pc
            /\ requests'[k].agent = requests[j].agent
            /\ requests'[k].after = requests[j].after
        BY <2>1
      <3> HIDE DEF j
      <3> QED
        BY <1>4, <3>1, <3>2
    <2> QED
      BY <2>1, <2>2
  <1>10. ASSUME NEW s \in Sources, ChangeSource(s)
         PROVE  \A j \in 1 .. Len(requests') : Good(requests'[j])
    <2>1. /\ Len(requests') = Len(requests) + 1
          /\ requests'[Len(requests) + 1] = NewRequest(s)
          /\ \A i \in 1 .. Len(requests) : requests'[i] = requests[i]
      BY <1>1, <1>10, ChangeSourceFields
    <2>2. ASSUME NEW j \in 1 .. Len(requests) + 1 PROVE Good(requests'[j])
      <3>1. CASE j \in 1 .. Len(requests)
        BY <1>4, <2>1, <3>1
      <3>2. CASE j = Len(requests) + 1
        <4>1. NewRequest(s).pc = "manifest"
          BY DEF NewRequest
        <4> QED
          BY <2>1, <3>2, <4>1
      <3> QED
        BY <1>1, <3>1, <3>2
    <2> QED
      BY <2>1, <2>2
  <1>11. ASSUME NEW s \in Sources, BeginChat(s) PROVE UNCHANGED requests
    BY <1>11 DEF BeginChat
  <1>12. CASE ReopenPage
    <2>1. /\ Len(requests') = Len(requests)
          /\ \A i \in 1 .. Len(requests) :
               /\ requests'[i].source = requests[i].source
               /\ requests'[i].pc = requests[i].pc
               /\ requests'[i].agent = requests[i].agent
               /\ requests'[i].after = requests[i].after
      BY <1>1, <1>12, ReopenFields
    <2> QED
      BY <1>4, <2>1
  <1> QED
    BY <1>6, <1>7, <1>8, <1>9, <1>10, <1>11, <1>12, ApartFields, AnyChatStep

\* A conversation that a request makes comes after every one of its agent that the
\* request did not see.
LEMMA OverlapKept ==
  ASSUME ChatTypes, DuplicatesOverlap, NEW new \in Conversation,
         conversations' = Append(conversations, new),
         new.by = "request" =>
           \A c \in OfAgent(new.source, new.agent) : new.after < c
  PROVE  DuplicatesOverlap'
  <1>1. /\ conversations \in Seq(Conversation) /\ Len(conversations) \in Nat
        /\ DOMAIN conversations = 1 .. Len(conversations)
        /\ Len(conversations') = Len(conversations) + 1
        /\ DOMAIN conversations' = 1 .. Len(conversations) + 1
        /\ conversations'[Len(conversations) + 1] = new
        /\ \A k \in 1 .. Len(conversations) : conversations'[k] = conversations[k]
    BY AddedConversation, LenProperties DEF ChatTypes, ChatTypeOK
  <1> DEFINE n == Len(conversations)
  <1>2. SUFFICES ASSUME NEW c \in 1 .. n + 1, NEW d \in 1 .. n + 1,
                        c < d, conversations'[d].by = "request",
                        conversations'[c].source = conversations'[d].source,
                        conversations'[c].agent = conversations'[d].agent
                 PROVE  conversations'[d].after < c
    BY <1>1 DEF DuplicatesOverlap, OfAgent
  <1>3. c \in 1 .. n
    BY <1>1, <1>2
  <1>4. CASE d \in 1 .. n
    <2>1. conversations'[c] = conversations[c] /\ conversations'[d] = conversations[d]
      BY <1>1, <1>3, <1>4
    <2>2. c \in OfAgent(conversations[d].source, conversations[d].agent)
      BY <1>1, <1>2, <1>3, <2>1 DEF OfAgent
    <2> QED
      BY <1>1, <1>2, <1>3, <1>4, <2>1, <2>2 DEF DuplicatesOverlap
  <1>5. CASE d = n + 1
    <2>1. conversations'[d] = new /\ conversations'[c] = conversations[c]
      BY <1>1, <1>3, <1>5
    <2>2. c \in OfAgent(new.source, new.agent)
      BY <1>1, <1>2, <1>3, <2>1 DEF OfAgent
    <2> QED
      BY <1>2, <2>1, <2>2
  <1> QED
    BY <1>1, <1>4, <1>5

LEMMA DuplicatesOverlapStep ==
  ASSUME OverlapInv, [ChatNext]_chatVars
  PROVE  DuplicatesOverlap'
  <1>1. ChatTypes /\ ChatTypeOK /\ DuplicatesOverlap /\ DOMAIN requests = 1 .. Len(requests)
    BY LenProperties DEF OverlapInv, ChatTypes, ChatTypeOK
  <1>2. CASE UNCHANGED conversations
    BY <1>1, <1>2 DEF DuplicatesOverlap, OfAgent
  <1>3. ASSUME NEW i \in DOMAIN requests, requests[i].pc = "insert",
               conversations' = Append(conversations, Inserted(i))
        PROVE  DuplicatesOverlap'
    <2> DEFINE new == Inserted(i)
    <2>1. new \in Conversation
      BY <1>1, InsertedType
    <2>2. /\ new.source = requests[i].source /\ new.agent = requests[i].agent
          /\ new.after = requests[i].after
      BY DEF Inserted
    <2>3. \A c \in OfAgent(new.source, new.agent) : new.after < c
      BY <1>3, <2>2 DEF OverlapInv, NoneBefore
    <2> HIDE DEF new
    <2> QED
      BY <1>1, <1>3, <2>1, <2>3, OverlapKept DEF new
  <1>4. ASSUME NEW i \in DOMAIN requests, Serve(i) PROVE DuplicatesOverlap'
    BY <1>1, <1>2, <1>3, <1>4, ServeFields
  <1>5. ASSUME NEW s \in Sources, BeginChat(s) PROVE DuplicatesOverlap'
    <2>1. /\ BeganWith(s) \in Conversation
          /\ conversations' = Append(conversations, BeganWith(s))
      BY <1>1, <1>5, BeginChatFields
    <2>2. BeganWith(s).by # "request"
      BY DEF BeganWith
    <2> QED
      BY <1>1, <2>1, <2>2, OverlapKept
  <1>6. RestartApi \/ ReopenPage => UNCHANGED conversations
    BY DEF RestartApi, ReopenPage
  <1>7. ASSUME NEW i \in DOMAIN requests, ShowConversation(i) \/ DropAnswer(i)
        PROVE  UNCHANGED conversations
    BY <1>7 DEF ShowConversation, DropAnswer
  <1>8. ASSUME NEW s \in Sources, ChangeSource(s) PROVE UNCHANGED conversations
    BY <1>8 DEF ChangeSource
  <1> QED
    BY <1>2, <1>4, <1>5, <1>6, <1>7, <1>8, ApartFields, AnyChatStep

\* Two conversations of one agent are made only by requests of which neither had seen
\* the conversation of the other, however often the agents are made again.
THEOREM SecondOnlyIfUnseen == ChatSpec => []DuplicatesOverlap
  <1>1. ChatInit => OverlapInv
    <2>1. ChatInit => ChatTypes
      BY ChatInitType DEF ChatTypes, ChatInit, AnswersFit
    <2>2. ChatInit => NoneBefore /\ DuplicatesOverlap
      BY DEF ChatInit, NoneBefore, DuplicatesOverlap
    <2> QED
      BY <2>1, <2>2 DEF OverlapInv
  <1>2. OverlapInv /\ [ChatNext]_chatVars => OverlapInv'
    <2> SUFFICES ASSUME OverlapInv, [ChatNext]_chatVars PROVE OverlapInv'
      OBVIOUS
    <2>1. ChatTypes'
      BY ChatTypesStep DEF OverlapInv
    <2>2. NoneBefore'
      BY NoneBeforeStep DEF OverlapInv
    <2>3. DuplicatesOverlap'
      BY DuplicatesOverlapStep
    <2> QED
      BY <2>1, <2>2, <2>3 DEF OverlapInv
  <1>3. OverlapInv => DuplicatesOverlap
    BY DEF OverlapInv
  <1> QED
    BY <1>1, <1>2, <1>3, PTL DEF ChatSpec

-----------------------------------------------------------------------------
(* The largest and the smallest *)

LEMMA MinOfNaturals ==
  ASSUME NEW S \in SUBSET Nat, S # {}
  PROVE  Min(S) \in S
  BY LeastNatural DEF Min

LEMMA MaxIs ==
  ASSUME NEW S \in SUBSET Int, NEW n \in S, \A k \in S : k <= n
  PROVE  Max(S) = n
  <1>1. \E x \in S : \A y \in S : x >= y
    <2>1. \A y \in S : n >= y
      OBVIOUS
    <2> QED
      BY <2>1
  <1> DEFINE m == Max(S)
  <1>2. m \in S /\ \A y \in S : m >= y
    BY <1>1 DEF Max
  <1> HIDE DEF m
  <1>3. m \in Int /\ n \in Int /\ m >= n /\ m <= n
    BY <1>2
  <1>4. m = n
    BY <1>3
  <1> QED
    BY <1>4 DEF m

LEMMA MaxOfBounded ==
  ASSUME NEW S \in SUBSET Nat, S # {}, NEW b \in Nat, \A k \in S : k <= b
  PROVE  Max(S) \in S /\ \A k \in S : k <= Max(S)
  <1> DEFINE U == {n \in Nat : \A k \in S : k <= n}
  <1>1. PICK m \in U : \A n \in U : m <= n
    BY LeastNatural
  <1>2. m \in S
    <2>1. SUFFICES ASSUME m \notin S PROVE FALSE
      OBVIOUS
    <2>2. PICK k \in S : TRUE
      OBVIOUS
    <2>3. \A j \in S : j < m
      BY <1>1, <2>1
    <2>4. m - 1 \in U
      BY <1>1, <2>2, <2>3
    <2> QED
      BY <1>1, <2>4
  <1>3. Max(S) = m
    BY <1>1, <1>2, MaxIs
  <1> QED
    BY <1>1, <1>2, <1>3

LEMMA MinOfTwo ==
  ASSUME NEW a \in Int, NEW b \in Int
  PROVE  Min({a, b}) = IF a <= b THEN a ELSE b
  <1> DEFINE m == IF a <= b THEN a ELSE b
  <1>1. m \in {a, b} /\ \A y \in {a, b} : m <= y
    OBVIOUS
  <1>2. \A x \in {a, b} : (\A y \in {a, b} : x <= y) => x = m
    OBVIOUS
  <1> QED
    BY <1>1, <1>2 DEF Min

-----------------------------------------------------------------------------
(* The other processes *)

\* New runs have larger ids than all before.
Ordered ==
  /\ ExistingRuns \subseteq born
  /\ \E b \in Nat : \A r \in born : r <= b

DbTypes ==
  /\ StoreTypeOK
  /\ rowsOf \in [Runs -> RowValues] /\ untold \in [Runs -> BOOLEAN]
  /\ born \subseteq Runs

\* What the writes of others keep: logs grow at their end, and a run that has ended
\* stays ended.
Grows ==
  \A r \in Runs :
    /\ Len(events[r]) \in Nat /\ Len(events'[r]) \in Nat
    /\ Len(events[r]) <= Len(events'[r])
    /\ \A k \in 1 .. Len(events[r]) : events'[r][k] = events[r][k]

OverStays == \A r \in Runs : IsOver(r) => IsOver(r)'

DbStep == DbTypes' /\ Ordered' /\ Grows /\ OverStays

LEMMA UntouchedGrow ==
  ASSUME DbTypes, UNCHANGED events
  PROVE  Grows
  <1>1. \A r \in Runs : events[r] \in Seq(EventKinds)
    BY DEF DbTypes, StoreTypeOK
  <1> QED
    BY <1>1 DEF Grows

LEMMA WriteEventGrows ==
  ASSUME DbTypes, NEW r \in Runs, NEW e \in EventKinds, WriteEvent(r, e)
  PROVE  Grows
  <1>1. events \in [Runs -> Seq(EventKinds)]
    BY DEF DbTypes, StoreTypeOK
  <1>2. events' = [events EXCEPT ![r] = Append(events[r], e)]
    BY DEF WriteEvent
  <1>3. ASSUME NEW q \in Seq(EventKinds)
        PROVE  /\ Len(q) \in Nat /\ Len(Append(q, e)) \in Nat
               /\ Len(q) <= Len(Append(q, e))
               /\ \A k \in 1 .. Len(q) : Append(q, e)[k] = q[k]
    OBVIOUS
  <1>4. ASSUME NEW x \in Runs
        PROVE  /\ Len(events[x]) \in Nat /\ Len(events'[x]) \in Nat
               /\ Len(events[x]) <= Len(events'[x])
               /\ \A k \in 1 .. Len(events[x]) : events'[x][k] = events[x][k]
    <2>1. CASE x = r
      BY <1>1, <1>2, <1>3, <2>1
    <2>2. CASE x # r
      <3>1. events'[x] = events[x] /\ events[x] \in Seq(EventKinds)
        BY <1>1, <1>2, <2>2
      <3> QED
        BY <3>1
    <2> QED
      BY <2>1, <2>2
  <1> QED
    BY <1>4 DEF Grows

LEMMA CreateRunKeeps ==
  ASSUME DbTypes, Ordered, NEW r \in Runs, CreateRun(r)
  PROVE  DbStep
  <1>1. StoreTypeOK' /\ UNCHANGED events
    BY InsertRunType DEF CreateRun, InsertRun, DbTypes
  <1>2. /\ born' = born \cup {r} /\ UNCHANGED <<rowsOf, untold>>
        /\ \A q \in born : q < r
        /\ runs' = [runs EXCEPT ![r] = [status |-> "running", ended |-> FALSE]]
    BY DEF CreateRun, InsertRun
  <1>3. DbTypes'
    BY <1>1, <1>2 DEF DbTypes
  <1>4. runs \in [Runs -> RunRow] /\ r \in Nat /\ born \subseteq Nat
    BY DashboardAssumptions DEF DbTypes, StoreTypeOK
  <1>5. r \notin born
    BY <1>2, <1>4
  <1>6. \A x \in Runs : x # r => runs'[x] = runs[x]
    BY <1>2, <1>4
  <1>7. ExistingRuns' \subseteq born'
    BY <1>2, <1>6 DEF Ordered, ExistingRuns, RunExists
  <1>8. \A q \in born' : q <= r
    BY <1>2, <1>4
  <1>9. OverStays
    BY <1>2, <1>5, <1>6 DEF OverStays, IsOver, IsActive
  <1>10. Grows
    BY <1>1, UntouchedGrow
  <1> QED
    BY <1>3, <1>4, <1>7, <1>8, <1>9, <1>10 DEF DbStep, Ordered

LEMMA SameRunsKeep ==
  ASSUME DbTypes, Ordered, UNCHANGED <<runs, born>>
  PROVE  Ordered' /\ OverStays
  BY DEF Ordered, OverStays, ExistingRuns, RunExists, IsOver, IsActive

LEMMA ChangeRunKeeps ==
  ASSUME DbTypes, Ordered, NEW r \in Runs, ChangeRun(r)
  PROVE  DbStep
  <1>1. UNCHANGED <<rowsOf, untold, born>>
    BY DEF ChangeRun
  <1>2. CASE IsActive(r) /\ \E status \in {"done", "cancelled"} : EndRun(r, status)
    <2>1. PICK status \in {"done", "cancelled"} : EndRun(r, status)
      BY <1>2
    <2>2. StoreTypeOK'
      BY <2>1, EndRunType DEF TerminalStatus, DbTypes
    <2>3. /\ runs \in [Runs -> RunRow] /\ RunExists(r) /\ UNCHANGED events
          /\ runs' = [runs EXCEPT ![r] = [status |-> status, ended |-> TRUE]]
      BY <1>2, <2>1 DEF EndRun, IsActive, ActiveStatus, RunExists, DbTypes, StoreTypeOK
    <2>4. /\ \A x \in Runs : x # r => runs'[x] = runs[x]
          /\ runs'[r].status \notin ActiveStatus
      BY <2>3 DEF ActiveStatus
    <2>5. Ordered' /\ OverStays
      BY <1>1, <2>3, <2>4 DEF Ordered, OverStays, ExistingRuns, RunExists, IsOver, IsActive
    <2> QED
      BY <1>1, <2>2, <2>3, <2>5, UntouchedGrow DEF DbStep, DbTypes
  <1>3. CASE \E flag \in {"run", "pause"} : SetControlFlag(r, flag)
    <2>1. StoreTypeOK' /\ UNCHANGED <<runs, events>>
      BY <1>3, SetControlFlagType DEF Flags, DbTypes, SetControlFlag
    <2> QED
      BY <1>1, <2>1, UntouchedGrow, SameRunsKeep DEF DbStep, DbTypes
  <1>4. CASE \E kind \in {"paused", "validation_done"} : WriteEvent(r, [kind |-> kind])
    <2>1. PICK kind \in {"paused", "validation_done"} : WriteEvent(r, [kind |-> kind])
      BY <1>4
    <2>2. [kind |-> kind] \in EventKinds
      BY DEF EventKinds, RunEvents
    <2>3. StoreTypeOK' /\ Grows
      BY <2>1, <2>2, WriteEventType, WriteEventGrows DEF DbTypes
    <2>4. UNCHANGED runs
      BY <2>1 DEF WriteEvent
    <2> QED
      BY <1>1, <2>3, <2>4, SameRunsKeep DEF DbStep, DbTypes
  <1> QED
    BY <1>2, <1>3, <1>4 DEF ChangeRun

LEMMA RemoveRunKeeps ==
  ASSUME DbTypes, Ordered, NEW r \in Runs, RemoveRun(r)
  PROVE  DbStep
  <1>1. /\ DeleteRun(r) /\ UNCHANGED <<events, born, untold>>
        /\ rowsOf' = [rowsOf EXCEPT ![r] = NoRows]
    BY DEF RemoveRun, DeleteRun, Log!Remove
  <1>2. StoreTypeOK'
    BY <1>1, DeleteRunType DEF DbTypes
  <1>3. DbTypes'
    BY <1>1, <1>2, RowListAssumptions DEF DbTypes
  <1>4. runs \in [Runs -> RunRow] /\ runs' = [runs EXCEPT ![r] = NoRun]
    BY <1>1 DEF DbTypes, StoreTypeOK, DeleteRun
  <1>5. (\A x \in Runs : x # r => runs'[x] = runs[x]) /\ runs'[r].status = "absent"
    BY <1>4 DEF NoRun
  <1>6. Ordered' /\ OverStays
    BY <1>1, <1>5
    DEF Ordered, OverStays, ExistingRuns, RunExists, IsOver, IsActive, ActiveStatus
  <1> QED
    BY <1>1, <1>3, <1>6, UntouchedGrow DEF DbStep

LEMMA WriteRowsKeeps ==
  ASSUME DbTypes, Ordered, NEW r \in Runs, WriteRows(r)
  PROVE  DbStep
  <1>1. UNCHANGED born /\ rowsOf \in [Runs -> RowValues] /\ untold \in [Runs -> BOOLEAN]
    BY DEF WriteRows, DbTypes
  <1>2. CASE UNCHANGED storeVars /\ (Log!Clear(r) \/ \E v \in RowValues : Log!Put(r, v))
    <2>1. rowsOf' \in [Runs -> RowValues] /\ untold' \in [Runs -> BOOLEAN]
      BY <1>1, <1>2, RowListAssumptions DEF Log!Clear, Log!Put
    <2>2. StoreTypeOK' /\ UNCHANGED <<runs, events>>
      BY <1>2, StoreStutterType DEF DbTypes, storeVars
    <2> QED
      BY <1>1, <2>1, <2>2, UntouchedGrow, SameRunsKeep DEF DbStep, DbTypes
  <1>3. CASE Log!Tell(r) /\ WriteEvent(r, [kind |-> "benchmark_row"])
    <2>1. rowsOf' \in [Runs -> RowValues] /\ untold' \in [Runs -> BOOLEAN]
      BY <1>1, <1>3 DEF Log!Tell
    <2>2. [kind |-> "benchmark_row"] \in EventKinds
      BY DEF EventKinds, RunEvents
    <2>3. StoreTypeOK' /\ Grows
      BY <1>3, <2>2, WriteEventType, WriteEventGrows DEF DbTypes
    <2>4. UNCHANGED runs
      BY <1>3 DEF WriteEvent
    <2> QED
      BY <1>1, <2>1, <2>3, <2>4, SameRunsKeep DEF DbStep, DbTypes
  <1> QED
    BY <1>2, <1>3 DEF WriteRows

LEMMA ElsewhereKeeps ==
  ASSUME DbTypes, Ordered, Elsewhere
  PROVE  DbStep
  BY CreateRunKeeps, ChangeRunKeeps, RemoveRunKeeps, WriteRowsKeeps DEF Elsewhere

LEMMA DbUntouched ==
  ASSUME DbTypes, Ordered, UNCHANGED dbVars
  PROVE  DbStep
  <1>1. UNCHANGED <<runs, events, born, rowsOf, untold>> /\ UNCHANGED storeVars
    BY DEF dbVars, storeVars
  <1>2. StoreTypeOK'
    BY <1>1, StoreStutterType DEF DbTypes
  <1> QED
    BY <1>1, <1>2, UntouchedGrow, SameRunsKeep DEF DbStep, DbTypes

\* A step is one of the other processes, or leaves the database alone.
LEMMA DbMoves ==
  ASSUME DbTypes, Ordered, [DashboardNext]_viewVars
  PROVE  DbStep
  <1>1. Elsewhere \/ UNCHANGED dbVars
    BY DEF DashboardNext, viewVars, ShowRuns, PickRun, Poller, PollFails, Milestones, Rows,
       Fetches, FetchFails, Connects, Breaks, Outside
  <1> QED
    BY <1>1, ElsewhereKeeps, DbUntouched

-----------------------------------------------------------------------------
(* The connections *)

PollTyped == poll.pc # "off" => poll.run \in Runs

ViewTypes == DbTypes /\ Ordered /\ DashboardTypeOK /\ Subscribed /\ PollTyped

LEMMA NewestTyped ==
  ASSUME DbTypes, Ordered
  PROVE  Newest(ExistingRuns) \in ExistingRuns \cup {Unknown}
  <1>1. ExistingRuns \subseteq Nat
    BY DashboardAssumptions DEF ExistingRuns
  <1>2. PICK b \in Nat : \A r \in ExistingRuns : r <= b
    BY DEF Ordered
  <1>3. ExistingRuns # {} => Max(ExistingRuns) \in ExistingRuns
    BY <1>1, <1>2, MaxOfBounded
  <1> QED
    BY <1>3 DEF Newest

\* The selection changes to a run, or to none.
Selects == \E r \in Runs \cup {Unknown} : Select(r) /\ UNCHANGED <<dbVars, mounted>>

\* The steps of the dashboard, by what they touch.
LEMMA ViewMoves ==
  ASSUME ViewTypes, [DashboardNext]_viewVars
  PROVE  \/ UNCHANGED <<hookVars, appVars, mounted>>
         \/ UNCHANGED <<hookVars, dbVars, selected, mounted>>
         \/ Selects
         \/ UNCHANGED <<dbVars, appVars, mounted>> /\
              \/ (Polling \/ FailPoll) /\ UNCHANGED <<streamVars, listVars>>
              \/ ReceiveLive("milestones") /\ UNCHANGED listVars
              \/ ReceiveList("list") /\ UNCHANGED liveVars
              \/ Fetching /\ UNCHANGED <<streamVars, liveVars>>
              \/ /\ \E i \in DOMAIN fetches : FailFetch(i)
                 /\ failures' = failures + 1
                 /\ UNCHANGED <<streamVars, detail, poll, milestones>>
              \/ \E h \in Hooks : (Connect(h) \/ Break(h)) /\ UNCHANGED <<liveVars, listVars>>
  <1>1. ASSUME ShowRuns
        PROVE  UNCHANGED <<hookVars, dbVars, selected, mounted>> \/ Selects
    <2>1. Newest(ExistingRuns) \in Runs \cup {Unknown}
      BY NewestTyped DEF ExistingRuns, ViewTypes
    <2> QED
      BY <1>1, <2>1 DEF ShowRuns, Selects
  <1>2. ASSUME NEW r \in Runs, PickRun(r) PROVE Selects
    BY <1>2 DEF PickRun, Selects
  <1>3. ASSUME Elsewhere PROVE UNCHANGED <<hookVars, appVars, mounted>>
    BY <1>3 DEF Elsewhere
  <1>4. ASSUME UNCHANGED viewVars PROVE UNCHANGED <<hookVars, appVars, mounted>>
    BY <1>4 DEF viewVars
  <1>5. ASSUME Outside PROVE UNCHANGED <<dbVars, appVars, mounted>>
    BY <1>5 DEF Outside
  <1> QED
    BY <1>1, <1>2, <1>3, <1>4, <1>5
    DEF DashboardNext, Poller, PollFails, Milestones, Rows, Fetches, FetchFails, Connects,
        Breaks

Sound(v) ==
  /\ v.since = 0
  /\ v.state # "none" => selected # Unknown /\ v.run = selected
  /\ v.state = "open" => v.cursor <= Len(events[v.run]) /\ v.opened > 0

LEMMA SelectedTyped ==
  ASSUME ViewTypes, NEW h \in Hooks, stream[h].state # "none"
  PROVE  stream[h].run \in Runs /\ stream[h].run = selected
  BY DEF ViewTypes, Subscribed, DashboardTypeOK

LEMMA OneStreamMoves ==
  ASSUME ViewTypes, NEW h \in Hooks, NEW v \in EventSource, Sound(v),
         stream' = [stream EXCEPT ![h] = v], breaks' \in Nat,
         UNCHANGED <<selected, events>>
  PROVE  StreamTypeOK' /\ Subscribed'
  <1>1. stream \in [Hooks -> EventSource]
    BY DEF ViewTypes, DashboardTypeOK, StreamTypeOK
  <1>2. stream' \in [Hooks -> EventSource]
    BY <1>1
  <1>3. ASSUME NEW x \in Hooks
        PROVE  LET s == stream'[x] IN
               /\ s.since = 0
               /\ s.state # "none" => selected # Unknown /\ s.run = selected
               /\ s.state = "open" => s.cursor <= Len(events[s.run]) /\ s.opened > 0
    <2>1. CASE x = h
      BY <1>1, <2>1 DEF Sound
    <2>2. CASE x # h
      BY <1>1, <2>2 DEF ViewTypes, Subscribed
    <2> QED
      BY <2>1, <2>2
  <1> QED
    BY <1>2, <1>3 DEF StreamTypeOK, Subscribed

LEMMA StreamsUntouched ==
  ASSUME ViewTypes, UNCHANGED <<streamVars, selected>>, Grows
  PROVE  StreamTypeOK' /\ Subscribed'
  <1>1. stream \in [Hooks -> EventSource] /\ UNCHANGED <<stream, breaks>>
    BY DEF ViewTypes, DashboardTypeOK, StreamTypeOK, streamVars
  <1>2. ASSUME NEW h \in Hooks, stream[h].state = "open"
        PROVE  stream[h].cursor <= Len(events'[stream[h].run])
    <2>1. stream[h].run \in Runs
      BY <1>2, SelectedTyped
    <2>2. stream[h].cursor <= Len(events[stream[h].run]) /\ stream[h].cursor \in Nat
      BY <1>1, <1>2 DEF ViewTypes, Subscribed, EventSource
    <2>3. /\ Len(events[stream[h].run]) \in Nat /\ Len(events'[stream[h].run]) \in Nat
          /\ Len(events[stream[h].run]) <= Len(events'[stream[h].run])
      BY <2>1 DEF Grows
    <2> QED
      BY <2>2, <2>3
  <1> QED
    BY <1>1, <1>2 DEF ViewTypes, DashboardTypeOK, StreamTypeOK, Subscribed

LEMMA ReceiveFields ==
  ASSUME ViewTypes, NEW h \in Hooks, Receive(h), UNCHANGED <<selected, events>>
  PROVE  /\ stream[h].state = "open" /\ stream[h].run \in Runs /\ stream[h].run = selected
         /\ stream[h].cursor \in Nat
         /\ NextId(h) \in 1 .. Len(events[stream[h].run])
         /\ stream'[h].state = "open" /\ stream'[h].run = stream[h].run
         /\ stream'[h].cursor = NextId(h) /\ stream'[h].opened = stream[h].opened
         /\ StreamTypeOK' /\ Subscribed'
         /\ \A x \in Hooks : x # h => stream'[x] = stream[x]
  <1> DEFINE s == stream[h]
             v == [s EXCEPT !.cursor = NextId(h), !.errors = 0]
  <1>1. stream \in [Hooks -> EventSource] /\ s \in EventSource /\ breaks \in Nat
    BY DEF ViewTypes, DashboardTypeOK, StreamTypeOK
  <1>2. s.state = "open" /\ s.cursor < Len(events[s.run])
    BY DEF Receive, HasNext
  <1>3. s.run \in Runs /\ s.run = selected
    BY <1>2, SelectedTyped
  <1>4. Len(events[s.run]) \in Nat /\ s.cursor \in Nat
    BY <1>1, <1>3 DEF ViewTypes, DbTypes, StoreTypeOK, EventSource
  <1>5. NextId(h) \in Nat /\ NextId(h) \in 1 .. Len(events[s.run])
    BY <1>2, <1>4 DEF NextId
  <1>6. stream' = [stream EXCEPT ![h] = v]
    BY DEF Receive
  <1> HIDE DEF NextId
  <1>7. /\ v \in EventSource /\ v.state = s.state /\ v.run = s.run /\ v.since = s.since
        /\ v.cursor = NextId(h) /\ v.opened = s.opened
    BY <1>1, <1>5 DEF EventSource
  <1> HIDE DEF v
  <1>8. Sound(v)
    BY <1>2, <1>5, <1>7 DEF Sound, ViewTypes, Subscribed
  <1>9. breaks' \in Nat
    BY <1>1 DEF Receive
  <1>10. StreamTypeOK' /\ Subscribed'
    BY <1>6, <1>7, <1>8, <1>9, OneStreamMoves
  <1> QED
    BY <1>1, <1>2, <1>3, <1>4, <1>5, <1>6, <1>7, <1>10

LEMMA ConnectFields ==
  ASSUME ViewTypes, NEW h \in Hooks, Connect(h), UNCHANGED <<selected, events>>
  PROVE  /\ stream[h].state = "connecting"
         /\ stream'[h].state = "open" /\ stream'[h].run = stream[h].run
         /\ stream'[h].cursor = 0 /\ stream'[h].opened = stream[h].opened + 1
         /\ StreamTypeOK' /\ Subscribed'
         /\ \A x \in Hooks : x # h => stream'[x] = stream[x]
  <1> DEFINE s == stream[h]
             n == s.opened + 1
             v == [s EXCEPT !.state = "open", !.cursor = s.since, !.opened = n]
  <1>1. stream \in [Hooks -> EventSource] /\ s \in EventSource /\ breaks \in Nat
    BY DEF ViewTypes, DashboardTypeOK, StreamTypeOK
  <1>2. s.state = "connecting" /\ s.since = 0
    BY DEF Connect, ViewTypes, Subscribed
  <1>3. s.run \in Runs /\ s.run = selected /\ selected # Unknown
    BY <1>2, SelectedTyped DEF ViewTypes, Subscribed
  <1>4. Len(events[s.run]) \in Nat /\ n \in Nat /\ n > 0
    BY <1>1, <1>3 DEF ViewTypes, DbTypes, StoreTypeOK, EventSource
  <1>5. stream' = [stream EXCEPT ![h] = v]
    BY DEF Connect
  <1> HIDE DEF n
  <1>6. /\ v \in EventSource /\ v.state = "open" /\ v.run = s.run /\ v.since = 0
        /\ v.cursor = 0 /\ v.opened = n
    BY <1>1, <1>2, <1>4 DEF EventSource
  <1> HIDE DEF v
  <1>7. Sound(v)
    BY <1>3, <1>4, <1>6 DEF Sound
  <1>8. breaks' \in Nat
    BY <1>1 DEF Connect
  <1>9. StreamTypeOK' /\ Subscribed'
    BY <1>5, <1>6, <1>7, <1>8, OneStreamMoves
  <1> QED
    BY <1>1, <1>2, <1>5, <1>6, <1>9 DEF n

LEMMA BreakFields ==
  ASSUME ViewTypes, NEW h \in Hooks, Break(h), UNCHANGED <<selected, events>>
  PROVE  /\ stream[h].state \in {"connecting", "open"}
         /\ stream'[h].state \in {"connecting", "closed"} /\ stream'[h].run = stream[h].run
         /\ stream'[h].opened = stream[h].opened
         /\ StreamTypeOK' /\ Subscribed'
         /\ \A x \in Hooks : x # h => stream'[x] = stream[x]
  <1> DEFINE s == stream[h]
             n == s.errors + 1
  <1>1. stream \in [Hooks -> EventSource] /\ s \in EventSource /\ breaks \in Nat
    BY DEF ViewTypes, DashboardTypeOK, StreamTypeOK
  <1>2. PICK next \in {"connecting", "closed"} :
          stream' = [stream EXCEPT ![h].state  = IF GivesUp(h) THEN "closed" ELSE next,
                                   ![h].errors = n]
    BY DEF Break
  <1> DEFINE st == IF GivesUp(h) THEN "closed" ELSE next
             v == [s EXCEPT !.state = st, !.errors = n]
  <1>3. stream' = [stream EXCEPT ![h] = v]
    BY <1>2
  <1>4. st \in {"connecting", "closed"} /\ n \in Nat
    BY <1>1 DEF EventSource
  <1> HIDE DEF st, n
  <1>5. /\ v \in EventSource /\ v.state = st /\ v.run = s.run /\ v.since = s.since
        /\ v.opened = s.opened
    BY <1>1, <1>4 DEF EventSource
  <1> HIDE DEF v
  <1>6. s.state \in {"connecting", "open"}
    BY DEF Break
  <1>7. Sound(v)
    BY <1>4, <1>5, <1>6 DEF Sound, ViewTypes, Subscribed
  <1>8. breaks' \in Nat
    BY <1>1 DEF Break
  <1>9. StreamTypeOK' /\ Subscribed'
    BY <1>3, <1>5, <1>7, <1>8, OneStreamMoves
  <1> QED
    BY <1>1, <1>3, <1>4, <1>5, <1>6, <1>9

LEMMA SelectStreams ==
  ASSUME ViewTypes, NEW r \in Runs \cup {Unknown}, Select(r)
  PROVE  /\ selected' = r
         /\ stream'["milestones"].state # "open"
         /\ StreamTypeOK' /\ Subscribed'
  <1>1. NoSource \in EventSource
    BY DEF NoSource, EventSource
  <1> DEFINE new == Subscription(r, 0)
  <1>2. /\ new \in EventSource /\ new.state = "connecting" /\ new.run = r
        /\ new.since = 0
    BY <1>1 DEF Subscription, NoSource, EventSource
  <1>3. NoSource.state = "none" /\ NoSource.since = 0
    BY DEF NoSource
  <1>4. stream' = [h \in Hooks |-> IF r # Unknown /\ h = mounted /\ h # "poll"
                                   THEN new ELSE NoSource]
    BY DEF Select, Since
  <1> HIDE DEF new, NoSource
  <1>5. /\ stream' \in [Hooks -> EventSource]
        /\ \A h \in Hooks : \/ stream'[h] = NoSource
                            \/ stream'[h] = new /\ r # Unknown
    BY <1>1, <1>2, <1>4
  <1>6. selected' = r /\ breaks' \in Nat
    BY DEF Select, ViewTypes, DashboardTypeOK, StreamTypeOK
  <1>7. "milestones" \in Hooks
    BY DashboardAssumptions
  <1>8. stream'["milestones"].state # "open"
    BY <1>2, <1>3, <1>5, <1>7
  <1>9. StreamTypeOK'
    BY <1>5, <1>6 DEF StreamTypeOK
  <1>10. Subscribed'
    BY <1>2, <1>3, <1>5, <1>6 DEF Subscribed
  <1> QED
    BY <1>6, <1>8, <1>9, <1>10

-----------------------------------------------------------------------------
(* The hooks *)

Milestone == [run : Runs, n : Nat \ {0}]

LEMMA Prepended ==
  ASSUME NEW S, NEW q \in Seq(S), NEW m \in S, NEW K \in 1 .. Len(q) + 1
  PROVE  LET p == SubSeq(<<m>> \o q, 1, K) IN
         /\ p \in Seq(S) /\ Len(p) = K /\ p[1] = m
         /\ \A i \in 1 .. K : i > 1 => p[i] = q[i - 1]
  <1> DEFINE w == <<m>> \o q
             p == SubSeq(w, 1, K)
  <1>1. Len(q) \in Nat /\ <<m>> \in Seq(S) /\ Len(<<m>>) = 1 /\ <<m>>[1] = m
    OBVIOUS
  <1>2. /\ w \in Seq(S) /\ Len(w) = Len(q) + 1
        /\ \A i \in 1 .. Len(q) + 1 : w[i] = IF i <= 1 THEN <<m>>[i] ELSE q[i - 1]
    <2>1. /\ w \in Seq(S) /\ Len(w) = 1 + Len(q)
          /\ \A i \in 1 .. 1 + Len(q) : w[i] = IF i <= 1 THEN <<m>>[i] ELSE q[i - 1]
      BY <1>1, ConcatProperties
    <2> QED
      BY <1>1, <2>1
  <1> HIDE DEF w
  <1>3. p \in Seq(S) /\ Len(p) = K /\ \A i \in 1 .. K : p[i] = w[i]
    <2>1. \A i \in 1 .. K : w[i] \in S
      BY <1>1, <1>2
    <2>2. /\ p \in Seq(S) /\ Len(p) = (IF 1 <= K THEN K - 1 + 1 ELSE 0)
          /\ \A i \in 1 .. K - 1 + 1 : p[i] = w[1 + i - 1]
      BY <2>1, <1>1, <1>2, SubSeqProperties
    <2> QED
      BY <1>1, <2>2
  <1> HIDE DEF p
  <1>4. p[1] = m
    BY <1>1, <1>2, <1>3
  <1>5. \A i \in 1 .. K : i > 1 => p[i] = q[i - 1]
    BY <1>1, <1>2, <1>3
  <1> QED
    BY <1>3, <1>4, <1>5 DEF p, w

Kept == IF MaxMilestones <= Len(milestones) + 1 THEN MaxMilestones ELSE Len(milestones) + 1

\* The newest is put before the others, of which the oldest may drop out.
LEMMA AddedMilestone ==
  ASSUME ViewTypes, ReceiveLive("milestones"), UNCHANGED <<selected, events>>
  PROVE  LET m == [run |-> selected, n |-> NextId("milestones")] IN
         IF IsMilestone(selected, m.n)
         THEN /\ m \in Milestone
              /\ milestones' \in Seq(Milestone) /\ Len(milestones') = Kept
              /\ Kept \in 1 .. Len(milestones) + 1 /\ Kept <= MaxMilestones
              /\ milestones'[1] = m
              /\ \A i \in 1 .. Kept : i > 1 => milestones'[i] = milestones[i - 1]
         ELSE UNCHANGED milestones
  <1> DEFINE h == "milestones"
             m == [run |-> selected, n |-> NextId(h)]
  <1>1. h \in Hooks
    BY DashboardAssumptions
  <1>2. /\ stream[h].run = selected /\ selected \in Runs
        /\ NextId(h) \in 1 .. Len(events[selected])
    BY <1>1, ReceiveFields DEF ReceiveLive
  <1>3. NextEvent(h).kind \in MilestoneKinds <=> IsMilestone(selected, m.n)
    BY <1>2 DEF NextEvent, IsMilestone
  <1>4. CASE ~IsMilestone(selected, m.n)
    BY <1>3, <1>4 DEF ReceiveLive, AddMilestone
  <1>5. CASE IsMilestone(selected, m.n)
    <2>1. m \in Milestone
      <3>1. Len(events[selected]) \in Nat
        BY <1>2 DEF ViewTypes, DbTypes, StoreTypeOK
      <3>2. NextId(h) \in Nat \ {0}
        BY <1>2, <3>1
      <3> QED
        BY <1>2, <3>2 DEF Milestone
    <2>2. /\ milestones \in Seq(Milestone) /\ Len(milestones) \in Nat
          /\ MaxMilestones \in Nat \ {0}
      BY LiveRunAssumptions DEF ViewTypes, DashboardTypeOK, LiveRunTypeOK, Milestone
    <2>3. Kept \in 1 .. Len(milestones) + 1 /\ Kept <= MaxMilestones
      BY <2>2 DEF Kept
    <2>4. Min({MaxMilestones, Len(milestones) + 1}) = Kept
      BY <2>2, MinOfTwo DEF Kept
    <2>5. milestones' = SubSeq(<<m>> \o milestones, 1, Kept)
      BY <1>2, <1>3, <1>5, <2>4 DEF ReceiveLive, AddMilestone
    <2> HIDE DEF m, Kept
    <2>6. /\ milestones' \in Seq(Milestone) /\ Len(milestones') = Kept
          /\ milestones'[1] = m
          /\ \A i \in 1 .. Kept : i > 1 => milestones'[i] = milestones[i - 1]
      BY <2>1, <2>2, <2>3, <2>5, Prepended
    <2> QED
      BY <1>5, <2>1, <2>3, <2>6 DEF m
  <1> QED
    BY <1>4, <1>5

LEMMA MapStatusTyped ==
  ASSUME NEW status \in ActiveStatus \cup TerminalStatus, NEW flag \in Flags
  PROVE  /\ MapStatus(status, flag) \in DisplayStatus
         /\ status \in TerminalStatus <=> MapStatus(status, flag) \in EndStatus
  BY DEF ActiveStatus, TerminalStatus, Flags, MapStatus, DisplayStatus, EndStatus

LEMMA DuePollTyped ==
  ASSUME NEW r \in Runs
  PROVE  /\ DuePoll(r) \in Poll /\ DuePoll(r).pc = "due" /\ DuePoll(r).run = r
         /\ NoPoll \in Poll /\ NoPoll.pc = "off"
  BY DEF DuePoll, NoPoll, Poll, Status, Flags

\* A step of the poll: what is read is what the database says.
LEMMA PollFields ==
  ASSUME ViewTypes, Polling \/ FailPoll
  PROVE  /\ poll' \in Poll /\ poll'.run = poll.run /\ poll.run \in Runs
         /\ UNCHANGED milestones /\ failures' \in Nat
         /\ \/ /\ poll'.pc = "due"
               /\ \/ UNCHANGED detail
                  \/ /\ poll.pc = "answer" /\ poll.status # "absent"
                     /\ detail' = [run |-> poll.run,
                                   status |-> MapStatus(poll.status, poll.flag)]
                     /\ detail' \in Shown
            \/ /\ poll.pc = "due" /\ poll'.status = runs[poll.run].status
               /\ UNCHANGED detail
            \/ /\ poll.pc = "row" /\ poll'.status = poll.status
               /\ UNCHANGED detail
  <1>1. /\ poll \in Poll /\ failures \in Nat /\ (poll.pc # "off" => poll.run \in Runs)
        /\ runs \in [Runs -> RunRow] /\ controls \in [Runs -> Flags \cup {"absent"}]
    BY DEF ViewTypes, PollTyped, DbTypes, StoreTypeOK, DashboardTypeOK, LiveRunTypeOK
  <1>2. poll.run \in Runs
    BY <1>1 DEF Polling, ReadRun, ReadFlag, ShowRun, FailPoll
  <1>3. CASE ReadRun
    <2> DEFINE pc == IF RunExists(poll.run) THEN "row" ELSE "answer"
               st == runs[poll.run].status
    <2>1. pc \in {"row", "answer"} /\ st \in Status
      BY <1>1, <1>2 DEF RunRow, Status
    <2>2. /\ poll' = [poll EXCEPT !.pc = pc, !.status = st] /\ poll.pc = "due"
          /\ UNCHANGED <<detail, milestones, failures>>
      BY <1>3 DEF ReadRun
    <2> HIDE DEF pc, st
    <2>3. poll' \in Poll /\ poll'.run = poll.run /\ poll'.status = st
      BY <1>1, <2>1, <2>2 DEF Poll
    <2> QED
      BY <1>1, <1>2, <2>2, <2>3 DEF st
  <1>4. CASE ReadFlag
    <2> DEFINE flag == ControlFlag(poll.run)
    <2>1. flag \in Flags
      BY <1>1, <1>2 DEF ControlFlag, Flags
    <2>2. /\ poll' = [poll EXCEPT !.pc = "answer", !.flag = flag] /\ poll.pc = "row"
          /\ UNCHANGED <<detail, milestones, failures>>
      BY <1>4 DEF ReadFlag
    <2> HIDE DEF flag
    <2>3. poll' \in Poll /\ poll'.run = poll.run /\ poll'.status = poll.status
      BY <1>1, <2>1, <2>2 DEF Poll
    <2> QED
      BY <1>1, <1>2, <2>2, <2>3
  <1>5. CASE ShowRun
    <2>1. /\ poll' = DuePoll(poll.run) /\ poll.pc = "answer"
          /\ UNCHANGED <<milestones, failures>>
      BY <1>5 DEF ShowRun
    <2>2. poll' \in Poll /\ poll'.pc = "due" /\ poll'.run = poll.run
      BY <1>2, <2>1, DuePollTyped
    <2>3. CASE poll.status = "absent"
      BY <1>1, <1>2, <1>5, <2>1, <2>2, <2>3 DEF ShowRun
    <2>4. CASE poll.status # "absent"
      <3>1. poll.status \in ActiveStatus \cup TerminalStatus /\ poll.flag \in Flags
        BY <1>1, <2>4 DEF Poll, Status
      <3>2. MapStatus(poll.status, poll.flag) \in DisplayStatus
        BY <3>1, MapStatusTyped
      <3>3. detail' = [run |-> poll.run, status |-> MapStatus(poll.status, poll.flag)]
        BY <1>5, <2>4 DEF ShowRun
      <3>4. detail' \in Shown
        BY <1>2, <3>2, <3>3 DEF Shown
      <3> QED
        BY <1>1, <1>2, <2>1, <2>2, <2>4, <3>3, <3>4
    <2> QED
      BY <2>3, <2>4
  <1>6. CASE FailPoll
    <2>1. /\ poll' = DuePoll(poll.run) /\ failures' = failures + 1
          /\ UNCHANGED <<detail, milestones>>
      BY <1>6 DEF FailPoll
    <2>2. poll' \in Poll /\ poll'.pc = "due" /\ poll'.run = poll.run
      BY <1>2, <2>1, DuePollTyped
    <2> QED
      BY <1>1, <1>2, <2>1, <2>2
  <1> QED
    BY <1>3, <1>4, <1>5, <1>6 DEF Polling

LEMMA SelectFieldsLive ==
  ASSUME ViewTypes, NEW r \in Runs \cup {Unknown}, Select(r)
  PROVE  /\ milestones' = <<>> /\ detail' \in {detail, Unknown} /\ UNCHANGED failures
         /\ poll' \in Poll /\ PollTyped'
         /\ poll' = poll \/ poll'.pc \in {"off", "due"}
  <1>1. poll \in Poll /\ PollTyped
    BY DEF ViewTypes, DashboardTypeOK, LiveRunTypeOK
  <1>2. milestones' = <<>> /\ detail' \in {detail, Unknown} /\ UNCHANGED failures
    BY DEF Select, ResetLive
  <1>3. CASE UNCHANGED poll
    BY <1>1, <1>2, <1>3 DEF PollTyped
  <1>4. CASE ResetPoll(r)
    <2>1. CASE r = Unknown
      <3>1. poll' = NoPoll /\ NoPoll.pc = "off" /\ NoPoll \in Poll
        BY <1>4, <2>1 DEF ResetPoll, NoPoll, Poll, Status, Flags
      <3> QED
        BY <1>2, <3>1 DEF PollTyped
    <2>2. CASE r # Unknown
      <3>1. poll' = DuePoll(r) /\ r \in Runs
        BY <1>4, <2>2 DEF ResetPoll
      <3>2. poll' \in Poll /\ poll'.pc = "due" /\ poll'.run = r
        BY <3>1, DuePollTyped
      <3> QED
        BY <1>2, <3>1, <3>2 DEF PollTyped
    <2> QED
      BY <2>1, <2>2
  <1> QED
    BY <1>3, <1>4 DEF Select

ListTypes ==
  /\ rows \in RowValues /\ rowsError \in BOOLEAN /\ rowsLate \in BOOLEAN
  /\ fetches \in Seq(Fetch) /\ Len(fetches) <= MaxInFlight

LEMMA FetchOnceTyped ==
  ASSUME ListTypes, NEW r \in Runs, FetchOnce(r)
  PROVE  ListTypes'
  <1> DEFINE f == [run |-> r, pc |-> "asked", rows |-> NoRows, ok |-> FALSE, late |-> FALSE]
  <1>1. f \in Fetch
    BY RowListAssumptions DEF Fetch
  <1>2. /\ Len(fetches) < MaxInFlight /\ fetches' = Append(fetches, f) /\ rowsError' = FALSE
        /\ UNCHANGED <<rows, rowsLate>>
    BY DEF FetchOnce
  <1> HIDE DEF f
  <1>3. /\ fetches' \in Seq(Fetch) /\ Len(fetches') = Len(fetches) + 1
        /\ Len(fetches) \in Nat /\ MaxInFlight \in Nat
    BY <1>1, <1>2, RowListAssumptions DEF ListTypes
  <1>4. Len(fetches') <= MaxInFlight
    BY <1>2, <1>3
  <1> QED
    BY <1>2, <1>3, <1>4 DEF ListTypes

LEMMA OneFetchMoves ==
  ASSUME ListTypes, NEW i \in DOMAIN fetches, NEW f \in Fetch,
         fetches' = [fetches EXCEPT ![i] = f], UNCHANGED <<rows, rowsError, rowsLate>>
  PROVE  ListTypes'
  <1>1. fetches \in Seq(Fetch) /\ i \in 1 .. Len(fetches)
    BY LenProperties DEF ListTypes
  <1>2. fetches' \in Seq(Fetch) /\ Len(fetches') = Len(fetches)
    BY <1>1, ExceptSeq
  <1> QED
    BY <1>2 DEF ListTypes

LEMMA ShowRowsTyped ==
  ASSUME ListTypes, NEW i \in DOMAIN fetches, ShowRows(i)
  PROVE  ListTypes'
  <1> DEFINE n == Len(fetches)
             v(j) == [fetches[j] EXCEPT !.late = @ \/ j < i]
             marked == [j \in 1 .. n |-> v(j)]
  <1>1. n \in Nat /\ DOMAIN fetches = 1 .. n /\ n <= MaxInFlight /\ MaxInFlight \in Nat
    BY LenProperties, RowListAssumptions DEF ListTypes
  <1>2. fetches[i] \in Fetch
    BY ElementOfSeq, <1>1 DEF ListTypes
  <1>3. ASSUME NEW j \in 1 .. n PROVE v(j) \in Fetch
    <2>1. fetches[j] \in Fetch
      BY ElementOfSeq DEF ListTypes
    <2>2. (fetches[j].late \/ j < i) \in BOOLEAN
      OBVIOUS
    <2> QED
      BY <2>1, <2>2 DEF Fetch
  <1>4. fetches' = RemoveAt(marked, i)
    BY <1>1 DEF ShowRows
  <1> HIDE DEF v
  <1>5. marked \in Seq(Fetch) /\ Len(marked) = n
    <2>1. marked \in [1 .. n -> Fetch]
      BY <1>3
    <2> QED
      BY <1>1, <2>1
  <1> HIDE DEF marked
  <1>6. fetches' \in Seq(Fetch) /\ Len(fetches') = n - 1
    BY Zenon, <1>1, <1>4, <1>5, RemoveAtProperties
  <1>7. Len(fetches') <= MaxInFlight
    BY <1>1, <1>6
  <1>8. rows' \in RowValues /\ rowsError' \in BOOLEAN /\ rowsLate' \in BOOLEAN
    BY <1>2 DEF ShowRows, ListTypes, Fetch
  <1> QED
    BY <1>6, <1>7, <1>8 DEF ListTypes

LEMMA FetchingTyped ==
  ASSUME ListTypes, rowsOf \in [Runs -> RowValues], Fetching
  PROVE  ListTypes'
  <1>1. PICK i \in DOMAIN fetches : CheckFetch(i) \/ ReadFetch(i) \/ ShowRows(i)
    BY DEF Fetching
  <1>2. fetches[i] \in Fetch
    BY LenProperties, ElementOfSeq DEF ListTypes
  <1>3. CASE CheckFetch(i)
    <2> DEFINE pc == IF RunExists(fetches[i].run) THEN "checked" ELSE "answered"
    <2>1. pc \in {"checked", "answered"}
      OBVIOUS
    <2>2. fetches' = [fetches EXCEPT ![i].pc = pc]
      BY <1>3 DEF CheckFetch
    <2> HIDE DEF pc
    <2>3. [fetches[i] EXCEPT !.pc = pc] \in Fetch
      BY <1>2, <2>1 DEF Fetch
    <2> QED
      BY <1>3, <2>2, <2>3, OneFetchMoves DEF CheckFetch
  <1>4. CASE ReadFetch(i)
    <2> DEFINE got == rowsOf[fetches[i].run]
               f == [fetches[i] EXCEPT !.pc = "answered", !.ok = TRUE, !.rows = got]
    <2>1. got \in RowValues
      BY <1>2 DEF Fetch
    <2>2. fetches' = [fetches EXCEPT ![i] = f]
      BY <1>4 DEF ReadFetch
    <2> HIDE DEF got
    <2>3. f \in Fetch
      BY <1>2, <2>1 DEF Fetch
    <2> HIDE DEF f
    <2> QED
      BY <1>4, <2>2, <2>3, OneFetchMoves DEF ReadFetch
  <1> QED
    BY <1>1, <1>3, <1>4, ShowRowsTyped

LEMMA FailFetchTyped ==
  ASSUME ListTypes, NEW i \in DOMAIN fetches, FailFetch(i)
  PROVE  ListTypes'
  <1>1. fetches[i] \in Fetch
    BY LenProperties, ElementOfSeq DEF ListTypes
  <1>2. [fetches[i] EXCEPT !.pc = "answered"] \in Fetch
    BY <1>1 DEF Fetch
  <1>3. fetches' = [fetches EXCEPT ![i] = [fetches[i] EXCEPT !.pc = "answered"]]
    BY DEF FailFetch
  <1> QED
    BY <1>2, <1>3, OneFetchMoves DEF FailFetch

LEMMA ListStep ==
  ASSUME ViewTypes, [DashboardNext]_viewVars
  PROVE  ListTypes'
  <1>1. ListTypes /\ rowsOf \in [Runs -> RowValues]
    BY DEF ViewTypes, DashboardTypeOK, RowListTypeOK, ListTypes
  <1>2. CASE UNCHANGED listVars
    BY <1>1, <1>2 DEF ListTypes, listVars
  <1>3. ASSUME NEW r \in Runs \cup {Unknown}, Select(r), ~UNCHANGED listVars
        PROVE  ListTypes'
    <2>1. ResetList(r)
      BY <1>3 DEF Select
    <2>2. CASE r # Unknown
      BY <1>1, <1>3, <2>1, <2>2, FetchOnceTyped DEF ResetList
    <2>3. CASE r = Unknown
      BY <1>1, <2>1, <2>3, RowListAssumptions DEF ResetList, ListTypes
    <2> QED
      BY <2>2, <2>3
  <1>4. ASSUME ReceiveList("list"), UNCHANGED <<dbVars, appVars>> PROVE ListTypes'
    <2>1. "list" \in Hooks /\ UNCHANGED <<selected, events>>
      BY <1>4, DashboardAssumptions DEF dbVars, appVars, storeVars
    <2>2. stream["list"].run \in Runs
      BY <1>4, <2>1, ReceiveFields DEF ReceiveList
    <2> QED
      BY <1>1, <1>2, <1>4, <2>2, FetchOnceTyped DEF ReceiveList
  <1>5. ASSUME NEW i \in DOMAIN fetches, FailFetch(i) PROVE ListTypes'
    BY <1>1, <1>5, FailFetchTyped
  <1>6. ASSUME Fetching PROVE ListTypes'
    BY <1>1, <1>6, FetchingTyped
  <1> QED
    BY <1>2, <1>3, <1>4, <1>5, <1>6, ViewMoves DEF Selects, hookVars

LEMMA LiveStep ==
  ASSUME ViewTypes, [DashboardNext]_viewVars
  PROVE  LiveRunTypeOK' /\ PollTyped'
  <1>1. /\ LiveRunTypeOK /\ PollTyped
        /\ milestones \in Seq(Milestone) /\ Len(milestones) <= MaxMilestones
    BY DEF ViewTypes, DashboardTypeOK, LiveRunTypeOK, Milestone
  <1>2. CASE UNCHANGED liveVars
    BY <1>1, <1>2 DEF LiveRunTypeOK, PollTyped, liveVars
  <1>3. ASSUME NEW r \in Runs \cup {Unknown}, Select(r) PROVE LiveRunTypeOK' /\ PollTyped'
    <2>1. /\ milestones' = <<>> /\ detail' \in {detail, Unknown} /\ UNCHANGED failures
          /\ poll' \in Poll /\ PollTyped'
      BY <1>3, SelectFieldsLive
    <2>2. Len(milestones') <= MaxMilestones /\ milestones' \in Seq(Milestone)
      BY <2>1, EmptySeq, LiveRunAssumptions
    <2> QED
      BY <1>1, <2>1, <2>2 DEF LiveRunTypeOK, Milestone
  <1>4. ASSUME Polling \/ FailPoll PROVE LiveRunTypeOK' /\ PollTyped'
    <2>1. /\ poll' \in Poll /\ poll'.run = poll.run /\ poll.run \in Runs
          /\ UNCHANGED milestones /\ failures' \in Nat
          /\ detail' = detail \/ detail' \in Shown
      BY <1>4, PollFields
    <2> QED
      BY <1>1, <2>1 DEF LiveRunTypeOK, PollTyped
  <1>5. ASSUME ReceiveLive("milestones"), UNCHANGED <<dbVars, appVars>>
        PROVE  LiveRunTypeOK' /\ PollTyped'
    <2>1. UNCHANGED <<selected, events, detail, poll, failures>>
      BY <1>5 DEF dbVars, appVars, storeVars, ReceiveLive
    <2>2. milestones' \in Seq(Milestone) /\ Len(milestones') <= MaxMilestones
      BY <1>1, <1>5, <2>1, AddedMilestone
    <2> QED
      BY <1>1, <2>1, <2>2 DEF LiveRunTypeOK, PollTyped, Milestone
  <1>6. ASSUME failures' = failures + 1, UNCHANGED <<detail, poll, milestones>>
        PROVE  LiveRunTypeOK' /\ PollTyped'
    BY <1>1, <1>6 DEF LiveRunTypeOK, PollTyped
  <1> QED
    BY <1>2, <1>3, <1>4, <1>5, <1>6, ViewMoves DEF Selects, hookVars

LEMMA StreamStep ==
  ASSUME ViewTypes, [DashboardNext]_viewVars
  PROVE  StreamTypeOK' /\ Subscribed'
  <1>1. Grows
    BY DbMoves DEF ViewTypes, DbStep
  <1>2. CASE UNCHANGED <<streamVars, selected>>
    BY <1>1, <1>2, StreamsUntouched
  <1>3. CASE Selects
    BY <1>3, SelectStreams DEF Selects
  <1>4. ASSUME UNCHANGED <<dbVars, appVars>>, NEW h \in Hooks,
               Receive(h) \/ Connect(h) \/ Break(h)
        PROVE  StreamTypeOK' /\ Subscribed'
    <2>1. UNCHANGED <<selected, events>>
      BY <1>4 DEF dbVars, appVars, storeVars
    <2> QED
      BY <1>4, <2>1, ReceiveFields, ConnectFields, BreakFields
  <1>5. "milestones" \in Hooks /\ "list" \in Hooks
    BY DashboardAssumptions
  <1> QED
    BY <1>2, <1>3, <1>4, <1>5, ViewMoves DEF hookVars, appVars, ReceiveLive, ReceiveList

LEMMA ViewTypesStep == ViewTypes /\ [DashboardNext]_viewVars => ViewTypes'
  <1> SUFFICES ASSUME ViewTypes, [DashboardNext]_viewVars PROVE ViewTypes'
    OBVIOUS
  <1>1. DbTypes' /\ Ordered'
    BY DbMoves DEF ViewTypes, DbStep
  <1>2. StreamTypeOK' /\ Subscribed'
    BY StreamStep
  <1>3. LiveRunTypeOK' /\ PollTyped'
    BY LiveStep
  <1>4. ListTypes'
    BY ListStep
  <1>5. /\ mounted \in Hooks /\ listed \subseteq Runs /\ selected \in Runs \cup {Unknown}
        /\ acts \in Nat
    BY DEF ViewTypes, DashboardTypeOK
  <1>6. mounted' \in Hooks
    <2>1. UNCHANGED mounted
      BY ViewMoves DEF Selects
    <2> QED
      BY <1>5, <2>1
  <1>7. listed' \subseteq Runs
    <2>1. ASSUME ShowRuns PROVE listed' \subseteq Runs
      BY <2>1 DEF ShowRuns, ExistingRuns
    <2>2. ShowRuns \/ UNCHANGED listed
      BY DEF DashboardNext, viewVars, appVars, Elsewhere, PickRun, Poller, PollFails,
         Milestones, Rows, Fetches, FetchFails, Connects, Breaks, Outside
    <2> QED
      BY <1>5, <2>1, <2>2
  <1>8. selected' \in Runs \cup {Unknown}
    <2>1. ASSUME NEW r \in Runs \cup {Unknown}, Select(r) PROVE selected' = r
      BY <2>1 DEF Select
    <2> QED
      BY <1>5, <2>1, ViewMoves DEF Selects, appVars
  <1>9. acts' \in Nat
    BY <1>5 DEF DashboardNext, viewVars, Elsewhere, ShowRuns, PickRun, Poller,
       PollFails, Milestones, Rows, Fetches, FetchFails, Connects, Breaks, Outside
  <1> QED
    BY <1>1, <1>2, <1>3, <1>4, <1>6, <1>7, <1>8, <1>9
    DEF ViewTypes, DashboardTypeOK, RowListTypeOK, ListTypes, DbTypes

LEMMA DashboardInitTypes == DashboardInit => ViewTypes
  <1> SUFFICES ASSUME DashboardInit PROVE ViewTypes
    OBVIOUS
  <1> DEFINE first == Min(Runs)
  <1>1. first \in Runs /\ first \in Nat
    BY MinOfNaturals, DashboardAssumptions
  <1>2. born = {first}
    BY DEF DashboardInit
  <1>3. /\ runs = [r \in Runs |-> IF r = first
                     THEN [status |-> "running", ended |-> FALSE] ELSE NoRun]
        /\ controls = [r \in Runs |-> IF r = first THEN "run" ELSE "absent"]
        /\ runTables = [r \in Runs |-> [t \in Tables |-> NoTable]]
        /\ validations = [r \in Runs |-> [t \in Tables |-> "absent"]]
        /\ batches = [r \in Runs |-> {}]
        /\ events = [r \in Runs |-> <<>>]
    BY DEF DashboardInit
  <1> HIDE DEF first
  <1>4. StoreTypeOK
    <2>1. runs \in [Runs -> RunRow]
      <3>1. [status |-> "running", ended |-> FALSE] \in RunRow
        BY DEF RunRow, ActiveStatus
      <3> QED
        BY <1>3, <3>1, NoRunType
    <2>2. runTables \in [Runs -> [Tables -> TableRow]]
      BY <1>3, NoTablesType
    <2>3. events \in [Runs -> Seq(EventKinds)]
      BY <1>3, EmptySeq
    <2>4. controls \in [Runs -> Flags \cup {"absent"}]
      BY <1>3 DEF Flags
    <2>5. batches \in [Runs -> SUBSET BatchRow]
      BY <1>3
    <2>6. validations \in [Runs -> [Tables -> Verdicts \cup {"absent"}]]
      BY <1>3
    <2> QED
      BY <2>1, <2>2, <2>3, <2>4, <2>5, <2>6 DEF StoreTypeOK
  <1>5. Ordered
    <2>1. ExistingRuns \subseteq {first}
      BY <1>3 DEF ExistingRuns, RunExists, NoRun
    <2>2. \A r \in born : r <= first
      BY <1>1, <1>2
    <2> QED
      BY <1>1, <1>2, <2>1, <2>2 DEF Ordered
  <1>6. /\ rowsOf = [r \in Runs |-> NoRows] /\ untold = [r \in Runs |-> FALSE]
        /\ StreamInit /\ LiveRunInit /\ RowListInit
        /\ mounted \in Hooks /\ listed = {} /\ selected = Unknown /\ acts = 0
    BY DEF DashboardInit, Log!LogInit
  <1>7. rowsOf \in [Runs -> RowValues] /\ untold \in [Runs -> BOOLEAN]
    BY <1>6, RowListAssumptions
  <1>8. DbTypes
    BY <1>1, <1>2, <1>4, <1>7 DEF DbTypes
  <1>9. NoSource \in EventSource /\ NoSource.state = "none" /\ NoSource.since = 0
    BY DEF NoSource, EventSource
  <1>10. StreamTypeOK /\ Subscribed
    <2>1. \A h \in Hooks : stream[h] = NoSource
      BY <1>6 DEF StreamInit
    <2> QED
      BY <1>6, <1>9, <2>1 DEF StreamInit, StreamTypeOK, Subscribed
  <1>11. LiveRunTypeOK /\ PollTyped
    <2>1. NoPoll \in Poll /\ NoPoll.pc = "off"
      BY DEF NoPoll, Poll, Status, Flags
    <2> QED
      BY <1>6, <2>1, EmptySeq, LiveRunAssumptions DEF LiveRunInit, LiveRunTypeOK, PollTyped
  <1>12. ListTypes
    <2>1. fetches = <<>> /\ rows = NoRows /\ rowsError = FALSE /\ rowsLate = FALSE
      BY <1>6 DEF RowListInit
    <2>2. fetches \in Seq(Fetch) /\ Len(fetches) = 0
      BY <2>1, EmptySeq
    <2>3. Len(fetches) <= MaxInFlight
      BY <2>2, RowListAssumptions
    <2> QED
      BY <2>1, <2>2, <2>3, RowListAssumptions DEF ListTypes
  <1> QED
    BY <1>1, <1>2, <1>5, <1>6, <1>7, <1>8, <1>10, <1>11, <1>12
    DEF ViewTypes, DashboardTypeOK, RowListTypeOK, ListTypes

\* Every variable of the dashboard, of its hooks and of its connections has its type.
THEOREM DashboardTypeCorrect == DashboardSpec => []DashboardTypeOK
  <1>1. ViewTypes => DashboardTypeOK
    BY DEF ViewTypes
  <1> QED
    BY <1>1, DashboardInitTypes, ViewTypesStep, PTL DEF DashboardSpec

LEMMA AlwaysViewTypes == DashboardSpec => []ViewTypes
  BY DashboardInitTypes, ViewTypesStep, PTL DEF DashboardSpec

-----------------------------------------------------------------------------
(* The detail *)

LEMMA PollFollowsStep ==
  ASSUME ViewTypes, PollFollows, [DashboardNext]_viewVars
  PROVE  PollFollows'
  <1> DEFINE After(r) == r \in born' /\ runs'[r].status \notin ActiveStatus
  <1>1. /\ poll \in Poll /\ (poll.pc # "off" => poll.run \in Runs)
        /\ detail \in Shown \cup {Unknown}
    BY DEF ViewTypes, DashboardTypeOK, LiveRunTypeOK, PollTyped
  <1>2. /\ ExistingRuns' \subseteq born'
        /\ \A r \in Runs : IsOver(r) => After(r)
    BY DbMoves DEF ViewTypes, DbStep, Ordered, OverStays, IsOver, IsActive
  <1>3. /\ poll.pc \in {"row", "answer"} /\ poll.status \in TerminalStatus
           => poll.run \in Runs /\ IsOver(poll.run)
        /\ detail # Unknown /\ detail.status \in EndStatus
           => detail.run \in Runs /\ IsOver(detail.run)
    BY <1>1 DEF PollFollows, Shown
  <1>4. ASSUME detail' \in {detail, Unknown},
               poll' = poll \/ poll'.pc \notin {"row", "answer"}
        PROVE  PollFollows'
    BY <1>2, <1>3, <1>4 DEF PollFollows, IsOver, IsActive
  <1>5. CASE UNCHANGED <<detail, poll>>
    BY <1>4, <1>5
  <1>6. ASSUME NEW r \in Runs \cup {Unknown}, Select(r) PROVE PollFollows'
    BY <1>4, <1>6, SelectFieldsLive
  <1>7. ASSUME Polling \/ FailPoll, UNCHANGED dbVars PROVE PollFollows'
    <2>1. poll' \in Poll /\ poll'.run = poll.run /\ poll.run \in Runs
      BY <1>7, PollFields
    <2>2. UNCHANGED <<runs, born>> /\ runs \in [Runs -> RunRow]
      BY <1>7 DEF dbVars, storeVars, ViewTypes, DbTypes, StoreTypeOK
    <2>3. ASSUME runs[poll.run].status \in TerminalStatus PROVE IsOver(poll.run)
      BY <2>1, <2>3 DEF ViewTypes, Ordered, ExistingRuns, RunExists, IsOver, IsActive,
         TerminalStatus, ActiveStatus
    <2>4. CASE poll'.pc = "due" /\ UNCHANGED detail
      BY <1>4, <2>4
    <2>5. CASE /\ poll'.pc = "due" /\ poll.pc = "answer" /\ poll.status # "absent"
               /\ detail' = [run |-> poll.run, status |-> MapStatus(poll.status, poll.flag)]
               /\ detail' \in Shown
      <3>1. detail'.run = poll.run /\ detail'.status = MapStatus(poll.status, poll.flag)
        BY <2>5
      <3>2. /\ poll.status \in ActiveStatus \cup TerminalStatus /\ poll.flag \in Flags
        BY <1>1, <2>5 DEF Poll, Status
      <3>3. detail'.status \in EndStatus => poll.status \in TerminalStatus
        BY <3>1, <3>2, MapStatusTyped
      <3>4. detail'.status \in EndStatus => After(detail'.run)
        BY <1>2, <1>3, <2>1, <2>5, <3>1, <3>3
      <3> QED
        BY <1>2, <2>5, <3>4 DEF PollFollows, IsOver, IsActive
    <2>6. CASE poll'.status = runs[poll.run].status /\ UNCHANGED detail
      <3>1. poll'.status \in TerminalStatus => After(poll'.run)
        BY <1>2, <2>1, <2>3, <2>6
      <3>2. detail # Unknown /\ detail.status \in EndStatus /\ poll'.run = detail.run
              => poll'.status \notin ActiveStatus
        BY <1>3, <2>1, <2>6 DEF IsOver, IsActive
      <3>3. detail # Unknown /\ detail.status \in EndStatus => After(detail.run)
        BY <1>2, <1>3
      <3> QED
        BY <1>2, <2>6, <3>1, <3>2, <3>3 DEF PollFollows, IsOver, IsActive
    <2>7. CASE poll.pc = "row" /\ poll'.status = poll.status /\ UNCHANGED detail
      <3>1. poll'.status \in TerminalStatus => After(poll'.run)
        BY <1>2, <1>3, <2>1, <2>7
      <3>2. detail # Unknown /\ detail.status \in EndStatus /\ poll'.run = detail.run
              => poll'.status \notin ActiveStatus
        BY <2>1, <2>7 DEF PollFollows
      <3>3. detail # Unknown /\ detail.status \in EndStatus => After(detail.run)
        BY <1>2, <1>3
      <3> QED
        BY <1>2, <2>7, <3>1, <3>2, <3>3 DEF PollFollows, IsOver, IsActive
    <2> QED
      BY <1>7, <2>4, <2>5, <2>6, <2>7, PollFields
  <1>8. UNCHANGED liveVars \/ ReceiveLive("milestones") => UNCHANGED <<detail, poll>>
    BY DEF liveVars, ReceiveLive
  <1> QED
    BY <1>5, <1>6, <1>7, <1>8, ViewMoves DEF Selects, hookVars

LEMMA EndedStays ==
  ASSUME ViewTypes, PollFollows, [DashboardNext]_viewVars,
         detail # Unknown, detail' # Unknown, detail.run = detail'.run,
         detail.status \in EndStatus
  PROVE  detail'.status \in EndStatus
  <1>1. poll \in Poll
    BY DEF ViewTypes, DashboardTypeOK, LiveRunTypeOK
  <1>2. CASE UNCHANGED detail
    BY <1>2
  <1>3. ASSUME NEW r \in Runs \cup {Unknown}, Select(r) PROVE UNCHANGED detail
    BY <1>3, SelectFieldsLive
  <1>4. ASSUME Polling \/ FailPoll PROVE detail'.status \in EndStatus
    <2>1. CASE UNCHANGED detail
      BY <2>1
    <2>2. CASE /\ poll.pc = "answer" /\ poll.status # "absent"
               /\ detail' = [run |-> poll.run, status |-> MapStatus(poll.status, poll.flag)]
      <3>1. detail'.run = poll.run /\ detail'.status = MapStatus(poll.status, poll.flag)
        BY <2>2
      <3>2. poll.status \notin ActiveStatus
        BY <2>2, <3>1 DEF PollFollows
      <3>3. poll.status \in TerminalStatus /\ poll.flag \in Flags
        BY <1>1, <2>2, <3>2 DEF Poll, Status
      <3> QED
        BY <3>1, <3>3, MapStatusTyped
    <2> QED
      BY <1>4, <2>1, <2>2, PollFields
  <1>5. UNCHANGED liveVars \/ ReceiveLive("milestones") => UNCHANGED detail
    BY DEF liveVars, ReceiveLive
  <1> QED
    BY <1>2, <1>3, <1>4, <1>5, ViewMoves DEF Selects, hookVars

\* A run that was shown as ended is not shown as active again, whatever flag is written
\* later and in whatever order the SELECTs of a poll fall: no run id is used again, and
\* a run that has ended is not revived.
THEOREM EndedIsShownForGood == DashboardSpec => EndedStaysEnded
  <1> DEFINE DInv == ViewTypes /\ PollFollows
  <1>1. DashboardInit => DInv
    <2>1. DashboardInit => poll = NoPoll /\ detail = Unknown
      BY DEF DashboardInit, LiveRunInit
    <2>2. NoPoll.pc = "off"
      BY DEF NoPoll
    <2> QED
      BY <2>1, <2>2, DashboardInitTypes DEF PollFollows, ViewTypes, Ordered
  <1>2. DInv /\ [DashboardNext]_viewVars => DInv'
    BY ViewTypesStep, PollFollowsStep
  <1>3. DInv /\ [DashboardNext]_viewVars =>
          [detail # Unknown /\ detail' # Unknown =>
             (detail.run = detail'.run /\ detail.status \in EndStatus =>
                detail'.status \in EndStatus)]_viewVars
    BY EndedStays
  <1> QED
    BY <1>1, <1>2, <1>3, PTL DEF DashboardSpec, EndedStaysEnded

-----------------------------------------------------------------------------
(* The milestones *)

Told(r, n) == {k \in 1 .. n : IsMilestone(r, k)}
Places(q, m) == {j \in 1 .. Len(q) : q[j] = m}
ShownAt(m) == Places(milestones, m)

\* Element i is followed by the milestone before it in the log.
Linked(i) ==
  Told(selected, milestones[i].n - 1) # {} =>
    IF i < Len(milestones)
    THEN milestones[i + 1].n = Max(Told(selected, milestones[i].n - 1))
    ELSE i = MaxMilestones

InOrder ==
  \A i \in 1 .. Len(milestones) :
    milestones[i].run = selected /\ Linked(i)

\* "pending" is one if the connection has yet to tell of the milestone.
Counted ==
  LET s == stream["milestones"] IN
  \A i \in 1 .. Len(milestones) :
    LET m == milestones[i] IN
    /\ m.n <= Len(events[selected])
    /\ Cardinality(ShownAt(m)) + (IF s.state = "open" /\ s.cursor < m.n THEN 1 ELSE 0)
         <= s.opened

Newer ==
  LET s == stream["milestones"] IN
  s.state = "open" /\ Told(selected, s.cursor) # {} =>
    Len(milestones) > 0 /\ milestones[1].n = Max(Told(selected, s.cursor))

ScreenOrder == ViewTypes /\ InOrder /\ Counted /\ Newer

LEMMA HookFacts ==
  ASSUME ViewTypes
  PROVE  LET s == stream["milestones"] IN
         /\ s \in EventSource /\ s.opened \in Nat /\ s.cursor \in Nat
         /\ s.state = "open" => /\ selected \in Runs /\ s.run = selected /\ s.opened > 0
                                /\ s.cursor <= Len(events[selected])
         /\ milestones \in Seq(Milestone) /\ Len(milestones) \in Nat
         /\ DOMAIN milestones = 1 .. Len(milestones)
         /\ \A i \in 1 .. Len(milestones) :
              /\ milestones[i] \in Milestone /\ milestones[i].n \in Nat
              /\ milestones[i].run \in Runs
         /\ \A r \in Runs : Len(events[r]) \in Nat
  <1>1. "milestones" \in Hooks
    BY DashboardAssumptions
  <1>2. stream["milestones"] \in EventSource
    BY <1>1 DEF ViewTypes, DashboardTypeOK, StreamTypeOK
  <1>3. stream["milestones"].state = "open" =>
          /\ selected \in Runs /\ stream["milestones"].run = selected
          /\ stream["milestones"].opened > 0
          /\ stream["milestones"].cursor <= Len(events[selected])
    BY <1>1, SelectedTyped DEF ViewTypes, Subscribed
  <1>4. milestones \in Seq(Milestone)
    BY DEF ViewTypes, DashboardTypeOK, LiveRunTypeOK, Milestone
  <1>5. \A i \in 1 .. Len(milestones) : milestones[i] \in Milestone
    BY <1>4, ElementOfSeq
  <1>6. \A r \in Runs : Len(events[r]) \in Nat
    BY DEF ViewTypes, DbTypes, StoreTypeOK
  <1> QED
    BY <1>2, <1>3, <1>4, <1>5, <1>6, LenProperties DEF EventSource, Milestone

LEMMA FiniteRange == \A n \in Nat : IsFiniteSet(1 .. n)
  <1> TAKE n \in Nat
  <1> QED
    BY FS_Interval

LEMMA OrderIsInOrder ==
  ASSUME ViewTypes
  PROVE  InOrder /\ Counted => MilestonesInOrder
  <1> SUFFICES ASSUME InOrder, Counted, NEW i \in DOMAIN milestones
               PROVE  LET m == milestones[i]
                          before == {k \in 1 .. m.n - 1 : IsMilestone(m.run, k)} IN
                      /\ m.run = selected
                      /\ before # {} => IF i < Len(milestones)
                                         THEN milestones[i + 1].n = Max(before)
                                         ELSE i = MaxMilestones
                      /\ Cardinality({j \in DOMAIN milestones : milestones[j] = m})
                           <= stream["milestones"].opened
    BY DEF MilestonesInOrder
  <1>1. i \in 1 .. Len(milestones) /\ DOMAIN milestones = 1 .. Len(milestones)
    BY HookFacts
  <1> DEFINE m == milestones[i]
  <1>2. m.run = selected
    BY <1>1 DEF InOrder
  <1>3. {k \in 1 .. m.n - 1 : IsMilestone(m.run, k)} = Told(selected, m.n - 1)
    BY <1>2 DEF Told
  <1>4. {j \in DOMAIN milestones : milestones[j] = m} = ShownAt(m)
    BY <1>1 DEF ShownAt, Places
  <1>5. Cardinality(ShownAt(m)) <= stream["milestones"].opened
    <2>1. Cardinality(ShownAt(m)) \in Nat
      <3>1. IsFiniteSet(ShownAt(m))
        BY HookFacts, FiniteRange, FS_Subset DEF ShownAt, Places
      <3> QED
        BY <3>1, FS_CardinalityType
    <2> QED
      BY <1>1, <2>1, HookFacts DEF Counted
  <1>6. Linked(i)
    BY <1>1 DEF InOrder
  <1> QED
    BY <1>2, <1>3, <1>4, <1>5, <1>6 DEF Linked

\* A list with an element put before it shows it once more, and every other no more often.
LEMMA OneMoreShown ==
  ASSUME NEW S, NEW q \in Seq(S), NEW p \in Seq(S), NEW m, Len(p) <= Len(q) + 1,
         p[1] = m, \A i \in 1 .. Len(p) : i > 1 => p[i] = q[i - 1], NEW x
  PROVE  /\ Cardinality(Places(p, x)) \in Nat /\ Cardinality(Places(q, x)) \in Nat
         /\ Cardinality(Places(p, x)) <= Cardinality(Places(q, x)) + (IF x = m THEN 1 ELSE 0)
  <1> DEFINE A == {j \in 1 .. Len(p) : p[j] = x}
             B == {j \in 1 .. Len(q) : q[j] = x}
             R == A \ {1}
             f == [j \in R |-> j - 1]
  <1>1. Len(p) \in Nat /\ Len(q) \in Nat
    OBVIOUS
  <1>2. IsFiniteSet(A) /\ IsFiniteSet(B)
    BY <1>1, FiniteRange, FS_Subset
  <1>3. ASSUME NEW j \in R PROVE j \in Int /\ j - 1 \in B
    <2>1. j \in 1 .. Len(p) /\ j > 1 /\ p[j] = x
      BY <1>1
    <2>2. q[j - 1] = x /\ j - 1 \in 1 .. Len(q)
      BY <1>1, <2>1
    <2> QED
      BY <2>1, <2>2
  <1>4. 1 \in A => x = m
    OBVIOUS
  <1> HIDE DEF A, B
  <1>5. f \in Injection(R, B)
    <2>1. f \in [R -> B]
      BY <1>3
    <2>2. \A j, k \in R : f[j] = f[k] => j = k
      BY <1>3
    <2> HIDE DEF f, R
    <2> QED
      BY <2>1, <2>2 DEF Injection, IsInjective
  <1>6. IsFiniteSet(R) /\ Cardinality(R) <= Cardinality(B)
    <2> HIDE DEF f
    <2> QED
      BY <1>2, <1>5, FS_Injection
  <1>7. Cardinality(R) = IF 1 \in A THEN Cardinality(A) - 1 ELSE Cardinality(A)
    BY <1>2, FS_RemoveElement
  <1>8. Cardinality(A) \in Nat /\ Cardinality(B) \in Nat
    BY <1>2, FS_CardinalityType
  <1>9. Cardinality(A) <= Cardinality(B) + (IF x = m THEN 1 ELSE 0)
    BY <1>4, <1>6, <1>7, <1>8
  <1> QED
    BY <1>8, <1>9 DEF A, B, Places

\* The log grows, and the hook stands still.
LEMMA OrderKept ==
  ASSUME ScreenOrder, Grows, UNCHANGED <<milestones, selected>>,
         stream'["milestones"] = stream["milestones"]
  PROVE  InOrder' /\ Counted' /\ Newer'
  <1> DEFINE s == stream["milestones"]
  <1>1. ASSUME NEW r \in Runs, NEW n \in Int, n <= Len(events[r])
        PROVE  {k \in 1 .. n : events'[r][k].kind \in MilestoneKinds} = Told(r, n)
    <2>1. Len(events[r]) \in Nat /\ \A k \in 1 .. Len(events[r]) : events'[r][k] = events[r][k]
      BY DEF Grows
    <2>2. \A k \in 1 .. n : k \in 1 .. Len(events[r])
      BY <1>1, <2>1
    <2> QED
      BY <2>1, <2>2 DEF Told, IsMilestone
  <1>2. ViewTypes
    BY DEF ScreenOrder
  <1>3. ASSUME NEW i \in 1 .. Len(milestones)
        PROVE  /\ milestones[i].run = selected /\ selected \in Runs /\ Linked(i)
               /\ milestones[i].n \in Nat /\ milestones[i].n <= Len(events[selected])
               /\ Len(events[selected]) \in Nat
    BY <1>2, HookFacts DEF ScreenOrder, InOrder, Counted
  <1>4. InOrder'
    <2>1. ASSUME NEW i \in 1 .. Len(milestones)
          PROVE  LET before == {k \in 1 .. milestones[i].n - 1 :
                                  events'[selected][k].kind \in MilestoneKinds} IN
                 before # {} =>
                   IF i < Len(milestones) THEN milestones[i + 1].n = Max(before)
                   ELSE i = MaxMilestones
      <3>1. milestones[i].n - 1 \in Int /\ milestones[i].n - 1 <= Len(events[selected])
        BY <1>3
      <3>2. {k \in 1 .. milestones[i].n - 1 : events'[selected][k].kind \in MilestoneKinds}
              = Told(selected, milestones[i].n - 1)
        BY <1>1, <1>3, <3>1
      <3> QED
        BY <1>3, <3>2 DEF Linked
    <2> QED
      BY <1>3, <2>1 DEF InOrder, Linked, Told, IsMilestone
  <1>5. Counted'
    <2>1. ASSUME NEW i \in 1 .. Len(milestones)
          PROVE  milestones[i].n <= Len(events'[selected])
      <3>1. Len(events[selected]) <= Len(events'[selected]) /\ Len(events'[selected]) \in Nat
        BY <1>3 DEF Grows
      <3> QED
        BY <1>3, <3>1
    <2> QED
      BY <2>1 DEF ScreenOrder, Counted, ShownAt, Places
  <1>6. Newer'
    <2> SUFFICES ASSUME s.state = "open" PROVE Newer'
      BY DEF Newer
    <2>1. /\ selected \in Runs /\ s.cursor \in Nat
          /\ s.cursor <= Len(events[selected])
      BY <1>2, HookFacts
    <2>2. {k \in 1 .. s.cursor : events'[selected][k].kind \in MilestoneKinds}
            = Told(selected, s.cursor)
      BY <1>1, <2>1
    <2>3. Told(selected, s.cursor) # {} =>
            Len(milestones) > 0 /\ milestones[1].n = Max(Told(selected, s.cursor))
      BY DEF ScreenOrder, Newer
    <2> QED
      BY <2>2, <2>3 DEF Newer, Told, IsMilestone
  <1> QED
    BY <1>4, <1>5, <1>6

LEMMA ShownIsNat ==
  ASSUME ViewTypes, NEW x
  PROVE  Cardinality(ShownAt(x)) \in Nat
  <1>1. IsFiniteSet(ShownAt(x))
    BY HookFacts, FiniteRange, FS_Subset DEF ShownAt, Places
  <1> QED
    BY <1>1, FS_CardinalityType

\* The last of the milestones up to an event is that event or one before it.
LEMMA ToldNext ==
  ASSUME NEW r, NEW c \in Nat, c > 0
  PROVE  IF IsMilestone(r, c) THEN Told(r, c) # {} /\ Max(Told(r, c)) = c
         ELSE Told(r, c) = Told(r, c - 1)
  <1>1. CASE IsMilestone(r, c)
    <2>1. c \in Told(r, c)
      BY <1>1 DEF Told
    <2>2. \A k \in Told(r, c) : k <= c
      BY DEF Told
    <2>3. Told(r, c) \subseteq Int
      BY DEF Told
    <2>4. Max(Told(r, c)) = c
      BY <2>1, <2>2, <2>3, MaxIs
    <2> QED
      BY <1>1, <2>1, <2>4
  <1>2. CASE ~IsMilestone(r, c)
    <2>1. \A k \in 1 .. c : k = c \/ k \in 1 .. c - 1
      OBVIOUS
    <2>2. \A k \in 1 .. c - 1 : k \in 1 .. c
      OBVIOUS
    <2>3. Told(r, c) = Told(r, c - 1)
      BY <1>2, <2>1, <2>2 DEF Told
    <2> QED
      BY <1>2, <2>3
  <1> QED
    BY <1>1, <1>2

\* A milestone is told of for the first time on this connection.
LEMMA OrderAfterMilestone ==
  ASSUME ScreenOrder, ReceiveLive("milestones"), UNCHANGED <<selected, events>>,
         IsMilestone(selected, NextId("milestones"))
  PROVE  InOrder' /\ Counted' /\ Newer'
  <1> DEFINE s == stream["milestones"]
             c == NextId("milestones")
             m == [run |-> selected, n |-> c]
  <1>1. ViewTypes /\ "milestones" \in Hooks
    BY DashboardAssumptions DEF ScreenOrder
  <1>2. /\ s.state = "open" /\ s.run = selected /\ s.cursor \in Nat
        /\ c \in 1 .. Len(events[selected])
        /\ stream'["milestones"].state = "open" /\ stream'["milestones"].cursor = c
        /\ stream'["milestones"].opened = s.opened
    BY <1>1, ReceiveFields DEF ReceiveLive
  <1>3. /\ selected \in Runs /\ s.opened \in Nat /\ s.opened > 0
        /\ Len(milestones) \in Nat /\ milestones \in Seq(Milestone)
        /\ Len(events[selected]) \in Nat
    BY <1>1, <1>2, HookFacts
  <1>4. c = s.cursor + 1 /\ c \in Nat /\ c > 0 /\ c <= Len(events[selected])
    BY <1>2, <1>3 DEF NextId
  <1>5. /\ milestones' \in Seq(Milestone) /\ Len(milestones') = Kept
        /\ Kept \in 1 .. Len(milestones) + 1 /\ Kept <= MaxMilestones
        /\ milestones'[1] = m
        /\ \A i \in 1 .. Kept : i > 1 => milestones'[i] = milestones[i - 1]
    BY <1>1, AddedMilestone
  <1>6. /\ Len(milestones) <= MaxMilestones /\ MaxMilestones \in Nat \ {0}
        /\ Kept = IF MaxMilestones <= Len(milestones) + 1 THEN MaxMilestones
                  ELSE Len(milestones) + 1
    BY <1>1, LiveRunAssumptions DEF ViewTypes, DashboardTypeOK, LiveRunTypeOK, Kept
  <1>7. m.run = selected /\ m.n = c
    OBVIOUS
  <1>8. Told(selected, c) # {} /\ Max(Told(selected, c)) = c
    BY <1>4, ToldNext
  <1>9. ASSUME NEW i \in 1 .. Len(milestones)
        PROVE  /\ milestones[i].run = selected /\ Linked(i)
               /\ milestones[i].n \in Nat /\ milestones[i].n <= Len(events[selected])
    BY <1>1, HookFacts DEF ScreenOrder, InOrder, Counted
  <1>10. Told(selected, s.cursor) # {} =>
           Len(milestones) > 0 /\ milestones[1].n = Max(Told(selected, s.cursor))
    BY <1>2 DEF ScreenOrder, Newer
  <1> HIDE DEF m, c, Kept
  <1>11. InOrder'
    <2>1. ASSUME NEW i \in 1 .. Kept
          PROVE  /\ milestones'[i].run = selected
                 /\ Told(selected, milestones'[i].n - 1) # {} =>
                      IF i < Kept
                      THEN milestones'[i + 1].n = Max(Told(selected, milestones'[i].n - 1))
                      ELSE i = MaxMilestones
      <3>1. CASE i = 1
        <4>1. milestones'[i].n - 1 = s.cursor
          BY <1>4, <1>5, <1>7, <1>2, <3>1
        <4>2. ASSUME Told(selected, s.cursor) # {}, 1 < Kept
              PROVE  milestones'[1 + 1].n = Max(Told(selected, s.cursor))
          <5>1. milestones'[1 + 1] = milestones[1]
            <6>1. 2 \in 1 .. Kept /\ 2 > 1 /\ 2 - 1 = 1 /\ 1 + 1 = 2
              BY <1>3, <1>5, <4>2
            <6> QED
              BY <1>5, <6>1
          <5> QED
            BY <1>10, <4>2, <5>1
        <4>3. ASSUME Told(selected, s.cursor) # {}, ~(1 < Kept)
              PROVE  1 = MaxMilestones
          BY <1>3, <1>5, <1>6, <1>10, <4>3
        <4> QED
          BY <1>5, <1>7, <3>1, <4>1, <4>2, <4>3
      <3>2. CASE i > 1
        <4>1. i - 1 \in 1 .. Len(milestones) /\ milestones'[i] = milestones[i - 1]
          BY <1>3, <1>5, <3>2
        <4>2. Linked(i - 1) /\ milestones[i - 1].run = selected
          BY <1>9, <4>1
        <4>3. ASSUME i < Kept
              PROVE  i - 1 < Len(milestones) /\ milestones'[i + 1] = milestones[i - 1 + 1]
          <5>1. i + 1 \in 1 .. Kept /\ i + 1 > 1 /\ i + 1 - 1 = i - 1 + 1
            BY <1>3, <1>5, <4>3
          <5>2. i - 1 < Len(milestones)
            BY <1>3, <1>5, <4>3
          <5> QED
            BY <1>5, <5>1, <5>2
        <4>4. ASSUME ~(i < Kept), i # MaxMilestones
              PROVE  ~(i - 1 < Len(milestones)) /\ i - 1 # MaxMilestones
          BY <1>3, <1>5, <1>6, <4>4
        <4> QED
          BY <4>1, <4>2, <4>3, <4>4 DEF Linked
      <3> QED
        BY <1>3, <1>5, <3>1, <3>2
    <2> QED
      BY <1>5, <2>1 DEF InOrder, Linked, Told, IsMilestone
  <1>12. Counted'
    <2>1. ASSUME NEW i \in 1 .. Kept
          PROVE  /\ milestones'[i].n <= Len(events[selected])
                 /\ Cardinality({j \in 1 .. Kept : milestones'[j] = milestones'[i]})
                      + (IF c < milestones'[i].n THEN 1 ELSE 0) <= s.opened
      <3> DEFINE x == milestones'[i]
                 A == Cardinality({j \in 1 .. Kept : milestones'[j] = x})
                 B == Cardinality(ShownAt(x))
      <3>1. A \in Nat /\ B \in Nat /\ A <= B + (IF x = m THEN 1 ELSE 0)
        <4> HIDE DEF x
        <4>1. /\ Len(milestones') <= Len(milestones) + 1
              /\ \A k \in 1 .. Len(milestones') : k > 1 => milestones'[k] = milestones[k - 1]
          BY <1>3, <1>5
        <4>2. Len(milestones') <= Len(milestones) + 1 /\ milestones'[1] = m
          BY <1>5, <4>1
        <4>3. /\ Cardinality(Places(milestones', x)) \in Nat
              /\ Cardinality(Places(milestones, x)) \in Nat
              /\ Cardinality(Places(milestones', x))
                   <= Cardinality(Places(milestones, x)) + (IF x = m THEN 1 ELSE 0)
          BY <1>3, <1>5, <4>1, <4>2, OneMoreShown
        <4> QED
          BY <1>5, <4>3 DEF ShownAt, Places
      <3>2. ASSUME NEW k \in 1 .. Len(milestones), x = milestones[k]
            PROVE  /\ x.n <= Len(events[selected]) /\ x.n \in Nat
                   /\ B + (IF s.cursor < x.n THEN 1 ELSE 0) <= s.opened
        BY <1>2, <1>9, <3>2 DEF ScreenOrder, Counted
      <3>3. CASE x = m
        <4>1. B + 1 <= s.opened
          <5>1. CASE \E k \in 1 .. Len(milestones) : x = milestones[k]
            <6>1. s.cursor < x.n
              BY <1>2, <1>4, <1>7, <3>3
            <6> HIDE DEF x, B
            <6> QED
              BY <3>2, <5>1, <6>1
          <5>2. CASE ~ \E k \in 1 .. Len(milestones) : x = milestones[k]
            <6>1. ShownAt(x) = {}
              BY <5>2 DEF ShownAt, Places
            <6>2. B = 0
              BY <6>1, FS_EmptySet
            <6> QED
              BY <1>3, <6>2
          <5> QED
            BY <5>1, <5>2
        <4>2. x.n = c
          BY <1>7, <3>3
        <4> HIDE DEF x, A, B
        <4>3. A <= s.opened
          BY <1>3, <3>1, <3>3, <4>1
        <4> QED
          BY <1>3, <1>4, <3>1, <4>2, <4>3 DEF x, A
      <3>4. CASE x # m
        <4>1. i > 1
          BY <1>5, <3>4
        <4>2. i - 1 \in 1 .. Len(milestones) /\ x = milestones[i - 1]
          BY <1>3, <1>5, <4>1
        <4>3. /\ x.n <= Len(events[selected]) /\ x.n \in Nat
              /\ B + (IF s.cursor < x.n THEN 1 ELSE 0) <= s.opened
          BY <3>2, <4>2
        <4> HIDE DEF x, A, B
        <4>4. A + (IF c < x.n THEN 1 ELSE 0) <= s.opened
          BY <1>2, <1>3, <1>4, <3>1, <3>4, <4>3
        <4> QED
          BY <4>3, <4>4 DEF x, A
      <3> QED
        BY <3>3, <3>4
    <2> QED
      BY <1>2, <1>5, <2>1 DEF Counted, ShownAt, Places
  <1>13. Newer'
    <2>1. Len(milestones') > 0 /\ milestones'[1].n = Max(Told(selected, c))
      BY <1>3, <1>5, <1>7, <1>8
    <2> QED
      BY <1>2, <2>1 DEF Newer, Told, IsMilestone
  <1> QED
    BY <1>11, <1>12, <1>13

\* What the connection tells of is no milestone.
LEMMA OrderAfterOther ==
  ASSUME ScreenOrder, ReceiveLive("milestones"), UNCHANGED <<selected, events>>,
         ~IsMilestone(selected, NextId("milestones"))
  PROVE  InOrder' /\ Counted' /\ Newer'
  <1> DEFINE s == stream["milestones"]
             c == NextId("milestones")
  <1>1. ViewTypes /\ "milestones" \in Hooks
    BY DashboardAssumptions DEF ScreenOrder
  <1>2. /\ s.state = "open" /\ s.run = selected /\ s.cursor \in Nat
        /\ c \in 1 .. Len(events[selected])
        /\ stream'["milestones"].state = "open" /\ stream'["milestones"].cursor = c
        /\ stream'["milestones"].opened = s.opened
    BY <1>1, ReceiveFields DEF ReceiveLive
  <1>3. selected \in Runs /\ s.opened \in Nat /\ Len(events[selected]) \in Nat
    BY <1>1, <1>2, HookFacts
  <1>4. c = s.cursor + 1 /\ c \in Nat /\ c > 0
    BY <1>2, <1>3 DEF NextId
  <1>5. UNCHANGED milestones
    <2>1. [run |-> selected, n |-> c].n = c
      OBVIOUS
    <2> QED
      BY <1>1, <2>1, AddedMilestone
  <1>6. Told(selected, c) = Told(selected, s.cursor)
    <2>1. Told(selected, c) = Told(selected, c - 1)
      BY <1>4, ToldNext
    <2> QED
      BY <1>2, <1>4, <2>1
  <1> HIDE DEF c
  <1>7. InOrder'
    BY <1>5 DEF ScreenOrder, InOrder, Linked, Told, IsMilestone
  <1>8. Counted'
    <2>1. ASSUME NEW i \in 1 .. Len(milestones)
          PROVE  /\ milestones[i].n <= Len(events[selected])
                 /\ Cardinality(ShownAt(milestones[i]))
                      + (IF c < milestones[i].n THEN 1 ELSE 0) <= s.opened
      <3> DEFINE B == Cardinality(ShownAt(milestones[i]))
                 n == milestones[i].n
      <3>1. B \in Nat /\ n \in Nat
        BY <1>1, ShownIsNat, HookFacts
      <3>2. n <= Len(events[selected]) /\ B + (IF s.cursor < n THEN 1 ELSE 0) <= s.opened
        BY <1>2 DEF ScreenOrder, Counted
      <3> HIDE DEF B, n
      <3>3. B + (IF c < n THEN 1 ELSE 0) <= s.opened
        BY <1>2, <1>3, <1>4, <3>1, <3>2
      <3> QED
        BY <3>2, <3>3 DEF B, n
    <2> QED
      BY <1>2, <1>5, <2>1 DEF Counted, ShownAt, Places
  <1>9. Newer'
    <2>1. Told(selected, c) # {} =>
            Len(milestones) > 0 /\ milestones[1].n = Max(Told(selected, c))
      BY <1>2, <1>6 DEF ScreenOrder, Newer
    <2> QED
      BY <1>2, <1>5, <2>1 DEF Newer, Told, IsMilestone
  <1> QED
    BY <1>7, <1>8, <1>9

\* A connection is opened or lost: only the count of connections moves.
LEMMA OrderAfterLink ==
  ASSUME ScreenOrder, Connect("milestones") \/ Break("milestones"),
         UNCHANGED <<selected, events, milestones>>
  PROVE  InOrder' /\ Counted' /\ Newer'
  <1> DEFINE s == stream["milestones"]
             z == stream'["milestones"]
  <1>1. ViewTypes /\ "milestones" \in Hooks
    BY DashboardAssumptions DEF ScreenOrder
  <1>2. s.opened \in Nat /\ s.cursor \in Nat
    BY <1>1, HookFacts
  <1>3. \/ z.state = "open" /\ z.cursor = 0 /\ z.opened = s.opened + 1
        \/ z.state # "open" /\ z.opened = s.opened
    BY <1>1, ConnectFields, BreakFields
  <1>4. InOrder'
    BY DEF ScreenOrder, InOrder, Linked, Told, IsMilestone
  <1>5. Counted'
    <2>1. ASSUME NEW i \in 1 .. Len(milestones)
          PROVE  /\ milestones[i].n <= Len(events[selected])
                 /\ Cardinality(ShownAt(milestones[i]))
                      + (IF z.state = "open" /\ z.cursor < milestones[i].n THEN 1 ELSE 0)
                      <= z.opened
      <3> DEFINE B == Cardinality(ShownAt(milestones[i]))
                 n == milestones[i].n
      <3>1. B \in Nat /\ n \in Nat
        BY <1>1, ShownIsNat, HookFacts
      <3>2. /\ n <= Len(events[selected])
            /\ B + (IF s.state = "open" /\ s.cursor < n THEN 1 ELSE 0) <= s.opened
        BY DEF ScreenOrder, Counted
      <3> HIDE DEF B, n, s, z
      <3>3. B + (IF z.state = "open" /\ z.cursor < n THEN 1 ELSE 0) <= z.opened
        BY <1>2, <1>3, <3>1, <3>2
      <3> QED
        BY <3>2, <3>3 DEF B, n
    <2> QED
      BY <2>1 DEF Counted, ShownAt, Places
  <1>6. Newer'
    <2>1. Told(selected, 0) = {}
      BY DEF Told
    <2> QED
      BY <1>3, <2>1 DEF Newer, Told, IsMilestone
  <1> QED
    BY <1>4, <1>5, <1>6

\* A run is selected: its milestones are yet to be told.
LEMMA OrderAfterSelect ==
  ASSUME ViewTypes, Selects
  PROVE  InOrder' /\ Counted' /\ Newer'
  <1>1. milestones' = <<>> /\ stream'["milestones"].state # "open"
    BY SelectStreams, SelectFieldsLive DEF Selects
  <1>2. 1 .. Len(milestones') = {}
    BY <1>1
  <1> QED
    BY <1>1, <1>2 DEF InOrder, Counted, Newer

LEMMA ScreenOrderStep == ScreenOrder /\ [DashboardNext]_viewVars => ScreenOrder'
  <1> SUFFICES ASSUME ScreenOrder, [DashboardNext]_viewVars PROVE ScreenOrder'
    OBVIOUS
  <1>1. ViewTypes /\ Grows
    BY DbMoves DEF ScreenOrder, ViewTypes, DbStep
  <1>2. ViewTypes'
    BY <1>1, ViewTypesStep
  <1>3. "milestones" \in Hooks /\ "list" \in Hooks /\ "list" # "milestones"
    BY DashboardAssumptions
  <1>4. ASSUME UNCHANGED <<milestones, selected>>,
               stream'["milestones"] = stream["milestones"]
        PROVE  InOrder' /\ Counted' /\ Newer'
    BY <1>1, <1>4, OrderKept
  <1>5. ASSUME Selects PROVE InOrder' /\ Counted' /\ Newer'
    BY <1>1, <1>5, OrderAfterSelect
  <1>6. ASSUME Polling \/ FailPoll PROVE UNCHANGED milestones
    BY <1>6 DEF Polling, ReadRun, ReadFlag, ShowRun, FailPoll
  <1>7. ASSUME UNCHANGED <<dbVars, appVars>>, ReceiveLive("milestones")
        PROVE  InOrder' /\ Counted' /\ Newer'
    <2>1. UNCHANGED <<selected, events>>
      BY <1>7 DEF dbVars, appVars, storeVars
    <2> QED
      BY <1>7, <2>1, OrderAfterMilestone, OrderAfterOther
  <1>8. ASSUME UNCHANGED <<dbVars, appVars, milestones>>, NEW h \in Hooks,
               (Receive(h) /\ h = "list") \/ Connect(h) \/ Break(h)
        PROVE  InOrder' /\ Counted' /\ Newer'
    <2>1. UNCHANGED <<selected, events>>
      BY <1>8 DEF dbVars, appVars, storeVars
    <2>2. CASE h = "milestones"
      BY <1>3, <1>8, <2>1, <2>2, OrderAfterLink
    <2>3. CASE h # "milestones"
      <3>1. stream'["milestones"] = stream["milestones"]
        BY <1>1, <1>3, <1>8, <2>1, <2>3, ReceiveFields, ConnectFields, BreakFields
      <3> QED
        BY <1>4, <1>8, <2>1, <3>1
    <2> QED
      BY <2>2, <2>3
  <1>9. InOrder' /\ Counted' /\ Newer'
    <2>1. CASE UNCHANGED <<hookVars, selected>>
      BY <1>4, <2>1 DEF hookVars, liveVars, streamVars
    <2>2. CASE UNCHANGED <<streamVars, selected, milestones>>
      BY <1>4, <2>2 DEF streamVars
    <2>3. CASE UNCHANGED <<dbVars, appVars, mounted>> /\
                 \/ ReceiveList("list") /\ UNCHANGED liveVars
                 \/ \E h \in Hooks : (Connect(h) \/ Break(h)) /\ UNCHANGED <<liveVars, listVars>>
      BY <1>3, <1>8, <2>3 DEF liveVars, ReceiveList
    <2>4. CASE UNCHANGED <<dbVars, appVars, mounted>> /\
                 \/ (Polling \/ FailPoll) /\ UNCHANGED <<streamVars, listVars>>
                 \/ Fetching /\ UNCHANGED <<streamVars, liveVars>>
                 \/ UNCHANGED <<streamVars, detail, poll, milestones>>
      BY <1>6, <2>2, <2>4 DEF appVars, liveVars
    <2>5. CASE UNCHANGED <<hookVars, dbVars, selected, mounted>>
      BY <2>1, <2>5
    <2>6. CASE UNCHANGED <<hookVars, appVars, mounted>>
      BY <2>1, <2>6 DEF appVars
    <2>7. CASE UNCHANGED <<dbVars, appVars, mounted>> /\ ReceiveLive("milestones")
      BY <1>7, <2>7
    <2> QED
      BY <1>1, <1>5, <2>3, <2>4, <2>5, <2>6, <2>7, ViewMoves
  <1> QED
    BY <1>2, <1>9 DEF ScreenOrder

LEMMA ScreenOrderAtFirst == DashboardInit => ScreenOrder
  <1> SUFFICES ASSUME DashboardInit PROVE ScreenOrder
    OBVIOUS
  <1>1. milestones = <<>>
    BY DEF DashboardInit, LiveRunInit
  <1>2. stream["milestones"].state = "none"
    BY DashboardAssumptions DEF DashboardInit, StreamInit, NoSource
  <1>3. 1 .. Len(milestones) = {}
    BY <1>1
  <1>4. InOrder /\ Counted /\ Newer
    BY <1>2, <1>3 DEF InOrder, Counted, Newer
  <1> QED
    BY <1>4, DashboardInitTypes DEF ScreenOrder

\* The milestones on the screen are those of the selected run, newest first and without
\* a gap, and a connection tells of one once, however often it is lost and whatever the
\* other processes write and delete (useLiveRun.ts).
THEOREM MilestonesAreInOrder == DashboardSpec => []MilestonesInOrder
  <1>1. ScreenOrder => MilestonesInOrder
    BY OrderIsInOrder DEF ScreenOrder
  <1> QED
    BY <1>1, ScreenOrderAtFirst, ScreenOrderStep, PTL DEF DashboardSpec
=================================================================================
