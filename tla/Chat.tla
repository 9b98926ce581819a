---------------------------------- MODULE Chat ----------------------------------
(***************************************************************************)
(* The conversation in the chat frame of the dashboard: the source that is *)
(* selected (App.tsx), the iframe that shows LibreChat (ChatFrame.tsx),    *)
(* and the handler that finds or makes a conversation for the agent of a   *)
(* source (sources_conversation of migrationkit/api.py), with its caches   *)
(* for the lifetime of the process.                                        *)
(*                                                                         *)
(* Handlers run in threads, so each query of MongoDB is a step.  Agents    *)
(* are deleted and made again under new ids by "make reset-agent", MongoDB *)
(* may be down, and the API may be restarted.  Conversations are numbered  *)
(* as they are made; 0 is /c/new.  No conversation is archived.            *)
(*                                                                         *)
(* An answer and the timer only set the conversation.  React renders it,   *)
(* and puts a new iframe in place, in a later task, and starts the timer   *)
(* anew in one after that: the timer may fire in between.  A click is      *)
(* rendered, with its effects, before anything else happens.               *)
(***************************************************************************)
EXTENDS Integers, Sequences, SequencesExt, FiniteSetsExt

CONSTANTS
  Sources,
  FirstSource,   \* the first of the list of sources
  MaxClicks,     \* bound: changes of the source
  MaxPicks,      \* bound: choices of a conversation, and reloads of the page
  MaxMoves,      \* bound: conversations begun or gone to in the iframe
  MaxEvents      \* bound: restarts, resets and outages

ASSUME ChatAssumptions ==
  /\ FirstSource \in Sources /\ "none" \notin Sources
  /\ MaxClicks \in Nat /\ MaxPicks \in Nat /\ MaxMoves \in Nat /\ MaxEvents \in Nat

VARIABLES
  mongo,           \* whether MongoDB answers, and the agent of each source
  conversations,   \* collection conversations
  api,             \* the caches of the API process
  requests,        \* POSTs of the pages, in the order they were sent
  page,            \* the source, the conversation and the iframe
  bounds           \* what has happened, for the bounds

chatVars == <<mongo, conversations, api, requests, page, bounds>>

\* An agent id is the number of the reset that it was made after, from 1; 0 is
\* no agent.
AgentIds == Nat

\* "by", "after" and "late" are history: who made it, how many there were when a
\* request found none, and whether the answer to a later request has come.  The
\* page that sent a "lost" request has been left.
Conversation == [source : Sources, agent : AgentIds, by : {"request", "user"},
                 after : Nat]

Request == [source : Sources, pc : {"manifest", "user", "find", "insert", "answer"},
            agent : AgentIds, after : Nat, conv : Nat, late : BOOLEAN,
            lost : BOOLEAN]

\* Who asked for the conversation "asked": the storage of the browser, the answer
\* to the last request or one that came after that, the picker, what went on in
\* the iframe, or one of those while another was still on its way to the screen.
Askers == {"start", "answer", "late", "pick", "frame", "race"}

\* "conv" is selectedConvId, as it was set last, and what is stored; "shown" is as
\* it was rendered last, and "timer" as the timer knows it.  "frame" is where the
\* iframe is, once it is loaded.  "asked" and "by" are history.
Page == [source : Sources \cup {"none"}, conv : Nat, shown : Nat, timer : Nat,
         frame : Nat, loaded : BOOLEAN, asked : Nat, by : Askers]

ChatTypeOK ==
  /\ mongo \in [up : BOOLEAN, agents : [Sources -> AgentIds]]
  /\ conversations \in Seq(Conversation)
  /\ api \in [loaded : BOOLEAN, agents : [Sources -> AgentIds], user : BOOLEAN]
  /\ requests \in Seq(Request)
  /\ page \in Page
  /\ \A c \in {page.conv, page.shown, page.timer, page.frame, page.asked} :
       c <= Len(conversations)
  /\ bounds \in [clicks : Nat, picks : Nat, moves : Nat, events : Nat, resets : Nat]

NewProcess == [loaded |-> FALSE, agents |-> [s \in Sources |-> 0], user |-> FALSE]

ChatInit ==
  /\ mongo = [up |-> TRUE, agents |-> [s \in Sources |-> 1]]
  /\ conversations = <<>>
  /\ api = NewProcess
  /\ requests = <<>>
  /\ page = [source |-> "none", conv |-> 0, shown |-> 0, timer |-> 0,
             frame |-> 0, loaded |-> FALSE, asked |-> 0, by |-> "start"]
  /\ bounds = [clicks |-> 0, picks |-> 0, moves |-> 0, events |-> 0, resets |-> 1]

-----------------------------------------------------------------------------
(* Around the program. *)

Event == bounds.events < MaxEvents /\ bounds' = [bounds EXCEPT !.events = @ + 1]

MongoStops ==
  /\ mongo.up /\ Event
  /\ mongo' = [mongo EXCEPT !.up = FALSE]
  /\ UNCHANGED <<conversations, api, requests, page>>

MongoStarts ==
  /\ ~mongo.up
  /\ mongo' = [mongo EXCEPT !.up = TRUE]
  /\ UNCHANGED <<conversations, api, requests, page, bounds>>

\* reset-agent.sh deletes the agents; conversations stay.
DeleteAgents ==
  /\ mongo.up /\ Event
  /\ mongo' = [mongo EXCEPT !.agents = [s \in Sources |-> 0]]
  /\ UNCHANGED <<conversations, api, requests, page>>

\* ... and runs librechat-init, which makes those that are missing.  The API is
\* not restarted.
MakeAgent(s) ==
  /\ mongo.up /\ mongo.agents[s] = 0
  /\ mongo' = [mongo EXCEPT !.agents[s] = bounds.resets + 1]
  /\ bounds' = [bounds EXCEPT !.resets = @ + 1]
  /\ UNCHANGED <<conversations, api, requests, page>>

\* The connections of the requests are cut.
RestartApi ==
  /\ Event
  /\ api' = NewProcess
  /\ requests' = [i \in DOMAIN requests |->
       IF requests[i].pc = "answer" THEN requests[i]
       ELSE [requests[i] EXCEPT !.pc = "answer", !.conv = 0]]
  /\ UNCHANGED <<mongo, conversations, page>>

-----------------------------------------------------------------------------
(* The caches of the API. *)

\* _load_agent_ids_from_mongo.  An exception ends the loop after any of the
\* agents, and "loaded" is set all the same.
LoadAgents(s) ==
  \/ api.loaded /\ UNCHANGED api
  \/ \E read \in SUBSET Sources :
       /\ ~api.loaded
       /\ ~mongo.up => read = {}
       /\ api' = [api EXCEPT
            !.loaded = TRUE,
            !.agents = [x \in Sources |->
              IF x \in read /\ mongo.agents[x] # 0 THEN mongo.agents[x]
              ELSE api.agents[x]]]

Fail(i) == requests' = [requests EXCEPT ![i].pc = "answer", ![i].conv = 0]

-----------------------------------------------------------------------------
(* sources_conversation *)

ReadManifest(i) ==
  LET s == requests[i].source IN
  /\ requests[i].pc = "manifest"
  /\ LoadAgents(s)
  /\ IF api'.agents[s] = 0 THEN Fail(i)
     ELSE requests' = [requests EXCEPT ![i].pc = "user", ![i].agent = api'.agents[s]]
  /\ UNCHANGED <<mongo, conversations, page, bounds>>

\* _get_playground_user_id, which caches what was found only.
FindUser(i) ==
  /\ requests[i].pc = "user"
  /\ api' = [api EXCEPT !.user = @ \/ mongo.up]
  /\ IF api'.user THEN requests' = [requests EXCEPT ![i].pc = "find"] ELSE Fail(i)
  /\ UNCHANGED <<mongo, conversations, page, bounds>>

\* Mutant: the latest conversation of the user, whatever its agent.
OfAnyone(s, agent) == DOMAIN conversations

\* The conversations of an agent.
OfAgent(s, agent) ==
  {c \in DOMAIN conversations :
     conversations[c].source = s /\ conversations[c].agent = agent}

\* Mutant: a conversation is made for each change of the source.
FindNone(i) ==
  /\ requests[i].pc = "find"
  /\ requests' = [requests EXCEPT ![i].pc = "insert", ![i].after = Len(conversations)]
  /\ UNCHANGED <<mongo, conversations, api, page, bounds>>

\* find_one.  Which one is the latest depends on the messages sent since.
FindConversation(i) ==
  LET r == requests[i]
      found == OfAgent(r.source, r.agent) IN
  /\ r.pc = "find"
  /\ \/ ~mongo.up /\ Fail(i)
     \/ \E c \in found :
          mongo.up /\ requests' = [requests EXCEPT ![i].pc = "answer", ![i].conv = c]
     \/ /\ mongo.up /\ found = {}
        /\ requests' = [requests EXCEPT ![i].pc = "insert",
                                        ![i].after = Len(conversations)]
  /\ UNCHANGED <<mongo, conversations, api, page, bounds>>

InsertConversation(i) ==
  LET r == requests[i] IN
  /\ r.pc = "insert"
  /\ \/ ~mongo.up /\ Fail(i) /\ UNCHANGED conversations
     \/ /\ mongo.up
        /\ conversations' = Append(conversations,
             [source |-> r.source, agent |-> r.agent, by |-> "request", after |-> r.after])
        /\ requests' = [requests EXCEPT ![i].pc = "answer",
                                        ![i].conv = Len(conversations) + 1]
  /\ UNCHANGED <<mongo, api, page, bounds>>

-----------------------------------------------------------------------------
(* The page. *)

\* The list of sources, for which the API reads every manifest.
OpenPage ==
  /\ page.source = "none"
  /\ LoadAgents(FirstSource)
  /\ page' = [page EXCEPT !.source = FirstSource]
  /\ UNCHANGED <<mongo, conversations, requests, bounds>>

\* handleSourceChange.  Rendering runs the effects that wait.
ChangeSource(s) ==
  /\ page.source \notin {"none", s}
  /\ bounds.clicks < MaxClicks
  /\ bounds' = [bounds EXCEPT !.clicks = @ + 1]
  /\ page' = [page EXCEPT !.source = s, !.timer = page.shown]
  /\ requests' = Append(requests, [source |-> s, pc |-> "manifest", agent |-> 0,
                                   after |-> 0, conv |-> 0, late |-> FALSE,
                                   lost |-> FALSE])
  /\ UNCHANGED <<mongo, conversations, api>>

\* Nothing is on its way from the iframe, or to it.
Steady == page.frame = page.timer /\ page.timer = page.shown

\* The answer to conversationForSource; an error is /c/new.  Nothing puts the
\* answers in the order of the requests.
ShowConversation(i) ==
  LET r == requests[i] IN
  /\ r.pc = "answer" /\ ~r.lost
  /\ page' = [page EXCEPT !.conv = r.conv, !.asked = r.conv,
       !.by = IF ~Steady THEN "race" ELSE IF r.late THEN "late" ELSE "answer"]
  /\ requests' = RemoveAt([j \in DOMAIN requests |->
                            [requests[j] EXCEPT !.late = @ \/ j < i]], i)
  /\ UNCHANGED <<mongo, conversations, api, bounds>>

DropAnswer(i) ==
  /\ requests[i].pc = "answer" /\ requests[i].lost
  /\ requests' = RemoveAt(requests, i)
  /\ UNCHANGED <<mongo, conversations, api, page, bounds>>

\* The render of a conversation: the iframe is keyed by its address, so that a new
\* one takes its place.
Commit ==
  /\ page.conv # page.shown
  /\ page' = [page EXCEPT !.shown = page.conv, !.timer = page.shown,
                          !.frame = page.conv, !.loaded = FALSE]
  /\ UNCHANGED <<mongo, conversations, api, requests, bounds>>

\* Mutant: the timer is started once, and knows what it knew then.
KeepTimer == page.timer # page.shown /\ UNCHANGED chatVars

\* The effect of the render: the timer is started anew.
Resubscribe ==
  /\ page.timer # page.shown
  /\ page' = [page EXCEPT !.timer = page.shown]
  /\ UNCHANGED <<mongo, conversations, api, requests, bounds>>

LoadFrame ==
  /\ ~page.loaded
  /\ page' = [page EXCEPT !.loaded = TRUE]
  /\ UNCHANGED <<mongo, conversations, api, requests, bounds>>

\* Mutant: an iframe that is not loaded yet is taken for /c/new.
SyncAtOnce ==
  LET path == IF page.loaded THEN page.frame ELSE 0 IN
  /\ path # page.timer
  /\ page' = [page EXCEPT !.conv = path]
  /\ UNCHANGED <<mongo, conversations, api, requests, bounds>>

\* Every two seconds: what the iframe shows becomes the conversation.
SyncFrame ==
  /\ page.loaded /\ page.frame # page.timer
  /\ page' = [page EXCEPT !.conv = page.frame]
  /\ UNCHANGED <<mongo, conversations, api, requests, bounds>>

\* A page, or the render of a click, that shows this conversation.
Opened(conv) ==
  [page EXCEPT !.conv = conv, !.shown = conv, !.timer = conv, !.frame = conv,
               !.loaded = FALSE, !.asked = conv]

Pick == bounds.picks < MaxPicks /\ bounds' = [bounds EXCEPT !.picks = @ + 1]

\* handleConversationChange, with any of the conversations or a new one.
PickConversation(conv) ==
  /\ conv # page.shown /\ Pick
  /\ page' = [Opened(conv) EXCEPT !.by = "pick"]
  /\ UNCHANGED <<mongo, conversations, api, requests>>

\* The page is loaded again, with the conversation that is stored.  Its requests
\* go on in the API.
ReopenPage ==
  /\ Pick
  /\ page' = [Opened(page.conv) EXCEPT !.source = "none", !.by = "start"]
  /\ requests' = [i \in DOMAIN requests |->
                    [requests[i] EXCEPT !.late = TRUE, !.lost = TRUE]]
  /\ UNCHANGED <<mongo, conversations, api>>

-----------------------------------------------------------------------------
(* LibreChat in the iframe. *)

Move(conv) ==
  /\ page.loaded /\ bounds.moves < MaxMoves
  /\ bounds' = [bounds EXCEPT !.moves = @ + 1]
  /\ page' = [page EXCEPT !.frame = conv, !.asked = conv,
       !.by = IF page.conv = page.shown THEN "frame" ELSE "race"]

\* The first message in /c/new, to an agent that the user picks.
BeginChat(s) ==
  /\ page.frame = 0
  /\ mongo.up /\ mongo.agents[s] # 0
  /\ Move(Len(conversations) + 1)
  /\ conversations' = Append(conversations,
       [source |-> s, agent |-> mongo.agents[s], by |-> "user", after |-> 0])
  /\ UNCHANGED <<mongo, api, requests>>

\* Back to /c/new, or to another conversation.
GoTo(conv) ==
  /\ conv # page.frame /\ Move(conv)
  /\ UNCHANGED <<mongo, conversations, api, requests>>

-----------------------------------------------------------------------------
Around ==
  MongoStops \/ MongoStarts \/ DeleteAgents \/ RestartApi
    \/ \E s \in Sources : MakeAgent(s)

Serve(i) == ReadManifest(i) \/ FindUser(i) \/ FindConversation(i) \/ InsertConversation(i)

User ==
  \/ \E s \in Sources : ChangeSource(s) \/ BeginChat(s)
  \/ \E c \in 0 .. Len(conversations) : PickConversation(c) \/ GoTo(c)
  \/ ReopenPage

\* What React, the timer and the browser do by themselves.
Screen == Commit \/ Resubscribe \/ LoadFrame \/ SyncFrame

ChatNext ==
  \/ Around
  \/ \E i \in DOMAIN requests : Serve(i) \/ ShowConversation(i) \/ DropAnswer(i)
  \/ OpenPage \/ Screen
  \/ User

ChatFairness ==
  /\ WF_chatVars(Commit) /\ WF_chatVars(Resubscribe)
  /\ WF_chatVars(LoadFrame) /\ WF_chatVars(SyncFrame)

ChatSpec == ChatInit /\ [][ChatNext]_chatVars /\ ChatFairness

-----------------------------------------------------------------------------
\* What is set, rendered, known to the timer and in the iframe is the same.
AtRest == page.loaded /\ Steady /\ page.conv = page.shown

\* A page at rest shows what was asked for last, whether an answer, the picker, the
\* iframe or the storage asked for it, whatever the timer read in between.  Not
\* told is what happens when the iframe is left while something else is on its way
\* to the screen, or an answer comes before the timer has seen where the iframe is.
LastOneWins == AtRest /\ page.by # "race" => page.conv = page.asked

\* App.tsx:50-55 "The iframe navigates to that conversation, and LibreChat presents
\* the right agent": a page at rest that awaits no answer, and whose conversation
\* is that of the answer to the last of its requests, shows one of the source that
\* is selected.
RightConversation ==
  /\ AtRest /\ \A i \in DOMAIN requests : requests[i].lost
  /\ page.by = "answer" /\ page.asked # 0
  => conversations[page.conv].source = page.source

\* The same, when nobody says that the answer was to the last of the requests.
AnyAnswerIsRight ==
  /\ AtRest /\ \A i \in DOMAIN requests : requests[i].lost
  /\ page.by \in {"answer", "late"} /\ page.asked # 0
  => conversations[page.conv].source = page.source

\* App.tsx:83-85 "so the picker reflects it and refresh resumes it": once the user
\* is done, what the iframe shows is what is rendered and stored, for good.
ScreenSettles ==
  <>[](page.loaded /\ page.shown = page.frame /\ page.conv = page.frame)

\* api.py:442-443 "so flipping sources doesn't spam the partner's chat history":
\* an agent gets a second conversation only from a request that had looked for
\* one before the first was made.
DuplicatesOverlap ==
  \A c, d \in DOMAIN conversations :
    /\ c < d /\ conversations[d].by = "request"
    /\ c \in OfAgent(conversations[d].source, conversations[d].agent)
    => conversations[d].after < c

-----------------------------------------------------------------------------
(* Why they hold *)

\* A request is answered with a conversation of its source.
AnswersFit ==
  \A i \in DOMAIN requests :
    LET r == requests[i] IN
    r.conv # 0 => /\ r.conv \in DOMAIN conversations
                  /\ conversations[r.conv].source = r.source

\* What was asked for last is in the iframe, or on its way to it: then the timer
\* has nothing to say, or says the same.
AskedIsComing ==
  page.by # "race" =>
    IF page.conv = page.shown THEN page.frame = page.asked
    ELSE page.conv = page.asked /\ (Steady \/ page.frame = page.conv)

\* The last request is for the source of the page, or it has been answered or lost:
\* then the others are late.
LastIsOfPage ==
  LET n == Len(requests) IN
  /\ \A i \in DOMAIN requests : requests[i].lost => requests[i].late
  /\ \/ n > 0 /\ ~requests[n].late /\ requests[n].source = page.source
     \/ /\ \A i \in DOMAIN requests : requests[i].late
        /\ page.by = "answer" /\ page.asked # 0 =>
             conversations[page.asked].source = page.source

\* A request that has found no conversation knows how many there were.
NoneBefore ==
  \A i \in DOMAIN requests :
    LET r == requests[i] IN
    r.pc = "insert" => /\ r.after <= Len(conversations)
                       /\ \A c \in OfAgent(r.source, r.agent) : r.after < c
=============================================================================
