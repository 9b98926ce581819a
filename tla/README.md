# MigrationRoom: models, checks and proofs

MigrationRoom moves tables from a source database into ClickHouse. An agent
writes Python scripts that use the library `migrationkit`; the scripts run as
processes in the container `migration-runner`; a dashboard follows them and lets
a user pause, resume, cancel and delete. Scripts, API and dashboard meet in one
SQLite database. This directory models the system in TLA+: the database, the
scripts that migrate, validate and benchmark, the sources and buckets they ask,
the API that acts on them, the runner that starts them and hands their output to
the agent, and the clients: the dashboard with its events, lists, chat and token,
and the shim in front of the MCP servers.

Paths below are relative to `src/`; `MK` is `docker/migration-runner/migrationkit`
and `UI` is `docker/migration-dashboard/src`.

## 1. Inventory

| component | state | operations | hard behaviour |
|---|---|---|---|
| state store `MK/state.py` | tables runs, run_tables, batches, events, controls, validations, benchmarks | one short transaction per function, two when a function also writes an event | reads that precede the first write are outside the transaction; foreign keys cascade, events have none |
| Migrator `MK/migrator.py` | a process: plan, position in it, cursor, batch in hand, phase | construct, register, direct batches, staged unload and load, pause, cancel, finish | killed at any point; every operation may raise; the flag is read only at boundaries |
| ClickHouse target `MK/targets/clickhouse.py` | rows of the target tables | insert_batch, load_from_s3, load_from_gcs, count_rows, execute_and_count | a load runs in a thread that may outlive its script; counts may fail |
| source adapters `MK/sources/*` | a connection, its transaction, a cursor | count_rows, execute_and_count, iter_batches, unload | a failed query may spoil the connection for the next one; a driver raises in the middle of a result |
| staging `MK/staging/*` | objects of the bucket | list, delete a prefix in chunks | an unload or a removal that stops half-way, keys that are not deleted |
| control API `MK/api.py` | requests in flight | pause, resume, cancel, mark, delete, and reads | each handler reads, then writes in another transaction |
| Validator `MK/validator.py` | a process: tables left, counts, verdicts | validate | runs beside a migration, may be repeated or run twice at once |
| Benchmarker `MK/benchmarker.py` | a process: query, results of its two sides | benchmark | a query raises, the process dies between a row and its event, the call is made again |
| event stream `MK/api.py`, `UI/lib/api.ts` | an EventSource for each hook, the cursor of a connection | connect, poll, yield, break, reconnect, give up | a reconnection begins at the first URL; errors in a row close it for good |
| dashboard `UI/App.tsx`, `UI/hooks/*` | runs listed, run selected, detail, milestones, rows | poll, select, receive, refetch | torn reads, answers of a run that is not selected any more, answers out of order |
| chat `MK/api.py`, `UI/App.tsx`, `UI/components/ChatFrame.tsx` | caches of agents and user, conversations, the conversation that is set, rendered and stored, the timer, the iframe | find or make a conversation, change the source, pick a conversation, follow the iframe, open the page again | caches that outlive what they cache, two requests at once, answers out of order, a timer that knows an older render, restarts |
| token refresh `UI/lib/librechat.ts` | token, renewal in flight | get token, fetch with one retry | concurrent callers, a renewal that is joined |
| Gemini shim `docker/mcp-gemini-shim/server.py` | upstream session and its exit stack | open in attempts, forward, close | attempts that fail half-way, a server that restarts |
| job runner `docker/migration-runner/server.py` | jobs, their output, exit code | run, run in background, tail | timeout against end of output, a drain that raises |
| Databricks SQL guard, setup scripts, terraform, prompts | none | - | - |

How they interact: the agent asks the job runner to start a script; the script
constructs a `Migrator` (which inserts the run), works through its plan with its
source, its bucket and its target, and writes its progress; the dashboard polls
the run and follows its events over SSE; its buttons call the API, which writes
the flag in `controls`; the script reads the flag between batches and phases.
Nothing else connects a script with the API: there is no lock, no heartbeat and
no message. Validation and benchmark are scripts of the same kind, run
afterwards, or at least meant to be. The chat frame and the dashboard share only
the selected source; the token and the shim's session are private to their
client.

What makes the parts correct:

* state store: the rows of different tables agree; an ended run never revives;
* Migrator: one active run; the checkpoint is never ahead of the target and at
  most a batch behind; a run that is done has moved what it says; nothing is
  inserted under a paused or cancelled run; staged objects go only when their
  rows have arrived; the log does not announce what the tables do not say;
* control API: a request answered for a run that changes meanwhile does no harm;
* Validator: the verdicts are those of one call and agree with its summary;
* Benchmarker: the rows are those of one call, one for each query, a query that
  fails does not fail the next, and each row is told of before the next;
* sources and staging: the batches are the rows of the query, an unload reports
  what will be loaded, a removal leaves nothing and takes nothing of others;
* event stream and dashboard: what is shown is in order and of the selected run,
  and agrees with the database when nothing changes any more;
* chat: what was asked for last is what comes on the screen, and stays; after a
  change of the source that is a conversation of the new source, unless an answer
  came late, or the user has gone elsewhere since; an agent gets a second
  conversation only from requests that overlap;
* token and shim: one renewal at a time, a retry with a newer token, no transport
  that is never closed, no request to a session that is not ready;
* job runner: the agent gets every line once and in order, is told done only when
  it has everything, and a job ends;
* the whole: the status column has a life cycle its readers can rely on, and a
  script ends or waits in a pause.

## 2. Modules

`StateStore` - one operator per transaction of `state.py`. The unit of
interleaving is a transaction, because the processes share nothing else; a
function that makes two is two operators, used in two steps.

`Migrator` (extends StateStore) - the scripts. Each has a control location
(`pc`) and the local variables of the Python code; one action per transaction or
per operation on the source, the bucket or the target.

| code | actions |
|---|---|
| `__init__` and `create_run` | `CheckNoActiveRun`, `RefuseRun`, `CreateRun`, `AnnounceStart` |
| `run()` until the first table | `Preflight`, `RegisterNext`, `AllRegistered` |
| `_migrate_table` | `BeginDirect`, `OpenCursor`, `FetchBatch`, `CursorEmpty`, `InsertBatch`, `RecordInserted` |
| `_migrate_table_via_s3`, `_migrate_table_via_gcs` | `BeginStaged`, `RejectStrategy`, `EnterUnloading` ... `LeavePhases` |
| end of a table on each path | `CompleteTable`, `AnnounceTable` |
| `_check_controls` | `ReadFlag`, `MarkPaused`, `AnnouncePause`, `PollFlag`, `MarkRunning`, `AnnounceResume`, `AnnounceCancel` |
| `finish_run` and the handlers of `run()` | `PlanDone`, `FinishRun`, `AnnounceFinish`, `Exit`, `Fail`, `FailTable` |
| the INSERT thread of a load that was given up | `LandLate` |
| timeout of the job, restart, an exception outside `run()` | `Kill` |
| other writers of the source | `SourceInsert` |

`load_from_s3` is three actions (`CountBaseline`, `LoadStaged`, `CountLoaded`).
`Fail` is an exception at any location inside the `try` block of `run()`,
including the two that follow `finish_run("done")`; `Kill` covers everything
after which no code runs. A table is its number of rows; `landed` is history: the
rows each run has put in the target, which no variable of the program holds.

`ControlApi` (extends StateStore) - `Accept` is the read that each handler
begins with, `WriteFlag`, `Mark` and `Delete` the write that follows, `Abort` a
handler that is cut off between them.

`RunLifecycle` - the abstract specification of the column `runs.status`: create
(only when nothing is active), pause, resume, end, delete (only what has ended),
and `Demote`, a run that was done and is then reported failed, which the `try`
block of `run()` makes possible.

`MigrationSystem` - scripts and API over one store, with the properties, the
fairness and the refinement mapping `Lifecycle!status[r] = runs[r].status`.

`TableProgress` (extends MigrationSystem) - no code of its own: what the rows of
`run_tables` and `batches`, the target, the bucket and the events hold for each
item of a plan, told from where its script is. `TablesFollowScripts` speaks of the
tables, `BatchesFollowScripts` of the batches, and `ItemsFollowScripts` is both: the
inductive invariant of section 5, checked by `mixed`.

`Validator` (extends Migrator) and `ValidationSystem` (composes it with
MigrationSystem) - `validate()`, one action per transaction and per count. The
history variables `author` and `latest` name the call that wrote each verdict
and the call that cleared the rows last.

`JobRunner` - one background job. The coroutines of `server.py` share one event
loop, so an action is what lies between two awaits.

| code | actions |
|---|---|
| the script (not in the repository: any program) | `WriteLine` (blocks on a full pipe), `Exit`, `StartChild`, `EndChild`, `Die` |
| `_drain`, one for each stream | `ReadLine`, `ReadLong` (the reader's limit is exceeded), `ReadEof` |
| `_supervise` | `Drained`, `Reap`, `DrainRaised`, `Timeout`, `KillRaises`, `GiveUp` |
| `tail_python_job` | `Ask`, `Answer` |
| the agent | `Receive`, `Lose` (its client gives up, the answer is dropped) |

It is not composed with `Migrator`: a script's output is not part of the
migration, and the only step of the runner that a migration feels is the kill,
which is `Migrator`'s `Kill`. A process that is killed may have been anywhere.

`Benchmarker` (extends StateStore and SourceConnection) - `benchmark()`, a process
like the Validator. Of each side of a row the kind of its result is kept.

| code | actions |
|---|---|
| `Benchmarker.__init__`, `delete_benchmarks_for_run` | `BeginBenchmark`, `ClearBenchmarks` |
| a query on the source (`_run_side`, `execute_and_count`), and on the target | `RunSource`, `RunTarget` |
| `record_benchmark_row`, the event that follows | `RecordRow`, `AnnounceRow` |
| the end of the call | `AllQueriesRun`, `AnnounceDone`, `AnnounceBenchmarked` |
| an exception outside `_run_side`, a timeout | `StopBenchmark` |
| `delete_run`, which cascades | `DeleteRunAndBenchmarks` |

`RowLog` - the abstract specification of a table that a step fills row by row:
`Clear`, `Put`, `Tell`, `Remove`, where a row is told of before the next is put.
`Benchmarker` is shown to implement it (`Log!LogSpec` with the table as `rowsOf`),
and `Dashboard` uses it as the writer beside the hooks that read the rows: so what
the hooks are shown to do holds beside the real writer.

`SourceConnection` - a connection to a source: which queries are refused, what a
failed one leaves behind, who rolls back (`count_rows` does not,
`execute_and_count` does), and the tiers in which the time of a query is looked up.

`SourceAdapter` (extends SourceConnection) - the calls of a script that moves
tables, on each of the five adapters.

| code | actions |
|---|---|
| `count_rows`, `execute_and_count` | `Count`, `Time` |
| `iter_batches` | `OpenQuery`, `FetchPage` (fetchmany) or `FetchRow` and `YieldLast` (row by row), `LoseRows`, `DropIterator` |
| `unload_to_s3`, `unload_to_gcs` | `Unload` (whole or in part), `ListUnloaded` |
| `delete_s3_prefix`, `delete_gcs_prefix` | `BeginCleanup`, `DeleteChunk`, `LoseBucket` |

`ask[x].batches` keeps the sizes of the batches that an iteration has yielded and
`ask[x].sent` their sum: both are history, for `BatchesAreTheRows`.

`SourceScripts` - a Benchmarker or a SourceAdapter over one kind of source. A script
has a connection of its own and runs one call after another, so a behaviour has
one of the two. `Migrator` has its own, coarser view of the same calls: there an
iteration is a cursor and a number of rows, and what the adapters promise of
batches and objects is what it relies on.

`EventStream` (extends StateStore) - the event source of each hook of the dashboard:
`Connect`, `Receive`, `Break`. What a connection has yielded and the browser not
received cannot be told from what it has not yet yielded, because a connection
that breaks begins again at the `since` of its URL; so receiving is one step.
`subscribeEvents` closes after some errors in a row; a hook that sets its own
`onerror` replaces that.

`LiveRun` (extends EventStream) - `useLiveRun.ts`: the poll of the detail in its steps
(`Polling`: asked, read of the row, read of the flag, applied), the milestones.
`RowList` (extends EventStream) - `useBenchmarks.ts` and `useValidations.ts`, which are
the same code: a GET at the selection and at each event of a row, several on
their way at once.

`Dashboard` - the list of runs and the selection of `App.tsx` (`ShowRuns`,
`PickRun`, `Select`), the hooks above, and `Elsewhere`: the other processes, which
create, end, delete, flag and benchmark runs. The hooks share nothing but the
selection, so a behaviour mounts one.

`TokenRefresh` - `fetchWithAuth` and `getAccessToken` between awaits: `TakeCached`,
`Join` (a renewal that another call has begun), `Renew`, `Fulfil`, `Reject`,
`Answered`, `Unauthorized`; `Issue` and `Expire` are the LibreChat server.
`UpstreamSession` - the shim: an attempt is `EnterTransport` and three `Advance`,
ended by `Commit` or by `AttemptFails` and `CloseAttempt`; then `Accept`, `Forward`,
`ForwardFails`, `Shutdown`, `CloseUpstream`. The server behind it may stop and start
at any time, and a session belongs to the incarnation it was opened with.
`Sessions` - the two clients that keep what a server gave them; they share nothing,
so a behaviour runs one.

`Chat` - the chat of the dashboard and the handler that serves it.

| code | actions |
|---|---|
| `sources_conversation` with its caches, one query of MongoDB each | `ReadManifest`, `FindUser`, `FindConversation`, `InsertConversation` |
| `App`: the list of sources, `handleSourceChange`, the answer | `OpenPage`, `ChangeSource`, `ShowConversation`, `DropAnswer` |
| `App`: `handleConversationChange`, the conversation stored in the browser | `PickConversation`, `ReopenPage` |
| the render, and `ChatFrame` with its keyed iframe | `Commit`, `LoadFrame` |
| the effect that starts the timer, the timer | `Resubscribe`, `SyncFrame` |
| LibreChat in the iframe | `BeginChat`, `GoTo` |
| around | `MongoStops`, `MongoStarts`, `DeleteAgents`, `MakeAgent`, `RestartApi` |

The conversation of the page is four numbers: `conv` was set last (and stored in the
same step), `shown` was rendered last, `timer` is what the timer was started with,
`frame` is where the iframe is. An answer and the timer set `conv` outside of any
event of the user: React renders it in a later task, and runs the effect in one after
that, so that the timer may fire in between with what it knew. A click is rendered
with its effects before anything else (`Opened`; `ChangeSource` runs the effect that
waits). An iframe that is not loaded yet has no address that the timer takes. `asked`
and `by` are history: the conversation that was asked for last, and by whom.

`MCSystem`, `MCValidation`, `MCJob`, `MCSources` - instances for TLC. `Dashboard`,
`Sessions` and `Chat` take sets and numbers only, which their `.cfg` files give.

`StateStore_proofs`, `MigrationSystem_proofs`, `Tables_proofs`, `Validation_proofs`,
`SourceScripts_proofs`, `Sessions_proofs`, `JobRunner_proofs`, `Dashboard_proofs` (of
`Dashboard` and `Chat`) - the proofs (section 5).

Left out of the data: timestamps (except whether `ended_at` is set), bytes and
seconds, error texts, event payloads, log lines and the events `batch_done`,
`bytes_progress` and `phase_started`. Row transforms and the mapping of columns
are in no property.

## 3. What is checked

| run | question | properties |
|---|---|---|
| `mixed` | does everything stay consistent while one script moves a table by each path, a source grows, operations fail, it may be killed anywhere and a user presses every button? Does the script, if it is scheduled, end or wait in a pause? | `RowsAgree`, `ItemsFollowScripts`, `CheckpointSound`, `DoneIsComplete`, `EventsFollowTables`, `LandsOnlyWhileRunning`, `StagedUntilLanded`, `ScriptsSettle` |
| `pair` | do two runs and two requests in flight keep the status column sane? | `IInv` (`OneActiveRun` is its first part), `ImplementsLifecycle` |
| `validate` | can the verdicts of two validations that follow one another be trusted, one that discovers its tables and one that was given them, while the migration goes on and its run may be deleted? | `VerdictsOfOneCall`, `JudgesDoneTables`, `SummaryMatchesRows`, `MatchMeansLanded` |
| `job` | is what the agent puts together what the script wrote, with full pipes, a child that outlives its script, a line that is too long, lost answers and a timeout at any moment, and does every job end? | `DeliveredInOrder`, `DoneMeansAll`, `JobEnds` |
| `sources` | on each kind of source: are the rows of a benchmark that is made again those of one call and complete, whatever failed before? Are batches, reported files and removals what the Migrator relies on, when queries, connections, unloads and deletions fail half-way? | `RowsOfOneCall`, `EveryQueryHasARow`, `NoneRefused`, `ImplementsRowLog`, `BatchesAreTheRows`, `ReportIsWhatLoads`, `CleanupIsComplete`, `OthersStay` |
| `dashboard` | is what the dashboard shows in order and of the selected run while writers create, end, delete and benchmark runs, connections break and GETs fail, and does it agree with the database once they stop? | `MilestonesInOrder`, `EndedStaysEnded`, `SelectionSettles`, `DetailSettles`, `MilestonesSettle`, `RowsSettle` |
| `sessions` | do concurrent callers share one renewal and retry with a newer token; does a shim whose server restarts leak nothing; does nobody wait for ever? | `OneRenewal`, `RetryIsNewer`, `NothingLeaks`, `CallsSettle`, `StartupEnds` |
| `chat` | while the user changes the source, picks conversations, opens the page again and goes elsewhere in the iframe, does what was asked for last come on the screen, and stay, whatever answers and the timer do in between? Is it of the selected source? When does an agent get a second conversation, while requests overlap and agents, MongoDB or the API go and come back? | `LastOneWins`, `RightConversation`, `DuplicatesOverlap`, `ScreenSettles` |

All of them pass. Four runs show where the program does not do what its
documents say:

* `dead_slot` (`CancelFreesTheSlot`): "Cancel or finish it before starting a new
  one" (`MK/state.py:211`). A killed script leaves its run active. Cancel writes a
  flag nobody reads, delete refuses an active run, and every later script is
  refused. The run is checked with fairness: it is not that nothing happens, but
  that nothing is left to happen.
* `overlap` (`OneActiveRun`): "Refuses construction if another run is already
  'running' or 'paused'" (`MK/migrator.py:137-138`). The check and the insert are
  not one transaction. This is `pair` without the assumption `SerialDispatch`.
* `runs_on` (`DoneMeansStopped`): "Drain the script's stdout/stderr, enforce the
  timeout, then mark the job done" (`docker/migration-runner/server.py:175-176`).
  `_supervise` catches only `TimeoutError`. After the `ValueError` of a line above
  64 KiB the job is done while its script runs on: nothing watches its deadline,
  and nothing reads what it writes to the stream whose drain has raised.
* `late_answer` (`AnyAnswerIsRight`): "a conversation already bound to the new source's
  agent [...] The iframe navigates to that conversation, and LibreChat presents the
  right agent" (`UI/App.tsx:51-54`). After two changes of the source the answer to
  the first may come last; it is assigned like any other, and nothing corrects it.

Exceptions are written into properties that hold, because the code makes them: a
done run may become failed (`Demote`); rows may arrive under a failed run
(`LandsOnlyWhileRunning`, from a load whose INSERT outlived its script); a source
that grows turns a complete staged load into a failure (`DoneIsComplete` speaks of
the total registered); rows on the screen may be those of an earlier GET whose answer
came late (`rowsLate` in `RowsSettle`), and a hook whose connection was closed for
good shows what it had (`RowsSettle`, `MilestonesSettle`); a conversation on the
screen may be that of an earlier request whose answer came late, or what the user
has picked or gone to (`by` in `RightConversation`); when the iframe is left while
something else is on its way to the screen, or an answer comes before the timer has
seen where the iframe is, either may win (`"race"` in `LastOneWins`); a call that dies
between a row and its event leaves readers without it (`untold` in `RowsSettle`); S3
keeps the keys it refuses to delete (`CleanupIsComplete`); two requests that both look
before either inserts make two conversations (`DuplicatesOverlap`). Without any of
these exceptions its run fails.

Other places where text and code part, met while modelling and visible in the
actions named, without a run of their own:

* `README.md:179-180` "Cancel terminates it irrecoverably": a cancel after the last
  `ReadFlag` is answered 200 and the run ends as done.
* `MK/targets/clickhouse.py:254-260` "`rows_done` reflects rows added by THIS load":
  a baseline count that raises is taken as 0 (`CountBaseline`), and the check
  compares the whole target with the source.
* `docker/migration-runner/server.py:285` "integer (0 = success) when done": null
  after `DrainRaised` and `KillRaises`.
* `MK/api.py:74-76` "if partners run `make reset-agent`, the migration-runner restart
  drops the cache": `scripts/reset-agent.sh` deletes the agents and runs
  `librechat-init`, and restarts no migration-runner (`DeleteAgents`, `MakeAgent`), so
  requests go on with ids that no agent has any more; and an error of MongoDB
  half-way through the agents marks the cache as loaded (`LoadAgents`).
* `UI/components/ChatFrame.tsx:139-142` "React doesn't re-set the attribute, so the
  iframe doesn't reload": the iframe has `key={src}`, so the conversation that
  `SyncFrame` finds where `/c/new` was gives it a new key, and `Commit` throws away the
  frame that shows it and loads it again.
* `MK/api.py:204-206`: the stream of events does not end when its run has.
* `UI/hooks/useBenchmarks.ts:38`: nothing puts the answers to concurrent requests in
  the order of the requests.
* `docker/mcp-gemini-shim/server.py:111-114` speaks of a supervisor of the session;
  after `Commit` nobody opens it again.
* `MK/staging/s3.py:123`: the keys that `delete_objects` reports as not deleted are
  not looked at.

### Bounds

`mixed`: one script, one table by each path, three rows in the direct table and
batches of two, so there is a full batch, a short one and an empty cursor; one of
the targets holds a row beforehand, so that a baseline matters; the sources may
grow (`MaxRows`). `MaxCalls` bounds the requests of a behaviour: two are enough
for every ordered pair (pause and cancel, cancel and resume, resume and
delete...), and a flag holds only the last. About 350 000 states.

`pair`: two scripts of two runs, the second with a strategy that its source does
not have, and two callers, so that two handlers are both between their read and
their write. Callers are symmetric: they differ in nothing but their name, and no
property is temporal but `ImplementsLifecycle`, a refinement without fairness.
About 725 000 states.

`validate`: two validations suffice to be before and after one another, and
before, during and after the end of the table; one request, and one table of two
rows, moved one at a time, so that a count of the target may find half of it. Its
source does not grow. About 580 000 states.

`job`: three lines to a stream and two to a pipe (`MaxLines`, `PipeLines`), so that a
writer blocks, an answer can come before, between and after lines, and two
answers in a row can carry lines. With `OneLongLine` one line of one stream exceeds
the reader's limit, with a line before and a line after it.

`sources`: all five adapters; two benchmarks of one run, the first with two queries
of which each is wrong on one side, the second with one that has no SQL for the
target;
results of up to four rows in batches of two (none, a short batch, a full one, two
full ones), up to two files per unload beside a mark, deletions two at a time, and
two tables of which one has a name that begins the other's.

`dashboard`: two runs, four acts of others and clicks of the user in any order, two
broken connections, of which two in a row close a hook's event source
(`GiveUpAfter` is 2 here; it decides nothing but when the source closes), one
failed GET, two GETs on their way at once, and two milestones kept, so that a
third pushes one out. About 500 000 states.

`sessions`: three callers and three tokens, so that a call can join the renewal of
another, be refused again and find that a third has renewed meanwhile; three
attempts of the shim and three incarnations of its server.

`chat`: two sources, two changes of the source, so that two answers can be on their
way and come in either order; two picks or reloads of the page, so that each can come
before, between and after the answers, and two pages can ask for one source at once;
one move in the iframe, which may begin a chat of the user's own; one event around. A
request also fails with a cache of agents that was filled in part. About 1 800 000
states; without the event and with two moves (800 000) the properties hold as well.
`late_answer` takes two changes of the source and nothing else.

`pair` and `validate` use a VIEW that drops the event log: no guard of these runs
reads it, so states that differ in it alone have the same successors up to the view,
and exploring one is exploring all. Of their properties only the type of the log, in
the `TypeOK` of `IInv`, reads it, and TLC sees one log for each state of the view;
that type is theorem `TypeCorrect`. Deadlock is not
checked: scripts, requests, jobs and sessions come to an end.

### Fairness

`FairSpec` (`mixed`, `dead_slot`) gives weak fairness to each script's own steps
(`Proceed`) and to nothing else: that is the operating system running processes that
are alive. A step of a script is never disabled by
somebody else except the ones that need the run's row; then `Fail` remains
possible, and is not required. There is no fairness for launching, failing,
killing, calling the API, finishing a handler that was accepted, or inserting into
the source. A script may be killed
instead of making progress: the properties say so.

`FairJobSpec` (`job`) gives weak fairness to the drains and the supervisor (one
event loop runs whatever is ready, and every wait of the supervisor on drains has
a deadline) and to the death of a process that was sent SIGKILL. The script has
none: it may hang for ever. Nor have the agent and its calls.

`DashboardFairness` gives weak fairness to the timers and callbacks of the browser:
the list of runs, the poll, the GETs and what is received, and to the reconnection
of an event source. The writers, the user and the network owe nothing; the
properties say what is shown once their bounded acts are over, which is "the
writers have stopped".

`SessionsFairness` gives weak fairness to the renewal, to each caller's next step and
to the opening of the session: each POST and each await is answered or fails.
Nothing obliges a server to accept a token or to be up.

`ChatFairness` gives weak fairness to what a page that is open does by itself: React
renders what was set and runs the effects of the render, the browser loads the
iframe, and the timer fires every two seconds, so that one that finds a difference
acts on it, since the difference stays until something does. A sign-in that succeeds
is assumed (`ChatFrame` shows no iframe before). The API, MongoDB, the user and
LibreChat owe nothing: `ScreenSettles` is about the page once their bounded acts are
over, and a request may stay unanswered.

## 4. Assumptions

Constants that a `.cfg` sets and a step has as its guard:

* `SerialDispatch`: no two scripts are between the check and the insert of
  `create_run` at once. One agent dispatches one script per prompt; the code does
  not enforce it, and `overlap` shows what happens otherwise.
* `SerialValidation`: calls of `validate` for one run do not overlap. The rows are
  deleted once, at the start of a call (`MK/validator.py:107`), so two calls that
  overlap leave a mix of their verdicts and `VerdictsOfOneCall` fails without this
  assumption; `MK/validator.py:87-89` promises it of a re-run only.
* `SerialBenchmark`: the same for `benchmark` (`MK/benchmarker.py:102`). A call that
  has died may be followed by another: that is not excluded.

Definitions about the other constants, which theorems assume by name and the
instances satisfy:

* `FreshIds`: no two scripts use one run id. The prompts build it from the clock in
  seconds (`sources/*/prompts/02-migrate-data.md`).
* `TablesOnce`: no plan lists a table twice. `run_tables` has one row for a run and a
  table, and a second item of that table would begin it anew.
* `OwnTargets`, for `MatchMeansLanded` only: targets were empty, have the names of
  their source tables and belong to one run each, and a caller that names tables
  names some of its run. `count_rows` counts what is in a target, whoever put it there.
* `OneTransfer`, for `CleanupIsComplete` and `ReportIsWhatLoads`: one script at a time
  works on the bucket. A second one could put objects under the prefix that the
  first lists; `OthersStay` is proved without it.

Ways of the environment that are in the modules:

* A script keeps its own stdout and stderr open as long as it lives. If it closed
  both, the drains would end and `_supervise` would wait for it at
  `server.py:185`, outside the deadline.
* Run ids end in the time of their creation, so that the newest run is the largest
  (`App.tsx` sorts; `Dashboard` compares numbers). `Dashboard` has at least one run to
  create (`Runs # {}`), and in `Chat` no source is called `"none"`.

## 5. What is proved

Every safety property of every passing run is a theorem, for every number of
scripts, runs, tables, rows, callers, requests, calls of `validate` and
`benchmark`, queries, transfers, files, tokens, attempts, lines, sources and events,
and any plan. "Given once" abbreviates `SerialDispatch`, `FreshIds` and
`TablesOnce`.

| theorem | states | assumes |
|---|---|---|
| `TypeCorrect` | `Spec => []TypeOK` | - |
| `RowsCorrect` | `Spec => []RowsAgree` | - |
| `OneActiveRunHolds` | `Spec => []OneActiveRun` | `SerialDispatch` |
| `InvariantHolds` | `Spec => []IInv` | `SerialDispatch`, `FreshIds` |
| `LifecycleImplemented` | `Spec => ImplementsLifecycle` | `SerialDispatch`, `FreshIds` |
| `ItemsFollowHolds` | `Spec => []ItemsFollowScripts` | given once |
| `DoneIsCompleteHolds` | `Spec => []DoneIsComplete` | given once |
| `EventsFollowTablesHolds` | `Spec => []EventsFollowTables` | given once |
| `CheckpointSoundHolds` | `Spec => []CheckpointSound` | given once |
| `LandsOnlyWhileRunningHolds` | `Spec => LandsOnlyWhileRunning` | given once |
| `StagedUntilLandedHolds` | `Spec => StagedUntilLanded` | given once |
| `SystemTypeCorrect` | `SystemSpec => []SystemTypeOK` | - |
| `ScriptsUndisturbed` | `SystemSpec => [](IInv /\ ItemsFollowScripts /\ CheckpointSound)` | given once |
| `VerdictsAreOfOneCall` | `SystemSpec => []VerdictsOfOneCall` | `SerialValidation` |
| `SummaryIsOfItsRows` | `SystemSpec => []SummaryMatchesRows` | `SerialDispatch`, `FreshIds`, `SerialValidation` |
| `OnlyDoneTablesJudged` | `SystemSpec => []JudgesDoneTables` | given once |
| `MatchIsLanded` | `SystemSpec => []MatchMeansLanded` | `OwnTargets` |
| `ScriptsTypeCorrect` | `ScriptsSpec => []ScriptsTypeOK` | - |
| `BenchmarkerTypeCorrect` | `BenchmarkerSpec => []BenchmarkerTypeOK` | - |
| `NoQueryRefused` | `BenchmarkerSpec => []NoneRefused` | - |
| `RowsAreOfOneCall` | `BenchmarkerSpec => []RowsOfOneCall` | `SerialBenchmark` |
| `NoQueryIsMissing` | `BenchmarkerSpec => []EveryQueryHasARow` | `SerialBenchmark` |
| `RowLogImplemented` | `BenchmarkerSpec => ImplementsRowLog` | `SerialBenchmark` |
| `EveryRowInABatch` | `ScriptsSpec => []BatchesAreTheRows` | - |
| `OtherTablesStay` | `ScriptsSpec => OthersStay` | - |
| `RemovalIsComplete` | `ScriptsSpec => []CleanupIsComplete` | `OneTransfer` |
| `ReportIsRight` | `ScriptsSpec => []ReportIsWhatLoads` | `OneTransfer` |
| `SessionsTypeCorrect` | `SessionsSpec => []SessionsTypeOK` | - |
| `RenewalsAreShared` | `SessionsSpec => []OneRenewal` | - |
| `RetriesAreNewer` | `SessionsSpec => []RetryIsNewer` | - |
| `TheCacheMovesOn` | `SessionsSpec => CacheMovesOn` | - |
| `NoTransportLeaks` | `SessionsSpec => []NothingLeaks` | - |
| `SessionsAreWhole` | `SessionsSpec => []CommittedIsWhole` | - |
| `JobTypeCorrect` | `JobSpec => []JobTypeOK` | - |
| `LinesInOrder` | `JobSpec => []DeliveredInOrder` | - |
| `DoneIsAll` | `JobSpec => []DoneMeansAll` | - |
| `DashboardTypeCorrect` | `DashboardSpec => []DashboardTypeOK` | - |
| `EndedIsShownForGood` | `DashboardSpec => EndedStaysEnded` | - |
| `MilestonesAreInOrder` | `DashboardSpec => []MilestonesInOrder` | - |
| `ChatTypeCorrect` | `ChatSpec => []ChatTypeOK` | - |
| `AskedIsShown` | `ChatSpec => []LastOneWins` | - |
| `ScreenIsRight` | `ChatSpec => []RightConversation` | - |
| `SecondOnlyIfUnseen` | `ChatSpec => []DuplicatesOverlap` | - |

### Migration (`StateStore_proofs`, `MigrationSystem_proofs`)

1. `StateStore_proofs` says of each transaction that it keeps the types and, on
   the rows that its callers may write, `RowsAgree`.
2. One lemma per action of a script. Types alone are not inductive: `Item(s)` is a
   table only if the position is inside the plan, so types are proved together
   with `ScriptsOK` (a script at work on a table has it in its plan, a control check
   has a location to return to, a run that ends has an outcome, a load that was
   given up has its table).
3. The handlers. `RowsAgree` needs no assumption: it is kept by each transaction in
   each state, which is why late writes by a script or a handler, or two scripts
   with one run id, cannot corrupt the rows.
4. `OneActiveRun` is not inductive, since a script at the insert has forgotten what
   it saw. `AloneWhileInserting` remembers it: whoever is at the insert is alone
   there and nothing is active but its own run. Most steps leave the statuses
   alone; lemma `Moves` says this once, and leaves the four transactions on `runs` to
   be looked at. `set_run_status` cannot revive a run because of `RowsAgree`
   (`ended_at` is set on what has ended).
5. The refinement needs to know that `finish_run("done")` finds the run running,
   that a delete in flight finds it still ended, and that an insert finds no row.
   `StatusFollowsScript` gives, for each control location, the status of the
   script's run; `DeletesAreSafe` says that a delete past its check concerns a run
   that no script will create any more. With them each step is a step of
   `RunLifecycle` or leaves the column alone.

### Tables and batches (`Tables_proofs`)

None of the five properties of `mixed` about data is inductive, and the reason is the
same: what the next step may write follows from where the script is and not from
the rows. `TablesFollowScripts` says, for each item of a plan, what its row, its
objects, its landed rows and the events hold while the script has not registered
it, waits, works on it or has passed it, on the direct path and on the staged one
(`DirectFits`, `StagedFits`, `Complete`), and what a load that was given up may still
do. It is proved with one lemma per action, and three facts carry most of them: a
step writes the row, the objects and the landed rows of its own item only
(`ItemMoves`), an item is the only one of its table (`OnlyItem`, from `FreshIds` and
`TablesOnce`), and targets only grow. `DoneIsComplete` and `EventsFollowTables` are
consequences. The two action properties are read off the actions that move rows
and objects, with the invariant saying in which status these find the run.

`CheckpointSound` speaks of a sum over the rows of `batches`, and a sum is a recursive
function over finite sets. Which value it has is not computed; that adding one
batch to the table adds its rows to the sum is what the proof needs. The defining
equation of `MapThenSumSet` takes the rows out in an order of its own choice, so the
sum without an element (`TotalWithout`) is an induction on the cardinality, done by a
least counterexample: `MinimalSet` gives a set without the property of which every
smaller subset has it, from `LeastNatural`, which comes of the well-foundedness of
the order of the naturals. `BatchesFollowScripts` says that the numbers of the
recorded batches are below the next, so `record_batch` adds a row that was not there,
and its transaction adds the same to the checkpoint: `CheckpointAddsUp` is inductive
beside it. `CheckpointBounds` are the parts of `CheckpointSound` that need no sum.

### Validation (`Validation_proofs`)

A call writes none of the variables of the scripts, so the invariants above hold
beside any number of them (`ScriptsUndisturbed`); what is left is what scripts, deletes
and other calls do to a call. `VerdictsOfOneCall`: a call at work for a run is the
only one (`OneCallPerRun`), and it is the one that cleared the rows last
(`ClearedByItself`). `SummaryMatchesRows` needs besides that the results that a call
carries are the rows that it has recorded (`RowsAreResults`), for as long as the run
exists: with fresh ids nobody makes its row again. `JudgesDoneTables`: the tables that
a call discovered stay done (`DiscoveredStayDone`) while the run is there; this uses
the invariant of the tables, by which no script returns to a table that is done.
`MatchMeansLanded`: a count of the source is at least the rows at the start, since
sources grow; a target that was empty and is its run's own holds at most what the
run has landed; and only tables of the run are judged (`CountsAreSafe`). So a match is
right, however far apart the two counts are.

### Sources (`SourceScripts_proofs`)

For the benchmark: that no query is refused follows from `NoneAborted`, which
`execute_and_count` re-establishes whatever happens. `RowsOfOneCall` is not inductive
by itself: a call that died must not wake up, and one at work must be the one that
cleared the rows (`OneAtWork`). What the call has done so far says which rows there
are (`Filled`: those of the queries before the present one, each with the results of
its two sides), unless the run was deleted, and which of them no event has told of
(`ToldInTime`). From these the end of the call gives `EveryQueryHasARow`, and each
step is one of `RowLog` or leaves table and history alone.

For the calls of a transfer: `OwnList` says that what a removal has listed, or
S3 has refused it, is of its own table, so `OthersStay` whoever else is at work;
`NothingForgotten` says that an object of the table is in a chunk, refused or gone,
which ends as `CleanupIsComplete`. `ReportIsWhatLoads` needs that only Databricks
leaves marks beside its files (`MarksAreOfDatabricks`). `BatchesAreTheRows` is kept
with `OnlyTheLastIsShort` and `PagesAreBatches`: while a query is read, what was
yielded is in full batches, what was fetched and not yielded is the batch in hand,
and both with what is left are all rows.

### Token, shim and job (`Sessions_proofs`, `JobRunner_proofs`)

For the token: `OneRenewal` needs that a renewal is running just when a promise is in
flight, and that the promise is its own (`InFlight`). `RetryIsNewer` needs that a token
on its way is newer than any a call has seen (`Newer`): so a call that joins the
renewal of another, begun before its own 401, still gets a newer one. For the shim,
the location of an attempt says what it has entered and which transports are open
(`Attempting`), and a committed session is the one whose exit stack is kept
(`Serving`).

For the job: the lists are what the drains have read, with the Marker only once no
drain reads any more (`Collected`); what the agent has and what is on its way are cut
from the lists at the offsets (`Delivered`), and lists grow at their end only, so a
cut stays a cut and two that meet are one (lemmas `CutOfAppend`, `CutsMeet`). An exit
code of the script means that both drains had reached the end after the script had
(`Settled`), so it comes with the whole of the lists.

### Dashboard and chat (`Dashboard_proofs`)

`EndedStaysEnded`: new runs have larger numbers than all before, logs grow at their
end, and what has ended stays ended (`Ordered`, `DbStep`: every act of the other
processes keeps these). A poll that is on its way with the row of an active run is
never for the run whose end is on the screen, whatever the flag that it reads next
(`PollFollows`): so applying it cannot undo the end.
`MilestonesInOrder`: each milestone is followed by the one before it in the log
(`InOrder`); the first on the screen is the last that the open connection has told of
(`Newer`); and each is there at most once for each connection, one less as long as
the open one has yet to tell of it (`Counted`).

`LastOneWins` says something of a page at rest only; the invariant has to follow what
was asked for on its way there. `AskedIsComing`: when nothing waits to be rendered, it
is in the iframe, loaded or not; otherwise it is what waits, and the timer has nothing
to say, because it knows the old render and the old iframe is still there, or says the
same, because the iframe has gone there already. A tick between a render and its
effect compares the new iframe with the old conversation, and so sets what is rendered
already. `RightConversation` needs besides that an answer names a conversation of the
source that was asked for (in `ChatTypes`, from `AnswersFit`), and `LastIsOfPage`: the
last request is on its way, for the source of the page, or all that are left are late
and the answer that was shown last was of that source. `DuplicatesOverlap`: a request
that will insert has looked before every conversation that its agent has now was
inserted (`NoneBefore`).

### Only model-checked

Liveness: `ScriptsSettle`, `JobEnds`, `CallsSettle`, `StartupEnds`, `SelectionSettles`,
`DetailSettles`, `MilestonesSettle`, `RowsSettle` and `ScreenSettles`, since fairness and
ENABLED are out of the prover's reach; and what the four runs that expect a violation show. Proved and
not checked by a run of its own: `CacheMovesOn`, `CommittedIsWhole`, and `OneActiveRun`
by itself.

## 6. Not modelled, and the plan

Done: the state store, Migrator, control API and life cycle, Validator, job runner;
then Benchmarker with its refinement of `RowLog`, source adapters and staging, event
stream and dashboard, token and shim, chat; and the proofs of section 5.

Next, in this order:

1. Queries of staged plans (`MK/migrator.py:60`: registered with the count of the
   query, unloaded as the whole table) and tables renamed in the target
   (`MK/validator.py:193`), for which `NamedTarget` is a constant already.
2. `insert_batch` as an operator on rows and columns (keys are folded, the columns
   of the first row decide), checked against a reference definition.
3. Two hooks mounted at once: they share only the selection and the limit on
   connections of a browser, which is not modelled.

Left out of `Chat`: conversations that are archived, the list of conversations that the
picker was given (any conversation that exists may be picked), a sign-in that fails,
two dashboards open at once, whose storage is one, and a move inside the iframe to a
page that is no conversation.

Not planned: the sparklines and the progress of bytes, the cache of database names
(a value and the time it was read), `set_table_rows_done` and
`set_table_total_rows` (nothing calls them), the migrations of old schemas, the
synchronous `run_python` (one call, no state between calls), the workspace-file
tools, the growth of `_jobs`, from which nothing is ever removed, and the rewriting
of schemas in the shim, a function on values.

Never: SQL text, drivers, credentials, rendering, prompts, terraform and the
generators of demonstration data, which hold no state of the program; the SQL
guard of the Databricks server, a function on strings.
