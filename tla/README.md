# ResearchFlow in TLA+

Specifications, model-checking runs and machine-checked proofs for the core of
ResearchFlow: the bounded task queue, the service that drives a research run from
its creation to its report on top of it, the research graph that produces the
report, the event stream through which browsers follow a run, the page that shows
it, the home page with its list of recent runs, and the retention that deletes a run
in the end.

    cd tla
    tlc -workers 2 -config MCTaskQueue.cfg MCTaskQueue
    tlc -workers 2 -config MCServiceCancel.cfg MCResearchService
    tlc -workers 2 -config MCEventStream.cfg MCEventStream
    tlc -workers 2 -config MCRunPage.cfg MCRunPage
    tlc -workers 2 -config MCHomePage.cfg MCHomePage
    tlc -workers 2 -config MCResearchGraph.cfg MCResearchGraph
    tlc -workers 2 -config MCMaintenance.cfg MCMaintenance
    for m in TaskQueue ResearchService RunLifecycle EventStream RunPage HomePage \
             ResearchGraph Maintenance
    do tlapm ${m}Proofs.tla; done

1. [The system](#1-the-system)
2. [The modules and the code](#2-the-modules-and-the-code)
3. [The runs](#3-the-runs)
4. [Fairness](#4-fairness)
5. [What is proved](#5-what-is-proved)
6. [What the checks found](#6-what-the-checks-found)
7. [What is not modelled](#7-what-is-not-modelled)
8. [Plan](#8-plan)

## 1. The system

ResearchFlow answers a research question in stages. A browser posts a question;
the server stores a *research run*, puts it into an in-memory queue, and a
worker has a language model write a plan. The user reviews the plan; confirming
it queues the run again, and a second worker searches, reads, writes and (in
deep mode) verifies a report. All the while the browser follows the run on a
server-sent event stream, and may cancel it. Everything runs in one Python
process with one asyncio event loop and two SQLite databases (rows, and the
checkpoints of the graph).

| component | code (`src/backend/app/` unless said) | state | operations | works with |
|---|---|---|---|---|
| task queue | `task_queue.py` | `_active`, `_waiting`, a future per submission, an asyncio task per slot | `submit`, `cancel`, `shutdown`, the final block of `_execute` | called by the service; calls the worker coroutines |
| research service | `research_service.py` | subscribers and a publish lock per run; everything else is in the row | `create`, `update_plan`, `cancel`, `_execute_planning`, `_execute_research`, `_set_status`, `_set_failure`, `_persist_completed`, `_publish_snapshot`, `_rollback_rejected_create` | queue, database, graph, limiter |
| event stream | `research_service.py` (`event_stream`) | a channel of 20 snapshots per open stream | subscribe, publish, heartbeat, end | service, browser |
| daily limiter | `rate_limit.py` | `rate_usage.count` per client, mode and day | `consume`, and the refund of a refused run | `create` |
| research graph | `agent/workflow.py` | the graph's state, checkpointed per run | plan, interrupt for review, search, extract, gap search, write, verify | providers, `_stream_graph` |
| providers | `providers/*.py` | none | `generate_*`, `search`, `extract`, with retries | graph |
| maintenance | `maintenance.py` | none of its own | `recover_interrupted_runs`, `cleanup_expired_data`, `ensure_default_showcases` | both databases, at startup and once a day |
| application | `main.py` | the objects above | endpoints, startup, shutdown | all |
| run page | `src/frontend/src/lib/api.ts`, `pages/RunPage.tsx` | the last snapshot, the connection | subscribe, reconnect, review, cancel | endpoints and streams |
| home page | `src/frontend/src/pages/HomePage.tsx`, `lib/recent.ts` | the recent runs in `localStorage`, the home page's copy of them, the mode requests under way | save, remove, submit, ask for missing modes with one retry | endpoints, run page |

**What is hard here.** One process and one event loop, but many coroutines, and
nearly every method is *read the row, await, write the row, await, publish,
await*. Between any two of those awaits a different request, worker or timeout
may run. In particular:

- *cancellation against everything*: before the task's first step, in the
  waiting line, at any await of a worker, in the middle of a COMMIT, in an
  exception handler that is already running, or while the run is between two
  tasks (under review);
- *check then act*: every guard is evaluated on a row read earlier;
- *planning may still hold its slot when its own plan is confirmed*, so the
  second submission of the id is refused as a duplicate and retried;
- *refusal after commit*: the row and the quota are committed before the queue
  is asked, so a refusal has to undo both;
- *an error of the database at any statement*: inside the `try` block of a worker it
  fails the run, outside it or in an exception handler it ends whoever met it, with
  whatever that one had begun;
- *restart*: the queue is memory only, the rows survive;
- *progress*: a graph that hangs is ended only by its timeout, a slot comes
  back only through a `finally` block.

**What makes the components correct.**

- queue: the two limits hold; an id is admitted once; nobody waits beside a free
  slot; first come first served; a future is open exactly while its task is in
  the queue; shutdown starts nothing and leaves nothing alive; waiting ends;
- service: a run in progress is always in somebody's hands; a client pays for
  exactly the runs it has; the plan researched is the plan on file; the status
  follows its life cycle; results agree with the status; streams hear of the
  end; a cancelled run consumes nothing; every run settles;
- stream: every subscriber ends on the newest snapshot, snapshots arrive in
  commit order, a slow reader loses only superseded ones;
- limiter: never more than the limit, never less than what was granted;
- graph: stages in order; evidence, report and the numbers the reader clicks on
  lead to the page a fact was taken from; the best sources found are kept; the
  metrics are true; everything started ends;
- maintenance: recovery fails exactly what was interrupted; cleanup leaves the
  two databases consistent whenever it is interrupted; what expired is deleted; the
  examples shown are those of the program;
- run page: what the subscription brings is never older than what it brought before;
  the newest snapshot is shown in the end;
- home page: a run has one mode request at a time; the list shown and the list stored
  change together; nothing removed comes back.

`PROJECT.json` lists every component with its status, and under `hazards` the
places in the code where one of these properties could go wrong.

## 2. The modules and the code

    RunLifecycle          what a run's status may do            (abstract)
        ^  implemented by
    ResearchService       requests, workers, row, quota, process
        |  INSTANCE
    TaskQueue             BoundedTaskQueue  <---- TaskQueueProofs
                                                       ^  INSTANCE
    ResearchService                         <---- ResearchServiceProofs
                                                       ^  EXTENDS
    RunLifecycle, ResearchService           <---- RunLifecycleProofs

    SnapshotFeed          what a reader of a run is shown       (abstract)
        ^  implemented by both
    EventStream           publishers, channels, open streams  <---- EventStreamProofs
    RunPage               the browser's subscription and page <---- RunPageProofs

    HomePage              recent runs, mode requests        <---- HomePageProofs

    ResearchGraph         one run of the graph, its providers, <---- ResearchGraphProofs
                          the rows and the list of sources shown
    Maintenance           retention over both databases       <---- MaintenanceProofs

    MCTaskQueue, MCResearchService, MCEventStream, MCRunPage,
    MCHomePage, MCResearchGraph, MCMaintenance                  instances for TLC

`ResearchGraph` is the inside of what `ResearchService` sees as `GraphProgress`,
`PlanReady`, `ReportReady` and `GraphFails`; `Maintenance` keeps of a run only what
the cleanup touches.

### TaskQueue

| TLA+ | code |
|---|---|
| `task[id]` | the entry of `_active` and the state of its `asyncio.Task`: `none` (no entry), `created`, `running` (work() entered), `dead` (finished, entry still there) |
| `waiting` | `_waiting`, as the sequence of ids |
| `cancelReq` | tasks with `cancel()` called and `CancelledError` not yet delivered |
| `future[id]` | the future returned by the last `submit(id)` |
| `closing` | the lifespan of the application: `open`, `gathering` (inside `shutdown`), `closed` |
| `SubmitStarts`, `SubmitWaits` | `submit`; its two refusals, `Duplicate` and `Full`, change nothing |
| `CancelActive`, `CancelWaiting` | `cancel` |
| `WorkEnds(id, outcome)` | the rest of `_execute` once `work()` is over: settle the future, pop the entry, promote from the line |
| `Start`, `DeliverCancel` | what the event loop does to the task of a slot |
| `Shutdown`, `ShutdownReturns` | the two halves of `shutdown` |
| `Restart` | a new process, after a stop or a crash |

*Atomicity.* No method of the class awaits anything but its own
`asyncio.Lock`, and never while holding it, so the lock is never contended and
every method, and the final block of `_execute`, is one step of the event loop.
The life of the `asyncio.Task` is what takes several steps: a task that is
cancelled before its first step finishes without entering its coroutine
(`dead`), a running one sees the cancellation at its current await and may run
handlers before it ends. The future's outcome follows the order of
`task_queue.py:96-103`.

### ResearchService

| TLA+ | code |
|---|---|
| `status`, `plan`, `report` | the columns of `research_runs`; a report is represented by the plan it was researched from |
| `usage` | `rate_usage.count`, per key of client, mode and day |
| `published` | the status in the last snapshot every open stream has seen |
| `proc[r]`, r a run | the coroutine the queue runs for r |
| `proc[h]`, h a handler | one request being served; a handler serves one request at a time |
| `.job .pc .scope` | which coroutine, where in it, and whether inside its `try` and its `wait_for` |
| `.op .goal .seen .next` | the status helper it is in, the status it writes, the status it read, where it returns to |
| `Read`, `Commit`, `Publish` | the SELECT and guard, the UPDATE with COMMIT, and the publication common to `_set_status` (`set`), `_set_failure` (`fail`), the end of `_execute_planning` (`plan`) and `_persist_completed` (`report`) |
| `BeginPlanning`, `BeginResearch`, `GraphProgress`, `PlanReady`, `ReportReady`, `GraphFails`, `Timeout`, `DeliverCancel` | the workers |
| `CreateRequest`, `SubmitAccepted`, `SubmitRefused`, `SubmitDuplicate`, `Rollback` | `create`, `_submit`, `_rollback_rejected_create` |
| `ReviewRequest`, `Confirm` | `update_plan` |
| `CancelRequest`, `Dequeue` | `cancel` |
| `DatabaseError`, `UsesDatabase`, `Caught` | a statement that raises, the places where one is executed, and whether the `except` block of the worker sees it |
| `errors`, `orphaned` | how many errors there have been, and the runs whose worker or request was ended by one |
| `Shutdown`, `Restart` | the lifespan of the application and `recover_interrupted_runs` |

Decisions worth knowing when comparing it with the code:

- A SELECT and the UPDATE that follows are two steps: the session autocommits
  reads and SQLite takes its write lock only at the UPDATE, so others may
  commit in between. The UPDATE and its COMMIT are one step, since nobody else
  can write between them. The UPDATE holds only the columns whose new value
  differs from the value read (`Write`): a status that was read as `cancelled`
  and is set to `cancelled` is not written.
- `update_plan` reads, checks, and then issues one conditional UPDATE; the model
  keeps both tests (`ReviewRequest`, `Confirm`).
- A cancellation arrives at the await a worker is suspended on. If that is a
  COMMIT, the statement may or may not have landed (`InterruptedWrite`). Another
  writer of the same row waits for it, as it holds the write lock.
- Setting PLANNING is outside the `try` block; the status updates of progress
  events are inside `wait_for`, so the timeout can interrupt one halfway;
  saving the plan or the report is inside `try` and outside `wait_for`.
- Publishing reads the row again and serves all streams under a lock per run,
  so the snapshots of a run go out in order: one step.
- Any SELECT, UPDATE, COMMIT, re-read (`session.refresh` in `create`, hence
  `submit` of a creation) or publication may raise; the step that raises writes
  nothing. Within `wait_for` and `try` (`Caught`) the worker calls `_set_failure`, also
  for a plan or report it has stored and could not publish. `_set_status(PLANNING)`
  and the first read come before the `try` block, `_set_failure` and
  `_set_status(CANCELLED)` are called in handlers: there the error ends the task
  (`WorkEnds(p, "exception")`). In a request it is a response of status 500. In each of
  these cases the run is `orphaned`: it is what it is until the next restart.
- Refusals that change nothing (404, 409, 429 and unchanged answers) are not
  actions. A client acts on a run once its creation has been answered: only
  then does it know the id.
- The server stops serving before the lifespan shuts the queue down, so no
  request is under way during `Shutdown`. A crash may come at any time.
- Runs are charged to a key or exempt (`QuotaKey`); the limiter's upsert is part
  of the first transaction of `create`.
- The early returns for a row that does not exist stay in the model as guards,
  but nothing except a rollback deletes rows here; `expired` is never written
  by the code.
- `wait_for` and `Task.cancel` are those of Python 3.12, which
  `pyproject.toml` requires.

### RunLifecycle

The abstract specification of `ResearchStatus`: the phases a run goes through
(`Phases`), what may fail (`Failures`) and what may be cancelled (`Cancellations`),
what a restart does (`Recover`), and two lists of exceptions. `RaceMoves` is for a
worker that read the status before a cancellation and writes it afterwards;
`ErrorMoves` is for a worker that could not publish what it had stored. Two variables
say when these are possible: `cancelling`, the runs somebody is about to mark as
cancelled, and `faulted`. They change freely (`Around`), since the specification is
about the status. `ResearchService` implements it with `status` mapped to itself,
`cancelling` to the processes about to commit CANCELLED, and `faulted` to
`errors > 0`: the property `FollowsLifecycle` is `Lifecycle!Spec`. So a status becomes
cancelled only while somebody cancels it, and a completed run or a reviewed plan
becomes failed only after a database error. The exceptions are part of the
specification because the code makes these moves; every one of them occurs in the
instance of `service_cancel`.

### EventStream

| TLA+ | code |
|---|---|
| `row` | the committed versions of the run's row, counted; `Finals` are those with a terminal status |
| `lock` | the entry of `_publish_locks` for the run |
| `wpc`, `wver`, `wsnap` | a coroutine in `_set_status`, `_set_failure`, `_persist_completed`, `update_plan` or the end of `_execute_planning`: idle, waiting for the lock, in the SELECT, about to put; the version it committed and the one it read |
| `channel[r]`, `rpc[r]`, `rsnap[r]` | the `asyncio.Queue` and the generator of stream r, and its first snapshot |
| `seen[r]` | the newest version its client was shown |
| `Commit`, `Acquire`, `Load`, `Put` | a writer: COMMIT, then `_publish_snapshot` from lock to `put_nowait` |
| `Progress` | the end of `_handle_graph_progress`, which takes no lock |
| `Interrupted` | a worker cancelled at one of these awaits, or any writer whose read fails: what it committed is in `missed` |
| `Connect`, `Register`, `LoadFirst`, `YieldFirst`, `Take`, `Disconnect` | `research_events` and `event_stream`; `Close` is the `finally` block |
| `Delete` | the cleanup by age |

An item of a channel is the number of the version it was read from, or 0 for
progress. A heartbeat changes nothing. `ResearchService` looks at the same
publications from the other side: there a publication is one step and only its
status is kept, which is what `EventStream` justifies.

The abstract specification `SnapshotFeed` has two variables: the newest version
and what each reader has seen. A reader may skip versions and never goes back.
`ShowsInOrder` is `SnapshotFeed!Spec` with both variables mapped to themselves.

### RunPage

| TLA+ | code (`src/frontend/src/`) |
|---|---|
| `phase` | `subscribeToResearch` in `lib/api.ts`: `open` (there is a source), `recovering` (the GET after an error), `pausing` (the timer), `left` (`stopped`) |
| `row`, `missed` | the committed versions of the run's row, counted, and those that nobody published |
| `up`, `since`, `sent`, `line` | the connection: whether the server still sends, the version of the row when it was made, the last version sent, what is in transit |
| `request[q]`, `answer[q]` | the page's own first GET (`load`), `recover`'s GET, and the two buttons, each idle, sent or answered by the server |
| `heard` | the last snapshot passed to `onSnapshot` by the subscription |
| `shown` | the state `snapshot` of `pages/RunPage.tsx` |
| `Deliver`, `Error`, `Recovered`, `Connect`, `Leave` | `handleSnapshot`, `onerror`, the end of `recover`, `connect`, the effect's cleanup |
| `Post`, `Accept`, `Fail` | the buttons, `accept`/`setSnapshot`, and the error paths |
| `Missed` | the newest version is not published: its worker was cancelled after the COMMIT, or the read of the publication failed (`Interrupted` of `EventStream`) |
| `Send`, `Respond`, `Commit` | the server: the event stream under the promise `EventStream` is proved to keep, the REST reads, and everything that changes the row |

`HeardInOrder` is `SnapshotFeed!Spec` with the subscription as the only reader.
`Missed` is possible only where it makes a difference, on a connection made before the
COMMIT that has not got the version; a connection made later reads the row itself.

### HomePage

| TLA+ | code (`src/frontend/src/`) |
|---|---|
| `list` | the array under `RECENT_KEY` in `localStorage` (`lib/recent.ts`), as records of a run and whether its mode is known |
| `page`, `opened` | the route the browser shows, and the run of a run page |
| `shown`, `submitting` | the states `recent` and `submitting` of `pages/HomePage.tsx` |
| `request[q]`, `shared[id]` | `requestRecentMode` and its attempts; the map `recentModeRequests` |
| `awaited` | the requests whose answer the effect of the open home page still wants (`active`) |
| `pressed`, `creating`, `unborn` | buttons of run pages and creations that are not answered yet; the runs not created yet |
| `Saved`, `WithMode`, `Without`, `Cut` | `saveRecentResearch`, `updateRecentResearchMode`, `removeRecentResearch`, `slice(0, MAX_RECENT)` |
| `OpenHome`, `Ask` | the mount of the home page: `getRecentResearch` and the effect that asks for missing modes |
| `ModeAnswered`, `AttemptFails`, `TimesOut`, `PauseOver` | `requestRecentMode`: an answer, a failure that is final or not, the limit of 5 s, the pause of 150 ms |
| `Submit`, `Created`, `NotCreated`, `Remove` | `submit` and `confirmRemoveRecent` |
| `Snapshot`, `Press`, `Answered` | `accept`, `confirmPlan` and `cancel` of `pages/RunPage.tsx`, as far as they save the run |

- When a request is settled, the `finally` that removes its entry and the callbacks of
  whoever waits for it run in one turn of microtasks: one step (`Settle`).
- The record of a run says of the list only what the code can confuse: which run, in
  which order, and whether the mode is there. A run whose record is without a mode was
  saved by an earlier version (`Lists` is what that one may have left).
- A list holds a run once: whoever writes it has filtered the id out before
  (`saveRecentResearch`). `Without` says what the filter then amounts to: what stands
  behind the record moves up by one.
- Leaving a page sets `active` to false for its effect; requests go on, and so do a
  creation and a button that were not answered yet. A creation opens the page of its
  run wherever the user has gone (`navigate` after the `await`).
- One tab. That another tab writes the same `localStorage`, that it refuses to store,
  and that React runs effects twice in development are not modelled.

### ResearchGraph

| TLA+ | code |
|---|---|
| `pc` | the node of `agent/workflow.py` the graph is in; `searching`, `gap searching` and `gap extract` are the awaits inside `search_node` and `gap_node` |
| `sources`, `evidence`, `report`, `metrics`, `plan` | the fields of `ResearchState` |
| `draft` | the local `sources` of `gap_node` |
| `calls` | the searches started, each with its attempts and results |
| `again` | the second request of `DeepSeekModelProvider.extract` |
| `row` | what `_persist_completed` writes |
| `Deduplicate`, `ByScore`, `ByQuality`, `canonical_url`, `_source_quality` | `_deduplicate`, its two stable sorts, and what they call |
| `Arranged` | `sorted`: the members of a set in a given order |
| `SearchAnswers`, `Results`, `SearchRaises`, `SearchAgain` | `TavilySearchProvider.search` |
| `Evidence`, `ExtractAgain`, `GapNode`, `ModelFails` | `_parse_evidence`, `extract`, `find_gaps`, `_json_response` |
| `Persist`, `Position`, `Shown` | `_persist_completed`, `_snapshot`, and `normalizeReport` in the browser |

- A node commits its part of the state when it ends. Until then only its locals
  change; `Stop` (the timeout, or a cancellation) may come at any await.
- `gather` raises as soon as one search has failed and does not cancel the others:
  they stay in `calls` and go on after the graph has failed. A timeout or a
  cancellation does cancel them.
- A document is a page, whether its URL is written in the canonical way, and its
  score. Scores may be equal; both sorts are stable with `reverse=True`, as in Python,
  so each is an order of the positions in the list, with the position as the last key.
- A fact is a source number with the page the text came from. The second part is
  not in the program: it is what a citation is *about*, and what the properties
  compare the number with.
- What a language model writes is not code. The model assumes that the writer cites
  evidence it was given and that the verifier returns some of the citations of the
  report; numbers beyond the list are possible where the code filters them
  (`_parse_evidence`).
- The plan the model returns is cut to the mode's number of queries; the user's plan
  is refused above it (`update_plan`).
- Ids of rows are UUIDs: any injective assignment, and rows come back in any order. Here
  they are numbers, which stand for the place of a UUID's text among all texts.

### Maintenance

| TLA+ | code |
|---|---|
| `row[r]` | the row: `none`, `active` (any status in progress), `review`, `done` (final), `gone` (deleted) |
| `old` | rows created before the cutoff |
| `checkpoint` | the threads in the second database |
| `worker[r]` | `off`, in a graph (`planning`, `researching`), or with an outcome to store (`planned`, `over`) |
| `cleanup` | the transaction of `cleanup_expired_data`: whether it is open, its `expired_ids`, the checkpoints it still has to delete, and whether the `_daily_cleanup` task is alive |
| `Startup`, `DailyCleanup` | the lifespan up to `cleanup_expired_data`, and an iteration of `_daily_cleanup` |
| `DeleteCheckpoint`, `CommitCleanup`, `CleanupFails` | an iteration of `_delete_checkpoints`, the commit, an exception |
| `LockTimeout` | `busy_timeout=5000` |
| `example[e]`, `version` | the version of the program that wrote the seeded run e, 0 if it is not there; the version installed |
| `Seeded`, `Reseeds` | `matches_seed` with the comparison of the lengths; `ensure_default_showcases` |
| `overtaken` | a history variable: runs whose checkpoints were deleted while a graph was at work on them |

- The DELETE of the rows takes SQLite's write lock and keeps it until the commit, so
  no row is written meanwhile (`CanWrite`); checkpoints are in another file, and a
  graph at work goes on saving them.
- `adelete_thread` commits each thread on its own: nothing brings it back.
- The retention period is days and planning takes minutes, so no run expires while it
  is being planned (`Age`). Research may begin on the last day, so a run may expire
  while it is researched.
- An orderly stop rolls back as a crash does.
- `recover_interrupted_runs`, `cleanup_expired_data` and `ensure_default_showcases` are
  in one transaction with one commit, so the three take effect in `CommitCleanup`.
- The seeded runs are written complete and nothing but the startup changes them, so all
  that can be wrong with one is that another version wrote it; which examples there are
  depends on the version (`ExamplesOf`). They age like other runs.
- A program that is started without the keys of its providers (`main.py:95`) offers no
  research and starts no daily task. It is not modelled: after a startup the task is
  alive.
- Confirming a plan whose checkpoint is gone is in the model: the graph has nothing
  to resume and the run fails.

## 3. The runs

| run | instance | states | checks |
|---|---|---|---|
| `queue` | 4 ids, 2 slots, 2 places | 8 859 | six invariants, `NoOvertaking`, `WaitingIsServed`, `ShutdownTerminates` |
| `queue_slot_leak` | 3 ids, 1 slot, 2 places | - | violates `CancelPromotesNext` (finding 1) |
| `service_cancel` | 1 deep run, 2 plans, 2 requests of any kind, 2 errors, 1 slot, no line | 74 570 | `TypeOK`, `PlanAgreement`, `ResultMatchesStatus`, `FollowsLifecycle` |
| `service_rooms` | 3 runs (two charged to a quota of 1, one exempt and deep), 2 requests, no cancel, 2 errors, 1 slot, no line | 223 492 | `InProgressIsOwned`, `QuotaConserved`, `StreamsSeeTheEnd` |
| `service_settles` | 2 runs, 1 request of any kind, 1 error, 1 slot, 1 place | 266 204 | `EveryRunSettles` |
| `cancel_keeps_working` | as `service_cancel`, no errors | - | violates `CancelStopsWork` (finding 2) |
| `event_stream` | 1 client that may reconnect, a worker and a request, channels of 2, 4 versions, versions 2 and 4 final | 167 314 | `TypeOK`, `ChannelsFit`, `NoUpdateLost`, `ShowsInOrder`, `StreamsEnd` |
| `run_page` | 3 versions (2 under review, 3 final), both buttons, 2 items in transit | 222 213 | `TypeOK`, `HeardInOrder`, `NewestIsShown` |
| `page_goes_back` | 2 versions, the last under review, no button pressed | - | violates `NewestIsShown` (finding 3) |
| `home_page` | 3 runs, room for 2 records, 1 creation under way, any list an earlier version may have left | 141 258 | `TypeOK`, `ModeRequestsShared`, `HomeAndStorageAgree`, `ModesSettle` |
| `research_graph` | both modes, 1 and 2 queries, 1 and 2 sources kept, 3 attempts, 3 answers a search may get, 4 pages | 25 508 | `TypeOK`, `EvidenceNamesItsSource`, `CitationsResolve`, `SourcesAreBest`, `MetricsCount`, `GraphEnds` |
| `maintenance` | 2 runs, 2 versions of the program with 2 of 3 examples each | 50 468 | `TypeOK`, `NothingIsLeftBehind`, `ReviewCanResume`, `ExamplesAreCurrent`, `ExpiredIsDeleted` |

**Why these bounds.** With 4 ids on 2 + 2 the queue is full with nobody to spare, a slot
is given back while two tasks wait, and a task is cancelled in the middle, at the head
and at the tail of the line; the proofs take care of every other size. In the service,
the interleavings that matter are between one worker and two requests on the same run
(`service_cancel`: two confirmations with different plans, a confirmation against a
cancellation, two cancellations), and between two runs for room (`service_rooms`: with
one slot and no line every refusal path is taken, for a creation as well as for a
confirmed review; the duplicate path is taken by one run alone; the second charged run
meets the daily limit, and takes the place of the first where that was undone).
`service_settles` adds the waiting line, promotion and cancellation in the line.
`SubmitAttempts` is 2 for the code's 5: one retry that succeeds and one that is the
last. Symmetry (handlers, plans, the two charged runs) is used in the safety runs only.
Two errors (`MaxErrors`) are enough for one to be caught and for the handler of that one
to fail too; in the proofs their number is any. `StreamsSeeTheEnd` is checked where
nobody cancels: a worker cancelled between the COMMIT of its final status and the
publication tells nobody, and the request that cancelled it finds the run finished and
publishes nothing either, so an open stream only gets heartbeats. `InProgressIsOwned`
and `EveryRunSettles` except the runs a database error has left without a worker
(`orphaned`): the code does leave them so until the next restart, and the properties say
that nothing else does.

In `event_stream` a channel of 2 is full as soon as one publication and one progress
item wait in it, so both ways of handling a full channel occur, and with 4 versions a
stream is closed by a final one, reopened and overtaken by two more. Streams do not
affect each other except through the lock; what several of them do is proved. In
`run_page` three versions are one that is superseded, one under review and the end; any
of them but the first may stay unpublished, so the page also hangs on a connection that
has missed the end. In `home_page` a third run displaces one of two records, so a record
goes by removal and by displacement, and comes back in each way the code allows; a home
page can be left and opened again at every point of both attempts of a mode request.
More creations at once (`MaxCreations`) only repeat `Created`.

In `research_graph` the answers are chosen so that ranking matters: a page is found
under two URLs with different scores, an official page has a lower score than an
ordinary one, equal scores occur, one host is excluded, one result is blank and one
refused. The list is cut in both modes, and the gap search brings a better document
for a page already held, a page dropped before, or nothing new, so sources change
their numbers. Deadlock is not checked there: the graph ends. In `maintenance` a
cleanup of two runs can be interrupted between their checkpoints; the second version
of the program drops one example, adds one and keeps one.

The state spaces are finite without further constraints: ids, handlers and
plans are finite sets, `usage` is bounded by `DailyLimit`, `tries` by
`SubmitAttempts`, the versions by `LastVersion`, what is in transit by `InTransit`, errors by `MaxErrors`,
creations under way by `MaxCreations`.

Definitions called `Mutant...` are plausible slips of the definition that
follows them. No specification uses them; substituting one for the original
makes TLC refute the property named beside it in `PROJECT.json`, which shows that
the property depends on that piece of code.

## 4. Fairness

The event loop runs whatever is ready, so a created task starts, a cancellation
is delivered, and a coroutine that has an answer goes on: weak fairness of
`Start`, `DeliverCancel`, the helpers and the handlers' steps. The work of a task
ends because `wait_for` bounds the graph: in `TaskQueue` this is fairness of
`WorkEnds`, in `ResearchService` only of `Timeout`. The graph itself gets none: no
model or search provider is assumed to answer. Nobody is assumed to create,
review or cancel; no stop or restart is assumed to come.

In `EventStream` the lock is an `asyncio.Lock`, which serves its waiters in their
order: a waiter gets it although others keep coming, hence strong fairness of
`Acquire` and `Register`. A connected client reads. In `RunPage` the server answers
and sends what is due (`Due`), and the network delivers; connections may break and
requests may fail at any time, but not every read after a break fails (strong fairness
of `Respond("recover")`). Due is what `NoUpdateLost` promises: the newest version, if it
is published, and to a connection made after the COMMIT in any case, in its first
snapshot. A version that nobody published (`Missed`) is not due, and that it is
published after all is not assumed. `NewestIsShown` therefore has two outcomes: the page
shows the last version for good, or it stays for ever on a connection made before a last
version that nobody published (`Unaware`).

In `HomePage` only the timers are fair (`Timers`): the limit of five seconds on each
attempt and the pause between the two. The server need not answer. `ModesSettle` then
says that a home page stops waiting.

In `ResearchGraph` every request to a provider has a timeout (60 s for the model, the
client's own for the search), so it is answered or raises: fairness of each search and
of the nodes. A plan need not be reviewed. `GraphEnds` includes the searches a failed
graph no longer waits for. In `Maintenance` the service is restarted
(`Restart=on-failure` in the unit file, or by its operator) and the cleanup runs every
day. `ExpiredIsDeleted` assumes that errors and crashes stop at some time; that a
cleanup which failed is begun again is what it shows.

`WaitingIsServed` and `EveryRunSettles` are stated under `[]SlotsAreLive`: as
finding 1 shows, a slot whose task was cancelled before its first step is never
given back, and whoever waits behind it waits for ever. The condition names
exactly that case; the unconditional statement for a cancelled task,
`CancelPromotesNext`, is the violated one.

## 5. What is proved

`TaskQueueProofs` proves for every set of ids, every `ActiveLimit` >= 1 and every
`WaitingLimit` >= 0 (the constructor's own checks, `LimitsAssumption`; nothing
else is assumed, the set of ids need not be finite):

| theorem | statement |
|---|---|
| `TypeCorrect` | `Spec => []TypeOK` |
| `Capacity` | `Spec => []CapacityBound` |
| `NoDoubleAdmission` | `Spec => []AdmittedOnce` |
| `NoIdleSlot` | `Spec => []WorkConserving` |
| `FuturesMatch` | `Spec => []FutureMatchesAdmission` |
| `ShutdownComplete` | `Spec => []ShutdownIsComplete` |
| `FirstComeFirstServed` | `Spec => NoOvertaking` |

The inductive invariant `IInv` is the conjunction of the six invariants and the
finiteness of `Active` (needed for its cardinality to mean anything when the set
of ids is infinite). None of the six is inductive alone. The heart is
`WorkConserving`: the final block of `_execute` promotes *while* there is room, and
how many tasks that starts depends on how many slots are free. With
`WorkConserving` it is known: if anybody waits the house is full, so one slot comes
free and exactly the head of the line takes it (`WorkEndsEffect`). From there every
action moves one id, and each conjunct is a statement about a finite set with one
element added or removed (`Capacity`), or a sequence with one element appended or
taken out (`LineAppend`, `LineRemove`, `LineTail`). `AdmittedOnce` is what makes the
promoted id a new element of `Active`, and `FutureMatchesAdmission` needs both.
`NoOvertaking` follows from `IInv` by looking at what each action does to the line.
`IInv` and the effect of each action on the ids that are ready to run (`Ready`) are also
what the proofs about the service use of the queue.

`ResearchServiceProofs` proves, for every set of runs, handlers, cancellers, plans and
keys, every assignment of keys, every limit and any number of database errors
(`ServiceAssumption`; the sets need not be finite):

| theorem | statement |
|---|---|
| `TypeCorrect` | `Spec => []TypeOK` |
| `PlansAgree` | `Spec => []PlanAgreement` |
| `ResultsMatch` | `Spec => []ResultMatchesStatus` |
| `QuotaKept` | `Spec => []QuotaConserved` |
| `UsesQueue` | `Spec => QP!Spec`, that is `ResearchService` implements `TaskQueue` |
| `QueuePromisesKept` | what `TaskQueueProofs` proves holds in the service |

The argument has three layers. *What a process can be doing*: `Shapes` lists, for a
worker and for a request, which helper goes with which goal, scope and continuation;
each action gets a lemma that says what it does to the one or two processes it moves
(`...Effect`). *How that fits the queue*: `Linked` says that a worker whose task
is in the line, or created and not yet begun (`Ready`), has its job and stands before
its first step. It is inductive only together with the queue's own `IInv`, taken over with
`INSTANCE TaskQueueProofs WITH TaskIds <- Runs`: every step of the service is a step of
the queue or leaves the queue alone (`QueueStep`). That is also what `UsesQueue` needs,
and by it the theorems about the queue hold where it is used (`QueuePromisesKept`).
*What follows for the rows*: `RowInv` has one part per phase of a run. `Creation` and
`Planning` say that nobody else knows a run that has not been reviewed, which makes the
plan stored the first one.
`Confirmation` says that at most one request has confirmed the review and not
submitted it yet, with the plan of the row; this is where the conditional UPDATE of
`update_plan` is needed, and it hands that plan to `Research`. `Research` knows that
the report is not written before its worker writes it, so `Outcome` follows.
`FrameRow` says once what a process must keep for a row it does not write, so each
action is left with the row it does write. `QuotaKept` needs `RowInv` only for the
rollback: the run taken back has a row, and nobody else has it. `CountsInv` then adds or
removes one run in a finite set.

Whether `status`, `plan` and `report` change at all depends on the value a process read
before (`Write`); `WriteKinds` turns the five helpers into the writes they amount to.

`RunLifecycleProofs` goes on from there, under the same assumption:

| theorem | statement |
|---|---|
| `ImplementsLifecycle` | `Spec => FollowsLifecycle`, that is `ResearchService` implements `RunLifecycle` |
| `ResultsAreFinal` | a completed or failed run changes only while it is being cancelled or after a database error |
| `ResearchIsReviewed` | a run comes to be researched only from its review |
| `RunsAreOwned` | `Spec => []InProgressIsOwned` |
| `EndsAreTold` | `Cancellers = {}` implies `Spec => []StreamsSeeTheEnd` |

`ResultsAreFinal` and `ResearchIsReviewed` are what a user may rely on in the life cycle:
they follow from `ImplementsLifecycle`'s step and the few moves there are
(`LifecycleMoves`).

Every step but a stop or a restart is a step on one run (`Steps`): `Apart` says that
it leaves the rows, tasks, workers and requests of all other runs alone, so each
invariant is proved for one run, and the `...Kind` lemmas say once what an action does
to that run. Four invariants stand on `RowInv`:

- `Busy`: a worker has something to do exactly while its task is in the queue.
- `Course`: where the run stands by what its worker is doing. `Early`: until the plan is
  stored nobody but the planning worker moves the run, because whoever cancels it has the
  queue cancel that worker first, and the worker's own write waits for it. `Fresh`:
  between a confirmed review and the first step of research the run can only be ended.
  `Stage`: the statuses a research worker can find at each stage. From these, each write
  is one of the moves of `RunLifecycle` (`WorkerWrite`, and the lemmas on requests).
- `Owned`: stronger than `InProgressIsOwned`, which is not inductive because having a
  worker or a request is not enough: a worker that has written all it will write
  (`Finished`), or is about to be cancelled, does not move its run any more, nor does a
  request that found nothing to write. What is inductive is that a run in progress has a
  worker that is still `Working` or a request that is still `Serving` it, together with
  `CancelCared`: while a worker is about to be cancelled, the request that asked for it
  has yet to write the row, or the run has ended.
- `Heard`: with nobody to cancel, a final status not yet published has a `Teller`, a
  process that publishes next or marks the run as failed and then publishes. With a
  cancellation this fails in the code: the worker that has committed COMPLETED
  is cancelled before it publishes, and the request finds nothing to do (see the hazards).

`EventStreamProofs` proves for every set of readers and writers, every channel size
>= 1 and every number of versions (`StreamAssumption`; the sets are disjoint):

| theorem | statement |
|---|---|
| `TypeCorrect` | `Spec => []TypeOK` |
| `ChannelsNeverOverflow` | `Spec => []ChannelsFit` |
| `NothingLost` | `Spec => []NoUpdateLost` |
| `ImplementsFeed` | `Spec => ShowsInOrder`, that is `EventStream` implements `SnapshotFeed` |

Order is not inductive by itself: that a publisher puts nothing old needs to know
what it holds. `WriterInv` says that the version a publisher is about to put is not
older than its own commit nor than anything in any open stream; this holds when it
reads the row because nothing is newer than the row (`ReaderInv`), and stays true until
it puts because nobody else reads the row meanwhile (`LockInv`). `ReaderInv` says that
each channel is sorted and starts no earlier than what its reader has seen; a stream
still registering has nothing but progress items in its channel. From there,
`OfferedInOrder` (a full channel drops its oldest item for a newer one) gives both the
order and `NoUpdateLost`: what is dropped is superseded by what takes its place.

`RunPageProofs` proves `TypeCorrect` and `ImplementsFeed` (`Spec => HeardInOrder`) for
every number of versions, every set of final versions and of buttons and every
`InTransit` >= 1 (`PageAssumption`). `OrderInv` relates three things: what was passed
on, what is in transit, and the answer to a recovery, which was read when nothing was
in transit any more.

`HomePageProofs` proves for every set of runs and every `MaxRecent` and `MaxCreations`
(`HomeAssumption`):

| theorem | statement |
|---|---|
| `ModesShared` | `Spec => []ModeRequestsShared` |
| `HomeTypes` | `Spec => []TypeOK` |
| `StorageAgrees` | `Spec => HomeAndStorageAgree` |

`ModesShared` needs the types of the three variables of the mode requests (`ModeTypes`)
and nothing of the list: a new request takes the number that is free, because the map
knows the one that is not. The other two rest on what the functions of `lib/recent.ts`
do to a list: `WithoutIs`, `SavedIs`, `WithModeIs` and `CutIs` say which records the
result holds and that it still holds each run once and is not too long. A list without
duplicates has at most one record to take out; this is why `TypeOK` is inductive and why
`StaysInStep` can compare the list shown with the list stored record by record.

`ResearchGraphProofs` proves for all pages, documents, answers, limits and numbers of
queries (`GraphAssumption`; the sets need not be finite):

| theorem | statement |
|---|---|
| `EvidenceTraceable` | `Spec => []EvidenceNamesItsSource` |
| `MetricsTrue` | `Spec => []MetricsCount` |
| `GraphTypes` | `Spec => []TypeOK` |
| `BestSources` | `Spec => []SourcesAreBest` |
| `CitationsLead` | `Spec => []CitationsResolve` |
| `DeduplicateIs` | `Deduplicate(items, limit)` is `BestOf` the items, for every list and limit |
| `BestMerged` | the best of a best list and of others are the best of all |

Whatever list the ranking returns, evidence is taken together with it: `EvidenceInv`
says that evidence belongs to the sources of the same state and that the report is part
of it. For the metrics, `CallsInv` says which searches there are in each node and that
all of them have been answered once the node has ended, which is what makes a count of
searches started a count of results found. The types are inductive with it and `Phases`:
there are no searches before the search node and gap nodes only in deep mode, so the
calls stay within the plan and the one search for gaps.

`BestSources` is a statement about sorting. `Arranged` chooses a sequence: `ArrangedIs`
shows that a strict total order of a finite set has one, `ArrangedOnce` that it has no
second. The library's induction theorems cannot be used here, so both go by the least
number at which the claim would fail (`Least`: a set of natural numbers that is not
empty has a least member). With the positions in the list as last key, both orders of
`_deduplicate` are strict and total (`SortsOrder`), and `DeduplicateIs` follows: the first
of a page is the one with its highest score, and what is cut off is no better than what
is kept. The gap search ranks a list that was already cut together with what it
found. That this gives what one ranking of everything would give is `BestMerged`: a page
dropped by the first ranking was dropped for `limit` pages no worse than it, these are
still among the candidates, and if one of them had to go as well, then for another that
is no worse; that all `limit` places are then taken is a pigeonhole argument on the pages
(`PagesFit`). `BestInv` carries this through the awaits of the two nodes.

For `CitationsLead`, `RowInv` says what `_persist_completed` has written: one row for each
source, with distinct ids, and `source_ids` in the order of the sources. `ShownAre`
follows: the list shown is the list of sources of the state, because `Position` gives
each row its place and there is only one way to arrange rows with distinct places.
`EvidenceInv` does the rest.

`MaintenanceProofs` proves for every set of runs, every finite set of examples and every
number of versions (`MaintenanceAssumption`):

| theorem | statement |
|---|---|
| `TypeCorrect` | `Spec => []TypeOK` |
| `DatabasesAgree` | `Spec => []NothingIsLeftBehind` |
| `PlansCanResume` | `Spec => []ReviewCanResume` |
| `ExamplesCurrent` | `Spec => []ExamplesAreCurrent` |

`LeftInv` follows a run from the deletion of its checkpoints: while the transaction is
open nobody can start a graph, and after the commit the row is gone, so only a graph
that was already at work can save new ones. `AgeInv` says that a plan is stored with
its checkpoint in place, because no cleanup can have expired it before. That equal
counts and matching members make the examples found those of the program is an argument
about cardinalities (`SeededAll`).

Every invariant and every action property of the passing runs is stated by one of these
theorems. Only model-checked is liveness (`WaitingIsServed`, `ShutdownTerminates`,
`EveryRunSettles`, `StreamsEnd`, `NewestIsShown`, `ModesSettle`, `GraphEnds`,
`ExpiredIsDeleted`), which needs ENABLED, out of the prover's reach. The runs that expect
a violation are counterexamples and have nothing to prove.

## 6. What the checks found

1. **A slot can be lost** (`queue_slot_leak`). `submit` or a promotion creates a
   task (`task_queue.py:90`); if `cancel` comes before the event loop has given the
   task its first step, `_execute` is never entered and its `finally` block never
   runs. The id stays in `_active`, its future stays pending, later submissions of
   the id are duplicates, and the waiting tasks are not promoted.
   `tests/test_task_queue.py` promises promotion after the cancellation of an
   active task, and tests it with a task that has started.
2. **A cancelled run can go on working** (`cancel_keeps_working`). `cancel` asks the
   queue first; a run under review has no task there. If the plan is confirmed
   before `_set_status(CANCELLED)` has committed, the research worker is submitted
   and runs its graph to the end for a run that is marked cancelled.
3. **The page can go back and stay there** (`page_goes_back`). `RunPage` starts its
   own GET beside the subscription and accepts the answer whenever it comes. If it
   was read during planning and arrives after the snapshot that waits for review,
   the page shows the planning view again, without the review form, until the
   connection breaks or the page is reloaded: a run under review changes no more, so
   no newer snapshot comes. The subscription alone never goes back (`HeardInOrder`),
   and a run that has ended is shown as such (`run_page`), because the end of the
   stream makes the browser read again. The exception is an end that nobody published
   (a worker cancelled between its COMMIT and the publication): the stream does not
   end, and the page shows what it had until the connection breaks, it is reloaded, or
   the answer to its own cancellation arrives.

## 7. What is not modelled

- *Errors of the database outside the service*: the reads of `event_stream` and of the
  GET endpoints change nothing when they fail. Those of the cleanup are in `Maintenance`.
- The *events* of a run (the JSON list `events`): they are appended to a value read
  earlier, so concurrent writers lose entries. They are shown and never read back by the
  program.
- *Another browser tab* on the same `localStorage`, and the showcases on the home page.
- *What providers compute*: prompts, the texts and the many shapes of an answer. The
  fake providers are test doubles.
- The deletion of old `rate_usage` rows: nothing else reads them.
- *Validation, formatting, address handling, styles, deployment*: no state of
  their own to check.
- Progress events that carry no status.
- Time: a timeout may come at any moment within its scope; the pause between two
  attempts of `_submit` is an arbitrary wait.

## 8. Plan

Everything the first plan listed is modelled, and every invariant and action property of
the runs is proved; only liveness is left to TLC. What would be worth adding when the code
changes:

1. The list of events of a run, should the program come to read it back: concurrent
   writers lose entries of it today.
2. A second tab on the same `localStorage`, should the home page come to listen to
   `storage` events.
3. More than one process on the same database: the queue, the locks of `_publish_snapshot`
   and the recovery at startup all assume that there is one.
