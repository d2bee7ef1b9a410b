# Invoro: a TLA+ model of its crawl runs, browsers, extraction processes, monitors and enrichment jobs

Invoro crawls product, listing and content pages and turns them into records.
This directory models the part of the backend that decides *what happens to a
crawl run*: the requests that create, pause, resume and kill it, the dispatcher
that gives it to a task, the task that crawls its URLs, the pool that crawls
them in parallel, and the recovery of runs whose task is gone. It also models
what the URLs being crawled share, the browser and the pool of extraction
processes, and what crawls on its own account, the monitors and alerts with their
scheduler, change detection and webhooks, and the jobs that enrich the records of
a crawl. TLC checks the modules on small
instances, TLAPS proves the most important properties for every instance. All
paths below are relative to `src/backend/app/` unless they start with `docs/` or `tests/`.

## 1. The system

### 1.1 Components

| component | state | operations | who calls it |
|---|---|---|---|
| run status and control (`models/crawl_domain.py`, `services/crawl/state.py`) | status column, `control_requested` in the summary | `transition_status`, `update_run_status`, `set_control_request` | everybody below |
| run requests (`services/crawl/service.py`, `crud.py`) | one database session per request, with its copy of the run | `create_crawl_run`, `pause_run`, `resume_run`, `kill_run`, `dispatch_run` | API |
| recovery (`services/crawl/service.py`) | none of its own | `recover_stale_local_runs` | every local dispatch, backend start (`main.py`) |
| local dispatch (`services/dispatch/local_dispatcher.py`) | `_local_run_tasks`, the registry of asyncio tasks | `track_local_run_task`, `clear_local_run_task`, done callback, `dispatch` | run requests, recovery |
| Celery dispatch (`services/dispatch/celery_dispatcher.py`, `tasks.py`, `core/celery_app.py`) | broker queue, unacknowledged messages, `worker_loop` and `active_run_task` of each worker process | `dispatch`, `revoke`, `process_run_task`, termination handler | run requests, Celery |
| run coordinator (`services/crawl/batch_runtime.py`) | progress of the URL list, its session's copy of the run | `process_run`, sequential URL loop, checkpoints, completion, two failure handlers | dispatchers |
| parallel batch (`services/crawl/batch_parallel.py`) | work queue, bounded result queue, record budget, worker tasks | `process_urls_in_parallel`, `_parallel_url_worker`, `ParallelRecordBudget`, `_ParallelResultCoordinator` | run coordinator |
| URL pipeline (`services/pipeline/`) | the records of a run, artifacts | acquire, extract, `persist_extracted_records` | run coordinator, parallel workers |
| extraction workers (`services/pipeline/extraction_process.py`) | `_WORKERS`: per event loop a list of subprocesses, each with a lock and a pending count | `run_extraction_process`, `close`, `shutdown_extraction_processes` | URL pipeline |
| browser runtime (`services/acquisition/browser_pool.py`) | runtimes per engine and proxy; browser, context slots, active and created contexts of each | `page`, `_ensure`, recycling, eviction, `shutdown_browser_runtime` | URL pipeline, kill |
| host protection memory, cookies (`services/acquisition/`) | rows per host, caches with a lifetime, files per run | load, note block / usable fetch, persist | URL pipeline |
| monitors and alerts (`services/monitor_*.py`, `alert_service.py`) | `next_run_at` and `status` of monitors, fingerprint of each URL, snapshots and events | `check_due_jobs`, `pre_check_url`, `dispatch_monitor_run`, `handle_run_complete`, webhooks, `purge_expired`, updates, runs on demand | its own asyncio loop or Celery beat, run completion, API |
| LLM runtime (`services/llm/`) | circuit per provider (process memory and Redis), calls per run (Redis) | `circuit_is_open`, `record_success`, `record_failure`, `reserve_run_llm_call` | extraction, enrichment |
| data enrichment (`services/data_enrichment/`) | `enrichment_status` of records, enriched products, jobs | `create_data_enrichment_job`, `run_data_enrichment_job`, `process_product_ref` | API, its background tasks |
| product intelligence (`services/product_intelligence/`) | job, product and match rows | create job, run job | API, run completion |
| playground (`services/playground_service.py`) | state of a session | discover, select, extract, auto-advance | API |
| extraction, adapters, DOM, normalisation, API schemas | none (functions of a page or a request) | | URL pipeline, API |

### 1.2 How they interact

Everything is asynchronous Python over one database. There are three kinds of
concurrency:

* **Tasks of one event loop** (requests, run tasks and parallel workers under
  local dispatch) interleave at `await`. Between two suspension points a task
  runs alone, which is what an action of the modules is.
* **Processes** (the API and the Celery workers) share only the database and the
  broker.
* **Database sessions** do not lock the rows they read. Every session works on
  its own *copy* of a run; `expire_on_commit=False` (`core/database.py`) keeps
  the copy after a commit, only `refresh` and a rollback replace it. A flush
  sends the columns that were assigned; the run's `result_summary`, which holds
  `control_requested`, the task id and the progress, is one JSON column and is
  always sent whole. Most of the hard behaviour of the system comes from this.

### 1.3 What is hard, and what must be true

* *Control.* Pause and kill are acknowledged at once and carried out later, by
  a coordinator that looks at its copy only at certain points. What was
  acknowledged must happen, what has ended must not go on.
* *One task per run.* Tasks are replaced by resumes, cancelled by kills and
  recoveries, and end on their own; a callback of an old task must not disturb
  a new one. At most one task may crawl a run, and it must be reachable.
* *Exactly one outcome per URL.* Workers, queues, an early stop and cancelled
  workers together must record each URL once, and all of them unless stopped.
* *Budget.* The record budget is claimed and released on seven paths; a claim
  that leaks leaves workers waiting for ever.
* *Shared browsers.* The URLs of one event loop share a browser that is started
  lazily, replaced when it is worn, old or dead, and closed by the pool. It must
  not be taken away from a page, a browser must not be left behind by callers that
  meet at the lock, and the slots that limit the contexts must all come back.
* *Extraction processes.* A request writes to a pipe and reads from a pipe that
  other requests used before it. One that missed its deadline leaves an answer
  behind; one that is cancelled leaves an extraction at work; a shutdown takes
  the workers away from whoever waits for them.
* *Changes of a page.* Whether a page changed is decided by a fingerprint that is
  committed before the page is crawled; what changed is decided by a callback
  that nobody repeats, from a snapshot that another callback may replace. A change
  must be neither swallowed nor reported twice, and a monitor must not starve.
* *Claims without a lock.* Enrichment jobs share the records by a status column
  that a request reads first and writes at its commit, and that the task of a job
  writes when it is done. A record must not be locked for nobody, nor taken from a
  job at work.
* *Failure.* The backend, a worker process, the broker or a single URL may fail
  between any two steps. A run must not be left pending or running with nobody
  to run it.

`PROJECT.json` lists the hazards at their lines, with the properties that cover
them.

## 2. The modules

| module | models | composed of |
|---|---|---|
| `CrawlStatus` | statuses, permitted transitions, control requests | |
| `BatchDelivery` | *abstract*: what a batch promises about its URLs | |
| `ParallelBatch` | the parallel batch: workers, queues, budget, coordinator, one pause or kill request per client | `CrawlStatus`, implements `BatchDelivery` |
| `RunTask` | a task that crawls a run, URL by URL, with its copy of the row | `CrawlStatus` |
| `LocalRun` | requests, registry, recovery, restart of the backend | `RunTask` |
| `CeleryRun` | requests, broker, worker processes, time limits, lost processes and connections | `RunTask` |
| `BrowserRuntime` | the browser shared by pages: slots, launch, recycling, close | |
| `ExtractionPool` | the pool of extraction processes: workers, locks, pipes, deadlines, shutdown | |
| `Monitoring` | monitors and alerts: ticks, pre-checks, dispatch, callbacks, snapshots, webhooks, retention | |
| `Enrichment` | enrichment jobs: requests that claim records, background tasks, rollbacks, deletion of records | |
| `RunTaskProofs` | lemmas about the steps of a task, whoever runs it | `RunTask` |
| `ParallelBatchProofs`, `LocalRunProofs`, `CeleryRunProofs`, `BrowserRuntimeProofs`, `ExtractionPoolProofs`, `MonitoringProofs`, `EnrichmentProofs` | theorems | their modules; `LocalRunProofs` and `CeleryRunProofs` also `RunTaskProofs` |
| `MCParallelBatch`, `MCLocalRun`, `MCCeleryRun`, `MCBrowserRuntime`, `MCExtractionPool`, `MCMonitoring`, `MCEnrichment` | instances for TLC | their modules |

### 2.1 Correspondence

**Rows and copies.** `row[x]` is the database row of run `x`, `copy[t]` and
`reqCopy[r]` are the copies of a task's and a request's session. `Flushed(x, c,
new)` is the row after a session that had loaded `c` flushed `new`: the summary
is replaced, the status only when it was assigned. `Sent` is the same for
sessions that leave the summary alone when nothing in it changed. Two facts of a
summary are modelled, the control request and the task id; a heartbeat is only
*stale* or not (`Age` lets time pass). Progress, verdicts and metrics are left
out, except the record count in `ParallelBatch`.

**Places.** `at`, `place` and `reqAt` are program counters. Each value is a
suspension point of the code: `"refresh"` is the `session.refresh` after a
result, `"persist"` the checkpoint after a control request, and so on. An action
is everything the code does from one suspension point to the next; the comment
above it names the function.

**Cancellation.** `task.cancel()` only marks a task (`cancelled`,
`taskCancelled`); the exception is thrown at its next suspension point
(`WorkerCancelled`, `CoordCancelled`, `Cancelled`). A commit that is under way
completes first, which is why `Commit` does not look at `cancelled`.

**ParallelBatch.** `Fetch`, `Claim`, `Commit`, `Return`, `FailUrl`, `Raise`,
`Deliver` are the body of `_parallel_url_worker` with
`ParallelRecordBudget` and `_process_url_in_owned_session`.
`ConsumeResult` ... `PersistControl` are the methods of
`_ParallelResultCoordinator`; `Finalise` ... `MarkFailed` are the end of
`_process_run_with_span` with both failure handlers.

**RunTask.** `Get` ... `MarkFailed` follow `_process_run_with_span` and
`_process_urls_sequential` from top to bottom. `session.get`, after which a terminal
run is left alone (`Get`), and `session.refresh`, after which only a paused one is
(`Load`), are two steps. Processing a URL ends as a result
(`Crawl`, `Record`) or as an exception (`Raise`); an exception type that
`_process_run_with_span` does not handle *escapes* to whoever runs the task.

**LocalRun.** The registry operations keep their names (`Live`, `Clear`,
`Track`, `Cleanup`). A dispatch first recovers all stale runs
(`RecoverSelect`, `RecoverNext`, `RecoverMark`, `Recovered`), then commits the
task id (`Dispatch`) and only then starts the task (`StartTask`). `Restart` ends
the process: registry, tasks and requests are gone, the rows stay, and the
startup recovers.

**CeleryRun.** `queue` holds the messages the broker may deliver, `held[w]` the
one worker process `w` has not acknowledged (`task_acks_late`), `loop[w]` the
coordinators in its event loop and `active[w]` the one it waits for. Celery and
its broker are not in the repository; the actions model what the settings
(`core/celery_app.py`) and calls ask of them: redelivery after a lost worker
(`task_reject_on_worker_lost`) or connection, discarding and termination of
revoked task ids, soft and hard time limits. A worker hears of a revocation some
time after it was broadcast (`Terminate`), and nothing in the code waits for it: a
request that is admitted before (`Heard` is false) counts as the fault `"late"`, so
that the properties can say what holds with workers that are in time.

**BrowserRuntime.** `slots` is `_semaphore`, `lock` is `_lock`, `driver` is
`_playwright`, `browser` is `_browser`; `drivers` and `live` are the driver
processes and the connected browser processes that run, so that a browser that died
stays referenced until somebody looks. A browser is a child of its driver and
carries its identity. That it ends with its driver is a fact about Playwright, not
about this code, and the one assumption the module makes of it. `TakeSlot`,
`YieldSlot` and `TakeSlotAgain` are `_acquire_context_slot`, `EnsureLocked` ...
`LaunchRaised` the body of `_ensure` with `_close_locked`. `_ensure` starts the
driver (`Started`, `StartFailed`) and then the browser (`Launched`,
`LaunchFailed`); `_close_locked` waits for the browser (`CloseBrowser`) and then for
the driver (`Forget`) to end. Both only log a close or stop that raises or times
out, and both references are dropped whatever came of it. `Abandon` is the
choice of what becomes of a driver nobody waits for any more: it ends, or it runs
on, perhaps with a browser, and is then `abandoned`. It is used by a start that
fails or times out, by `Forget`, and by `CutShort`, which is a cancellation in the
middle of a start, a launch or a close: `except Exception` in `_ensure` does not
see it. A driver whose launch was cancelled stays in `_playwright` until the next
start overwrites it.
`CallNewContext` ... `RecycleAfterDisconnect` are the two attempts of
`_open_context_page`; `retry` holds the callers on the second one. `why` tells
where the holder of the lock continues after `_close_locked`. `Leave` is the
`finally` of `page`. Cancellation has an action for each group of suspension
points, because `_ensure_for_page` catches `Exception`, which does not include
`CancelledError`, while `page` uses `finally`. The callers of `close` are the
background tasks of an eviction and the shutdown; the latter cancels the former
when they take too long (`CancelClose`).

**ExtractionPool.** `pool` is `_WORKERS` of one event loop, `lock[w]` and
`proc[w]` are the lock and the process of `_ExtractionWorker` `w`. A request
creates at most one worker and starts at most one process, so both carry its
name. `asked[p]` is what is in the input pipe of process `p` or being extracted,
`frames[p]` its output pipe; a frame is the request it answers. `Submit` is
`run_extraction_process` with the choice of the worker, the places of a request
are the suspension points of `execute` and `_exchange`; `GiveUp` is every way out
of them by exception, deadline or cancellation that closes the process.
`_close_locked` forgets the process before it waits for it to end, so `Shutdown`,
which does not ask for the lock, may take the process of any request.

**Monitoring.** A page is a version number. `print[u]` is the fingerprint in
`MonitorURLState` and `Check` is `pre_check_url` for all URLs of a monitor, by
what each request showed: a validator or hash that is compared with the stored one
of its kind (`"read"`) or is the first of its kind (`"read anew"`), `"failed"`, a
body that is not hashed where there is no validator, which leaves a stored hash
alone (`"opaque"`) or clears a stored validator (`"erased"`), and the same after a
refused HEAD with no hash stored, which counts as unchanged (`"skipped"`). `gone`
are the URLs whose host no longer resolves, `barred` those of which no run can be
created for another lasting reason: the owner of the monitor was deleted, the
stored extraction contract is not valid, or the host resolves to an address that is
not public. `Bar` makes it so; neither is ever undone. `due` are the monitors whose
`next_run_at` has passed, in its order. The tick is a program counter over its
list: check, dispatch (one run per domain), save. `DispatchFails` covers every
exception that leaves the tick: with a URL that is gone or barred at every attempt,
otherwise a bounded number of times. `RunNow` creates a run per domain as well, one
step for each. `run[r]` is a crawl run together with its
callback: queued, crawled, compared (monitor and latest snapshot are loaded),
posting or saving (the change of the monitor is flushed, its row locked).
`SaveChanges` is the commit, with the snapshot that may have been stamped before
one committed meanwhile (`over`). `LoseRun` is a run that fails or a callback that
is rolled back. `crawled`, `lost`, `posted` and `blurred` are history variables.

**Enrichment.** `rec[r]` is the `enrichment_status` of a record, `product[r]` the
enriched product of that record (a unique index allows one), `job[j]` the status of
a job. A request and the task its response starts carry the name of their job; `at`
is where they stand. `seen[j]` is what the session of `j` loaded: `Written` is a
flush, which sends a column when its value differs from the one loaded
(`autoflush=False`, so nothing is sent before the commit, except when the log entry
of a language model call is flushed). `LoadRecord`, `Accept`, `SelectProduct` and
`Commit` are `create_data_enrichment_job`, with `Conflict` for a commit that the
database refuses. `LoadRefs` ... `Finish` are `_run_job` with
`process_product_ref`; `RollBack` and `Reload` are `_recover_enrichment_error`.
`RecordLost` is an exception that leaves the task, `Die` the end of the process or
of its database connection; `todo` of a dead task is what it left pending. The
status `running` is set and overwritten in one transaction, so no other session
sees it, and it is left out. `overlapped` is a history variable.

## 3. The runs

| run | instance | shows |
|---|---|---|
| `PB_batch` | 2 workers, 3 URLs, budget 2 (or used up), each URL may exceed its claim by 1, one pause or kill | type correctness; `UrlInOnePlace`, `CompletionIsTotal`, `BudgetConserved`, `NoWorkerOutlivesCoordinator`, `CountedRecordsExist`, `TerminalSurvivesCrawl`; `BatchDelivery` is implemented; under fairness `BatchEnds`, `SeenControlStopsRun` |
| `LR_one_run` | 1 run of 2 URLs, 1 client, 3 requests, 2 task identities, 1 restart | type correctness; `LiveTaskIsRegistered`, `SettledRunIsNotCrawled`, `PauseIsStable`; under fairness `TasksEnd`, `NothingStaysOrphaned` |
| `CR_two_workers` | 1 run, 2 worker processes, 1 client with 5 requests, 3 task ids, all four kinds of fault that leave no task behind | type correctness; `OneCrawler`, `RunningIsAttended` |
| `CR_liveness` | 1 run, 1 worker process, 3 requests, any fault | under fairness `QueuedRunStarts`, `WorkEnds` |
| `BR_pages` | 2 callers, 2 slots, 1 closer, 3 identities of drivers with their browsers, at most 1 left behind at a time, recycling after 2 contexts | type correctness; `SlotsAccounted`, `ActiveCounts`, `OneBrowser`, `PlannedRecycleSparesPages`; under fairness `PageRequestsEnd` |
| `EP_pool` | 3 requests, 2 processes, 1 or more shutdowns | `AnswersMatch`, `EndedRequestsStopExtraction`, `StraysComeFromShutdown`, `BoundedProcesses`; under fairness `RequestsEnd` |
| `MO_ticks` | 2 monitors of 1 URL, one of them with `skip_head_check`, 1 run, 1 dispatch per tick, 2 versions, 2 faults | `ChangeIsCrawled`; under fairness `DueIsServed` |
| `MO_callbacks` | 1 alert, 2 runs, 2 attempts per webhook, 2 versions, 2 requests, 1 fault | `WebhookOncePerDelta`, `HistoryMovesForward` |
| `EN_jobs` | 2 records, 2 requests with their jobs | `LockedRecordIsHeld`, `RecordMatchesProduct`, `ActiveJobsKeepTheirRecords`; under fairness `JobsEnd` |
| `PB_PauseNotLost` | violated | see 5 |
| `CR_KilledIsFinal` | violated | see 5 |
| `BR_DisconnectIsLocal` | violated | see 5 |

**Bounds.** Two workers and three URLs are the least at which the bounded result
queue (capacity 2) fills, a worker goes back for a second URL, and one worker
fails while the other holds a URL and a third is unclaimed. A budget of two
gives each worker a share of one, so that workers do wait in `claim`. Three
requests are create, pause, resume: the least at which two tasks exist for one
run. Two task identities suffice because identities are reused when a task has
ended. `MaxRestarts = 1` puts one restart at every point. In `CR_two_workers` the
five requests are create, pause, resume, pause, resume: the least at which the id
that a pause revokes was written to a row another task may have written since. The
three task ids are those of the three dispatches. Each kind of fault happens at most
once, and `MaxFaults = 4` lets all four kinds happen in one behaviour.
`CR_liveness` has the other kinds as well, one fault at a time.
Two callers of `page` are the least that share a browser, wait for each other
at the lock, and meet when one has a context and the other finds the browser
worn; slots run out when a cancelled caller keeps one. Three identities are those of
a driver left behind, the driver referred to and one that is being started, so a
start always finds a new one. `MaxAbandoned = 1` lets one process that was left
behind run at a time; it may end, and another take its place.
A threshold of two recycles the browser by one caller or by both.
Three requests are the least at which one holds the lock of a worker, one waits
for it and one may be given to another worker; processes are named after the
request that starts them, so there are as many as can be started.
Two monitors with a limit of one dispatch per tick are the least at which one is
passed over; one alert with two runs is the least at which callbacks overlap, and
with two versions and two requests a tick, a run on demand, an update and a purge
meet in every order. Alerts differ from monitors in the webhook and in the status
after a run, so the second instance has the alert and the first has none. The
faults are counted: two let a tick fail and the next one too, and one is enough to
lose a run after its webhook was accepted.
Two records and two jobs are the least at which two requests accept different sets
that overlap, and a task is at one record while another request takes the next;
one record and three jobs, which show a record pass from job to job, were checked
as well and need no run of their own, as the theorems of section 4 hold for any
number.
Symmetry is used only in runs without temporal properties of the liveness kind.
`CHECK_DEADLOCK FALSE`: the system may stop, when all runs or requests have ended
and none comes. In `BR_pages` and `MO_ticks` deadlock is checked: callers come
back, and monitors become due again.

**Restrictions.** `SettledRunIsNotCrawled`, `PauseIsStable` and `OneCrawler` are
claimed for one request at a time, i.e. for one client that waits for its answer:
two overlapping requests on one run each act
on their own copy and may, e.g., both resume it. `OneCrawler` and
`RunningIsAttended` also exclude the faults that leave a task at work behind the
back of the next one (`NothingLeftBehind`): a message delivered twice because a
connection was lost, a revocation no worker heard, the soft time limit, and a
worker that hears of a revocation only after the client's next request. The last
one is not obvious. Without it a paused task that goes on for a while sends its
whole summary, with its own task id, over the id of the task the resume has
started; the next pause revokes the wrong id, and the resume after it starts a
second crawler that nobody told the first to make room for. TLC shows this with
five requests, and with three it cannot happen. `CR_two_workers` leaves these faults
out, because nothing is claimed once they have happened; `CR_liveness` has them.
`HistoryMovesForward` and
`WebhookOncePerDelta` exclude monitors whose runs overlapped (`blurred`): nothing
in the code keeps a run on demand from overlapping a scheduled one.
`StraysComeFromShutdown` and `BoundedProcesses` exclude workers that had requests
when a shutdown took them. `RecordMatchesProduct` and `ActiveJobsKeepTheirRecords`
exclude records that two requests had accepted before either committed
(`overlapped`): the status is read without a lock, so both get the record, and the
one that commits later takes its product while the first task may be at it.
`DueIsServed` excludes a monitor that waits behind an active due monitor, or is one,
with a URL of which no run can be created any more (`Blocked`).
`OneBrowser` excludes the drivers and browsers that a start, a launch or a stop left
behind when it was cancelled, timed out or failed (`abandoned`): nothing in the code
ends them. What it claims of all others is that a running process is the one the
runtime refers to, whoever meets whom at the lock.

**Fairness.** Weak fairness of each worker, task and coordinator: the event loop
runs every ready task, a URL ends within its timeout
(`_process_url_in_owned_session` wraps it in one), a commit ends. A request that
was admitted is served, but nobody has to send one. A broker delivers what it
has when a worker is free. In `BrowserRuntime` starting, opening and closing are
bounded by `wait_for` and the use of a page by the timeout of its URL; the lock
is strongly fair, because `asyncio.Lock` serves its waiters in order. In
`ExtractionPool` every wait of a request has a deadline, and a process that does
not obey `terminate` is killed; in `Monitoring` the loop of the scheduler goes on
after a failed tick, the requests of a check and of a webhook have timeouts, and a
run ends. In `Enrichment` a task that has begun goes on, because its statements and
the calls of the language model have timeouts; a request may be cut off. Faults,
restarts, cancellations and requests are never fair. Time passes (`TimePasses`),
so a heartbeat that nobody renews becomes stale.

Every property of a passing run has a mutant in `PROJECT.json`: a plausible bug
in the code's place (a claim not released, a pool not awaited, a callback that
does not look whose entry it removes) under which TLC finds the property
violated. The mutated forms stand next to the actions they replace.

## 4. The proofs

`ParallelBatchProofs`, for every pool, number of URLs, budget and overshoot:

* `TypeCorrect`: `Spec => []TypeOK`. The inductive invariant adds that a worker
  which holds a URL has one (`HoldersHaveUrl`).
* `NoWorkerOutlives`: `NoWorkerOutlivesCoordinator`, strengthened to the places
  between which the coordinator goes without waiting (`QuietInv`).
* `OnePlace`: `UrlInOnePlace`, strengthened by: what is recorded was taken from
  the work queue (`RecordedTaken`). One lemma per kind of step: URLs that stay
  where they are, one that is fetched, delivered, taken from the queue.
* `CompletesInFull`: `CompletionIsTotal`. `consume` counts results, not URLs;
  `ProgressInv` says that while it loops the count is the number of URLs
  recorded, which with `UrlInOnePlace` and the cardinality lemmas of the library
  means that as many results as URLs are all of them.
* `DeliversOnce`: `Spec => DeliversEveryUrlOnce`: every step of the batch is a
  step of `BatchDelivery` or leaves its variables alone, under the three
  invariants above.

* `TerminalSurvives`: `TerminalSurvivesCrawl`. `TerminalInv` says that a kill
  commits only after the task was cancelled or the batch is done, and that a
  coordinator which goes on holds a terminal run at most between its own checkpoint
  and the refresh after it.
* `SeenControlHolds`: the safety half of `SeenControlStopsRun`. While the pool is at
  work coordinator and row agree that the run is running; once a request was seen,
  only the checkpoint and the failure handlers are left (`StopInv`).
* `CountsWhatExists`: `CountedRecordsExist`. It adds that what a result in the queue
  or at a worker reports was persisted (`ReportedExist`).
* `BudgetIsConserved`: `BudgetConserved`, by an equation between the budget, the
  claims, the results under way and the count (`Accounted`), in which every step of
  a worker moves a number from one term to another.

The last two rest on lemmas about sums over functions, proved at the beginning of
the module without a recursive definition: a sum is a fold over a finite set, and changing,
adding or dropping one term changes it by that term.

`LocalRunProofs`, for every number of runs, tasks, clients and restarts, and
whatever requests overlap:

* `TypeCorrect`: `Spec => []TypeOK`, with `UrlsLeft` (inside the loop a URL is
  left), which needs the bound of the loop.
* `LiveTaskReached`: `LiveTaskIsRegistered`. The inductive invariant adds
  `RegistryNamesRun`: an entry names a task of that run. It is what makes the
  done callback's test (`registry[of[t]] = t`) and the cancellation in
  `track_local_run_task` sufficient.

With one client (`\A r, s \in Requests : r = s`), whose requests then come one
after the other, while recovery and restarts may come at any time:

* `SettledNotCrawled`: `SettledRunIsNotCrawled`, and `PauseStable`: `PauseIsStable`,
  from `Serial`. At most one actor is under way (`OneActor`); the copy of a task that
  was not told to stop agrees with the row in what it is about to do (`TaskPart`: its
  status is the row's, a checkpoint finds the run running, a failure handler that
  could write finds it as it was), unless an actor has just changed the row, and
  then the actor is about to cancel the task or has (`ActorPart`).

`CeleryRunProofs`, for every set of runs, tasks, workers, every number of requests
and faults:

* `TypeCorrect`: `Spec => []TypeOK`. It adds that a worker process waits for a task
  just when it holds a message (`Occupied`), so that a termination finds a task, and
  that only a run with a task id is enqueued (`Assigned`).
* `OneCrawlerHolds`: `OneCrawler`, and `AttendanceHolds`: `RunningIsAttended`, for one
  client, from `SerialInv`. Four parts need no client or fault to be excluded except
  that ids are given out one at a time: a task is in one event loop and is cancelled
  only after its message was revoked (`LoopInv`), no control request is ever written
  under Celery (`ControlInv`), a task id belongs to one message (`IdInv`). The fifth,
  `Quiet`, holds as long as nothing was left behind: an unrevoked message bears the
  task id of its run's row, and that run is not paused (`Current`); its task sends
  this id back with every summary, and ends only with the run (`Following`); a worker
  that has not acted on a revocation yet finds no other message of its run and no
  request beyond the one that revoked it (`Unheard`); what a request does after its
  revocation, and a resume and a dispatch, meet no unrevoked message (`Knowing`). So
  the id a pause revokes is that of every message there is, and two workers that
  crawl a run would hold the same message, which is in one place (`SingleCopy`).

`BrowserRuntimeProofs`, for every finite set of callers, every capacity and
threshold: `TypeCorrect`, `SlotsBalance`, `ActiveIsExact`, `NoStrayBrowser` and
`RecycleIsSafe` follow from one inductive invariant, `Inv`:

* `SlotsAccounted` and `ActiveCounts` are equations between a counter and the
  cardinality of a set of callers. A step moves at most one caller, so one lemma
  (`BalancedKeepsAccounts`) reduces both to what the step does to that caller and
  to the counters. `RetryCounted` is needed for it: a caller on its second
  attempt is counted wherever it is, also while it starts the browser.
* `OneBrowser` (`NoStrayBrowser`) needs `LockHeld`, a held lock has a holder at work
  under it, and `LockedBrowser`: who starts a driver or launches finds no browser
  referred to, and who starts one finds no driver but those left behind. Lemmas about
  `Abandon`, `Forget` and `CutShort` say that each takes the driver it lets go of out
  of `drivers` or puts it into `abandoned`, and touches no other; so a driver that is
  neither abandoned nor referred to can only come from a start that found another one
  running, and the holder of the lock makes none.
* `PlannedRecycleSparesPages` needs `RecycleDecided`: from the decision to
  recycle until the browser is closed no context is active. Callers who come
  meanwhile do not pass the fast path of `_ensure`, because the browser stays
  due, and do not get the lock. With `ActiveCounts` there is no page either.

`ExtractionPoolProofs`, for every finite set of requests and every concurrency:
`TypeCorrect`, `OwnAnswers`, `ExtractionStops` and `NoOtherStrays` follow from one
inductive invariant, `Inv`. That a process which is alive and known has an empty
pipe whenever nobody is in an exchange with it (`PipesOwned`) is why the next
request cannot read an old answer; it needs that the request in an exchange holds
the lock and talks to the process of its own worker (`LocksHeld`, `TalksToOwn`,
`OneReader`), that a process belongs to one worker (`KnownOnce`) and that a
request which has not started one has none (`ProcessesFresh`). `ProcessesAreFew`
adds that the pool never outgrows the setting (`PoolBounded`).

`MonitoringProofs`, for every set of monitors, URLs and runs, every limit and
every number of faults:

* `ChangesAreCrawled`: `ChangeIsCrawled`. It is inductive together with types and
  bounds (a fingerprint is never ahead of its page, a run has only URLs of its
  monitor). Two lemmas carry it: steps that create no run (`IdleRuns`), where the
  fingerprint may only fall or be covered by the tick, and steps of one run
  (`OneRun`), where what the run carried must be recorded, lost or still carried.
* `ChangesAreNew`: `HistoryMovesForward`, and `WebhooksAreSentOnce`:
  `WebhookOncePerDelta`. Both follow from `Hist`: of a monitor whose runs did not
  overlap at most one run has read its pages and not committed (`OneUnsaved`), the
  latest snapshot is what was recorded last unless it was purged (`SnapIsLast`), a
  run compares with it and has seen nothing older (`UpToDate`), and what was posted
  is recorded or belongs to the callback about to commit (`PostedRecorded`).

`EnrichmentProofs`, for every set of records and requests:

* `LockedIsHeld`: `LockedRecordIsHeld`, from `HeldInv`: only a job that was
  committed owns products (`Owned`), the record a task works on is not among those
  left (`Places`), and as long as it owns that product nobody makes it or the record
  pending after the task has loaded them (`Fresh`), so that a column the task does
  not write is not left pending. It holds for overlapping requests too.
* `RowsAgree`: `RecordMatchesProduct`, and `JobsAreNotRobbed`:
  `ActiveJobsKeepTheirRecords`, from `AloneInv`. For records that requests did not
  accept together it says that a task which is at a record or will come to it owns
  it (`Own`), that such a record is locked until it is settled (`HeldIsLocked`), that
  no job holds a record which a request has accepted (`Idle`), and that the request
  finds its product unlocked (`Unlocked`). So a session's flush writes over nothing that changed since it
  loaded the row, and record and product move together.

The assumptions are those of the modules: finitely many callers and requests, at
least one worker, run and URL, and names that differ; where a theorem says so, one
client. Every inductive invariant was checked by TLC on the instances of section 3
before it was proved; for `LocalRun` and `CeleryRun` also on two runs, which showed
that `OneCrawler` needs workers that are in time. Every invariant and every action
property that a passing run checks is stated by a theorem.

**Only model-checked**: liveness under fairness, which is out of the prover's reach
(`BatchEnds`, `SeenControlStopsRun` but for its safety half, `TasksEnd`,
`NothingStaysOrphaned`, `QueuedRunStarts`, `WorkEnds`, `PageRequestsEnd`,
`RequestsEnd`, `DueIsServed`, `JobsEnd`).

## 5. Where the code and what it says differ

* **An acknowledged pause can be lost** (`PB_PauseNotLost`).
  `_ParallelResultCoordinator.record` commits the summary of a copy it loaded
  before the pause; `control_requested` is erased and the crawl completes. The
  log said it would "stop at the next checkpoint". The sequential loop has the
  same window between two refreshes.
* **A kill can be overwritten** (`CR_KilledIsFinal`). `process_run` checks
  pending -> running on its copy; a kill committed in between, which has already
  revoked the task, is overwritten: the run stays running with nobody to run it.
* **A disconnect may hit other URLs** (`BR_DisconnectIsLocal`).
  `_recycle_after_driver_disconnect` closes the browser without looking whether
  it is still the one that failed. When one death hits two URLs, the second
  closes the browser the first has just started, under its page;
  `docs/INVARIANTS.md:158` says that a disconnect is a URL-local failure and the
  browser recycled once.

Also visible in the model, without a run of their own, in crawl runs: a backend
that restarts quickly skips running runs whose heartbeat is still fresh, and
nothing looks again until some other run is dispatched
(`docs/backend-architecture.md:208` says interrupted work does not stay orphaned);
a request that loaded the
run before it ended overwrites its terminal status (`TerminalSurvivesCrawl`
bounds this to requests admitted earlier); a dispatch recovers, and so cancels,
the live task of any run whose heartbeat is older than 120 seconds, which a URL with
traversal (timeout up to 600 seconds) reaches, although
`docs/backend-architecture.md:209` says that the heartbeat distinguishes live work
from stale work (`RecoverNext`); `resume_run` keeps the old heartbeat,
so the recovery in its own dispatch may fail the run it resumes; the soft time
limit leaves the coordinator in the worker's event loop, which advances it again
with the next run (`SoftLimit`, `TaskStep`); a caller of `page` that is cancelled
while it waits for the lock or the launch of the browser keeps its slot
(`CancelEnsuring`; `lost` counts those slots, so `SlotsAccounted` says that
nothing else loses one), and one that is cancelled during the start of the driver or
the launch leaves a driver or a browser running that no later close reaches, the next
start overwriting `_playwright` (`CutShort`, `Started`); a start that times out and
a stop that fails or times out do the same, because `_close_locked` logs the failure
and drops the references (`Forget`; `abandoned` holds those processes, and
`OneBrowser` says that nothing else is left behind); a run that ends between
`session.get` and `session.refresh` is crawled all the same, as only `PAUSED` is
looked for after the refresh (`Load`); `_yield_slot_until_recycle_window` is written to wait
for active contexts to end, but returns at once when there are any.

In the extraction pool: a request that waits for a worker when a shutdown empties
the pool starts a process that no pool knows; it ends with the request only if
that fails.

In monitoring: four things make the dispatch of a monitor fail for ever: a host that
no longer resolves, a host that resolves to an address which is not public, a
stored extraction contract that is not valid (`create_crawl_run` raises), and an
owner who was deleted (`dispatch_monitor_run` raises for a `user_id` of NULL). Each
ends every tick that gets to the monitor, before its `next_run_at` moves, and it and
the monitors sorted behind it are not served
(`DueIsServed` states this exception); a page whose HEAD request is refused and whose
body is not hashed is skipped also when it has no fingerprint yet, although
`docs/BUSINESS_LOGIC.md:52` says that missing prior state always proceeds; a
change whose dispatch, run or callback failed is not reported by the next check,
because its fingerprint is stored (`lost` in `ChangeIsCrawled`); a webhook is sent
before the change is committed, although `docs/BUSINESS_LOGIC.md:54` says that
changes are persisted first, so a callback that fails has sent what is not
recorded and the next run sends it again; a run of one domain and a poll that
extracts nothing replace the snapshot of the whole monitor, so the next change has
nothing to be compared with; a callback writes the status it loaded the monitor
with, which may revive an alert that was archived meanwhile.

In enrichment: two requests at the same time both accept a record, and the second
takes the product from the job of the first, although `docs/BUSINESS_LOGIC.md:50`
says that pending records are skipped and lists jobs that "get stolen" as what must
not happen; the record of a job whose process ended stays pending and is skipped by
every later request, because nobody resumes or fails the job; a record that is
deleted while its product is enriched ends the task of the whole job, which stays
running (`RecordLost`); a product whose record is gone stays pending in a job that
has ended, when its record was deleted before the task looked for its products.

## 6. What is not modelled

* Database errors of single commits, and retries of the connection.
* What a URL's processing does (acquisition, extraction, artifacts): a step with
  a nondeterministic outcome. Exceptions are raised where the URLs are resolved
  or processed.
* The pool around the browser runtimes (which runtime a proxy gets, eviction,
  the order of a shutdown), the process of the proxy bridge, the
  order in which the semaphore serves its waiters, stored cookies, and a context
  whose `new_page` was cancelled before anybody could close it.
* The browser shutdown after a kill, log and progress events, metrics.
* In monitoring: creation and deletion, the order of priorities and of the limit
  per user, the text of conditions, notifications, the counter of consecutive
  failures (a poll that extracts nothing may be the last one), added and removed
  records, and the overlap of Celery ticks on several workers.
* In enrichment: the reset of all data (which also restarts the sequences of ids
  while tasks with old ids may be at work; only it can make a product vanish, so the
  branch `product is None` is left out), access and surface checks, the limit of
  records per job, the deletion of a user with the jobs, and how the fields are derived.
* The synchronous shutdown of extraction processes, which runs when there is no
  event loop and so no request.
* A missing heartbeat, for which recovery falls back to `updated_at`.
* The shutdown hooks of Celery workers.
* Celery and the broker themselves beyond the behaviour described in 2.1.
* Extraction rules, adapters, DOM and text normalisation: large sequential
  functions of a page's text, which the repository's fixtures test directly.

## 7. Plan

In this order, each with its instance, a mutant per property, and proofs where
noted:

1. `RecordPersistence` (`pipeline/persistence.py`): concurrent workers inserting
   the same identity under savepoints; one record per identity and run, counts
   equal to rows changed.
2. `CircuitBreaker` (`llm/circuit_breaker.py`, `llm/budget.py`): local and shared
   circuit, cooldown and half-open probes; calls per run counted and released.
3. `BrowserPool` around `BrowserRuntime`: eviction between `get_browser_runtime`
   and `page`, shutdown; no browser survives a shutdown.
4. `ProductIntelligence`: its jobs, after `Enrichment`.
5. Proofs about these modules, as they are written; of the present ones, what holds
   of `LocalRun` and `CeleryRun` when several clients work on different runs, for
   which the assumption of one client is stronger than needed.
