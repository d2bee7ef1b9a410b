--------------------------- MODULE ParallelBatch ----------------------------
(***************************************************************************)
(* One parallel batch of a crawl run under local dispatch                  *)
(* (app/services/crawl/batch_parallel.py), from the moment                 *)
(* _process_run_with_span hands it the resolved URL list to the moment the *)
(* run's task ends, next to the requests that pause or kill the run.       *)
(*                                                                         *)
(* A fixed pool of workers takes URLs from a work queue, claims part of a  *)
(* shared record budget, processes the URL in a session of its own and     *)
(* puts the outcome on a bounded result queue.  The coordinator consumes   *)
(* that queue and writes the run's row through the copy of the row its     *)
(* session holds, which a commit does not expire.  A request works on a    *)
(* copy of its own.  A step of this module is what the code does between   *)
(* two suspension points.                                                  *)
(***************************************************************************)
EXTENDS Integers, Sequences, FiniteSets, Functions, CrawlStatus

CONSTANTS
  Workers,       \* the worker pool; its size is the resolved concurrency
  NumUrls,       \* len(url_list)
  MaxRecords,    \* the run's max_records setting
  Overshoot,     \* records a URL may persist beyond the claim of its worker
  StartRecords,  \* record_count the summary may hold when the batch starts
  Requests       \* the pause and kill requests that may arrive

ASSUME WorkersAssumption   == IsFiniteSet(Workers) /\ Workers # {}
ASSUME NumUrlsAssumption   == NumUrls \in Nat
ASSUME RecordsAssumption   == MaxRecords \in Nat \ {0}
ASSUME OvershootAssumption == Overshoot \in Nat
ASSUME StartAssumption     == StartRecords \subseteq Nat

Urls == 1 .. NumUrls
NoUrl == 0

Concurrency == Cardinality(Workers)

\* parallel_worker_record_limit: each worker's share, rounded up.
WorkerLimit == (MaxRecords + Concurrency - 1) \div Concurrency

VARIABLES
  workNext,      \* work_queue: the URLs workNext..NumUrls are still queued
  at,            \* where each worker is
  url,           \* the URL it took
  claimed,       \* the part of the budget it claimed
  count,         \* the records its URL is reported with
  cancelled,     \* the workers whose task was cancelled
  available,     \* ParallelRecordBudget._available
  persisted,     \* records of each URL committed to the database
  results        \* result_queue

VARIABLES
  place,         \* where the coordinator is
  completed,     \* results consumed (consume's completed_urls)
  recorded,      \* the URLs whose result was recorded (verdicts, progress)
  records,       \* record_count
  stop,          \* why the batch stops early
  queuedError,   \* drain_ready_results met an exception
  taskCancelled, \* the run's task was cancelled
  run            \* the coordinator session's copy of the run

VARIABLES
  row,           \* the run's row in the database
  reqAt,         \* where each request is
  reqCopy        \* the copy of the run its session loaded

workerVars  == <<workNext, at, url, claimed, count, available, persisted>>
poolVars    == <<workerVars, cancelled>>
coordVars   == <<place, completed, recorded, records, stop, queuedError,
                 taskCancelled, run>>
requestVars == <<reqAt, reqCopy>>
vars == <<poolVars, results, coordVars, row, requestVars>>

\* An item of the result queue: a URL's result, or the exception that ended
\* the worker.
Outcome == [ok : BOOLEAN, url : Urls, count : Nat]

Row == [status : Statuses, control : ControlRequests \cup {NoControl},
        records : Nat]

WorkerPlaces == {"idle", "claim", "processing", "committed", "deliver",
                 "raise", "stopped"}

CoordPlaces == {"start", "get", "refresh", "drain", "await", "leftover",
                "gather", "persist", "finalise", "complete", "fail",
                "failing", "aborting", "done"}

TypeOK ==
  /\ workNext \in 1 .. NumUrls + 1
  /\ at \in [Workers -> WorkerPlaces]
  /\ url \in [Workers -> Urls \cup {NoUrl}]
  /\ claimed \in [Workers -> Nat]
  /\ count \in [Workers -> Nat]
  /\ cancelled \subseteq Workers
  /\ available \in Nat
  /\ persisted \in [Urls -> Nat]
  /\ results \in Seq(Outcome)
  /\ place \in CoordPlaces
  /\ completed \in Nat
  /\ recorded \subseteq Urls
  /\ records \in Nat
  /\ stop \in {"none", "pause", "kill", "limit", "error"}
  /\ queuedError \in BOOLEAN
  /\ taskCancelled \in BOOLEAN
  /\ run \in Row
  /\ row \in Row
  /\ reqAt \in [Requests -> {"none", "pause", "kill", "killing", "done"}]
  /\ reqCopy \in [Requests -> Row]

Init ==
  /\ workNext = 1
  /\ at = [w \in Workers |-> "stopped"]
  /\ url = [w \in Workers |-> NoUrl]
  /\ claimed = [w \in Workers |-> 0]
  /\ count = [w \in Workers |-> 0]
  /\ cancelled = {}
  /\ records \in StartRecords
  /\ available = IF records < MaxRecords THEN MaxRecords - records ELSE 0
  /\ persisted = [u \in Urls |-> 0]
  /\ results = <<>>
  /\ place = "start"
  /\ completed = 0
  /\ recorded = {}
  /\ stop = "none"
  /\ queuedError = FALSE
  /\ taskCancelled = FALSE
  /\ row = [status |-> "running", control |-> NoControl, records |-> records]
  /\ run = row
  /\ reqAt = [r \in Requests |-> "none"]
  /\ reqCopy = [r \in Requests |-> row]

-----------------------------------------------------------------------------
(* The workers: _parallel_url_worker and the URL pipeline it calls.        *)

\* Mutant: the end of the work queue is off by one.
FetchPastEnd(w) ==
  /\ at[w] = "idle"
  /\ w \notin cancelled
  /\ workNext <= NumUrls + 1
  /\ at' = [at EXCEPT ![w] = "claim"]
  /\ url' = [url EXCEPT ![w] = workNext]
  /\ workNext' = workNext + 1
  /\ UNCHANGED <<claimed, count, cancelled, available, persisted, results,
                 coordVars, row, requestVars>>

\* get_nowait on the work queue; the worker returns when it is empty.
Fetch(w) ==
  /\ at[w] = "idle"
  /\ w \notin cancelled
  /\ IF workNext > NumUrls
       THEN /\ at' = [at EXCEPT ![w] = "stopped"]
            /\ UNCHANGED <<workNext, url>>
       ELSE /\ at' = [at EXCEPT ![w] = "claim"]
            /\ url' = [url EXCEPT ![w] = workNext]
            /\ workNext' = workNext + 1
  /\ UNCHANGED <<claimed, count, cancelled, available, persisted, results,
                 coordVars, row, requestVars>>

\* claim waits until budget is left and takes at most a worker's share.
Claim(w) ==
  /\ at[w] = "claim"
  /\ w \notin cancelled
  /\ available > 0
  /\ LET share == IF available < WorkerLimit THEN available ELSE WorkerLimit
     IN  /\ claimed' = [claimed EXCEPT ![w] = share]
         /\ available' = available - share
  /\ at' = [at EXCEPT ![w] = "processing"]
  /\ UNCHANGED <<workNext, url, count, cancelled, persisted, results,
                 coordVars, row, requestVars>>

\* Mutant: the session is closed without a commit.
CommitLost(w, n) ==
  /\ at[w] = "processing"
  /\ n <= claimed[w] + Overshoot
  /\ at' = [at EXCEPT ![w] = "committed"]
  /\ count' = [count EXCEPT ![w] = n]
  /\ UNCHANGED <<workNext, url, claimed, cancelled, available, persisted, results,
                 coordVars, row, requestVars>>

\* The URL's session commits n records.  max_records stops traversal but
\* does not cap the rows.  A commit already under way completes although the
\* worker has been cancelled.
Commit(w, n) ==
  /\ at[w] = "processing"
  /\ n <= claimed[w] + Overshoot
  /\ at' = [at EXCEPT ![w] = "committed"]
  /\ count' = [count EXCEPT ![w] = n]
  /\ persisted' = [persisted EXCEPT ![url[w]] = @ + n]
  /\ UNCHANGED <<workNext, url, claimed, cancelled, available, results,
                 coordVars, row, requestVars>>

\* process_url returns: the part of the claim it did not use is released.
Return(w) ==
  /\ at[w] = "committed"
  /\ w \notin cancelled
  /\ at' = [at EXCEPT ![w] = "deliver"]
  /\ available' = IF count[w] < claimed[w]
                    THEN available + (claimed[w] - count[w]) ELSE available
  /\ UNCHANGED <<workNext, url, claimed, count, cancelled, persisted, results,
                 coordVars, row, requestVars>>

\* Mutant: a failed URL does not release its claim.
FailUrlKeepingClaim(w) ==
  /\ at[w] \in {"processing", "committed"}
  /\ w \notin cancelled
  /\ at' = [at EXCEPT ![w] = "deliver"]
  /\ count' = [count EXCEPT ![w] = 0]
  /\ UNCHANGED <<workNext, url, claimed, cancelled, available, persisted, results,
                 coordVars, row, requestVars>>

\* The URL times out or fails, before or after its records were committed:
\* _recover_url_failure returns a result with no records.
FailUrl(w) ==
  /\ at[w] \in {"processing", "committed"}
  /\ w \notin cancelled
  /\ at' = [at EXCEPT ![w] = "deliver"]
  /\ count' = [count EXCEPT ![w] = 0]
  /\ available' = available + claimed[w]
  /\ UNCHANGED <<workNext, url, claimed, cancelled, persisted, results,
                 coordVars, row, requestVars>>

\* Opening the session or loading the run raises: the claim is released and
\* the exception itself is queued.
Raise(w) ==
  /\ at[w] = "processing"
  /\ w \notin cancelled
  /\ at' = [at EXCEPT ![w] = "raise"]
  /\ available' = available + claimed[w]
  /\ UNCHANGED <<workNext, url, claimed, count, cancelled, persisted, results,
                 coordVars, row, requestVars>>

\* put waits while the result queue is full.  After an exception the worker
\* returns, otherwise it goes back for the next URL.
Deliver(w) ==
  /\ at[w] \in {"deliver", "raise"}
  /\ w \notin cancelled
  /\ Len(results) < Concurrency
  /\ results' = Append(results, [ok |-> at[w] = "deliver", url |-> url[w],
                                 count |-> count[w]])
  /\ at' = [at EXCEPT ![w] = IF at[w] = "deliver" THEN "idle" ELSE "stopped"]
  /\ url' = [url EXCEPT ![w] = NoUrl]
  /\ claimed' = [claimed EXCEPT ![w] = 0]
  /\ count' = [count EXCEPT ![w] = 0]
  /\ UNCHANGED <<workNext, cancelled, available, persisted, coordVars, row,
                 requestVars>>

\* CancelledError is thrown at the worker's suspension point.  The handler
\* releases the whole claim, also when part of it was released already; it
\* does not run in claim (before the try) nor in the put of an exception.
WorkerCancelled(w) ==
  /\ w \in cancelled
  /\ at[w] # "stopped"
  /\ at' = [at EXCEPT ![w] = "stopped"]
  /\ available' = IF at[w] \in {"processing", "committed", "deliver"}
                    THEN available + claimed[w] ELSE available
  /\ UNCHANGED <<workNext, url, claimed, count, cancelled, persisted, results,
                 coordVars, row, requestVars>>

WorkerStep(w) ==
  \/ Fetch(w)
  \/ Claim(w)
  \/ \E n \in 0 .. WorkerLimit + Overshoot : Commit(w, n)
  \/ Return(w)
  \/ FailUrl(w)
  \/ Raise(w)
  \/ Deliver(w)
  \/ WorkerCancelled(w)

-----------------------------------------------------------------------------
(* The coordinator: process_urls_in_parallel, _ParallelResultCoordinator   *)
(* and the end of _process_run_with_span.                                  *)

AllStopped == \A w \in Workers : at[w] = "stopped"

\* cancel_pending_tasks cancels every task of the pool that is not done.
CancelWorkers == cancelled' = {w \in Workers : at[w] # "stopped"}

\* The row once a session flushed its copy: the summary is one value and is
\* sent whole, the status column only when the session assigned it.
Flushed(copy, statusAssigned) ==
  [status  |-> IF statusAssigned THEN copy.status ELSE row.status,
   control |-> copy.control,
   records |-> copy.records]

WithStatus(copy, status, control) ==
  [status |-> status, control |-> control, records |-> copy.records]

WithRecords(copy, n) ==
  [status |-> copy.status, control |-> copy.control, records |-> n]

Coordinating(where) == place = where /\ ~taskCancelled

Goto(where) == place' = where

\* record: count a result and commit the progress patch into the summary.
Record(item) ==
  /\ records' = records + item.count
  /\ recorded' = recorded \cup {item.url}
  /\ run' = WithRecords(run, records + item.count)
  /\ row' = Flushed(WithRecords(run, records + item.count), FALSE)

\* Nothing is left of max_records: return at once; otherwise spawn the pool.
StartBatch ==
  /\ Coordinating("start")
  /\ IF records >= MaxRecords
       THEN Goto("finalise") /\ stop' = "limit" /\ UNCHANGED at
       ELSE Goto("get") /\ at' = [w \in Workers |-> "idle"] /\ UNCHANGED stop
  /\ UNCHANGED <<workNext, url, claimed, count, cancelled, available,
                 persisted, results, completed, recorded, records,
                 queuedError, taskCancelled, run, row, requestVars>>

\* Mutant: the result stays in the queue when it is recorded.
PeekResult ==
  /\ Coordinating("get")
  /\ completed < NumUrls
  /\ results # <<>>
  /\ Head(results).ok
  /\ completed' = completed + 1
  /\ Record(Head(results))
  /\ Goto("refresh")
  /\ UNCHANGED <<poolVars, results, stop, queuedError, taskCancelled, requestVars>>

\* consume takes a result, records it and commits.
ConsumeResult ==
  /\ Coordinating("get")
  /\ completed < NumUrls
  /\ results # <<>>
  /\ Head(results).ok
  /\ results' = Tail(results)
  /\ completed' = completed + 1
  /\ Record(Head(results))
  /\ Goto("refresh")
  /\ UNCHANGED <<poolVars, stop, queuedError, taskCancelled, requestVars>>

\* Mutant: a worker's exception counts as a result and the loop goes on.
CountError ==
  /\ Coordinating("get")
  /\ completed < NumUrls
  /\ results # <<>>
  /\ ~Head(results).ok
  /\ results' = Tail(results)
  /\ completed' = completed + 1
  /\ UNCHANGED <<poolVars, place, stop, recorded, records, queuedError,
                 taskCancelled, run, row, requestVars>>

\* consume takes a worker's exception: cancel the pool, then drain and raise.
ConsumeError ==
  /\ Coordinating("get")
  /\ completed < NumUrls
  /\ results # <<>>
  /\ ~Head(results).ok
  /\ results' = Tail(results)
  /\ completed' = completed + 1
  /\ stop' = "error"
  /\ CancelWorkers
  /\ Goto("await")
  /\ UNCHANGED <<workerVars, recorded, records, queuedError, taskCancelled,
                 run, row, requestVars>>

\* refresh loads the row over the copy; only now is a control request seen.
RefreshAfterResult ==
  /\ Coordinating("refresh")
  /\ run' = row
  /\ IF row.control \in ControlRequests
       THEN stop' = row.control /\ Goto("drain")
       ELSE IF records >= MaxRecords
         THEN stop' = "limit" /\ Goto("drain")
         ELSE Goto("get") /\ UNCHANGED stop
  /\ UNCHANGED <<poolVars, results, completed, recorded, records, queuedError,
                 taskCancelled, row, requestVars>>

\* drain_ready_results records what is queued and remembers an exception.
DrainResult ==
  /\ Coordinating("drain") \/ Coordinating("leftover")
  /\ results # <<>>
  /\ results' = Tail(results)
  /\ IF Head(results).ok
       THEN Record(Head(results)) /\ UNCHANGED queuedError
       ELSE queuedError' = TRUE /\ UNCHANGED <<records, recorded, run, row>>
  /\ UNCHANGED <<poolVars, place, completed, stop, taskCancelled, requestVars>>

\* The queue is empty: cancel the pool before stopping.
DrainEmpty ==
  /\ Coordinating("drain")
  /\ results = <<>>
  /\ CancelWorkers
  /\ Goto("await")
  /\ UNCHANGED <<workerVars, results, completed, recorded, records, stop,
                 queuedError, taskCancelled, run, row, requestVars>>

\* Mutant: the cancelled workers are not awaited.
PoolAbandoned ==
  /\ Coordinating("await")
  /\ Goto(IF stop = "error" THEN "leftover"
          ELSE IF queuedError THEN "fail"
          ELSE IF stop = "limit" THEN "finalise"
          ELSE "persist")
  /\ UNCHANGED <<poolVars, results, completed, recorded, records, stop,
                 queuedError, taskCancelled, run, row, requestVars>>

\* Mutant: a stop that was requested is treated like the record limit.
PoolCancelledUncontrolled ==
  /\ Coordinating("await")
  /\ AllStopped
  /\ Goto(IF stop = "error" THEN "leftover"
          ELSE IF queuedError THEN "fail" ELSE "finalise")
  /\ UNCHANGED <<poolVars, results, completed, recorded, records, stop,
                 queuedError, taskCancelled, run, row, requestVars>>

\* The gather in cancel_pending_tasks returns once every worker has ended.
PoolCancelled ==
  /\ Coordinating("await")
  /\ AllStopped
  /\ Goto(IF stop = "error" THEN "leftover"
          ELSE IF queuedError THEN "fail"
          ELSE IF stop = "limit" THEN "finalise"
          ELSE "persist")
  /\ UNCHANGED <<poolVars, results, completed, recorded, records, stop,
                 queuedError, taskCancelled, run, row, requestVars>>

LeftoverEmpty ==
  /\ Coordinating("leftover")
  /\ results = <<>>
  /\ Goto("fail")
  /\ UNCHANGED <<poolVars, results, completed, recorded, records, stop,
                 queuedError, taskCancelled, run, row, requestVars>>

\* Mutant: the loop ends one result early.
ConsumedAllButOne ==
  /\ Coordinating("get")
  /\ completed + 1 >= NumUrls
  /\ Goto("gather")
  /\ UNCHANGED <<poolVars, results, completed, recorded, records, stop,
                 queuedError, taskCancelled, run, row, requestVars>>

\* As many results as URLs were consumed: the loop ends, gather the pool.
ConsumedAll ==
  /\ Coordinating("get")
  /\ completed = NumUrls
  /\ Goto("gather")
  /\ UNCHANGED <<poolVars, results, completed, recorded, records, stop,
                 queuedError, taskCancelled, run, row, requestVars>>

PoolFinished ==
  /\ Coordinating("gather")
  /\ AllStopped
  /\ Goto("finalise")
  /\ UNCHANGED <<poolVars, results, completed, recorded, records, stop,
                 queuedError, taskCancelled, run, row, requestVars>>

\* _persist_parallel_control: checkpoint the run as paused or killed.
PersistControl ==
  /\ Coordinating("persist")
  /\ LET target == IF stop = "pause" THEN "paused" ELSE "killed"
     IN  IF CanTransition(run.status, target)
           THEN /\ run' = WithStatus(run, target, NoControl)
                /\ row' = Flushed(WithStatus(run, target, NoControl),
                                  run.status # target)
                /\ Goto("finalise")
           ELSE Goto("fail") /\ UNCHANGED <<run, row>>
  /\ UNCHANGED <<poolVars, results, completed, recorded, records, stop,
                 queuedError, taskCancelled, requestVars>>

\* The batch returned: refresh, and leave a terminal run alone.  A run that
\* was paused at the checkpoint raises ValueError here.
Finalise ==
  /\ Coordinating("finalise")
  /\ run' = row
  /\ Goto(IF row.status \in TerminalStatuses THEN "done"
          ELSE IF CanTransition(row.status, "completed") THEN "complete"
          ELSE "fail")
  /\ UNCHANGED <<poolVars, results, completed, recorded, records, stop,
                 queuedError, taskCancelled, row, requestVars>>

Complete ==
  /\ Coordinating("complete")
  /\ LET final == WithStatus(WithRecords(run, records), "completed", run.control)
     IN  run' = final /\ row' = Flushed(final, TRUE)
  /\ Goto("done")
  /\ UNCHANGED <<poolVars, results, completed, recorded, records, stop,
                 queuedError, taskCancelled, requestVars>>

\* mark_run_failed: the rollback expires the copy, session.get reloads it.
Fail ==
  /\ Coordinating("fail")
  /\ run' = row
  /\ Goto("failing")
  /\ UNCHANGED <<poolVars, results, completed, recorded, records, stop,
                 queuedError, taskCancelled, row, requestVars>>

\* persist_failure_state: a terminal run keeps its status; a paused one
\* raises ValueError again and nothing is committed.
MarkFailed ==
  /\ Coordinating("failing")
  /\ IF run.status \in TerminalStatuses
       THEN row' = Flushed(run, FALSE) /\ UNCHANGED run
       ELSE IF CanTransition(run.status, "failed")
         THEN /\ run' = WithStatus(run, "failed", run.control)
              /\ row' = Flushed(WithStatus(run, "failed", run.control), TRUE)
         ELSE UNCHANGED <<run, row>>
  /\ Goto("done")
  /\ UNCHANGED <<poolVars, results, completed, recorded, records, stop,
                 queuedError, taskCancelled, requestVars>>

\* The run's task is cancelled: cancel the pool, wait for it, end.
CoordCancelled ==
  /\ taskCancelled
  /\ place \notin {"aborting", "done"}
  /\ CancelWorkers
  /\ Goto("aborting")
  /\ UNCHANGED <<workerVars, results, completed, recorded, records, stop,
                 queuedError, taskCancelled, run, row, requestVars>>

Aborted ==
  /\ place = "aborting"
  /\ AllStopped
  /\ Goto("done")
  /\ UNCHANGED <<poolVars, results, completed, recorded, records, stop,
                 queuedError, taskCancelled, run, row, requestVars>>

CoordStep ==
  \/ StartBatch \/ ConsumeResult \/ ConsumeError \/ RefreshAfterResult
  \/ DrainResult \/ DrainEmpty \/ PoolCancelled \/ LeftoverEmpty
  \/ ConsumedAll \/ PoolFinished \/ PersistControl \/ Finalise \/ Complete
  \/ Fail \/ MarkFailed \/ CoordCancelled \/ Aborted

-----------------------------------------------------------------------------
(* The requests: pause_run and kill_run.  Each acts on the copy its        *)
(* session loaded when the request was admitted.                           *)

\* get_live_local_run_task: a kill takes the task out of the registry, the
\* done callback removes it when it ends.
TaskLive == place # "done" /\ ~taskCancelled

Admit(r, operation) ==
  /\ reqAt[r] = "none"
  /\ reqAt' = [reqAt EXCEPT ![r] = operation]
  /\ reqCopy' = [reqCopy EXCEPT ![r] = row]
  /\ UNCHANGED <<poolVars, results, coordVars, row>>

AdmitPause(r) == row.status = "running" /\ Admit(r, "pause")

AdmitKill(r) == row.status \notin TerminalStatuses /\ Admit(r, "kill")

\* With a live task a pause is only requested; a summary that already holds the
\* request does not change and is not sent.  Without a task the run is paused on
\* the spot, or the request fails for want of a task id or of a broker.
CommitPause(r) ==
  /\ reqAt[r] = "pause"
  /\ LET copy == reqCopy[r]
     IN  \/ /\ TaskLive
            /\ row' = IF copy.control = "pause" THEN row
                      ELSE Flushed(WithStatus(copy, copy.status, "pause"), FALSE)
         \/ /\ ~TaskLive
            /\ row' \in {row, Flushed(WithStatus(copy, "paused", copy.control), TRUE)}
  /\ reqAt' = [reqAt EXCEPT ![r] = "done"]
  /\ UNCHANGED <<poolVars, results, coordVars, reqCopy>>

\* Mutant: the kill only changes the run, its task goes on.
KillWithoutCancel(r) ==
  /\ reqAt[r] = "kill"
  /\ reqAt' = [reqAt EXCEPT ![r] = "killing"]
  /\ UNCHANGED <<poolVars, results, coordVars, row, reqCopy>>

\* kill_run cancels a live task first and commits afterwards.
CancelTask(r) ==
  /\ reqAt[r] = "kill"
  /\ taskCancelled' = (taskCancelled \/ TaskLive)
  /\ reqCopy' = IF TaskLive
                  THEN [reqCopy EXCEPT
                          ![r] = WithStatus(@, reqCopy[r].status, "kill")]
                  ELSE reqCopy
  /\ reqAt' = [reqAt EXCEPT ![r] = "killing"]
  /\ UNCHANGED <<poolVars, results, place, completed, recorded, records, stop,
                 queuedError, run, row>>

CommitKill(r) ==
  /\ reqAt[r] = "killing"
  /\ row' = Flushed(WithStatus(reqCopy[r], "killed", reqCopy[r].control), TRUE)
  /\ reqAt' = [reqAt EXCEPT ![r] = "done"]
  /\ UNCHANGED <<poolVars, results, coordVars, reqCopy>>

RequestStep(r) ==
  \/ AdmitPause(r) \/ AdmitKill(r)
  \/ CommitPause(r) \/ CancelTask(r) \/ CommitKill(r)

-----------------------------------------------------------------------------
Next ==
  \/ \E w \in Workers : WorkerStep(w)
  \/ CoordStep
  \/ \E r \in Requests : RequestStep(r)

Spec == Init /\ [][Next]_vars

\* Workers end every URL within its timeout and the event loop runs every
\* ready task; nobody has to send a request, but one that was admitted ends.
Fairness ==
  /\ \A w \in Workers : WF_vars(WorkerStep(w))
  /\ WF_vars(CoordStep)
  /\ \A r \in Requests :
       WF_vars(CommitPause(r) \/ CancelTask(r) \/ CommitKill(r))

FairSpec == Spec /\ Fairness

-----------------------------------------------------------------------------
(* What the batch must guarantee.                                          *)

\* The batch implements BatchDelivery: every URL is recorded once, nothing is
\* recorded after the batch ended, and consume's loop ends by itself only
\* when all of url_list is recorded.
BatchPhase ==
  IF place \in {"start", "get", "refresh", "drain", "await", "leftover"}
    THEN IF \/ stop # "none"
            \/ taskCancelled
            \/ place = "start" /\ records >= MaxRecords
           THEN "stopping" ELSE "open"
    ELSE "ended"

Delivery == INSTANCE BatchDelivery WITH phase <- BatchPhase

DeliversEveryUrlOnce == Delivery!Spec

\* The URLs a worker holds, and those queued for the coordinator.
Holding(w) == at[w] \in {"claim", "processing", "committed", "deliver", "raise"}

QueuedUrls == {results[i].url : i \in DOMAIN results}

\* No URL is handed out twice or recorded twice: a URL a worker holds is held
\* by no other, a result in the queue is there once, and neither is still in
\* the work queue or already recorded (work_queue, result_queue, record).
UrlInOnePlace ==
  /\ \A w \in Workers : Holding(w) =>
       /\ url[w] < workNext
       /\ url[w] \notin recorded
       /\ \A i \in DOMAIN results : results[i].url # url[w]
       /\ \A v \in Workers : Holding(v) /\ url[v] = url[w] => v = w
  /\ \A i \in DOMAIN results :
       /\ results[i].url < workNext
       /\ results[i].url \notin recorded
       /\ \A j \in DOMAIN results : results[j].url = results[i].url => i = j

\* A batch that is about to complete without having been stopped has recorded
\* every URL: consume counts results, not URLs, and must not fall short.
CompletionIsTotal ==
  place \in {"gather", "finalise", "complete"} /\ stop = "none"
    => recorded = Urls

\* Where the budget is: outstanding claims, and the records of results that
\* are not recorded yet.
Claims == [w \in Workers |->
             IF at[w] \in {"processing", "committed"} THEN claimed[w] ELSE 0]
Held   == [w \in Workers |-> IF at[w] = "deliver" THEN count[w] ELSE 0]
Queued == [i \in DOMAIN results |-> results[i].count]

\* The URLs whose processing has ended.
Reported == {url[w] : w \in {v \in Workers : at[v] = "deliver"}}
            \cup QueuedUrls \cup recorded

\* Until the pool is cancelled, the budget that is left, the outstanding
\* claims and the records that were reported add up to max_records, plus what
\* URLs persisted beyond their claim: nothing leaks, so no worker waits for
\* budget that nobody will release, and nothing is released twice
\* (ParallelRecordBudget).
BudgetConserved ==
  place \in {"get", "refresh", "drain", "gather"} =>
    available + SumFunction(Claims) + SumFunction(Held) + SumFunction(Queued)
      + records
      \in MaxRecords .. MaxRecords + Overshoot * Cardinality(Reported)

\* The coordinator never checkpoints, completes, fails or ends while a worker
\* of its pool is alive and may still commit records of the run.
NoWorkerOutlivesCoordinator ==
  place \in {"leftover", "persist", "finalise", "complete", "fail", "failing",
             "done"} => AllStopped

\* The record count the coordinator reports counts committed records only,
\* and those of a URL once: a URL that failed after its commit counts none.
CountedRecordsExist ==
  \E n \in StartRecords :
    records <= n + SumFunctionOnSet(persisted, recorded)

\* Once the run has ended, by itself or because a request killed it, the crawl
\* never changes its status: kill_run cancels the task before it commits, and the
\* last refresh leaves a terminal run alone.  Only a request that was admitted
\* while the run was active can still overwrite the status.
TerminalSurvivesCrawl ==
  [][row.status \in TerminalStatuses /\ row'.status # row.status
       => \E r \in Requests : reqAt[r] # "done" /\ reqAt'[r] = "done"]_vars

\* Every batch ends, whatever the workers' outcomes: no worker is stuck in
\* claim or put while the coordinator waits for a result.
BatchEnds == <>(place = "done")

\* A control request the coordinator has seen ends the run as requested, or
\* as failed when a worker's exception was queued, and never as completed.
SeenControlStopsRun ==
  stop \in ControlRequests
    ~> place = "done" /\ row.status \in {"paused", "killed", "failed"}

\* A pause that was acknowledged ("crawl will stop at the next checkpoint")
\* stays requested until a checkpoint pauses the run or the run is killed.
PauseNotLost ==
  [][row.control = "pause" /\ row'.control = NoControl
       => row'.status \in {"paused", "killed"}]_vars
=============================================================================
