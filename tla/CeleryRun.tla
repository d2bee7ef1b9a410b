----------------------------- MODULE CeleryRun ------------------------------
(***************************************************************************)
(* The life of crawl runs under Celery dispatch: the create, pause, resume *)
(* and kill requests of the API process (app/services/crawl/service.py),   *)
(* the dispatcher (app/services/dispatch/celery_dispatcher.py), the broker *)
(* with late acknowledgement (app/core/celery_app.py), and the worker      *)
(* processes, each with one event loop for the coordinators of all the     *)
(* runs it is given (app/tasks.py).  RunTask is what a coordinator does.   *)
(*                                                                         *)
(* Celery and its broker are not in the repository: what they do is        *)
(* modelled from the settings and calls the repository makes.              *)
(***************************************************************************)
EXTENDS RunTask

CONSTANTS
  Requests,   \* the clients of the API, each with one request at a time
  Workers,    \* the worker processes
  NoTask,
  NoMessage,
  Faults,     \* the faults that may happen
  MaxCalls,   \* bound: requests in all
  MaxFaults   \* bound: faults in all, one of a kind

FaultKinds == {"connection", "worker", "softLimit", "hardLimit", "broker",
               "broadcast", "late", "api"}

ASSUME NamesAssumption == NoTask \notin Tasks
ASSUME FaultsAssumption == Faults \subseteq FaultKinds
ASSUME BoundsAssumption == MaxCalls \in Nat /\ MaxFaults \in Nat

VARIABLES
  queue,     \* messages the broker may deliver
  held,      \* the message each worker process has not acknowledged yet
  active,    \* the task it waits for (active_run_task)
  loop,      \* the tasks of its event loop (worker_loop)
  revoked,   \* the task ids the workers were told to terminate
  used,      \* the task ids given out
  reqAt,     \* where each request is
  reqRun,    \* the run it is about
  reqCopy,   \* its session's copy of that run
  calls,     \* requests admitted so far
  faults     \* the faults that happened

workerVars == <<held, active, loop>>
requestVars == <<reqAt, reqRun, reqCopy>>
vars == <<row, taskVars, queue, workerVars, revoked, used, requestVars, calls,
          faults>>

RequestPlaces == {"idle", "pause", "pausing", "kill", "killing", "resume",
                  "refresh", "dispatch", "enqueue", "unassign"}

Messages == [run : Runs, id : TaskIds]

ASSUME MessageAssumption == NoMessage \notin Messages

TypeOK ==
  /\ TaskTypeOK
  /\ queue \subseteq Messages
  /\ held \in [Workers -> Messages \cup {NoMessage}]
  /\ active \in [Workers -> Tasks \cup {NoTask}]
  /\ loop \in [Workers -> SUBSET Tasks]
  /\ revoked \subseteq TaskIds
  /\ used \subseteq TaskIds
  /\ reqAt \in [Requests -> RequestPlaces]
  /\ reqRun \in [Requests -> Runs]
  /\ reqCopy \in [Requests -> Row]
  /\ calls \in 0 .. MaxCalls
  /\ faults \subseteq Faults

Init ==
  /\ TaskInit
  /\ queue = {} /\ revoked = {} /\ used = {}
  /\ held = [w \in Workers |-> NoMessage]
  /\ active = [w \in Workers |-> NoTask]
  /\ loop = [w \in Workers |-> {}]
  /\ reqAt = [r \in Requests |-> "idle"]
  /\ reqRun = [r \in Requests |-> AnyRun]
  /\ reqCopy = [r \in Requests |-> Absent]
  /\ calls = 0
  /\ faults = {}

Fault(kind) ==
  /\ kind \in Faults \ faults
  /\ Cardinality(faults) < MaxFaults
  /\ faults' = faults \cup {kind}

-----------------------------------------------------------------------------
(* The worker processes.                                                   *)

\* The message is acknowledged when the task is done, not before.
Acknowledge(w) ==
  /\ held' = [held EXCEPT ![w] = NoMessage]
  /\ active' = [active EXCEPT ![w] = NoTask]

\* The process ends with everything in its event loop.
EndProcess(w) ==
  /\ loop' = [loop EXCEPT ![w] = {}]
  /\ at' = [t \in Tasks |-> IF t \in loop[w] THEN "free" ELSE at[t]]
  /\ cancelled' = cancelled \ loop[w]
  /\ UNCHANGED <<of, copy, next>>

\* process_run_task: a message is delivered to a process that is free, and
\* the coordinator becomes a task of the event loop.
Deliver(w, m, t) ==
  /\ m \in queue
  /\ m.id \notin revoked
  /\ held[w] = NoMessage
  /\ Spawn(t, m.run)
  /\ queue' = queue \ {m}
  /\ held' = [held EXCEPT ![w] = m]
  /\ active' = [active EXCEPT ![w] = t]
  /\ loop' = [loop EXCEPT ![w] = @ \cup {t}]
  /\ UNCHANGED <<row, cancelled, revoked, used, requestVars, calls, faults>>

\* A message whose task id is revoked is acknowledged and not run.
Discard(m) ==
  /\ m \in queue
  /\ m.id \in revoked
  /\ queue' = queue \ {m}
  /\ UNCHANGED <<row, taskVars, workerVars, revoked, used, requestVars, calls,
                 faults>>

\* The tasks of an event loop advance while the process waits for one.
TaskStep(w, t) ==
  /\ t \in loop[w]
  /\ active[w] # NoTask
  /\ CrawlStep(t)
  /\ UNCHANGED <<queue, workerVars, revoked, used, requestVars, calls, faults>>

\* Mutant: a message whose task failed is returned to the queue.
FinishOrRetry(w) ==
  /\ active[w] # NoTask
  /\ at[active[w]] \in {"ended", "escaped"}
  /\ active[w] \notin cancelled
  /\ Acknowledge(w)
  /\ loop' = [loop EXCEPT ![w] = @ \ {active[w]}]
  /\ queue' = IF at[active[w]] = "escaped" THEN queue \cup {held[w]} ELSE queue
  /\ Goto(active[w], "free")
  /\ UNCHANGED <<row, of, copy, next, cancelled, revoked, used, requestVars,
                 calls, faults>>

\* run_until_complete returns, or raises what escaped from process_run, which
\* nothing in the worker handles.
Done(t) == at[t] \in {"ended", "escaped"}

Finish(w) ==
  /\ active[w] # NoTask
  /\ Done(active[w])
  /\ active[w] \notin cancelled
  /\ Acknowledge(w)
  /\ loop' = [loop EXCEPT ![w] = @ \ {active[w]}]
  /\ Goto(active[w], "free")
  /\ UNCHANGED <<row, of, copy, next, cancelled, queue, revoked, used,
                 requestVars, calls, faults>>

\* A task nobody waits for any more is done.
Reap(w, t) ==
  /\ t \in loop[w]
  /\ t # active[w]
  /\ Done(t)
  /\ loop' = [loop EXCEPT ![w] = @ \ {t}]
  /\ Goto(t, "free")
  /\ UNCHANGED <<row, of, copy, next, cancelled, queue, held, active, revoked,
                 used, requestVars, calls, faults>>

\* A revocation with terminate=True signals the process that runs the task:
\* _task_termination_handler cancels the coordinator.
Terminate(w) ==
  /\ held[w] # NoMessage
  /\ held[w].id \in revoked
  /\ active[w] \notin cancelled
  /\ cancelled' = cancelled \cup {active[w]}
  /\ UNCHANGED <<row, at, of, copy, next, queue, workerVars, revoked, used,
                 requestVars, calls, faults>>

\* SystemExit(0): the process of a terminated task ends.
Exit(w) ==
  /\ active[w] \in cancelled
  /\ at[active[w]] = "ended"
  /\ Acknowledge(w)
  /\ EndProcess(w)
  /\ UNCHANGED <<row, queue, revoked, used, requestVars, calls, faults>>

-----------------------------------------------------------------------------
(* What may go wrong with them.                                            *)

\* Mutant: the message of a lost worker counts as handled.
LoseWorkerAndMessage(w) ==
  /\ Fault("worker")
  /\ held[w] # NoMessage
  /\ Acknowledge(w)
  /\ EndProcess(w)
  /\ UNCHANGED <<row, queue, revoked, used, requestVars, calls>>

\* The process is killed: task_reject_on_worker_lost returns the message.
LoseWorker(w) ==
  /\ Fault("worker")
  /\ held[w] # NoMessage
  /\ queue' = queue \cup {held[w]}
  /\ Acknowledge(w)
  /\ EndProcess(w)
  /\ UNCHANGED <<row, revoked, used, requestVars, calls>>

\* The worker loses the broker, which offers what was not acknowledged again;
\* the task goes on.
LoseConnection(w) ==
  /\ Fault("connection")
  /\ held[w] # NoMessage
  /\ queue' = queue \cup {held[w]}
  /\ UNCHANGED <<row, taskVars, workerVars, revoked, used, requestVars, calls>>

\* soft_time_limit: SoftTimeLimitExceeded is raised while the event loop waits
\* for a page.  run_until_complete ends with it, the task stays in the loop.
SoftLimit(w) ==
  /\ active[w] # NoTask
  /\ Running(active[w], "crawl")
  /\ Fault("softLimit")
  /\ Acknowledge(w)
  /\ UNCHANGED <<row, taskVars, loop, queue, revoked, used, requestVars, calls>>

\* time_limit: the process is killed, the message counts as handled.
HardLimit(w) ==
  /\ active[w] # NoTask
  /\ Running(active[w], "crawl")
  /\ Fault("hardLimit")
  /\ Acknowledge(w)
  /\ EndProcess(w)
  /\ UNCHANGED <<row, queue, revoked, used, requestVars, calls>>

WorkerStep(w) ==
  \/ \E m \in queue, t \in Tasks : Deliver(w, m, t)
  \/ \E t \in Tasks : TaskStep(w, t) \/ Reap(w, t)
  \/ Finish(w) \/ Terminate(w) \/ Exit(w)

WorkerFault(w) ==
  LoseWorker(w) \/ LoseConnection(w) \/ SoftLimit(w) \/ HardLimit(w)

-----------------------------------------------------------------------------
(* The requests.                                                           *)

RequestGoto(r, where) == reqAt' = [reqAt EXCEPT ![r] = where]

\* The workers have acted on what was revoked.
Heard ==
  \A w \in Workers :
    held[w] # NoMessage /\ held[w].id \in revoked => active[w] \in cancelled

\* A request loads the run.  Nothing waits for the workers to act on what an
\* earlier request revoked: that they have not is a fault of its own.
Admit(r, x) ==
  /\ reqAt[r] = "idle"
  /\ calls < MaxCalls
  /\ calls' = calls + 1
  /\ reqRun' = [reqRun EXCEPT ![r] = x]
  /\ IF Heard THEN UNCHANGED faults ELSE Fault("late")

\* create_crawl_run, then dispatch_run.
Create(r, x) ==
  /\ row[x].status = "absent"
  /\ Admit(r, x)
  /\ Write(x, Created)
  /\ reqCopy' = [reqCopy EXCEPT ![r] = Created]
  /\ RequestGoto(r, "refresh")
  /\ UNCHANGED <<taskVars, queue, workerVars, revoked, used>>

Request(r, x) ==
  /\ Admit(r, x)
  /\ reqCopy' = [reqCopy EXCEPT ![r] = row[x]]
  /\ \/ row[x].status = "running" /\ row[x].taskId # NoId /\ RequestGoto(r, "pause")
     \/ row[x].status = "paused" /\ RequestGoto(r, "resume")
     \/ row[x].status \in ActiveStatuses /\ RequestGoto(r, "kill")
  /\ UNCHANGED <<row, taskVars, queue, workerVars, revoked, used>>

\* Mutant: the run is paused or killed without telling the workers.
RevokeNothing(r, from, to) ==
  /\ reqAt[r] = from
  /\ RequestGoto(r, to)
  /\ UNCHANGED <<row, taskVars, queue, workerVars, revoked, used, reqRun, reqCopy,
                 calls, faults>>

\* pause_run and kill_run broadcast the revocation before they commit.  No
\* worker may be there to hear it; without a broker the request fails.
Revoke(r, from, to) ==
  /\ reqAt[r] = from
  /\ IF reqCopy[r].taskId = NoId
       THEN RequestGoto(r, to) /\ UNCHANGED <<revoked, faults>>
       ELSE \/ /\ revoked' = revoked \cup {reqCopy[r].taskId}
               /\ RequestGoto(r, to)
               /\ UNCHANGED faults
            \/ Fault("broadcast") /\ RequestGoto(r, to) /\ UNCHANGED revoked
            \/ Fault("broker") /\ RequestGoto(r, "idle") /\ UNCHANGED revoked
  /\ UNCHANGED <<row, taskVars, queue, workerVars, used, reqRun, reqCopy, calls>>

\* The commit of pause_run and kill_run.
Commit(r, from, status) ==
  /\ reqAt[r] = from
  /\ LET c == reqCopy[r]
     IN  Write(reqRun[r], Sent(reqRun[r], c, Copied(status, c.control, NoId, c)))
  /\ RequestGoto(r, "idle")
  /\ UNCHANGED <<taskVars, queue, workerVars, revoked, used, reqRun, reqCopy,
                 calls, faults>>

\* resume_run commits the status first and dispatches the run afterwards.
Resume(r) ==
  /\ reqAt[r] = "resume"
  /\ LET c == reqCopy[r]
     IN  Write(reqRun[r],
               Sent(reqRun[r], c, Copied("running", NoControl, NoId, c)))
  /\ RequestGoto(r, "refresh")
  /\ UNCHANGED <<taskVars, queue, workerVars, revoked, used, reqRun, reqCopy,
                 calls, faults>>

\* What was committed is read back before the dispatch.
Refresh(r) ==
  /\ reqAt[r] = "refresh"
  /\ reqCopy' = [reqCopy EXCEPT ![r] = row[reqRun[r]]]
  /\ RequestGoto(r, "dispatch")
  /\ UNCHANGED <<row, taskVars, queue, workerVars, revoked, used, reqRun, calls,
                 faults>>

\* CeleryRunDispatcher.dispatch commits a new task id, then sends the message.
Dispatch(r) ==
  /\ reqAt[r] = "dispatch"
  /\ LET x == reqRun[r]
         c == reqCopy[r]
     IN  IF c.status \in {"pending", "running"}
           THEN \E id \in TaskIds \ used :
                  LET assigned == Copied(c.status, c.control, id, c)
                  IN  /\ used' = used \cup {id}
                      /\ Write(x, Flushed(x, c, assigned, FALSE))
                      /\ reqCopy' = [reqCopy EXCEPT ![r] = assigned]
                      /\ RequestGoto(r, "enqueue")
           ELSE RequestGoto(r, "idle") /\ UNCHANGED <<row, used, reqCopy>>
  /\ UNCHANGED <<taskVars, queue, workerVars, revoked, reqRun, calls, faults>>

\* apply_async, or the broker is not there.
Enqueue(r) ==
  /\ reqAt[r] = "enqueue"
  /\ \/ /\ queue' = queue \cup {[run |-> reqRun[r], id |-> reqCopy[r].taskId]}
        /\ RequestGoto(r, "idle")
        /\ UNCHANGED faults
     \/ Fault("broker") /\ RequestGoto(r, "unassign") /\ UNCHANGED queue
  /\ UNCHANGED <<row, taskVars, workerVars, revoked, used, reqRun, reqCopy, calls>>

\* _clear_task_id: the task id goes, the request fails.
Unassign(r) ==
  /\ reqAt[r] = "unassign"
  /\ LET c == reqCopy[r]
     IN  Write(reqRun[r],
               Flushed(reqRun[r], c, Copied(c.status, c.control, NoId, c), FALSE))
  /\ RequestGoto(r, "idle")
  /\ UNCHANGED <<taskVars, queue, workerVars, revoked, used, reqRun, reqCopy,
                 calls, faults>>

\* The API process ends with the requests it is serving.
LoseApi ==
  /\ Fault("api")
  /\ \E r \in Requests : reqAt[r] # "idle"
  /\ reqAt' = [r \in Requests |-> "idle"]
  /\ UNCHANGED <<row, taskVars, queue, workerVars, revoked, used, reqRun, reqCopy,
                 calls>>

RequestStep(r) ==
  \/ Revoke(r, "pause", "pausing") \/ Commit(r, "pausing", "paused")
  \/ Revoke(r, "kill", "killing") \/ Commit(r, "killing", "killed")
  \/ Resume(r) \/ Refresh(r) \/ Dispatch(r) \/ Enqueue(r) \/ Unassign(r)

Next ==
  \/ \E w \in Workers : WorkerStep(w) \/ WorkerFault(w)
  \/ \E m \in queue : Discard(m)
  \/ \E r \in Requests, x \in Runs : Create(r, x) \/ Request(r, x)
  \/ \E r \in Requests : RequestStep(r)
  \/ LoseApi

Spec == Init /\ [][Next]_vars

\* Workers take messages, act on revocations and end their tasks, requests
\* are served.  Nobody has to send a request and nothing has to fail.
Fairness ==
  /\ \A w \in Workers : WF_vars(WorkerStep(w))
  /\ WF_vars(\E m \in queue : Discard(m))
  /\ \A r \in Requests : WF_vars(RequestStep(r))

FairSpec == Spec /\ Fairness

-----------------------------------------------------------------------------
(* What Celery dispatch must guarantee.                                    *)

\* A worker is at work on the run, or will be.
InFlight(x) ==
  \/ \E m \in queue : m.run = x
  \/ \E w \in Workers : held[w] # NoMessage /\ held[w].run = x

\* The task ids under which an unrevoked coordinator is crawling x.
Crawlers(x) ==
  {w \in Workers : /\ active[w] # NoTask
                   /\ of[active[w]] = x
                   /\ Active(active[w])
                   /\ active[w] \notin cancelled
                   /\ held[w].id \notin revoked}

\* The faults that leave a task at work on a run when the next is dispatched have
\* not happened: the broker delivers once, workers hear of revocations, and
\* before the client's next request, tasks end within the soft time limit.
NothingLeftBehind == faults \cap {"connection", "broadcast", "late", "softLimit"} = {}

\* With one request at a time, no two workers that nobody told to stop crawl the
\* same run: what paused or killed the run revoked the task id of the first
\* before the second was dispatched, and a worker that is lost has stopped when
\* its message is delivered again.
OneCrawler ==
  NothingLeftBehind =>
    \A x \in Runs : \A v, w \in Crawlers(x) : v = w

\* A pending run whose message the broker has leaves that status, though the
\* worker may be lost: the message is returned and a redelivered task starts
\* the run.  Only a kill that revoked its task id stops it.
QueuedRunStarts ==
  \A x \in Runs, id \in TaskIds :
    [run |-> x, id |-> id] \in queue /\ row[x].status = "pending"
      ~> row[x].status # "pending" \/ id \in revoked

\* Work on a run comes to an end: a message that is returned by lost workers
\* or offered twice does not keep a run busy forever.
WorkEnds ==
  \A x \in Runs : InFlight(x) ~> ~InFlight(x)

\* When the last message of a run is gone, the run is not left running, unless
\* the message was revoked, its task was stopped by the time limit or let an
\* exception escape: a worker that is lost, whenever that is, leaves no run that
\* is shown as running with nobody to run it.
RunningIsAttended ==
  [][\A x \in Runs :
       NothingLeftBehind' /\ InFlight(x) /\ ~InFlight(x)' /\ row'[x].status = "running"
         => \/ \E m \in queue \cup {held[w] : w \in Workers} :
                  m # NoMessage /\ m.run = x /\ m.id \in revoked
            \/ \E w \in Workers :
                  HardLimit(w) \/ (Finish(w) /\ at[active[w]] = "escaped")]_vars

\* A terminal status has no successor, "CrawlStatus.KILLED: set()": a killed
\* run stays killed.
KilledIsFinal ==
  [][\A x \in Runs : row[x].status = "killed" => row'[x].status = "killed"]_vars
=============================================================================
