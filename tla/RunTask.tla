------------------------------ MODULE RunTask -------------------------------
(***************************************************************************)
(* The task that crawls a run, one URL after the other                     *)
(* (_process_run_with_span and _process_urls_sequential in                 *)
(* app/services/crawl/batch_runtime.py), and the run's row that it shares  *)
(* with the requests.  Who creates the task, cancels it and handles what   *)
(* escapes from it differs: LocalRun and CeleryRun extend this module.     *)
(*                                                                         *)
(* Every session works on its own copy of a run, which a commit does not   *)
(* expire.  A step is what the code does between two suspension points,    *)
(* with the database operation that ends it.                               *)
(***************************************************************************)
EXTENDS Integers, FiniteSets, CrawlStatus

CONSTANTS
  Runs,     \* the crawl runs
  Tasks,    \* identities of tasks: asyncio tasks, or the task of a worker
  TaskIds,  \* the task ids a dispatch may store in the summary
  NoId,
  NumUrls   \* the URLs of a run

ASSUME UrlsAssumption == NumUrls \in Nat \ {0}
ASSUME RunsAssumption == Runs # {}
ASSUME IdsAssumption == NoId \notin TaskIds

VARIABLES
  row,        \* the rows of the runs in the database
  at,         \* where each task is
  of,         \* the run it crawls
  copy,       \* its session's copy of the run
  next,       \* the URLs it has finished
  cancelled   \* the tasks that were cancelled and have not noticed yet

taskVars == <<at, of, copy, next, cancelled>>

\* A run's row: "absent" until it is created.  taskId is the task id of the
\* summary, stale whether the last heartbeat is older than
\* stalled_run_threshold_seconds.
Row == [status : Statuses \cup {"absent"},
        control : ControlRequests \cup {NoControl},
        taskId : TaskIds \cup {NoId},
        stale : BOOLEAN]

Absent == [status |-> "absent", control |-> NoControl, taskId |-> NoId,
           stale |-> FALSE]

Created == [status |-> "pending", control |-> NoControl, taskId |-> NoId,
            stale |-> FALSE]

TaskPlaces == {"free", "get", "load", "boot", "resolve", "top", "checkpoint",
               "start", "crawl", "record", "end", "complete", "fail", "failing",
               "escaped", "refailing", "ended"}

TaskTypeOK ==
  /\ row \in [Runs -> Row]
  /\ at \in [Tasks -> TaskPlaces]
  /\ of \in [Tasks -> Runs]
  /\ copy \in [Tasks -> Row]
  /\ next \in [Tasks -> 0 .. NumUrls]
  /\ cancelled \subseteq Tasks

AnyRun == CHOOSE x \in Runs : TRUE

TaskInit ==
  /\ row = [x \in Runs |-> Absent]
  /\ at = [t \in Tasks |-> "free"]
  /\ of = [t \in Tasks |-> AnyRun]
  /\ copy = [t \in Tasks |-> Absent]
  /\ next = [t \in Tasks |-> 0]
  /\ cancelled = {}

-----------------------------------------------------------------------------
(* Rows and copies.                                                        *)

Copied(status, control, taskId, original) ==
  [status |-> status, control |-> control, taskId |-> taskId,
   stale |-> original.stale]

\* The row of x once a session that had loaded c flushed new.  The summary,
\* which holds control and task id, is one value and is sent whole; status and
\* heartbeat are columns of their own and sent only when they changed.
Flushed(x, c, new, touched) ==
  [status  |-> IF new.status = c.status THEN row[x].status ELSE new.status,
   control |-> new.control,
   taskId  |-> new.taskId,
   stale   |-> row[x].stale /\ ~touched]

\* The same for a session that changes nothing else in the summary: one that
\* is what it was when it was loaded is not sent.
Sent(x, c, new) ==
  IF new.control = c.control /\ new.taskId = c.taskId
    THEN Copied(IF new.status = c.status THEN row[x].status ELSE new.status,
                row[x].control, row[x].taskId, row[x])
    ELSE Flushed(x, c, new, FALSE)

Write(x, r) == row' = [row EXCEPT ![x] = r]

-----------------------------------------------------------------------------
(* The steps of a task.                                                    *)

Running(t, where) == at[t] = where /\ t \notin cancelled

Goto(t, where) == at' = [at EXCEPT ![t] = where]

Keep(t, c) == copy' = [copy EXCEPT ![t] = c]

\* session.get: a terminal run is left alone.
Get(t) ==
  /\ Running(t, "get")
  /\ Keep(t, row[of[t]])
  /\ Goto(t, IF row[of[t]].status \in TerminalStatuses THEN "ended" ELSE "load")
  /\ UNCHANGED <<row, next>>

\* refresh: a paused run is left alone, one that has ended since is not.
Load(t) ==
  /\ Running(t, "load")
  /\ Keep(t, row[of[t]])
  /\ Goto(t, IF row[of[t]].status = "paused" THEN "ended" ELSE "boot")
  /\ UNCHANGED <<row, next>>

\* The first commit sends the heartbeat, and the status of a pending run.
Boot(t) ==
  /\ Running(t, "boot")
  /\ LET c == copy[t]
         booted == Copied(IF c.status = "pending" THEN "running" ELSE c.status,
                          c.control, c.taskId, c)
         old == row[of[t]]
     IN  /\ Write(of[t],
               [status |-> IF c.status = "pending" THEN "running" ELSE old.status,
                control |-> old.control, taskId |-> old.taskId, stale |-> FALSE])
         /\ Keep(t, booted)
  /\ Goto(t, "resolve")
  /\ UNCHANGED next

\* The URLs are resolved, the first progress patch is committed.
Resolve(t) ==
  /\ Running(t, "resolve")
  /\ Write(of[t], Flushed(of[t], copy[t], copy[t], FALSE))
  /\ Goto(t, "top")
  /\ UNCHANGED <<copy, next>>

\* Mutant: the loop's bound is off by one.
TopPastEnd(t) ==
  /\ Running(t, "top")
  /\ IF next[t] > NumUrls
       THEN Goto(t, "end") /\ UNCHANGED copy
       ELSE Keep(t, row[of[t]]) /\ Goto(t, "start")
  /\ UNCHANGED <<row, next>>

\* The head of the URL loop refreshes the copy and looks for a request.
Top(t) ==
  /\ Running(t, "top")
  /\ IF next[t] = NumUrls
       THEN Goto(t, "end") /\ UNCHANGED copy
       ELSE /\ Keep(t, row[of[t]])
            /\ Goto(t, IF row[of[t]].control \in ControlRequests
                         THEN "checkpoint" ELSE "start")
  /\ UNCHANGED <<row, next>>

\* Mutant: the request is committed and the loop goes on.
CheckpointWithoutStop(t) ==
  /\ Running(t, "checkpoint")
  /\ LET c == copy[t]
         target == IF c.control = "pause" THEN "paused" ELSE "killed"
         new == Copied(target, NoControl, c.taskId, c)
     IN  Keep(t, new) /\ Write(of[t], Flushed(of[t], c, new, TRUE))
  /\ Goto(t, "start")
  /\ UNCHANGED next

\* _apply_sequential_control_request
Checkpoint(t) ==
  /\ Running(t, "checkpoint")
  /\ LET c == copy[t]
         target == IF c.control = "pause" THEN "paused" ELSE "killed"
         new == Copied(target, NoControl, c.taskId, c)
     IN  IF CanTransition(c.status, target)
           THEN /\ Keep(t, new)
                /\ Write(of[t], Flushed(of[t], c, new, TRUE))
                /\ Goto(t, "end")
           ELSE Goto(t, "fail") /\ UNCHANGED <<row, copy>>
  /\ UNCHANGED next

\* _log_sequential_url_start
Start(t) ==
  /\ Running(t, "start")
  /\ Write(of[t], Flushed(of[t], copy[t], copy[t], TRUE))
  /\ Goto(t, "crawl")
  /\ UNCHANGED <<copy, next>>

\* The URL is processed in a session of its own; refresh.
Crawl(t) ==
  /\ Running(t, "crawl")
  /\ Keep(t, row[of[t]])
  /\ Goto(t, "record")
  /\ UNCHANGED <<row, next>>

\* Record the result; the loop also ends when max_records is reached.
Record(t) ==
  /\ Running(t, "record")
  /\ Write(of[t], Flushed(of[t], copy[t], copy[t], TRUE))
  /\ next' = [next EXCEPT ![t] = @ + 1]
  /\ Goto(t, "top") \/ Goto(t, "end")
  /\ UNCHANGED copy

\* The last refresh: a terminal run is left alone.
End(t) ==
  /\ Running(t, "end")
  /\ Keep(t, row[of[t]])
  /\ Goto(t, IF row[of[t]].status \in TerminalStatuses THEN "ended"
             ELSE IF CanTransition(row[of[t]].status, "completed")
               THEN "complete" ELSE "fail")
  /\ UNCHANGED <<row, next>>

Complete(t) ==
  /\ Running(t, "complete")
  /\ LET final == Copied("completed", copy[t].control, copy[t].taskId, copy[t])
     IN  Keep(t, final) /\ Write(of[t], Flushed(of[t], copy[t], final, TRUE))
  /\ Goto(t, "ended")
  /\ UNCHANGED next

\* Resolving or processing a URL raises: _process_run_with_span handles some
\* types of exceptions, the others escape to whoever runs the task.
Raise(t) ==
  /\ Running(t, "resolve") \/ Running(t, "crawl")
  /\ Goto(t, "fail") \/ Goto(t, "escaped")
  /\ UNCHANGED <<row, copy, next>>

\* mark_run_failed: the rollback expires the copy, session.get reloads it.
Fail(t) ==
  /\ Running(t, "fail")
  /\ Keep(t, row[of[t]])
  /\ Goto(t, "failing")
  /\ UNCHANGED <<row, next>>

\* persist_failure_state.  A paused run cannot become failed: nothing is
\* written and the ValueError takes the task to otherwise.
PersistFailure(t, where, otherwise) ==
  /\ Running(t, where)
  /\ LET c == copy[t]
         failed == Copied("failed", c.control, c.taskId, c)
     IN  IF c.status \in TerminalStatuses
           THEN Write(of[t], Flushed(of[t], c, c, FALSE)) /\ Goto(t, "ended")
           ELSE IF CanTransition(c.status, "failed")
             THEN /\ Write(of[t], Flushed(of[t], c, failed, FALSE))
                  /\ Goto(t, "ended")
             ELSE Goto(t, otherwise) /\ UNCHANGED row
  /\ UNCHANGED <<copy, next>>

\* Mutant: marking the run failed is tried until it succeeds.
RetryMarkFailed(t) == PersistFailure(t, "failing", "fail")

MarkFailed(t) == PersistFailure(t, "failing", "escaped")

\* CancelledError ends the task where it is.
Cancelled(t) ==
  /\ t \in cancelled
  /\ at[t] # "ended"
  /\ Goto(t, "ended")
  /\ UNCHANGED <<row, copy, next>>

CrawlStep(t) ==
  /\ \/ Get(t) \/ Load(t) \/ Boot(t) \/ Resolve(t) \/ Top(t) \/ Checkpoint(t)
     \/ Start(t) \/ Crawl(t) \/ Record(t) \/ End(t) \/ Complete(t)
     \/ Raise(t) \/ Fail(t) \/ MarkFailed(t) \/ Cancelled(t)
  /\ UNCHANGED <<of, cancelled>>

\* A new task for run x.
Spawn(t, x) ==
  /\ at[t] = "free"
  /\ at' = [at EXCEPT ![t] = "get"]
  /\ of' = [of EXCEPT ![t] = x]
  /\ next' = [next EXCEPT ![t] = 0]
  /\ UNCHANGED copy

\* Time passes without a heartbeat.
Age(x) ==
  /\ row[x].status # "absent"
  /\ ~row[x].stale
  /\ Write(x, [status |-> row[x].status, control |-> row[x].control,
               taskId |-> row[x].taskId, stale |-> TRUE])

Active(t) == at[t] \notin {"free", "ended"}
=============================================================================
