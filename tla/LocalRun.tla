------------------------------ MODULE LocalRun ------------------------------
(***************************************************************************)
(* The life of crawl runs under local dispatch: the create, pause, resume  *)
(* and kill requests (app/services/crawl/service.py), the registry of      *)
(* in-process tasks (app/services/dispatch/local_dispatcher.py), the tasks *)
(* themselves (RunTask), the recovery of stale runs that every dispatch    *)
(* and every start of the backend performs, and the end of the backend     *)
(* process, which takes tasks, registry and requests with it.              *)
(***************************************************************************)
EXTENDS RunTask

CONSTANTS
  Requests,    \* the clients of the API, each with one request at a time
  Startup,     \* the backend's start, which recovers stale runs as well
  NoTask,
  MaxCalls,    \* bound: requests in all
  MaxRestarts  \* bound: ends of the backend process

ASSUME NamesAssumption == Startup \notin Requests /\ NoTask \notin Tasks
ASSUME BoundsAssumption == MaxCalls \in Nat /\ MaxRestarts \in Nat

Actors == Requests \cup {Startup}

VARIABLES
  registry,   \* _local_run_tasks
  reqAt,      \* where each actor is
  reqRun,     \* the run its request is about
  reqCopy,    \* its session's copy of that run
  todo,       \* the stale runs its recovery selected and has not visited
  marked,     \* the run its recovery is about to mark, with the loaded copy
  calls,      \* requests admitted so far
  restarts    \* ends of the process so far

actorVars == <<reqAt, reqRun, reqCopy, todo, marked>>
vars == <<row, taskVars, registry, actorVars, calls, restarts>>

ActorPlaces == {"idle", "pause", "resume", "kill", "killing", "killAbsent",
                "refresh", "recover", "sweep", "mark", "dispatch", "track"}

TypeOK ==
  /\ TaskTypeOK
  /\ registry \in [Runs -> Tasks \cup {NoTask}]
  /\ reqAt \in [Actors -> ActorPlaces]
  /\ reqRun \in [Actors -> Runs]
  /\ reqCopy \in [Actors -> Row]
  /\ todo \in [Actors -> SUBSET (Runs \X {"pending", "running"})]
  /\ marked \in [Actors -> [run : Runs, target : {"killed", "failed"}, copy : Row]]
  /\ calls \in 0 .. MaxCalls
  /\ restarts \in 0 .. MaxRestarts

Init ==
  /\ TaskInit
  /\ registry = [x \in Runs |-> NoTask]
  /\ reqAt = [a \in Actors |-> "idle"]
  /\ reqRun = [a \in Actors |-> AnyRun]
  /\ reqCopy = [a \in Actors |-> Absent]
  /\ todo = [a \in Actors |-> {}]
  /\ marked = [a \in Actors |-> [run |-> AnyRun, target |-> "failed",
                                 copy |-> Absent]]
  /\ calls = 0
  /\ restarts = 0

-----------------------------------------------------------------------------
(* The registry of local tasks.                                            *)

\* get_live_local_run_task
Live(x) == registry[x] # NoTask /\ at[registry[x]] # "ended"

\* Mutant: the task is forgotten and not cancelled.
Forget(x) ==
  /\ registry' = [registry EXCEPT ![x] = NoTask]
  /\ UNCHANGED cancelled

\* clear_local_run_task: forget the task and cancel it unless it is done.
Clear(x) ==
  /\ registry' = [registry EXCEPT ![x] = NoTask]
  /\ cancelled' = IF Live(x) THEN cancelled \cup {registry[x]} ELSE cancelled

\* track_local_run_task: replace the run's task by a new one.
Track(t, x) ==
  /\ Spawn(t, x)
  /\ registry' = [registry EXCEPT ![x] = t]
  /\ cancelled' = IF Live(x) THEN cancelled \cup {registry[x]} ELSE cancelled

\* Mutant: the done callback does not look whose entry it removes.
CleanupAny(t) ==
  /\ at[t] = "ended"
  /\ registry' = [registry EXCEPT ![of[t]] = NoTask]
  /\ Goto(t, "free")
  /\ cancelled' = cancelled \ {t}
  /\ UNCHANGED <<row, of, copy, next, actorVars, calls, restarts>>

\* The done callback forgets the task if it is still the registered one.
Cleanup(t) ==
  /\ at[t] = "ended"
  /\ registry' = IF registry[of[t]] = t
                   THEN [registry EXCEPT ![of[t]] = NoTask] ELSE registry
  /\ Goto(t, "free")
  /\ cancelled' = cancelled \ {t}
  /\ UNCHANGED <<row, of, copy, next, actorVars, calls, restarts>>

\* _run_with_local_session: what escapes from process_run is logged and
\* mark_run_failed is tried, once more if it was tried before.
Escaped(t) ==
  /\ Running(t, "escaped")
  /\ Keep(t, row[of[t]])
  /\ Goto(t, "refailing")
  /\ UNCHANGED <<row, next>>

TaskStep(t) ==
  \/ /\ \/ CrawlStep(t)
        \/ /\ Escaped(t) \/ PersistFailure(t, "refailing", "ended")
           /\ UNCHANGED <<of, cancelled>>
     /\ UNCHANGED <<registry, actorVars, calls, restarts>>
  \/ Cleanup(t)

-----------------------------------------------------------------------------
(* The requests.                                                           *)

ActorGoto(a, where) == reqAt' = [reqAt EXCEPT ![a] = where]

\* A request arrives at a backend that is up and loads the run.
Admit(r, x) ==
  /\ reqAt[r] = "idle"
  /\ reqAt[Startup] = "idle"
  /\ calls < MaxCalls
  /\ calls' = calls + 1
  /\ reqRun' = [reqRun EXCEPT ![r] = x]

\* create_crawl_run, then dispatch_run.
Create(r, x) ==
  /\ row[x].status = "absent"
  /\ Admit(r, x)
  /\ Write(x, Created)
  /\ reqCopy' = [reqCopy EXCEPT ![r] = Created]
  /\ ActorGoto(r, "refresh")
  /\ UNCHANGED <<registry, taskVars, todo, marked, restarts>>

Request(r, x) ==
  /\ Admit(r, x)
  /\ reqCopy' = [reqCopy EXCEPT ![r] = row[x]]
  /\ \/ row[x].status = "running" /\ ActorGoto(r, "pause")
     \/ row[x].status = "paused" /\ ActorGoto(r, "resume")
     \/ row[x].status \in ActiveStatuses /\ ActorGoto(r, "kill")
  /\ UNCHANGED <<row, registry, taskVars, todo, marked, restarts>>

\* With a live task a pause is only requested.
PauseLive(r) ==
  /\ reqAt[r] = "pause"
  /\ Live(reqRun[r])
  /\ LET c == reqCopy[r]
     IN  Write(reqRun[r],
               Sent(reqRun[r], c, Copied(c.status, "pause", c.taskId, c)))
  /\ ActorGoto(r, "idle")
  /\ UNCHANGED <<registry, taskVars, reqRun, reqCopy, todo, marked, calls,
                 restarts>>

\* Without one the task id is revoked and the run is paused on the spot; no
\* task id, or no broker to tell, is an error.
PauseAbsent(r) ==
  /\ reqAt[r] = "pause"
  /\ ~Live(reqRun[r])
  /\ LET c == reqCopy[r]
     IN  \/ UNCHANGED row
         \/ /\ c.taskId # NoId
            /\ Write(reqRun[r],
                     Sent(reqRun[r], c, Copied("paused", c.control, NoId, c)))
  /\ ActorGoto(r, "idle")
  /\ UNCHANGED <<registry, taskVars, reqRun, reqCopy, todo, marked, calls,
                 restarts>>

\* kill_run: a live task is cancelled before the status is committed.
KillLive(r) ==
  /\ reqAt[r] = "kill"
  /\ Live(reqRun[r])
  /\ Clear(reqRun[r])
  /\ ActorGoto(r, "killing")
  /\ UNCHANGED <<row, at, of, copy, next, reqRun, reqCopy, todo, marked, calls,
                 restarts>>

CommitKill(r) ==
  /\ reqAt[r] = "killing"
  /\ LET c == reqCopy[r]
     IN  Write(reqRun[r], Sent(reqRun[r], c, Copied("killed", "kill", NoId, c)))
  /\ ActorGoto(r, "idle")
  /\ UNCHANGED <<registry, taskVars, reqRun, reqCopy, todo, marked, calls,
                 restarts>>

\* Without a live task a task id is revoked, which fails without a broker.
KillAbsent(r) ==
  /\ reqAt[r] = "kill"
  /\ ~Live(reqRun[r])
  /\ \/ ActorGoto(r, "killAbsent")
     \/ reqCopy[r].taskId # NoId /\ ActorGoto(r, "idle")
  /\ UNCHANGED <<row, registry, taskVars, reqRun, reqCopy, todo, marked, calls,
                 restarts>>

CommitKillAbsent(r) ==
  /\ reqAt[r] = "killAbsent"
  /\ LET c == reqCopy[r]
     IN  Write(reqRun[r], Sent(reqRun[r], c, Copied("killed", c.control, NoId, c)))
  /\ ActorGoto(r, "idle")
  /\ UNCHANGED <<registry, taskVars, reqRun, reqCopy, todo, marked, calls,
                 restarts>>

\* resume_run commits the status first and dispatches the run afterwards.
Resume(r) ==
  /\ reqAt[r] = "resume"
  /\ LET c == reqCopy[r]
         sent == Sent(reqRun[r], c, Copied("running", NoControl, NoId, c))
     IN  Write(reqRun[r], sent) /\ reqCopy' = [reqCopy EXCEPT ![r] = sent]
  /\ ActorGoto(r, "refresh")
  /\ UNCHANGED <<registry, taskVars, reqRun, todo, marked, calls, restarts>>

\* What was committed is read back before the dispatch.
Refresh(r) ==
  /\ reqAt[r] = "refresh"
  /\ reqCopy' = [reqCopy EXCEPT ![r] = row[reqRun[r]]]
  /\ ActorGoto(r, "recover")
  /\ UNCHANGED <<row, registry, taskVars, reqRun, todo, marked, calls, restarts>>

-----------------------------------------------------------------------------
(* recover_stale_local_runs, on every dispatch and at startup.             *)

\* Mutant: a dispatched pending run needs a stale heartbeat as well.
StaleByHeartbeat(x) == row[x].status \in {"pending", "running"} /\ row[x].stale

\* _should_recover_stale_run
Stale(x) == \/ row[x].status = "pending" /\ row[x].taskId # NoId
            \/ row[x].status \in {"pending", "running"} /\ row[x].stale

RecoverSelect(a) ==
  /\ reqAt[a] = "recover"
  /\ todo' = [todo EXCEPT ![a] = {<<x, row[x].status>> : x \in {y \in Runs : Stale(y)}}]
  /\ ActorGoto(a, "sweep")
  /\ UNCHANGED <<row, registry, taskVars, reqRun, reqCopy, marked, calls, restarts>>

\* Forget and cancel the run's task, and load the run, which for the run the
\* request is about is the copy the session holds.
RecoverNext(a) ==
  /\ reqAt[a] = "sweep"
  /\ \E stale \in todo[a] :
       LET x == stale[1]
           c == IF a # Startup /\ x = reqRun[a] THEN reqCopy[a] ELSE row[x]
       IN  /\ Clear(x)
           /\ todo' = [todo EXCEPT ![a] = @ \ {stale}]
           /\ IF \/ c.status \in TerminalStatuses /\ c.taskId # NoId
                 \/ c.status = stale[2]
                THEN /\ marked' = [marked EXCEPT ![a] =
                           [run |-> x, copy |-> c,
                            target |-> IF stale[2] = "pending" THEN "killed" ELSE "failed"]]
                     /\ ActorGoto(a, "mark")
                ELSE UNCHANGED <<marked, reqAt>>
  /\ UNCHANGED <<row, at, of, copy, next, reqRun, reqCopy, calls, restarts>>

\* _recover_stale_local_run commits: the task id goes, and a run that was not
\* terminal ends.
RecoverMark(a) ==
  /\ reqAt[a] = "mark"
  /\ LET m == marked[a]
         settled == m.copy.status \in TerminalStatuses
         new == Copied(IF settled THEN m.copy.status ELSE m.target,
                       m.copy.control, NoId, m.copy)
     IN  /\ Write(m.run, IF settled THEN Sent(m.run, m.copy, new)
                         ELSE Flushed(m.run, m.copy, new, FALSE))
         /\ reqCopy' = IF a # Startup /\ m.run = reqRun[a]
                         THEN [reqCopy EXCEPT ![a] = new] ELSE reqCopy
  /\ ActorGoto(a, "sweep")
  /\ UNCHANGED <<registry, taskVars, reqRun, todo, marked, calls, restarts>>

Recovered(a) ==
  /\ reqAt[a] = "sweep"
  /\ todo[a] = {}
  /\ ActorGoto(a, IF a = Startup THEN "idle" ELSE "dispatch")
  /\ UNCHANGED <<row, registry, taskVars, reqRun, reqCopy, todo, marked, calls, restarts>>

\* LocalRunDispatcher.dispatch commits the task id before it starts the task.
Dispatch(r) ==
  /\ reqAt[r] = "dispatch"
  /\ LET c == reqCopy[r]
     IN  IF c.status \in {"pending", "running"}
           THEN /\ \E id \in TaskIds :
                     Write(reqRun[r],
                           Flushed(reqRun[r], c, Copied(c.status, c.control, id, c), FALSE))
                /\ ActorGoto(r, "track")
           ELSE ActorGoto(r, "idle") /\ UNCHANGED row
  /\ UNCHANGED <<registry, taskVars, reqRun, reqCopy, todo, marked, calls,
                 restarts>>

StartTask(r) ==
  /\ reqAt[r] = "track"
  /\ \E t \in Tasks : Track(t, reqRun[r])
  /\ ActorGoto(r, "idle")
  /\ UNCHANGED <<row, reqRun, reqCopy, todo, marked, calls, restarts>>

RequestStep(r) ==
  \/ PauseLive(r) \/ PauseAbsent(r) \/ Resume(r) \/ Refresh(r)
  \/ Dispatch(r) \/ StartTask(r)
  \/ KillLive(r) \/ CommitKill(r) \/ KillAbsent(r) \/ CommitKillAbsent(r)

RecoveryStep(a) ==
  RecoverSelect(a) \/ RecoverNext(a) \/ RecoverMark(a) \/ Recovered(a)

-----------------------------------------------------------------------------
TimePasses(x) ==
  /\ Age(x)
  /\ UNCHANGED <<registry, taskVars, actorVars, calls, restarts>>

\* The backend process ends and starts again.
Restart ==
  /\ restarts < MaxRestarts
  /\ restarts' = restarts + 1
  /\ registry' = [x \in Runs |-> NoTask]
  /\ at' = [t \in Tasks |-> "free"]
  /\ cancelled' = {}
  /\ reqAt' = [a \in Actors |-> IF a = Startup THEN "recover" ELSE "idle"]
  /\ todo' = [a \in Actors |-> {}]
  /\ UNCHANGED <<row, of, copy, next, reqRun, reqCopy, marked, calls>>

Next ==
  \/ \E t \in Tasks : TaskStep(t)
  \/ \E r \in Requests, x \in Runs : Create(r, x) \/ Request(r, x)
  \/ \E r \in Requests : RequestStep(r)
  \/ \E a \in Actors : RecoveryStep(a)
  \/ \E x \in Runs : TimePasses(x)
  \/ Restart

Spec == Init /\ [][Next]_vars

\* The event loop runs what is ready, URLs end within their timeouts, time
\* passes.  Nobody has to send a request; the process need not end.
Fairness ==
  /\ \A t \in Tasks : WF_vars(TaskStep(t))
  /\ \A r \in Requests : WF_vars(RequestStep(r))
  /\ \A a \in Actors : WF_vars(RecoveryStep(a))
  /\ \A x \in Runs : WF_vars(TimePasses(x))

FairSpec == Spec /\ Fairness

-----------------------------------------------------------------------------
(* What local dispatch must guarantee.                                     *)

\* A task that is still working and was not told to stop is the one the
\* registry names for its run: every pause, kill and recovery reaches it, and
\* no two tasks crawl the same run (track_local_run_task, Cleanup).
LiveTaskIsRegistered ==
  \A t \in Tasks : Active(t) /\ t \notin cancelled => registry[of[t]] = t

\* With one request at a time, nobody crawls a run that is shown as paused or
\* ended: its task, if any, is on its way out or has not looked yet.
SettledRunIsNotCrawled ==
  \A t \in Tasks :
    /\ Active(t) /\ t \notin cancelled
    /\ row[of[t]].status \in TerminalStatuses \cup {"paused"}
    => at[t] \in {"get", "end", "fail", "failing", "escaped", "refailing"}

\* With one request at a time, a run that was paused leaves that status only
\* by being resumed or killed: the task that paused it, and still goes through
\* the completion and both failure handlers, does not end it.
PauseIsStable ==
  [][\A x \in Runs :
       row[x].status = "paused" /\ row'[x].status # "paused"
         => \E r \in Requests : reqRun[r] = x /\ reqAt[r] \in {"resume", "killing", "killAbsent"}]_vars

\* Every task comes to an end, so that its done callback runs: the task of a
\* paused run too, which completion and both attempts to mark it failed refuse.
TasksEnd == \A t \in Tasks : Active(t) ~> ~Active(t)

\* Interrupted work does not stay orphaned: a run that was given a task id does
\* not stay pending, whenever the backend ends (dispatch commits the id first,
\* recovery takes every pending run with one), and the startup fails a run that
\* is shown as running with a stale heartbeat.
NothingStaysOrphaned ==
  \A x \in Runs :
    /\ row[x].status = "pending" /\ row[x].taskId # NoId ~> row[x].status # "pending"
    /\ reqAt[Startup] = "recover" /\ row[x].status = "running" /\ row[x].stale
         ~> row[x].status = "failed"
=============================================================================
