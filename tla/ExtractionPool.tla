--------------------------- MODULE ExtractionPool ---------------------------
(***************************************************************************)
(* The pool of extraction processes                                        *)
(* (app/services/pipeline/extraction_process.py).                          *)
(*                                                                         *)
(* A request is given to the worker with the fewest requests, waits for    *)
(* its lock, starts its process when there is none, writes itself into the *)
(* pipe and reads the answer.  A request that misses its deadline, fails   *)
(* or is cancelled closes the process, because an answer may still be on   *)
(* its way.  Shutdown closes every worker without asking for its lock.     *)
(* A step is what the code does between two suspension points.             *)
(*                                                                         *)
(* A request creates at most one worker and starts at most one process:    *)
(* both are named after it.                                                *)
(***************************************************************************)
EXTENDS Naturals, FiniteSets, Sequences

CONSTANTS
  Requests,     \* the calls of run_extraction_process
  NoOne,        \* no request, no worker, no process
  Ready,        \* the frame a process sends when it is up
  Concurrency   \* extraction_process_concurrency

ASSUME RequestsAssumption    == IsFiniteSet(Requests)
ASSUME NamesAssumption       == /\ NoOne \notin Requests \cup {Ready}
                                /\ Ready \notin Requests
ASSUME ConcurrencyAssumption == Concurrency \in Nat \ {0}

VARIABLES
  pool,      \* the workers in _WORKERS
  lock,      \* who holds the lock of a worker
  proc,      \* the process of a worker
  life,      \* what has become of a process
  asked,     \* the request a process works on or has in its input pipe
  frames,    \* the output pipe of a process
  place,     \* where a request is
  mine,      \* the worker a request was given to
  uses,      \* the process a request talks to or waits for to end
  answer,    \* whose answer a request has got
  dropped    \* history: workers that had requests when the pool was emptied

workerVars == <<pool, lock, proc, dropped>>
processVars == <<life, asked, frames>>
requestVars == <<place, mine, uses, answer>>
vars == <<workerVars, processVars, requestVars>>

Names == Requests \cup {NoOne}

\* A request holds the lock of its worker in these places.
Holding == {"spawning", "starting", "asking", "reading", "closing"}
Ended == {"answered", "failed"}
Places == {"new", "waiting"} \cup Holding \cup Ended

\* A process that died is told from a running one only when its returncode
\* has arrived.
Lives == {"none", "alive", "terminating", "dead", "reaped"}
Running == {"alive", "terminating"}

TypeOK ==
  /\ pool \subseteq Requests
  /\ dropped \subseteq Requests
  /\ lock \in [Requests -> Names]
  /\ proc \in [Requests -> Names]
  /\ life \in [Requests -> Lives]
  /\ asked \in [Requests -> Names]
  /\ frames \in [Requests -> Seq(Requests \cup {Ready})]
  /\ place \in [Requests -> Places]
  /\ mine \in [Requests -> Names]
  /\ uses \in [Requests -> Names]
  /\ answer \in [Requests -> Names]

Init ==
  /\ pool = {}
  /\ dropped = {}
  /\ lock = [w \in Requests |-> NoOne]
  /\ proc = [w \in Requests |-> NoOne]
  /\ life = [p \in Requests |-> "none"]
  /\ asked = [p \in Requests |-> NoOne]
  /\ frames = [p \in Requests |-> <<>>]
  /\ place = [r \in Requests |-> "new"]
  /\ mine = [r \in Requests |-> NoOne]
  /\ uses = [r \in Requests |-> NoOne]
  /\ answer = [r \in Requests |-> NoOne]

\* pending_count: execute() counts a request from before it asks for the lock
\* until it is through.
PendingOn(w) == {r \in Requests : mine[r] = w /\ place[r] \in Holding \cup {"waiting"}}
Pending(w) == Cardinality(PendingOn(w))

LeastPending == {w \in pool : \A v \in pool : Pending(w) <= Pending(v)}

\* A worker is added when there is none, or when all are busy and there may
\* be more.
\* Mutant of Wanted: one worker too many.
WantedOneMore == \/ pool = {}
                 \/ /\ \A w \in pool : Pending(w) > 0
                    /\ Cardinality(pool) <= Concurrency

Wanted == \/ pool = {}
          \/ /\ \A w \in pool : Pending(w) > 0
             /\ Cardinality(pool) < Concurrency

Submit(r) ==
  /\ place[r] = "new"
  /\ place' = [place EXCEPT ![r] = "waiting"]
  /\ IF Wanted
       THEN /\ pool' = pool \cup {r}
            /\ mine' = [mine EXCEPT ![r] = r]
       ELSE \E w \in LeastPending :
              /\ mine' = [mine EXCEPT ![r] = w]
              /\ UNCHANGED pool
  /\ UNCHANGED <<lock, proc, dropped, processVars, uses, answer>>

\* Mutant of WorkerGone: a process that is up is not recognised.
WorkerAlwaysGone(w) == proc[w] \in Names

WorkerGone(w) == proc[w] = NoOne \/ life[proc[w]] = "reaped"

\* The lock is taken and _ensure_started looks at the process.
Enter(r) ==
  LET w == mine[r] IN
  /\ place[r] = "waiting"
  /\ lock[w] = NoOne
  /\ lock' = [lock EXCEPT ![w] = r]
  /\ IF WorkerGone(w)
       THEN /\ place' = [place EXCEPT ![r] = "spawning"]
            /\ UNCHANGED uses
       ELSE /\ place' = [place EXCEPT ![r] = "asking"]
            /\ uses' = [uses EXCEPT ![r] = proc[w]]
  /\ UNCHANGED <<pool, proc, dropped, processVars, mine, answer>>

Spawned(r) ==
  /\ place[r] = "spawning"
  /\ life' = [life EXCEPT ![r] = "alive"]
  /\ proc' = [proc EXCEPT ![mine[r]] = r]
  /\ uses' = [uses EXCEPT ![r] = r]
  /\ place' = [place EXCEPT ![r] = "starting"]
  /\ UNCHANGED <<pool, lock, dropped, asked, frames, mine, answer>>

\* close() takes the process away from the worker, terminates it and waits.
Terminated(P) ==
  [p \in Requests |-> IF p \in P /\ life[p] = "alive" THEN "terminating" ELSE life[p]]

\* Nobody looks any more at the pipes of a process that was told to end and
\* has lost its reader.
Close(r) ==
  LET p == proc[mine[r]]
      Unread(q) == q = uses[r] /\ (q = p \/ life[q] # "alive") IN
  /\ proc' = [proc EXCEPT ![mine[r]] = NoOne]
  /\ uses' = [uses EXCEPT ![r] = p]
  /\ life' = Terminated({p})
  /\ asked' = [q \in Requests |-> IF Unread(q) THEN NoOne ELSE asked[q]]
  /\ frames' = [q \in Requests |-> IF Unread(q) THEN <<>> ELSE frames[q]]
  /\ place' = [place EXCEPT ![r] = "closing"]
  /\ UNCHANGED <<pool, lock, dropped, mine, answer>>

End(r, end) ==
  /\ place' = [place EXCEPT ![r] = end]
  /\ mine' = [mine EXCEPT ![r] = NoOne]
  /\ uses' = [uses EXCEPT ![r] = NoOne]

Release(r, end) == End(r, end) /\ lock' = [lock EXCEPT ![mine[r]] = NoOne]

\* The ready frame is read.  _ensure_started returns self.process, which a
\* shutdown may have taken away meanwhile.
Started(r) ==
  LET p == uses[r] IN
  /\ place[r] = "starting"
  /\ frames[p] # <<>>
  /\ Head(frames[p]) = Ready
  /\ proc[mine[r]] = p
  /\ frames' = [frames EXCEPT ![p] = Tail(@)]
  /\ place' = [place EXCEPT ![r] = "asking"]
  /\ UNCHANGED <<workerVars, life, asked, mine, uses, answer>>

\* The pickled request is written; a process that died keeps nothing of it.
Ask(r) ==
  LET p == uses[r] IN
  /\ place[r] = "asking"
  /\ asked' = IF life[p] = "alive" THEN [asked EXCEPT ![p] = r] ELSE asked
  /\ place' = [place EXCEPT ![r] = "reading"]
  /\ UNCHANGED <<workerVars, life, frames, mine, uses, answer>>

\* The next frame of the pipe is taken for the answer.
Read(r) ==
  LET p == uses[r] IN
  /\ place[r] = "reading"
  /\ frames[p] # <<>>
  /\ frames' = [frames EXCEPT ![p] = Tail(@)]
  /\ answer' = [answer EXCEPT ![r] = Head(frames[p])]
  /\ Release(r, "answered")
  /\ UNCHANGED <<pool, proc, dropped, life, asked>>

\* Mutant of GiveUp: a missed deadline leaves the process to the next request.
GiveUpKeepingProcess(r) ==
  /\ place[r] \in {"spawning", "starting", "asking", "reading"}
  /\ Release(r, "failed")
  /\ UNCHANGED <<pool, proc, dropped, processVars, answer>>

\* The handlers of _run and _ensure_started: the process cannot be started, is
\* not ready in time, closes its pipe, gets or sends too much, or misses the
\* deadline; or the caller is cancelled (its URL timed out or its run was
\* stopped).
GiveUp(r) ==
  /\ place[r] \in {"spawning", "starting", "asking", "reading"}
  /\ Close(r)

\* Mutant of Closed: the lock is not released when closing ends.
ClosedKeepingLock(r) ==
  /\ place[r] = "closing"
  /\ uses[r] # NoOne => life[uses[r]] \notin Running
  /\ End(r, "failed")
  /\ UNCHANGED <<workerVars, processVars, answer>>

Closed(r) ==
  /\ place[r] = "closing"
  /\ uses[r] # NoOne => life[uses[r]] \notin Running
  /\ Release(r, "failed")
  /\ UNCHANGED <<pool, proc, dropped, processVars, answer>>

\* A caller cancelled while it closes: the transport, closed in `finally`,
\* kills what still runs.
CancelClosing(r) ==
  /\ place[r] = "closing"
  /\ uses[r] # NoOne
  /\ life[uses[r]] \in Running
  /\ life' = [life EXCEPT ![uses[r]] = "dead"]
  /\ Release(r, "failed")
  /\ UNCHANGED <<pool, proc, dropped, asked, frames, answer>>

CancelWaiting(r) ==
  /\ place[r] = "waiting"
  /\ End(r, "failed")
  /\ UNCHANGED <<workerVars, processVars, answer>>

RequestStep(r) == Enter(r) \/ Spawned(r) \/ Started(r) \/ Ask(r) \/ Read(r)
                  \/ GiveUp(r) \/ Closed(r)

\* worker_main, in the process.
Up(p) ==
  /\ life[p] = "alive"
  /\ asked[p] = NoOne /\ frames[p] = <<>>
  /\ place[p] = "starting"
  /\ frames' = [frames EXCEPT ![p] = <<Ready>>]
  /\ UNCHANGED <<workerVars, life, asked, requestVars>>

Respond(p) ==
  /\ life[p] \in Running
  /\ asked[p] # NoOne
  /\ frames' = [frames EXCEPT ![p] = Append(@, asked[p])]
  /\ asked' = [asked EXCEPT ![p] = NoOne]
  /\ UNCHANGED <<workerVars, life, requestVars>>

Dies(p) ==
  /\ life' = [life EXCEPT ![p] = "dead"]
  /\ UNCHANGED <<workerVars, asked, frames, requestVars>>

Crash(p) == life[p] = "alive" /\ Dies(p)

\* The process obeys terminate(), or is killed after the grace time.
Exit(p) == life[p] = "terminating" /\ Dies(p)

\* The returncode of a dead process arrives; only its worker looks at it.
Reap(p) ==
  /\ life[p] = "dead"
  /\ \E w \in Requests : proc[w] = p
  /\ life' = [life EXCEPT ![p] = "reaped"]
  /\ UNCHANGED <<workerVars, asked, frames, requestVars>>

\* shutdown_extraction_processes: at the end of the backend, or of a Celery
\* task that was told to stop.  Requests may be under way.
Shutdown ==
  /\ pool # {}
  /\ dropped' = dropped \cup {w \in pool : Pending(w) > 0}
  /\ pool' = {}
  /\ proc' = [w \in Requests |-> IF w \in pool THEN NoOne ELSE proc[w]]
  /\ life' = Terminated({proc[w] : w \in pool})
  /\ UNCHANGED <<lock, asked, frames, requestVars>>

ProcessStep(p) == Up(p) \/ Respond(p) \/ Crash(p) \/ Exit(p) \/ Reap(p)

Next == \/ \E r \in Requests : \/ Submit(r)
                               \/ RequestStep(r)
                               \/ CancelClosing(r)
                               \/ CancelWaiting(r)
                               \/ ProcessStep(r)
        \/ Shutdown

Spec == Init /\ [][Next]_vars

\* Every wait has a deadline (GiveUp is part of RequestStep), a free lock wakes
\* a waiter, and a process that was told to end is killed at last.  Requests
\* being finitely many, it is enough that one of them goes on when one can.
Fairness == /\ WF_vars(\E r \in Requests : RequestStep(r))
            /\ WF_vars(\E p \in Requests : Exit(p))

FairSpec == Spec /\ Fairness

-----------------------------------------------------------------------------
\* A request gets its own answer or none, whatever earlier requests of its
\* worker left behind when they missed their deadline or were cancelled.
AnswersMatch == \A r \in Requests : answer[r] \in {NoOne, r}

\* A process that has not been told to end works only for a request that waits
\* for it: a deadline or a cancellation ends the extraction as well.
EndedRequestsStopExtraction ==
  \A p \in Requests : life[p] = "alive" /\ asked[p] # NoOne
                         => place[asked[p]] = "reading" /\ uses[asked[p]] = p

\* Every process that runs on is known to a worker of the pool, except those
\* started by requests that a shutdown found under way.
StraysComeFromShutdown ==
  \A p \in Requests : life[p] = "alive"
                         => \E w \in pool \cup dropped : proc[w] = p

\* No more processes run than the setting allows, again unless a shutdown found
\* requests under way.
BoundedProcesses ==
  dropped = {} => Cardinality({p \in Requests : life[p] = "alive"}) <= Concurrency

\* No request stays on its way for ever, whatever happens to processes and
\* locks.
RequestsEnd == <>[](\A r \in Requests : place[r] \in Ended \cup {"new"})
=============================================================================
