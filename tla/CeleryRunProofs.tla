-------------------------- MODULE CeleryRunProofs ---------------------------
(***************************************************************************)
(* Machine-checked proofs about CeleryRun, for every set of runs, tasks,   *)
(* workers and clients, every number of URLs and every bound on requests   *)
(* and faults.  What holds with one request at a time assumes that there   *)
(* is one client.                                                          *)
(***************************************************************************)
EXTENDS CeleryRun, RunTaskProofs, FiniteSetTheorems

-----------------------------------------------------------------------------
(* Type correctness.                                                       *)

\* A worker process waits for a task just when it holds a message.
Occupied == \A w \in Workers : active[w] = NoTask <=> held[w] = NoMessage

\* A message is only sent for a task id.
Assigned == \A r \in Requests : reqAt[r] = "enqueue" => reqCopy[r].taskId \in TaskIds

TypeInv == TypeOK /\ UrlsLeft /\ Occupied /\ Assigned

LEMMA InitTypes == Init => TypeInv
<1>. SUFFICES ASSUME Init PROVE TypeInv
  OBVIOUS
<1>1. Absent \in Row
  BY RowNames DEF Absent, Row
<1>2. TaskTypeOK
  BY <1>1, RowNames, UrlsAssumption DEF Init, TaskInit, TaskTypeOK, TaskPlaces
<1>3. UrlsLeft
  BY DEF Init, TaskInit, UrlsLeft
<1>4. QED
  BY <1>1, <1>2, <1>3, RowNames, BoundsAssumption
     DEF Init, TypeInv, TypeOK, Occupied, Assigned, RequestPlaces

\* What stays typed and occupied when a message is acknowledged.
LEMMA AcknowledgeTypes ==
  ASSUME TypeInv, NEW w \in Workers, Acknowledge(w)
  PROVE  /\ held' \in [Workers -> Messages \cup {NoMessage}]
         /\ active' \in [Workers -> Tasks \cup {NoTask}]
         /\ Occupied'
BY DEF Acknowledge, Occupied, TypeInv, TypeOK

\* What the end of a worker process leaves well typed.
LEMMA ProcessTypes ==
  ASSUME TypeInv, NEW w \in Workers, EndProcess(w), UNCHANGED row
  PROVE  TaskTypeOK' /\ UrlsLeft' /\ loop' \in [Workers -> SUBSET Tasks]
BY DEF EndProcess, TypeInv, TypeOK, TaskTypeOK, TaskPlaces, UrlsLeft

LEMMA FaultTypes ==
  ASSUME TypeInv, NEW kind, Fault(kind)
  PROVE  faults' \subseteq Faults
BY DEF Fault, TypeInv, TypeOK

LEMMA WorkerTypes ==
  ASSUME TypeInv, NEW w \in Workers, WorkerStep(w)
  PROVE  TypeInv'
<1>1. /\ TaskTypeOK /\ UrlsLeft /\ held \in [Workers -> Messages \cup {NoMessage}]
      /\ active \in [Workers -> Tasks \cup {NoTask}] /\ loop \in [Workers -> SUBSET Tasks]
      /\ queue \subseteq Messages
  BY DEF TypeInv, TypeOK
<1>2. ASSUME TaskTypeOK', UrlsLeft', UNCHANGED <<queue, workerVars, revoked, used, requestVars, calls, faults>>
      PROVE  TypeInv'
  BY <1>2 DEF workerVars, requestVars, TypeInv, TypeOK, Occupied, Assigned
<1>3. ASSUME NEW m \in queue, NEW t \in Tasks, Deliver(w, m, t) PROVE TypeInv'
  <2>1. m \in Messages /\ m.run \in Runs
    BY <1>1 DEF Messages
  <2>2. TaskTypeOK' /\ UrlsLeft'
    BY <1>1, <1>3, <2>1, UrlsAssumption DEF Deliver, Spawn, TaskTypeOK, TaskPlaces, UrlsLeft
  <2>3. /\ queue' \subseteq Messages /\ held' \in [Workers -> Messages \cup {NoMessage}]
        /\ active' \in [Workers -> Tasks \cup {NoTask}] /\ loop' \in [Workers -> SUBSET Tasks]
    BY <1>1, <1>3, <2>1 DEF Deliver
  <2>4. Occupied'
    BY <1>1, <1>3, <2>1, NamesAssumption, MessageAssumption DEF Deliver, Occupied, TypeInv
  <2>5. QED
    BY <1>3, <2>2, <2>3, <2>4 DEF Deliver, requestVars, TypeInv, TypeOK, Assigned
<1>4. ASSUME NEW t \in Tasks, TaskStep(w, t) PROVE TypeInv'
  BY <1>1, <1>2, <1>4, TaskTypes, TaskUrls DEF TaskStep
<1>5. ASSUME NEW t \in Tasks, Reap(w, t) PROVE TypeInv'
  <2>1. TaskTypeOK' /\ UrlsLeft' /\ loop' \in [Workers -> SUBSET Tasks]
    BY <1>1, <1>5 DEF Reap, Goto, TaskTypeOK, TaskPlaces, UrlsLeft
  <2>2. QED
    BY <1>5, <2>1 DEF Reap, requestVars, TypeInv, TypeOK, Occupied, Assigned
<1>6. CASE Finish(w)
  <2>1. active[w] \in Tasks
    BY <1>1, <1>6 DEF Finish
  <2>2. TaskTypeOK' /\ UrlsLeft' /\ loop' \in [Workers -> SUBSET Tasks]
    BY <1>1, <1>6, <2>1 DEF Finish, Goto, TaskTypeOK, TaskPlaces, UrlsLeft
  <2>3. QED
    BY <1>6, <2>2, AcknowledgeTypes DEF Finish, requestVars, TypeInv, TypeOK, Assigned
<1>7. CASE Terminate(w)
  <2>1. active[w] \in Tasks
    BY <1>1, <1>7 DEF Terminate, TypeInv, Occupied
  <2>2. TaskTypeOK' /\ UrlsLeft'
    BY <1>1, <1>7, <2>1 DEF Terminate, TaskTypeOK, UrlsLeft
  <2>3. QED
    BY <1>2, <1>7, <2>2 DEF Terminate
<1>8. CASE Exit(w)
  BY <1>8, ProcessTypes, AcknowledgeTypes DEF Exit, requestVars, TypeInv, TypeOK, Assigned
<1>9. QED
  BY <1>3, <1>4, <1>5, <1>6, <1>7, <1>8 DEF WorkerStep

LEMMA WorkerFaultTypes ==
  ASSUME TypeInv, NEW w \in Workers, WorkerFault(w)
  PROVE  TypeInv'
<1>1. held \in [Workers -> Messages \cup {NoMessage}] /\ queue \subseteq Messages
  BY DEF TypeInv, TypeOK
<1>2. faults' \subseteq Faults
  BY FaultTypes DEF WorkerFault, LoseWorker, LoseConnection, SoftLimit, HardLimit
<1>3. CASE LoseWorker(w) \/ HardLimit(w)
  <2>1. queue' \subseteq Messages
    BY <1>1, <1>3 DEF LoseWorker, HardLimit
  <2>2. QED
    BY <1>2, <1>3, <2>1, ProcessTypes, AcknowledgeTypes
       DEF LoseWorker, HardLimit, requestVars, TypeInv, TypeOK, Assigned
<1>4. CASE LoseConnection(w)
  <2>1. queue' \subseteq Messages
    BY <1>1, <1>4 DEF LoseConnection
  <2>2. QED
    BY <1>2, <1>4, <2>1 DEF LoseConnection, taskVars, workerVars, requestVars, TypeInv, TypeOK,
                            TaskTypeOK, UrlsLeft, Occupied, Assigned
<1>5. CASE SoftLimit(w)
  BY <1>2, <1>5, AcknowledgeTypes
     DEF SoftLimit, taskVars, requestVars, TypeInv, TypeOK, TaskTypeOK, UrlsLeft, Assigned
<1>6. QED
  BY <1>3, <1>4, <1>5 DEF WorkerFault

\* What a request leaves alone, and what it writes, is well typed.
LEMMA SharedTypes ==
  ASSUME TypeInv, UNCHANGED <<taskVars, workerVars>>, row' \in [Runs -> Row],
         queue' \subseteq Messages, revoked' \subseteq TaskIds, used' \subseteq TaskIds,
         reqAt' \in [Requests -> RequestPlaces], reqRun' \in [Requests -> Runs],
         reqCopy' \in [Requests -> Row], calls' \in 0 .. MaxCalls, faults' \subseteq Faults,
         Assigned'
  PROVE  TypeInv'
BY DEF taskVars, workerVars, TypeInv, TypeOK, TaskTypeOK, UrlsLeft, Occupied

LEMMA AdmitTypes ==
  ASSUME TypeInv, NEW r \in Requests, NEW x \in Runs, Create(r, x) \/ Request(r, x)
  PROVE  TypeInv'
<1>1. Created \in Row /\ row \in [Runs -> Row]
  BY RowNames DEF Created, Row, TypeInv, TypeOK, TaskTypeOK
<1>2. calls' \in 0 .. MaxCalls /\ reqRun' \in [Requests -> Runs]
  BY BoundsAssumption DEF Create, Request, Admit, TypeInv, TypeOK
<1>3. faults' \subseteq Faults
  BY FaultTypes DEF Create, Request, Admit, TypeInv, TypeOK
<1>4. row' \in [Runs -> Row]
  BY <1>1, WriteTypes DEF Create, Request, TypeInv, TypeOK
<1>5. reqCopy' \in [Requests -> Row] /\ reqAt' \in [Requests -> RequestPlaces]
  BY <1>1 DEF Create, Request, RequestGoto, RequestPlaces, TypeInv, TypeOK
<1>6. /\ queue' \subseteq Messages /\ revoked' \subseteq TaskIds /\ used' \subseteq TaskIds
      /\ UNCHANGED <<taskVars, workerVars>>
  BY DEF Create, Request, TypeInv, TypeOK
<1>7. Assigned'
  BY DEF Create, Request, RequestGoto, Assigned, TypeInv, TypeOK
<1>8. QED
  BY <1>2, <1>3, <1>4, <1>5, <1>6, <1>7, SharedTypes

\* The steps of a request keep the types.
LEMMA RequestTypes ==
  ASSUME TypeInv, NEW r \in Requests, RequestStep(r)
  PROVE  TypeInv'
<1>. DEFINE x == reqRun[r]
            c == reqCopy[r]
<1>1. /\ x \in Runs /\ c \in Row /\ TaskTypeOK /\ row \in [Runs -> Row]
      /\ c.status \in Statuses \cup {"absent"}
      /\ c.control \in ControlRequests \cup {NoControl}
      /\ c.taskId \in TaskIds \cup {NoId}
      /\ reqAt \in [Requests -> RequestPlaces] /\ reqCopy \in [Requests -> Row]
      /\ queue \subseteq Messages /\ revoked \subseteq TaskIds /\ used \subseteq TaskIds
      /\ faults \subseteq Faults /\ reqRun \in [Requests -> Runs] /\ calls \in 0 .. MaxCalls
  BY DEF TypeInv, TypeOK, TaskTypeOK, Row
<1>2. \A status \in Statuses \cup {"absent"}, control \in ControlRequests \cup {NoControl},
         id \in TaskIds \cup {NoId} :
        LET new == Copied(status, control, id, c)
        IN  /\ new \in Row
            /\ Sent(x, c, new) \in Row
            /\ \A touched \in BOOLEAN : Flushed(x, c, new, touched) \in Row
  BY <1>1, RowTypes
<1>3. \A new \in Row : Write(x, new) => row' \in [Runs -> Row]
  BY <1>1, WriteTypes
<1>4. ASSUME UNCHANGED <<taskVars, workerVars, reqRun, calls>>,
             row' \in [Runs -> Row], queue' \subseteq Messages,
             revoked' \subseteq TaskIds, used' \subseteq TaskIds, faults' \subseteq Faults,
             reqCopy' \in [Requests -> Row], NEW place \in RequestPlaces,
             RequestGoto(r, place),
             (place # "enqueue" /\ UNCHANGED reqCopy) \/ Assigned'
      PROVE  TypeInv'
  <2>1. reqAt' \in [Requests -> RequestPlaces]
    BY <1>1, <1>4 DEF RequestGoto
  <2>2. Assigned'
    BY <1>1, <1>4 DEF RequestGoto, Assigned, TypeInv
  <2>3. QED
    BY <1>1, <1>4, <2>1, <2>2, SharedTypes
<1>. HIDE DEF x, c
<1>5. ASSUME NEW from, NEW to \in RequestPlaces \ {"enqueue"}, Revoke(r, from, to)
      PROVE  TypeInv'
  <2>1. \E place \in RequestPlaces : RequestGoto(r, place) /\ place # "enqueue"
    BY <1>5 DEF Revoke, RequestPlaces
  <2>2. revoked' \subseteq TaskIds
    BY <1>1, <1>5 DEF Revoke, c
  <2>3. faults' \subseteq Faults
    BY <1>1, <1>5, FaultTypes DEF Revoke
  <2>4. UNCHANGED <<row, taskVars, queue, workerVars, used, reqRun, reqCopy, calls>>
    BY <1>5 DEF Revoke
  <2>5. QED
    BY <1>1, <1>4, <2>1, <2>2, <2>3, <2>4
<1>6. ASSUME NEW from, NEW status \in Statuses, Commit(r, from, status)
      PROVE  TypeInv'
  <2>1. row' \in [Runs -> Row]
    BY <1>1, <1>2, <1>3, <1>6 DEF Commit, x, c
  <2>2. QED
    BY <1>1, <1>4, <1>6, <2>1 DEF Commit, RequestPlaces
<1>7. CASE Resume(r)
  <2>1. row' \in [Runs -> Row]
    BY <1>1, <1>2, <1>3, <1>7, RowNames DEF Resume, x, c
  <2>2. QED
    BY <1>1, <1>4, <1>7, <2>1 DEF Resume, RequestPlaces
<1>8. CASE Refresh(r)
  <2>1. reqCopy' \in [Requests -> Row]
    BY <1>1, <1>8 DEF Refresh, x
  <2>2. Assigned'
    BY <1>1, <1>8 DEF Refresh, RequestGoto, Assigned, TypeInv
  <2>3. QED
    BY <1>1, <1>4, <1>8, <2>1, <2>2 DEF Refresh, RequestPlaces
<1>9. CASE Dispatch(r)
  <2>1. CASE c.status \in {"pending", "running"}
    <3>1. PICK id \in TaskIds \ used :
            /\ used' = used \cup {id}
            /\ Write(x, Flushed(x, c, Copied(c.status, c.control, id, c), FALSE))
            /\ reqCopy' = [reqCopy EXCEPT ![r] = Copied(c.status, c.control, id, c)]
            /\ RequestGoto(r, "enqueue")
      BY <1>9, <2>1 DEF Dispatch, x, c
    <3>2. row' \in [Runs -> Row] /\ reqCopy' \in [Requests -> Row]
      BY <1>1, <1>2, <1>3, <3>1
    <3>3. Assigned'
      BY <1>1, <3>1 DEF RequestGoto, Assigned, TypeInv, Copied
    <3>4. QED
      BY <1>1, <1>4, <1>9, <3>1, <3>2, <3>3 DEF Dispatch, RequestPlaces
  <2>2. CASE c.status \notin {"pending", "running"}
    BY <1>1, <1>4, <1>9, <2>2 DEF Dispatch, RequestPlaces, c
  <2>3. QED
    BY <2>1, <2>2
<1>10. CASE Enqueue(r)
  <2>1. reqCopy[r].taskId \in TaskIds
    BY <1>10 DEF Enqueue, TypeInv, Assigned
  <2>2. queue' \subseteq Messages
    BY <1>1, <1>10, <2>1 DEF Enqueue, Messages, x
  <2>3. faults' \subseteq Faults
    BY <1>1, <1>10, FaultTypes DEF Enqueue
  <2>4. QED
    BY <1>1, <1>4, <1>10, <2>2, <2>3 DEF Enqueue, RequestPlaces
<1>11. CASE Unassign(r)
  <2>1. row' \in [Runs -> Row]
    BY <1>1, <1>2, <1>3, <1>11 DEF Unassign, x, c
  <2>2. QED
    BY <1>1, <1>4, <1>11, <2>1 DEF Unassign, RequestPlaces
<1>12. QED
  BY <1>5, <1>6, <1>7, <1>8, <1>9, <1>10, <1>11, RowNames DEF RequestStep, RequestPlaces

LEMMA TypeStep == TypeInv /\ [Next]_vars => TypeInv'
<1>. SUFFICES ASSUME TypeInv, [Next]_vars PROVE TypeInv'
  OBVIOUS
<1>1. CASE UNCHANGED vars
  BY <1>1 DEF vars, taskVars, workerVars, requestVars, TypeInv, TypeOK, TaskTypeOK, UrlsLeft,
              Occupied, Assigned
<1>2. ASSUME NEW m \in queue, Discard(m) PROVE TypeInv'
  BY <1>2, SharedTypes DEF Discard, requestVars, TypeInv, TypeOK, TaskTypeOK, Assigned
<1>3. CASE LoseApi
  BY <1>3, FaultTypes, SharedTypes DEF LoseApi, TypeInv, TypeOK, TaskTypeOK, Assigned, RequestPlaces
<1>4. QED
  BY <1>1, <1>2, <1>3, WorkerTypes, WorkerFaultTypes, AdmitTypes, RequestTypes DEF Next

LEMMA TypesHold == Spec => []TypeInv
<1>. QED
  BY InitTypes, TypeStep, PTL DEF Spec

\* The rows, the tasks' and the requests' copies, the messages and the event
\* loops are always what the code takes them for: a worker that is told to
\* terminate has a task to cancel, and only a run with a task id is enqueued.
THEOREM TypeCorrect == Spec => []TypeOK
<1>1. TypeInv => TypeOK
  BY DEF TypeInv
<1>2. QED
  BY <1>1, TypesHold, PTL

-----------------------------------------------------------------------------
(* Event loops, messages and control requests.                             *)

\* The task a worker process waits for crawls the run of its message, in its
\* event loop and in no other; only such a task is cancelled, and only when its
\* message was revoked.
LoopInv ==
  /\ \A w \in Workers : active[w] # NoTask => active[w] \in loop[w] /\ of[active[w]] = held[w].run
  /\ \A w \in Workers : \A t \in loop[w] : at[t] # "free"
  /\ \A v, w \in Workers : \A t \in loop[v] : t \in loop[w] => v = w
  /\ \A t \in cancelled : \E w \in Workers : active[w] = t /\ held[w].id \in revoked

LEMMA InitLoops == Init => LoopInv
BY DEF Init, TaskInit, LoopInv

\* A cancelled task is done with when it is waited for no more.
LEMMA OneLoop ==
  ASSUME TypeInv, LoopInv
  PROVE  /\ \A v, w \in Workers : active[v] # NoTask /\ active[v] = active[w] => v = w
         /\ \A w \in Workers : active[w] \in cancelled => held[w].id \in revoked
         /\ \A w \in Workers : active[w] \in Tasks \cup {NoTask} /\ loop[w] \subseteq Tasks
         /\ NoTask \notin cancelled
BY NamesAssumption DEF LoopInv, TypeInv, TypeOK, TaskTypeOK

\* The process ends: its tasks and their cancellations are gone.
LEMMA ProcessLoops ==
  ASSUME TypeInv, LoopInv, NEW w \in Workers, Acknowledge(w), EndProcess(w), UNCHANGED revoked
  PROVE  LoopInv'
<1>1. /\ active \in [Workers -> Tasks \cup {NoTask}] /\ loop \in [Workers -> SUBSET Tasks]
      /\ held \in [Workers -> Messages \cup {NoMessage}] /\ at \in [Tasks -> TaskPlaces]
  BY DEF TypeInv, TypeOK, TaskTypeOK
<1>2. /\ held' = [held EXCEPT ![w] = NoMessage] /\ active' = [active EXCEPT ![w] = NoTask]
      /\ loop' = [loop EXCEPT ![w] = {}]
      /\ at' = [t \in Tasks |-> IF t \in loop[w] THEN "free" ELSE at[t]]
      /\ cancelled' = cancelled \ loop[w] /\ of' = of
  BY DEF Acknowledge, EndProcess
<1>3. \A v \in Workers : v # w => /\ active'[v] = active[v] /\ loop'[v] = loop[v] /\ held'[v] = held[v]
                                  /\ \A t \in loop[v] : at'[t] = at[t]
  BY <1>1, <1>2 DEF LoopInv
<1>4. active'[w] = NoTask /\ loop'[w] = {}
  BY <1>1, <1>2
<1>5. \A t \in cancelled' : \E v \in Workers : active'[v] = t /\ held'[v].id \in revoked'
  <2>. SUFFICES ASSUME NEW t \in cancelled' PROVE \E v \in Workers : active'[v] = t /\ held'[v].id \in revoked'
    OBVIOUS
  <2>1. PICK v \in Workers : active[v] = t /\ held[v].id \in revoked
    BY <1>2 DEF LoopInv
  <2>2. v # w
    BY <1>2, <2>1, OneLoop DEF LoopInv
  <2>3. QED
    BY <1>3, <2>1, <2>2
<1>6. QED
  BY <1>2, <1>3, <1>4, <1>5 DEF LoopInv

LEMMA WorkerLoops ==
  ASSUME TypeInv, LoopInv, NEW w \in Workers, WorkerStep(w)
  PROVE  LoopInv'
<1>1. /\ active \in [Workers -> Tasks \cup {NoTask}] /\ loop \in [Workers -> SUBSET Tasks]
      /\ held \in [Workers -> Messages \cup {NoMessage}] /\ at \in [Tasks -> TaskPlaces]
      /\ of \in [Tasks -> Runs] /\ Occupied /\ cancelled \subseteq Tasks
  BY DEF TypeInv, TypeOK, TaskTypeOK
<1>2. ASSUME NEW m \in queue, NEW t \in Tasks, Deliver(w, m, t) PROVE LoopInv'
  <2>1. /\ at[t] = "free" /\ held[w] = NoMessage /\ active[w] = NoTask
        /\ at' = [at EXCEPT ![t] = "get"] /\ of' = [of EXCEPT ![t] = m.run]
        /\ held' = [held EXCEPT ![w] = m] /\ active' = [active EXCEPT ![w] = t]
        /\ loop' = [loop EXCEPT ![w] = @ \cup {t}] /\ UNCHANGED <<cancelled, revoked>>
    BY <1>1, <1>2 DEF Deliver, Spawn, Occupied
  <2>2. \A v \in Workers : t \notin loop[v]
    BY <2>1 DEF LoopInv
  <2>3. \A v \in Workers : v # w => active'[v] = active[v] /\ held'[v] = held[v] /\ loop'[v] = loop[v]
    BY <1>1, <2>1
  <2>4. active'[w] = t /\ held'[w] = m /\ loop'[w] = loop[w] \cup {t}
    BY <1>1, <2>1
  <2>5. \A u \in Tasks : u # t => at'[u] = at[u] /\ of'[u] = of[u]
    BY <1>1, <2>1
  <2>6. at'[t] = "get" /\ of'[t] = m.run
    BY <1>1, <2>1
  <2>7. \A v \in Workers : active'[v] # NoTask => active'[v] \in loop'[v] /\ of'[active'[v]] = held'[v].run
    BY <1>1, <2>2, <2>3, <2>4, <2>5, <2>6 DEF LoopInv
  <2>8. \A v \in Workers : \A u \in loop'[v] : at'[u] # "free"
    BY <1>1, <2>3, <2>4, <2>5, <2>6 DEF LoopInv
  <2>9. \A v, z \in Workers : \A u \in loop'[v] : u \in loop'[z] => v = z
    BY <2>2, <2>3, <2>4 DEF LoopInv
  <2>10. \A u \in cancelled : active[w] # u
    BY <2>1, OneLoop
  <2>11. \A u \in cancelled' : \E v \in Workers : active'[v] = u /\ held'[v].id \in revoked'
    BY <2>1, <2>3, <2>10 DEF LoopInv
  <2>12. QED
    BY <2>7, <2>8, <2>9, <2>11 DEF LoopInv
<1>3. ASSUME NEW t \in Tasks, TaskStep(w, t) PROVE LoopInv'
  <2>1. /\ UNCHANGED <<of, cancelled, workerVars, revoked>>
        /\ at'[t] # "free" /\ \A u \in Tasks : u # t => at'[u] = at[u]
    BY <1>3, CrawlMoves DEF TaskStep, TypeInv, TypeOK
  <2>2. QED
    BY <1>1, <2>1 DEF LoopInv, workerVars
<1>4. ASSUME NEW t \in Tasks, Reap(w, t) PROVE LoopInv'
  <2>1. /\ t \in loop[w] /\ t # active[w] /\ at' = [at EXCEPT ![t] = "free"]
        /\ loop' = [loop EXCEPT ![w] = @ \ {t}]
        /\ UNCHANGED <<of, cancelled, held, active, revoked>>
    BY <1>4 DEF Reap, Goto
  <2>2. \A v \in Workers : loop'[v] \subseteq loop[v] /\ t \notin loop'[v] /\ (loop'[v] = loop[v] \/ v = w)
    BY <1>1, <2>1 DEF LoopInv
  <2>3. \A u \in Tasks : u # t => at'[u] = at[u] /\ \A v \in Workers : u \in loop[v] => u \in loop'[v]
    BY <1>1, <2>1
  <2>4. \A v \in Workers : active[v] # t
    BY <1>1, <2>1, NamesAssumption DEF LoopInv
  <2>5. \A v \in Workers : active[v] # NoTask => active[v] \in loop'[v]
    BY <1>1, <2>3, <2>4 DEF LoopInv
  <2>6. \A v \in Workers : \A u \in loop'[v] : at'[u] # "free"
    BY <1>1, <2>2, <2>3 DEF LoopInv
  <2>7. QED
    BY <2>1, <2>2, <2>5, <2>6 DEF LoopInv
<1>5. CASE Finish(w)
  <2>1. PICK t \in Tasks : t = active[w]
    BY <1>1, <1>5 DEF Finish
  <2>2. /\ t \in loop[w] /\ t \notin cancelled /\ at' = [at EXCEPT ![t] = "free"]
        /\ loop' = [loop EXCEPT ![w] = @ \ {t}] /\ held' = [held EXCEPT ![w] = NoMessage]
        /\ active' = [active EXCEPT ![w] = NoTask] /\ UNCHANGED <<of, cancelled, revoked>>
    BY <1>5, <2>1 DEF Finish, Acknowledge, Goto, LoopInv
  <2>3. \A v \in Workers : v # w => active'[v] = active[v] /\ held'[v] = held[v] /\ loop'[v] = loop[v] /\ t \notin loop[v]
    BY <1>1, <2>2 DEF LoopInv
  <2>4. active'[w] = NoTask /\ loop'[w] = loop[w] \ {t}
    BY <1>1, <2>2
  <2>5. \A u \in Tasks : u # t => at'[u] = at[u]
    BY <1>1, <2>2
  <2>6. \A v \in Workers : \A u \in loop'[v] : at'[u] # "free"
    BY <1>1, <2>3, <2>4, <2>5 DEF LoopInv
  <2>7. \A u \in cancelled : \E v \in Workers : active'[v] = u /\ held'[v].id \in revoked
    BY <2>1, <2>2, <2>3 DEF LoopInv
  <2>8. QED
    BY <2>2, <2>3, <2>4, <2>6, <2>7 DEF LoopInv
<1>6. CASE Terminate(w)
  BY <1>6 DEF Terminate, workerVars, LoopInv
<1>7. CASE Exit(w)
  BY <1>7, ProcessLoops DEF Exit
<1>8. QED
  BY <1>2, <1>3, <1>4, <1>5, <1>6, <1>7 DEF WorkerStep

LEMMA LoopStep ==
  ASSUME TypeInv, LoopInv, [Next]_vars
  PROVE  LoopInv'
<1>1. ASSUME UNCHANGED <<at, of, cancelled, workerVars>>, revoked \subseteq revoked' PROVE LoopInv'
  BY <1>1 DEF LoopInv, workerVars
<1>2. ASSUME NEW w \in Workers, WorkerFault(w) PROVE LoopInv'
  <2>1. CASE LoseWorker(w) \/ HardLimit(w)
    BY <2>1, ProcessLoops DEF LoseWorker, HardLimit
  <2>2. CASE LoseConnection(w)
    BY <1>1, <2>2 DEF LoseConnection, taskVars
  <2>3. CASE SoftLimit(w)
    <3>1. /\ active \in [Workers -> Tasks \cup {NoTask}]
          /\ held \in [Workers -> Messages \cup {NoMessage}]
      BY DEF TypeInv, TypeOK
    <3>2. /\ active' = [active EXCEPT ![w] = NoTask] /\ held' = [held EXCEPT ![w] = NoMessage]
          /\ active[w] \notin cancelled /\ UNCHANGED <<at, of, cancelled, loop, revoked>>
      BY <2>3 DEF SoftLimit, Acknowledge, Running, taskVars
    <3>3. \A v \in Workers : v # w => active'[v] = active[v] /\ held'[v] = held[v]
      BY <3>1, <3>2
    <3>4. active'[w] = NoTask
      BY <3>1, <3>2
    <3>5. QED
      BY <3>2, <3>3, <3>4 DEF LoopInv
  <2>4. QED
    BY <1>2, <2>1, <2>2, <2>3 DEF WorkerFault
<1>3. ASSUME NEW m \in queue, Discard(m) PROVE LoopInv'
  BY <1>1, <1>3 DEF Discard, taskVars
<1>4. ASSUME NEW r \in Requests, NEW x \in Runs, Create(r, x) \/ Request(r, x) PROVE LoopInv'
  BY <1>1, <1>4 DEF Create, Request, taskVars
<1>5. ASSUME NEW r \in Requests, RequestStep(r) PROVE LoopInv'
  <2>1. UNCHANGED <<at, of, cancelled, workerVars>> /\ revoked \subseteq revoked'
    BY <1>5 DEF RequestStep, Revoke, Commit, Resume, Refresh, Dispatch, Enqueue, Unassign, taskVars
  <2>2. QED
    BY <1>1, <2>1
<1>6. CASE LoseApi
  BY <1>1, <1>6 DEF LoseApi, taskVars
<1>7. CASE UNCHANGED vars
  BY <1>1, <1>7 DEF vars, taskVars
<1>8. QED
  BY <1>2, <1>3, <1>4, <1>5, <1>6, <1>7, WorkerLoops DEF Next

\* Celery runs are paused and killed by revocation: no control request is ever
\* written to a row, and no task stops at a checkpoint.
ControlInv ==
  /\ \A x \in Runs : row[x].control = NoControl
  /\ \A t \in Tasks : copy[t].control = NoControl /\ at[t] # "checkpoint"
  /\ \A r \in Requests : reqCopy[r].control = NoControl

LEMMA InitControl == Init => ControlInv
BY DEF Init, TaskInit, Absent, ControlInv

LEMMA TaskControl ==
  ASSUME TypeInv, ControlInv, NEW t \in Tasks, CrawlStep(t), UNCHANGED reqCopy
  PROVE  ControlInv'
<1>. DEFINE x == of[t]
            c == copy[t]
<1>1. /\ x \in Runs /\ c \in Row /\ row[x] \in Row /\ row \in [Runs -> Row]
      /\ at \in [Tasks -> TaskPlaces] /\ copy \in [Tasks -> Row] /\ TaskTypeOK
      /\ c.control = NoControl /\ row[x].control = NoControl
      /\ NoControl \notin ControlRequests
  BY DEF TypeInv, TypeOK, TaskTypeOK, ControlInv, NoControl, ControlRequests
<1>2. ASSUME UNCHANGED row \/ \E r : Write(x, r) /\ r.control = NoControl,
             UNCHANGED copy \/ \E r : Keep(t, r) /\ r.control = NoControl,
             \E place \in TaskPlaces \ {"checkpoint"} : Goto(t, place)
      PROVE  ControlInv'
  <2>1. \A y \in Runs : row'[y].control = NoControl
    BY <1>1, <1>2 DEF Write, ControlInv
  <2>2. \A u \in Tasks : copy'[u].control = NoControl
    BY <1>1, <1>2 DEF Keep, ControlInv
  <2>3. \A u \in Tasks : at'[u] # "checkpoint"
    BY <1>1, <1>2 DEF Goto, ControlInv
  <2>4. QED
    BY <2>1, <2>2, <2>3 DEF ControlInv
<1>3. \A status, id, touched :
        LET new == Copied(status, NoControl, id, c)
        IN  new.control = NoControl /\ Flushed(x, c, new, touched).control = NoControl
  BY DEF Copied, Flushed
<1>4. \A touched : Flushed(x, c, c, touched).control = NoControl
  BY <1>1 DEF Flushed
<1>. HIDE DEF x, c
<1>5. CASE Get(t) \/ Load(t) \/ Crawl(t) \/ End(t) \/ Raise(t) \/ Fail(t) \/ Cancelled(t)
  BY <1>1, <1>2, <1>5 DEF Get, Load, Crawl, End, Raise, Fail, Cancelled, TaskPlaces, x
<1>6. CASE Boot(t)
  <2>1. PICK status : Keep(t, Copied(status, NoControl, c.taskId, c))
    BY <1>1, <1>6 DEF Boot, c
  <2>2. PICK r : Write(x, r) /\ r.control = NoControl
    BY <1>1, <1>6 DEF Boot, c, x
  <2>3. Goto(t, "resolve")
    BY <1>6 DEF Boot
  <2>4. QED
    BY <1>2, <1>3, <2>1, <2>2, <2>3 DEF TaskPlaces
<1>7. CASE Resolve(t) \/ Start(t) \/ Record(t)
  <2>1. \E touched : Write(x, Flushed(x, c, c, touched))
    BY <1>7 DEF Resolve, Start, Record, x, c
  <2>2. UNCHANGED copy /\ \E place \in TaskPlaces \ {"checkpoint"} : Goto(t, place)
    BY <1>7 DEF Resolve, Start, Record, TaskPlaces
  <2>3. QED
    BY <1>2, <1>4, <2>1, <2>2
<1>8. CASE Top(t)
  BY <1>1, <1>2, <1>8 DEF Top, TaskPlaces, x
<1>9. CASE Checkpoint(t)
  BY <1>9 DEF Checkpoint, Running, ControlInv
<1>10. CASE Complete(t)
  <2>1. PICK id : Keep(t, Copied("completed", NoControl, id, c))
                  /\ Write(x, Flushed(x, c, Copied("completed", NoControl, id, c), TRUE))
    BY <1>1, <1>10 DEF Complete, x, c
  <2>2. Goto(t, "ended")
    BY <1>10 DEF Complete
  <2>3. QED
    BY <1>2, <1>3, <2>1, <2>2 DEF TaskPlaces
<1>11. CASE MarkFailed(t)
  <2>1. \/ Write(x, Flushed(x, c, c, FALSE))
        \/ Write(x, Flushed(x, c, Copied("failed", NoControl, c.taskId, c), FALSE))
        \/ UNCHANGED row
    BY <1>1, <1>11 DEF MarkFailed, PersistFailure, x, c
  <2>2. UNCHANGED copy /\ \E place \in TaskPlaces \ {"checkpoint"} : Goto(t, place)
    BY <1>11 DEF MarkFailed, PersistFailure, TaskPlaces
  <2>3. QED
    BY <1>2, <1>3, <1>4, <2>1, <2>2
<1>12. QED
  BY <1>5, <1>6, <1>7, <1>8, <1>9, <1>10, <1>11 DEF CrawlStep

LEMMA RequestControl ==
  ASSUME TypeInv, ControlInv, NEW r \in Requests, RequestStep(r)
  PROVE  ControlInv'
<1>. DEFINE x == reqRun[r]
            c == reqCopy[r]
<1>1. /\ x \in Runs /\ c \in Row /\ row \in [Runs -> Row] /\ reqCopy \in [Requests -> Row]
      /\ row[x].control = NoControl /\ c.control = NoControl /\ TaskTypeOK
  BY DEF TypeInv, TypeOK, TaskTypeOK, ControlInv
<1>2. UNCHANGED taskVars
  BY DEF RequestStep, Revoke, Commit, Resume, Refresh, Dispatch, Enqueue, Unassign
<1>3. ASSUME UNCHANGED row \/ \E new : Write(x, new) /\ new.control = NoControl,
             \A s \in Requests : reqCopy'[s].control = NoControl
      PROVE  ControlInv'
  <2>1. \A y \in Runs : row'[y].control = NoControl
    BY <1>1, <1>3 DEF Write, ControlInv
  <2>2. QED
    BY <1>2, <1>3, <2>1 DEF ControlInv, taskVars
<1>4. \A status, id :
        LET new == Copied(status, NoControl, id, c)
        IN  /\ new.control = NoControl
            /\ Sent(x, c, new).control = NoControl
            /\ Flushed(x, c, new, FALSE).control = NoControl
  BY <1>1 DEF Copied, Sent, Flushed
<1>5. UNCHANGED reqCopy => \A s \in Requests : reqCopy'[s].control = NoControl
  BY DEF ControlInv
<1>. HIDE DEF x, c
<1>6. ASSUME NEW from, NEW status, Commit(r, from, status) PROVE ControlInv'
  BY <1>1, <1>3, <1>4, <1>5, <1>6 DEF Commit, x, c
<1>7. CASE Resume(r)
  BY <1>1, <1>3, <1>4, <1>5, <1>7 DEF Resume, x, c
<1>8. CASE Refresh(r)
  <2>1. \A s \in Requests : reqCopy'[s].control = NoControl
    BY <1>1, <1>8 DEF Refresh, ControlInv, x
  <2>2. QED
    BY <1>3, <1>8, <2>1 DEF Refresh
<1>9. CASE Dispatch(r)
  <2>1. CASE UNCHANGED <<row, reqCopy>>
    BY <1>3, <1>5, <2>1
  <2>2. CASE ~ UNCHANGED <<row, reqCopy>>
    <3>1. PICK id : LET new == Copied(c.status, NoControl, id, c)
                    IN  /\ Write(x, Flushed(x, c, new, FALSE))
                        /\ reqCopy' = [reqCopy EXCEPT ![r] = new]
      BY <1>1, <1>9, <2>2 DEF Dispatch, x, c
    <3>2. \A s \in Requests : reqCopy'[s].control = NoControl
      BY <1>1, <1>4, <3>1 DEF ControlInv
    <3>3. QED
      BY <1>3, <1>4, <3>1, <3>2
  <2>3. QED
    BY <2>1, <2>2
<1>10. CASE Unassign(r)
  BY <1>1, <1>3, <1>4, <1>5, <1>10 DEF Unassign, x, c
<1>11. CASE Enqueue(r) \/ \E from, to : Revoke(r, from, to)
  BY <1>3, <1>5, <1>11 DEF Enqueue, Revoke
<1>12. QED
  BY <1>6, <1>7, <1>8, <1>9, <1>10, <1>11 DEF RequestStep

LEMMA ControlStep ==
  ASSUME TypeInv, ControlInv, [Next]_vars
  PROVE  ControlInv'
<1>1. /\ row \in [Runs -> Row] /\ reqCopy \in [Requests -> Row] /\ at \in [Tasks -> TaskPlaces]
  BY DEF TypeInv, TypeOK, TaskTypeOK
<1>2. ASSUME UNCHANGED <<row, copy, reqCopy>>, \A t \in Tasks : at'[t] \in {at[t], "free", "get"}
      PROVE  ControlInv'
  BY <1>2 DEF ControlInv
<1>3. ASSUME NEW w \in Workers, EndProcess(w), UNCHANGED <<row, reqCopy>> PROVE ControlInv'
  BY <1>2, <1>3 DEF EndProcess
<1>4. ASSUME NEW w \in Workers, WorkerFault(w) PROVE ControlInv'
  <2>1. CASE LoseWorker(w) \/ HardLimit(w)
    BY <1>3, <2>1 DEF LoseWorker, HardLimit, requestVars
  <2>2. CASE LoseConnection(w) \/ SoftLimit(w)
    BY <1>2, <2>2 DEF LoseConnection, SoftLimit, taskVars, requestVars
  <2>3. QED
    BY <1>4, <2>1, <2>2 DEF WorkerFault
<1>5. ASSUME NEW w \in Workers, WorkerStep(w) PROVE ControlInv'
  <2>1. ASSUME NEW m \in queue, NEW t \in Tasks, Deliver(w, m, t) PROVE ControlInv'
    BY <1>1, <1>2, <2>1 DEF Deliver, Spawn, requestVars
  <2>2. ASSUME NEW t \in Tasks, TaskStep(w, t) PROVE ControlInv'
    BY <2>2, TaskControl DEF TaskStep, requestVars
  <2>3. ASSUME NEW t \in Tasks, Reap(w, t) PROVE ControlInv'
    BY <1>1, <1>2, <2>3 DEF Reap, Goto, requestVars
  <2>4. CASE Finish(w)
    BY <1>1, <1>2, <2>4 DEF Finish, Goto, requestVars
  <2>5. CASE Terminate(w)
    BY <1>2, <2>5 DEF Terminate, requestVars
  <2>6. CASE Exit(w)
    BY <1>3, <2>6 DEF Exit, requestVars
  <2>7. QED
    BY <1>5, <2>1, <2>2, <2>3, <2>4, <2>5, <2>6 DEF WorkerStep
<1>6. ASSUME NEW m \in queue, Discard(m) PROVE ControlInv'
  BY <1>2, <1>6 DEF Discard, taskVars, requestVars
<1>7. ASSUME NEW r \in Requests, NEW x \in Runs, Create(r, x) \/ Request(r, x) PROVE ControlInv'
  <2>1. Created.control = NoControl
    BY DEF Created
  <2>2. UNCHANGED <<at, copy>>
    BY <1>7 DEF Create, Request, taskVars
  <2>3. \A y \in Runs : row'[y].control = NoControl
    BY <1>1, <1>7, <2>1 DEF Create, Request, Write, ControlInv
  <2>4. \A s \in Requests : reqCopy'[s].control = NoControl
    BY <1>1, <1>7, <2>1 DEF Create, Request, ControlInv
  <2>5. QED
    BY <2>2, <2>3, <2>4 DEF ControlInv
<1>8. CASE LoseApi
  BY <1>2, <1>8 DEF LoseApi, taskVars
<1>9. CASE UNCHANGED vars
  BY <1>2, <1>9 DEF vars, taskVars, requestVars
<1>10. QED
  BY <1>4, <1>5, <1>6, <1>7, <1>8, <1>9, RequestControl DEF Next

-----------------------------------------------------------------------------
(* Messages and their task ids.                                            *)

\* The broker has the message, or a worker process that has not acknowledged it.
HasMessage(m) == m \in queue \/ \E w \in Workers : held[w] = m

\* A task id is given to one message, and a request that is about to send one has
\* an id that no message bears.
IdInv ==
  /\ \A m \in Messages : HasMessage(m) => m.id \in used
  /\ \A m, n \in Messages : HasMessage(m) /\ HasMessage(n) /\ m.id = n.id => m = n
  /\ \A r \in Requests :
       reqAt[r] = "enqueue" =>
         /\ reqCopy[r].taskId \in used
         /\ \A m \in Messages : HasMessage(m) => m.id # reqCopy[r].taskId

LEMMA InitIds == Init => IdInv
BY MessageAssumption DEF Init, HasMessage, IdInv

\* Workers and the broker move messages and drop them; only a request adds one.
LEMMA WorkerMessages ==
  ASSUME TypeInv,
         \/ \E w \in Workers : WorkerStep(w) \/ WorkerFault(w)
         \/ \E m \in queue : Discard(m)
  PROVE  /\ \A m \in Messages : HasMessage(m)' => HasMessage(m)
         /\ UNCHANGED <<revoked, used, requestVars>>
<1>1. held \in [Workers -> Messages \cup {NoMessage}] /\ NoMessage \notin Messages
  BY MessageAssumption DEF TypeInv, TypeOK
<1>2. ASSUME NEW w \in Workers, Acknowledge(w), queue' \subseteq queue \cup {held[w]}
      PROVE  \A m \in Messages : HasMessage(m)' => HasMessage(m)
  BY <1>1, <1>2 DEF Acknowledge, HasMessage
<1>3. UNCHANGED <<queue, held>> => \A m \in Messages : HasMessage(m)' => HasMessage(m)
  BY DEF HasMessage
<1>4. ASSUME NEW m \in queue, Discard(m)
      PROVE  /\ \A n \in Messages : HasMessage(n)' => HasMessage(n)
             /\ UNCHANGED <<revoked, used, requestVars>>
  BY <1>4 DEF Discard, workerVars, HasMessage
<1>5. ASSUME NEW w \in Workers, WorkerStep(w)
      PROVE  /\ \A m \in Messages : HasMessage(m)' => HasMessage(m)
             /\ UNCHANGED <<revoked, used, requestVars>>
  <2>1. ASSUME NEW m \in queue, NEW t \in Tasks, Deliver(w, m, t)
        PROVE  \A n \in Messages : HasMessage(n)' => HasMessage(n)
    BY <1>1, <2>1 DEF Deliver, HasMessage
  <2>2. CASE Finish(w) \/ Exit(w)
    BY <1>2, <2>2 DEF Finish, Exit, requestVars
  <2>3. CASE Terminate(w) \/ \E t \in Tasks : TaskStep(w, t) \/ Reap(w, t)
    BY <1>3, <2>3 DEF Terminate, TaskStep, Reap, workerVars
  <2>4. UNCHANGED <<revoked, used, requestVars>>
    BY <1>5 DEF WorkerStep, Deliver, TaskStep, Reap, Finish, Terminate, Exit
  <2>5. QED
    BY <1>5, <2>1, <2>2, <2>3, <2>4 DEF WorkerStep
<1>6. ASSUME NEW w \in Workers, WorkerFault(w)
      PROVE  /\ \A m \in Messages : HasMessage(m)' => HasMessage(m)
             /\ UNCHANGED <<revoked, used, requestVars>>
  <2>1. CASE LoseWorker(w) \/ HardLimit(w) \/ SoftLimit(w)
    BY <1>2, <2>1 DEF LoseWorker, HardLimit, SoftLimit
  <2>2. CASE LoseConnection(w)
    BY <1>1, <2>2 DEF LoseConnection, workerVars, HasMessage
  <2>3. QED
    BY <1>6, <2>1, <2>2 DEF WorkerFault
<1>7. QED
  BY <1>4, <1>5, <1>6

LEMMA IdStep ==
  ASSUME \A r, s \in Requests : r = s, TypeInv, IdInv, [Next]_vars
  PROVE  IdInv'
<1>1. /\ reqAt \in [Requests -> RequestPlaces] /\ reqCopy \in [Requests -> Row]
      /\ Assigned /\ reqRun \in [Requests -> Runs]
  BY DEF TypeInv, TypeOK
<1>2. CASE \/ \E w \in Workers : WorkerStep(w) \/ WorkerFault(w)
           \/ \E m \in queue : Discard(m)
  BY <1>2, WorkerMessages DEF requestVars, IdInv
<1>3. ASSUME UNCHANGED <<queue, held, used>>, \A r \in Requests : reqAt'[r] # "enqueue"
      PROVE  IdInv'
  BY <1>3 DEF IdInv, HasMessage
<1>4. ASSUME NEW r \in Requests, NEW x \in Runs, Create(r, x) \/ Request(r, x) PROVE IdInv'
  BY <1>1, <1>3, <1>4 DEF Create, Request, RequestGoto, workerVars
<1>5. ASSUME NEW r \in Requests, RequestStep(r) PROVE IdInv'
  <2>1. CASE Dispatch(r)
    <3>1. CASE reqAt' = [reqAt EXCEPT ![r] = "idle"] /\ UNCHANGED used
      BY <1>1, <1>3, <2>1, <3>1 DEF Dispatch, workerVars
    <3>2. ASSUME NEW id \in TaskIds \ used, NEW c, c.taskId = id, used' = used \cup {id},
                 reqCopy' = [reqCopy EXCEPT ![r] = c]
          PROVE  IdInv'
      <4>1. reqCopy'[r].taskId = id
        BY <1>1, <3>2
      <4>2. UNCHANGED <<queue, held>>
        BY <2>1 DEF Dispatch, workerVars
      <4>3. QED
        BY <3>2, <4>1, <4>2 DEF IdInv, HasMessage
    <3>3. QED
      BY <2>1, <3>1, <3>2 DEF Dispatch, RequestGoto, Copied
  <2>2. CASE Enqueue(r)
    <3>1. PICK m \in Messages : m = [run |-> reqRun[r], id |-> reqCopy[r].taskId]
      BY <1>1, <2>2 DEF Enqueue, Assigned, Messages
    <3>2. /\ m.id \in used /\ \A n \in Messages : HasMessage(n) => n.id # m.id
      BY <2>2, <3>1 DEF Enqueue, IdInv
    <3>3. \A n \in Messages : HasMessage(n)' => HasMessage(n) \/ n = m
      BY <2>2, <3>1 DEF Enqueue, HasMessage, workerVars
    <3>4. \A s \in Requests : reqAt'[s] # "enqueue"
      BY <1>1, <2>2 DEF Enqueue, RequestGoto
    <3>5. UNCHANGED used
      BY <2>2 DEF Enqueue
    <3>6. QED
      BY <3>2, <3>3, <3>4, <3>5 DEF IdInv
  <2>3. CASE \/ Revoke(r, "pause", "pausing") \/ Commit(r, "pausing", "paused")
             \/ Revoke(r, "kill", "killing") \/ Commit(r, "killing", "killed")
    BY <1>1, <1>3, <2>3 DEF Revoke, Commit, RequestGoto, workerVars
  <2>4. CASE Resume(r) \/ Refresh(r) \/ Unassign(r)
    BY <1>1, <1>3, <2>4 DEF Resume, Refresh, Unassign, RequestGoto, workerVars
  <2>5. QED
    BY <1>5, <2>1, <2>2, <2>3, <2>4 DEF RequestStep
<1>6. CASE LoseApi
  BY <1>1, <1>3, <1>6 DEF LoseApi, workerVars
<1>7. CASE UNCHANGED vars
  BY <1>7 DEF vars, workerVars, requestVars, IdInv, HasMessage
<1>8. QED
  BY <1>2, <1>4, <1>5, <1>6, <1>7 DEF Next

-----------------------------------------------------------------------------
(* One request at a time, and nothing left behind.                         *)

\* The message has not been revoked.
Valid(m) == HasMessage(m) /\ m.id \notin revoked

\* A worker process waits for the only task of its event loop.
SingleTask == \A w \in Workers : loop[w] \subseteq {active[w]}

\* A message is in one place.
SingleCopy ==
  /\ \A w \in Workers : held[w] \notin queue
  /\ \A v, w \in Workers : held[v] # NoMessage /\ held[v] = held[w] => v = w

\* An unrevoked message is that of the task id in its run's row, and such a run is
\* not paused.
Current ==
  \A m \in Messages :
    Valid(m) => row[m.run].taskId = m.id /\ row[m.run].status \notin {"absent", "paused"}

\* Task t of run x keeps id in the summary it will send, knows the status it is
\* about to replace, and has ended only with the run.
Follows(t, x, id) ==
  /\ at[t] # "get" => copy[t].taskId = id
  /\ at[t] \in {"failing", "complete"} => copy[t].status = row[x].status
  /\ at[t] = "complete" => copy[t].status = "running"
  /\ at[t] = "ended" => row[x].status \in TerminalStatuses

Following ==
  \A w \in Workers :
    held[w] # NoMessage /\ held[w].id \notin revoked
      => Follows(active[w], held[w].run, held[w].id)

\* The worker has not acted on the revocation of its message yet.
Lingering(w) == held[w] # NoMessage /\ held[w].id \in revoked /\ active[w] \notin cancelled

\* Until it does, no other message of the run is about, and no request has got
\* beyond the one that revoked it.
Unheard ==
  \A w \in Workers :
    Lingering(w) =>
      /\ \A m \in Messages : Valid(m) => m.run # held[w].run
      /\ \A r \in Requests : reqAt[r] \in {"idle", "pausing", "killing"}

\* A request knows the task id it is about to revoke; what comes after the
\* revocation, and a resume and a dispatch, find no unrevoked message of their run.
Knowing ==
  \A r \in Requests, m \in Messages :
    Valid(m) /\ m.run = reqRun[r] =>
      /\ reqAt[r] \in {"idle", "pause", "kill"}
      /\ reqAt[r] \in {"pause", "kill"} => reqCopy[r].taskId = m.id

\* A dispatch finds its run as the resume or the creation left it.
Dispatching ==
  \A r \in Requests :
    /\ reqAt[r] = "resume" => reqCopy[r].status = "paused"
    /\ reqAt[r] \in {"refresh", "dispatch", "enqueue"}
         => row[reqRun[r]].status \notin {"absent", "paused"}
    /\ reqAt[r] = "enqueue" => row[reqRun[r]].taskId = reqCopy[r].taskId

Quiet ==
  /\ SingleTask /\ SingleCopy /\ Current /\ Following /\ Unheard /\ Knowing /\ Dispatching

LEMMA InitQuiet == Init => Quiet
BY MessageAssumption
   DEF Init, TaskInit, HasMessage, Valid, Quiet, SingleTask, SingleCopy, Current, Following, Unheard,
       Lingering, Knowing, Dispatching

\* A step of the task of an unrevoked message leaves its run with the task id of
\* the message, neither paused nor absent.
LEMMA FollowStep ==
  ASSUME TypeInv, ControlInv, NEW t \in Tasks, NEW x \in Runs, NEW id \in TaskIds,
         of[t] = x, t \notin cancelled, Follows(t, x, id),
         row[x].taskId = id, row[x].status \notin {"absent", "paused"}, CrawlStep(t)
  PROVE  /\ Follows(t, x, id)'
         /\ row'[x].taskId = id /\ row'[x].status \notin {"absent", "paused"}
         /\ \A y \in Runs : y # x => row'[y] = row[y]
<1>. DEFINE c == copy[t]
            old == row[x]
<1>1. /\ row \in [Runs -> Row] /\ copy \in [Tasks -> Row] /\ at \in [Tasks -> TaskPlaces]
      /\ c \in Row /\ old \in Row /\ old.status \in Statuses
      /\ at[t] # "get" => c.taskId = id
  BY DEF TypeInv, TypeOK, TaskTypeOK, Row, Follows
<1>2. ASSUME UNCHANGED row, NEW place \in TaskPlaces, Goto(t, place),
             UNCHANGED copy \/ Keep(t, old),
             at[t] = "get" => Keep(t, old), place # "get",
             place \in {"failing", "complete"} => Keep(t, old),
             place = "complete" => old.status = "running",
             place = "ended" => old.status \in TerminalStatuses
      PROVE  /\ Follows(t, x, id)'
             /\ row'[x].taskId = id /\ row'[x].status \notin {"absent", "paused"}
             /\ \A y \in Runs : y # x => row'[y] = row[y]
  <2>1. at'[t] = place /\ row' = row
    BY <1>1, <1>2 DEF Goto
  <2>2. Keep(t, old) => copy'[t] = old
    BY <1>1 DEF Keep
  <2>3. QED
    BY <1>1, <1>2, <2>1, <2>2 DEF Follows
<1>3. ASSUME NEW new \in Row, Write(x, new), new.taskId = id, new.status \notin {"absent", "paused"},
             NEW kept \in Row, kept.taskId = id, (UNCHANGED copy /\ kept = c) \/ Keep(t, kept),
             NEW place \in TaskPlaces \ {"get", "failing", "complete"}, Goto(t, place),
             place = "ended" => new.status \in TerminalStatuses
      PROVE  /\ Follows(t, x, id)'
             /\ row'[x].taskId = id /\ row'[x].status \notin {"absent", "paused"}
             /\ \A y \in Runs : y # x => row'[y] = row[y]
  <2>1. at'[t] = place /\ row'[x] = new /\ copy'[t] = kept
    BY <1>1, <1>3 DEF Goto, Write, Keep
  <2>2. \A y \in Runs : y # x => row'[y] = row[y]
    BY <1>1, <1>3 DEF Write
  <2>3. QED
    BY <1>3, <2>1, <2>2 DEF Follows
<1>4. \A touched \in BOOLEAN :
        LET new == Flushed(x, c, c, touched)
        IN  new \in Row /\ new.taskId = c.taskId /\ new.status = old.status
  BY <1>1, RowTypes DEF Flushed, TypeInv, TypeOK
<1>5. \A status \in Statuses \ {"paused"}, touched \in BOOLEAN :
        LET kept == Copied(status, c.control, c.taskId, c)
            new == Flushed(x, c, kept, touched)
        IN  /\ kept \in Row /\ kept.taskId = c.taskId
            /\ new \in Row /\ new.taskId = c.taskId /\ new.status \notin {"absent", "paused"}
            /\ status # c.status => new.status = status
            /\ status = c.status => new.status = old.status
  <2>. SUFFICES ASSUME NEW status \in Statuses \ {"paused"}, NEW touched \in BOOLEAN
                PROVE  LET kept == Copied(status, c.control, c.taskId, c)
                           new == Flushed(x, c, kept, touched)
                       IN  /\ kept \in Row /\ kept.taskId = c.taskId
                           /\ new \in Row /\ new.taskId = c.taskId /\ new.status \notin {"absent", "paused"}
                           /\ status # c.status => new.status = status
                           /\ status = c.status => new.status = old.status
    OBVIOUS
  <2>1. c.control \in ControlRequests \cup {NoControl} /\ c.taskId \in TaskIds \cup {NoId}
    BY <1>1 DEF Row
  <2>2. Copied(status, c.control, c.taskId, c) \in Row
    BY <1>1, <2>1, RowTypes DEF TypeInv, TypeOK
  <2>3. Flushed(x, c, Copied(status, c.control, c.taskId, c), touched) \in Row
    BY <1>1, <2>2, RowTypes DEF TypeInv, TypeOK
  <2>4. status # "absent"
    BY DEF Statuses, ActiveStatuses, TerminalStatuses
  <2>5. QED
    BY <2>2, <2>3, <2>4 DEF Copied, Flushed
<1>6. \A target : CanTransition(old.status, target) /\ target = "completed" /\ old.status \notin TerminalStatuses
        => old.status = "running"
  BY <1>1 DEF CanTransition, AllowedTransitions, Statuses, ActiveStatuses, TerminalStatuses
<1>. HIDE DEF c, old
<1>7. CASE Get(t) \/ Load(t)
  BY <1>1, <1>2, <1>7 DEF Get, Load, TaskPlaces, Running, old
<1>8. CASE Crawl(t) \/ Fail(t)
  BY <1>1, <1>2, <1>8 DEF Crawl, Fail, TaskPlaces, Running, old
<1>9. CASE End(t)
  BY <1>1, <1>2, <1>6, <1>9 DEF End, TaskPlaces, Running, old
<1>10. CASE Raise(t)
  BY <1>1, <1>2, <1>10 DEF Raise, TaskPlaces, Running
<1>11. CASE Top(t)
  BY <1>1, <1>2, <1>11 DEF Top, TaskPlaces, Running, old
<1>12. CASE Resolve(t) \/ Start(t) \/ Record(t)
  <2>1. at[t] # "get" /\ UNCHANGED copy /\ \E touched \in BOOLEAN : Write(x, Flushed(x, c, c, touched))
    BY <1>12 DEF Resolve, Start, Record, Running, c
  <2>2. \E place \in TaskPlaces \ {"get", "failing", "complete", "ended"} : Goto(t, place)
    BY <1>12 DEF Resolve, Start, Record, TaskPlaces
  <2>3. QED
    BY <1>1, <1>3, <1>4, <2>1, <2>2 DEF old
<1>13. CASE Checkpoint(t)
  BY <1>13 DEF Checkpoint, Running, ControlInv
<1>14. CASE Boot(t)
  <2>. DEFINE kept == Copied(IF c.status = "pending" THEN "running" ELSE c.status, c.control, c.taskId, c)
              new == [status |-> IF c.status = "pending" THEN "running" ELSE old.status,
                      control |-> old.control, taskId |-> old.taskId, stale |-> FALSE]
  <2>1. at[t] # "get" /\ Keep(t, kept) /\ Write(x, new) /\ Goto(t, "resolve")
    BY <1>14 DEF Boot, Running, c, old
  <2>2. kept.taskId = c.taskId /\ new.taskId = id /\ new.status \notin {"absent", "paused"}
    BY DEF Copied, old
  <2>3. new \in Row
    BY <1>1, RowNames DEF Row
  <2>4. kept \in Row
    BY <1>1, RowNames DEF Row, Copied
  <2>. HIDE DEF kept, new
  <2>5. QED
    BY <1>1, <1>3, <2>1, <2>2, <2>3, <2>4 DEF TaskPlaces
<1>15. CASE Complete(t)
  <2>. DEFINE final == Copied("completed", c.control, c.taskId, c)
              new == Flushed(x, c, final, TRUE)
  <2>1. at[t] = "complete" /\ Keep(t, final) /\ Write(x, new) /\ Goto(t, "ended")
    BY <1>15 DEF Complete, Running, c
  <2>2. c.status = "running"
    BY <2>1 DEF Follows, c
  <2>3. /\ final \in Row /\ final.taskId = c.taskId
        /\ new \in Row /\ new.taskId = c.taskId /\ new.status = "completed"
    BY <1>5, <2>2, RowNames
  <2>. HIDE DEF final, new
  <2>4. QED
    BY <1>1, <1>3, <2>1, <2>3 DEF TaskPlaces, TerminalStatuses
<1>16. CASE MarkFailed(t)
  <2>1. at[t] = "failing" /\ c.status = old.status /\ UNCHANGED copy
    BY <1>16 DEF MarkFailed, PersistFailure, Running, Follows, c, old
  <2>2. CASE c.status \in TerminalStatuses
    <3>1. Write(x, Flushed(x, c, c, FALSE)) /\ Goto(t, "ended")
      BY <1>16, <2>2 DEF MarkFailed, PersistFailure, c
    <3>2. QED
      BY <1>1, <1>3, <1>4, <2>1, <2>2, <3>1 DEF TaskPlaces, old
  <2>3. CASE c.status \notin TerminalStatuses
    <3>. DEFINE new == Flushed(x, c, Copied("failed", c.control, c.taskId, c), FALSE)
    <3>1. \/ Write(x, new) /\ Goto(t, "ended")
          \/ UNCHANGED row /\ Goto(t, "escaped")
      BY <1>16, <2>3 DEF MarkFailed, PersistFailure, c
    <3>2. c.status # "failed" /\ "failed" \in Statuses \ {"paused"} /\ "failed" \in TerminalStatuses
      BY <2>3, RowNames DEF TerminalStatuses
    <3>3. new \in Row /\ new.taskId = c.taskId /\ new.status = "failed"
      BY <1>5, <3>2
    <3>. HIDE DEF new
    <3>4. QED
      BY <1>1, <1>2, <1>3, <2>1, <3>1, <3>2, <3>3 DEF TaskPlaces
  <2>4. QED
    BY <2>2, <2>3
<1>17. CASE Cancelled(t)
  BY <1>17 DEF Cancelled
<1>18. QED
  BY <1>7, <1>8, <1>9, <1>10, <1>11, <1>12, <1>13, <1>14, <1>15, <1>16, <1>17 DEF CrawlStep

\* Where a message is, and what the task of a worker process was given.
LEMMA WhereTasksAre ==
  ASSUME TypeInv, LoopInv, Quiet
  PROVE  \A w \in Workers :
           /\ held[w] = NoMessage => active[w] = NoTask /\ loop[w] = {}
           /\ held[w] # NoMessage =>
                /\ held[w] \in Messages /\ held[w].run \in Runs /\ held[w].id \in TaskIds
                /\ HasMessage(held[w])
                /\ active[w] \in Tasks /\ loop[w] = {active[w]}
                /\ of[active[w]] = held[w].run
           /\ \A t \in loop[w] : t = active[w] /\ held[w] # NoMessage
           /\ \A v \in Workers : held[v] # NoMessage /\ active[v] = active[w] => v = w
BY NamesAssumption, MessageAssumption
   DEF TypeInv, TypeOK, TaskTypeOK, Messages, Occupied, LoopInv, Quiet, SingleTask, HasMessage

\* Moving or dropping messages concerns no row and no request.
LEMMA DroppedMessages ==
  ASSUME Quiet, UNCHANGED <<row, revoked, requestVars>>,
         \A m \in Messages : HasMessage(m)' => HasMessage(m)
  PROVE  /\ \A m \in Messages : Valid(m)' => Valid(m)
         /\ Current' /\ Knowing' /\ Dispatching'
<1>1. \A m \in Messages : Valid(m)' => Valid(m)
  BY DEF Valid
<1>2. QED
  BY <1>1 DEF Quiet, requestVars, Current, Knowing, Dispatching

\* The end of a worker process concerns the others only by the message it held.
LEMMA QuietProcess ==
  ASSUME TypeInv, LoopInv, Quiet, NEW w \in Workers, held[w] # NoMessage,
         Acknowledge(w), EndProcess(w), UNCHANGED <<row, revoked, requestVars>>,
         queue' \subseteq queue \cup {held[w]}
  PROVE  Quiet'
<1>1. /\ active \in [Workers -> Tasks \cup {NoTask}] /\ loop \in [Workers -> SUBSET Tasks]
      /\ held \in [Workers -> Messages \cup {NoMessage}] /\ NoMessage \notin Messages
      /\ queue \subseteq Messages
  BY MessageAssumption DEF TypeInv, TypeOK
<1>2. /\ \A v \in Workers : v # w => active'[v] = active[v] /\ held'[v] = held[v] /\ loop'[v] = loop[v]
      /\ active'[w] = NoTask /\ held'[w] = NoMessage /\ loop'[w] = {} /\ copy' = copy
      /\ cancelled' = cancelled \ loop[w]
  BY <1>1 DEF Acknowledge, EndProcess
<1>3. \A v \in Workers : v # w /\ held[v] # NoMessage => at'[active[v]] = at[active[v]] /\ active[v] \notin loop[w]
  BY WhereTasksAre DEF EndProcess
<1>4. \A m \in Messages : HasMessage(m)' => HasMessage(m)
  BY <1>1, <1>2 DEF HasMessage
<1>5. (\A m \in Messages : Valid(m)' => Valid(m)) /\ Current' /\ Knowing' /\ Dispatching'
  BY <1>4, DroppedMessages
<1>6. SingleTask' /\ SingleCopy'
  BY <1>1, <1>2 DEF Quiet, SingleTask, SingleCopy
<1>7. Following'
  BY <1>2, <1>3 DEF Quiet, Following, Follows
<1>8. Unheard'
  <2>1. \A v \in Workers : Lingering(v)' => Lingering(v) /\ held'[v] = held[v]
    BY <1>2, <1>3 DEF Lingering
  <2>2. QED
    BY <1>5, <2>1 DEF Quiet, Unheard, requestVars
<1>9. QED
  BY <1>5, <1>6, <1>7, <1>8 DEF Quiet

\* A message is delivered to a worker process that is free.
LEMMA QuietDeliver ==
  ASSUME TypeInv, LoopInv, Quiet, NEW w \in Workers, NEW m \in queue, NEW t \in Tasks,
         Deliver(w, m, t)
  PROVE  Quiet'
<1>1. /\ active \in [Workers -> Tasks \cup {NoTask}] /\ loop \in [Workers -> SUBSET Tasks]
      /\ held \in [Workers -> Messages \cup {NoMessage}] /\ NoMessage \notin Messages
      /\ queue \subseteq Messages /\ m \in Messages /\ at \in [Tasks -> TaskPlaces]
  BY MessageAssumption DEF TypeInv, TypeOK, TaskTypeOK
<1>2. /\ held[w] = NoMessage /\ m.id \notin revoked /\ at[t] = "free" /\ queue' = queue \ {m}
      /\ UNCHANGED <<row, cancelled, revoked, requestVars, copy>>
  BY DEF Deliver, Spawn
<1>3. /\ \A v \in Workers : v # w => active'[v] = active[v] /\ held'[v] = held[v] /\ loop'[v] = loop[v]
      /\ active'[w] = t /\ held'[w] = m /\ loop'[w] = loop[w] \cup {t}
      /\ at'[t] = "get" /\ \A u \in Tasks : u # t => at'[u] = at[u]
  BY <1>1 DEF Deliver, Spawn
<1>4. \A n \in Messages : HasMessage(n)' => HasMessage(n)
  BY <1>3 DEF Deliver, HasMessage
<1>5. (\A n \in Messages : Valid(n)' => Valid(n)) /\ Current' /\ Knowing' /\ Dispatching'
  BY <1>2, <1>4, DroppedMessages
<1>6. SingleTask'
  BY <1>2, <1>3, WhereTasksAre DEF Quiet, SingleTask
<1>7. SingleCopy'
  BY <1>1, <1>2, <1>3 DEF Quiet, SingleCopy
<1>8. \A v \in Workers : v # w /\ held[v] # NoMessage => active[v] # t /\ active[v] \in Tasks
  BY <1>2, WhereTasksAre DEF LoopInv
<1>9. Following'
  <2>1. \A v \in Workers : v # w /\ held[v] # NoMessage /\ held[v].id \notin revoked
          => Follows(active[v], held[v].run, held[v].id)'
    BY <1>2, <1>3, <1>8 DEF Quiet, Following, Follows
  <2>2. Follows(t, m.run, m.id)'
    BY <1>3 DEF Follows
  <2>3. QED
    BY <1>2, <1>3, <2>1, <2>2 DEF Following, Follows
<1>10. Unheard'
  BY <1>2, <1>3, <1>5 DEF Quiet, Unheard, Lingering, requestVars
<1>11. QED
  BY <1>5, <1>6, <1>7, <1>9, <1>10 DEF Quiet

\* A task of an event loop advances: with an unrevoked message it is the only one
\* that writes its run's row, and otherwise nothing depends on that row.
LEMMA QuietTaskStep ==
  ASSUME TypeInv, LoopInv, ControlInv, IdInv, Quiet, NEW w \in Workers, NEW t \in Tasks,
         TaskStep(w, t)
  PROVE  Quiet'
<1>1. /\ t = active[w] /\ held[w] # NoMessage /\ CrawlStep(t) /\ TaskTypeOK
      /\ UNCHANGED <<queue, workerVars, revoked, requestVars>>
  BY WhereTasksAre DEF TaskStep, TypeInv, TypeOK
<1>2. PICK x \in Runs, id \in TaskIds : held[w] \in Messages /\ x = held[w].run /\ id = held[w].id /\ of[t] = x
                                        /\ HasMessage(held[w])
  BY <1>1, WhereTasksAre
<1>3. /\ UNCHANGED <<of, cancelled>>
      /\ \A u \in Tasks : u # t => at'[u] = at[u] /\ copy'[u] = copy[u]
      /\ at'[t] # "ended" => t \notin cancelled
  BY <1>1, CrawlMoves
<1>4. \A m \in Messages : (HasMessage(m)' <=> HasMessage(m)) /\ (Valid(m)' <=> Valid(m))
  BY <1>1 DEF HasMessage, Valid, workerVars
<1>5. SingleTask' /\ SingleCopy' /\ Unheard' /\ Knowing'
  <2>1. SingleTask' /\ SingleCopy'
    BY <1>1 DEF Quiet, SingleTask, SingleCopy, workerVars
  <2>2. Unheard'
    BY <1>1, <1>3, <1>4 DEF Quiet, Unheard, Lingering, workerVars, requestVars
  <2>3. Knowing'
    BY <1>1, <1>4 DEF Quiet, Knowing, requestVars
  <2>4. QED
    BY <2>1, <2>2, <2>3
<1>6. \A v \in Workers : v # w /\ held[v] # NoMessage => active[v] # t /\ active[v] \in Tasks
  BY <1>1, WhereTasksAre
<1>7. \A y \in Runs : y # x => row'[y] = row[y]
  <2>1. row \in [Runs -> Row]
    BY <1>1 DEF TaskTypeOK
  <2>2. UNCHANGED row \/ \E r : Write(x, r)
    BY <1>1, <1>2, Zenon DEF CrawlStep, Get, Load, Boot, Resolve, Top, Checkpoint, Start, Crawl, Record, End,
         Complete, Raise, Fail, MarkFailed, PersistFailure, Cancelled
  <2>3. QED
    BY <2>1, <2>2 DEF Write
<1>8. CASE id \notin revoked
  <2>1. Valid(held[w]) /\ Follows(t, x, id) /\ row[x].taskId = id /\ row[x].status \notin {"absent", "paused"}
    BY <1>1, <1>2, <1>8 DEF Quiet, Current, Following, Valid
  <2>2. t \notin cancelled
    BY <1>1, <1>2, <1>8, OneLoop
  <2>3. /\ Follows(t, x, id)'
        /\ row'[x].taskId = id /\ row'[x].status \notin {"absent", "paused"}
    BY <1>1, <1>2, <2>1, <2>2, FollowStep
  <2>4. Current'
    <3>1. \A m \in Messages : Valid(m) /\ m.run = x => m.id = id
      BY <2>1 DEF Quiet, Current
    <3>2. \A m \in Messages : m.run \in Runs
      BY DEF Messages
    <3>3. QED
      BY <1>4, <1>7, <2>3, <3>1, <3>2 DEF Quiet, Current
  <2>5. \A v \in Workers : v # w /\ held[v] # NoMessage /\ held[v].id \notin revoked => held[v].run # x
    <3>. SUFFICES ASSUME NEW v \in Workers, held[v] # NoMessage, held[v].id \notin revoked, held[v].run = x
                  PROVE  v = w
      OBVIOUS
    <3>1. held[v] \in Messages /\ Valid(held[v]) /\ HasMessage(held[v])
      BY WhereTasksAre DEF Valid
    <3>2. held[v].id = id
      BY <2>1, <3>1 DEF Quiet, Current
    <3>3. held[v] = held[w]
      BY <1>2, <3>1, <3>2 DEF IdInv
    <3>4. QED
      BY <3>3 DEF Quiet, SingleCopy
  <2>6. Following'
    <3>1. \A v \in Workers : v # w /\ held[v] # NoMessage /\ held[v].id \notin revoked
            => held[v].run \in Runs /\ row'[held[v].run] = row[held[v].run]
      BY <1>7, <2>5, WhereTasksAre
    <3>2. \A v \in Workers : v # w /\ held[v] # NoMessage /\ held[v].id \notin revoked
            => Follows(active[v], held[v].run, held[v].id)'
      BY <1>1, <1>3, <1>6, <3>1 DEF Quiet, Following, Follows, workerVars
    <3>3. Follows(active[w], held[w].run, held[w].id)'
      BY <1>1, <1>2, <2>3 DEF workerVars, Follows
    <3>4. QED
      BY <1>1, <3>2, <3>3 DEF Following, workerVars
  <2>7. Dispatching'
    <3>1. \A r \in Requests : reqAt[r] \in {"refresh", "dispatch", "enqueue"} => reqRun[r] # x /\ reqRun[r] \in Runs
      BY <1>2, <2>1 DEF Quiet, Knowing, TypeInv, TypeOK
    <3>2. QED
      BY <1>1, <1>7, <3>1 DEF Quiet, Dispatching, requestVars
  <2>8. QED
    BY <1>5, <2>4, <2>6, <2>7 DEF Quiet
<1>9. CASE id \in revoked /\ t \notin cancelled
  <2>1. Lingering(w)
    BY <1>1, <1>2, <1>9 DEF Lingering
  <2>2. /\ \A m \in Messages : Valid(m) => m.run # x
        /\ \A r \in Requests : reqAt[r] \in {"idle", "pausing", "killing"}
    BY <1>2, <2>1 DEF Quiet, Unheard
  <2>3. Current'
    BY <1>4, <1>7, <2>2 DEF Quiet, Current, Messages
  <2>4. Following'
    <3>1. \A v \in Workers : held[v] # NoMessage /\ held[v].id \notin revoked
            => v # w /\ held[v].run \in Runs /\ row'[held[v].run] = row[held[v].run]
      BY <1>2, <1>7, <1>9, <2>2, WhereTasksAre DEF Valid
    <3>2. QED
      BY <1>1, <1>3, <1>6, <3>1 DEF Quiet, Following, Follows, workerVars
  <2>5. Dispatching'
    BY <1>1, <2>2 DEF Dispatching, requestVars
  <2>6. QED
    BY <1>5, <2>3, <2>4, <2>5 DEF Quiet
<1>10. CASE t \in cancelled
  <2>1. UNCHANGED row
    BY <1>1, <1>10 DEF CrawlStep, Get, Load, Boot, Resolve, Top, Checkpoint, Start, Crawl, Record, End,
         Complete, Raise, Fail, MarkFailed, PersistFailure, Cancelled, Running
  <2>2. id \in revoked
    BY <1>1, <1>2, <1>10, OneLoop
  <2>3. Current' /\ Dispatching'
    BY <1>1, <1>4, <2>1 DEF Quiet, Current, Dispatching, requestVars
  <2>4. Following'
    BY <1>1, <1>2, <1>3, <1>6, <2>1, <2>2 DEF Quiet, Following, Follows, workerVars
  <2>5. QED
    BY <1>5, <2>3, <2>4 DEF Quiet
<1>11. QED
  BY <1>8, <1>9, <1>10

\* The other steps of the workers and the broker.
LEMMA QuietWorkers ==
  ASSUME TypeInv, LoopInv, ControlInv, IdInv, Quiet, NothingLeftBehind',
         \/ \E w \in Workers : WorkerStep(w) \/ WorkerFault(w)
         \/ \E m \in queue : Discard(m)
  PROVE  Quiet'
<1>1. /\ active \in [Workers -> Tasks \cup {NoTask}] /\ loop \in [Workers -> SUBSET Tasks]
      /\ held \in [Workers -> Messages \cup {NoMessage}] /\ at \in [Tasks -> TaskPlaces]
      /\ Occupied
  BY DEF TypeInv, TypeOK, TaskTypeOK
<1>2. /\ \A m \in Messages : HasMessage(m)' => HasMessage(m)
      /\ UNCHANGED <<revoked, used, requestVars>>
  BY WorkerMessages
<1>3. ASSUME NEW m \in queue, Discard(m) PROVE Quiet'
  <2>1. /\ UNCHANGED <<row, taskVars, workerVars, requestVars>> /\ queue' \subseteq queue
    BY <1>3 DEF Discard
  <2>2. (\A n \in Messages : Valid(n)' => Valid(n)) /\ Current' /\ Knowing' /\ Dispatching'
    BY <1>2, <2>1, DroppedMessages
  <2>3. SingleTask' /\ SingleCopy' /\ Following'
    BY <1>2, <2>1 DEF Quiet, SingleTask, SingleCopy, Following, Follows, taskVars, workerVars
  <2>4. Unheard'
    BY <1>2, <2>1, <2>2 DEF Quiet, Unheard, Lingering, taskVars, workerVars, requestVars
  <2>5. QED
    BY <2>2, <2>3, <2>4 DEF Quiet
<1>4. ASSUME NEW w \in Workers, Reap(w, NoTask) \/ \E t \in Tasks : Reap(w, t) PROVE FALSE
  BY <1>1, <1>4, NamesAssumption DEF Reap, Quiet, SingleTask
<1>5. ASSUME NEW w \in Workers, Finish(w) PROVE Quiet'
  <2>1. PICK t \in Tasks : t = active[w]
    BY <1>1, <1>5 DEF Finish
  <2>2. /\ \A v \in Workers : v # w => active'[v] = active[v] /\ held'[v] = held[v] /\ loop'[v] = loop[v]
        /\ active'[w] = NoTask /\ held'[w] = NoMessage /\ loop'[w] = loop[w] \ {t}
        /\ \A u \in Tasks : u # t => at'[u] = at[u]
        /\ UNCHANGED <<row, copy, cancelled, queue, revoked, requestVars>>
    BY <1>1, <1>5, <2>1 DEF Finish, Acknowledge, Goto, requestVars
  <2>3. held[w] # NoMessage /\ loop[w] = {t}
    BY <1>1, <1>5, <2>1, WhereTasksAre DEF Finish, Occupied
  <2>4. (\A n \in Messages : Valid(n)' => Valid(n)) /\ Current' /\ Knowing' /\ Dispatching'
    BY <1>2, <2>2, DroppedMessages
  <2>5. SingleTask'
    BY <2>2, <2>3 DEF Quiet, SingleTask
  <2>6. SingleCopy'
    BY <1>1, <2>2, MessageAssumption DEF Quiet, SingleCopy, TypeInv, TypeOK
  <2>7. \A v \in Workers : v # w /\ held[v] # NoMessage => active[v] # t /\ active[v] \in Tasks
    BY <2>1, <2>3, WhereTasksAre
  <2>8. Following'
    BY <2>2, <2>7 DEF Quiet, Following, Follows
  <2>9. Unheard'
    BY <2>2, <2>4 DEF Quiet, Unheard, Lingering, requestVars
  <2>10. QED
    BY <2>4, <2>5, <2>6, <2>8, <2>9 DEF Quiet
<1>6. ASSUME NEW w \in Workers, Terminate(w) PROVE Quiet'
  <2>1. /\ UNCHANGED <<row, at, copy, queue, workerVars, revoked, requestVars>>
        /\ cancelled \subseteq cancelled'
    BY <1>6 DEF Terminate
  <2>2. (\A n \in Messages : Valid(n)' => Valid(n)) /\ Current' /\ Knowing' /\ Dispatching'
    BY <1>2, <2>1, DroppedMessages
  <2>3. SingleTask' /\ SingleCopy' /\ Following'
    BY <2>1 DEF Quiet, SingleTask, SingleCopy, Following, Follows, workerVars
  <2>4. Unheard'
    BY <2>1, <2>2 DEF Quiet, Unheard, Lingering, workerVars, requestVars
  <2>5. QED
    BY <2>2, <2>3, <2>4 DEF Quiet
<1>7. ASSUME NEW w \in Workers, Exit(w) PROVE Quiet'
  <2>1. active[w] # NoTask
    BY <1>7, OneLoop DEF Exit
  <2>2. held[w] # NoMessage
    BY <1>1, <2>1 DEF Occupied
  <2>3. QED
    BY <1>7, <2>2, QuietProcess DEF Exit
<1>8. ASSUME NEW w \in Workers, WorkerFault(w) PROVE Quiet'
  <2>1. CASE LoseWorker(w)
    BY <2>1, QuietProcess DEF LoseWorker
  <2>2. CASE HardLimit(w)
    <3>1. held[w] # NoMessage
      BY <1>1, <2>2 DEF HardLimit, Occupied
    <3>2. QED
      BY <2>2, <3>1, QuietProcess DEF HardLimit
  <2>3. CASE LoseConnection(w) \/ SoftLimit(w)
    BY <2>3 DEF LoseConnection, SoftLimit, Fault, NothingLeftBehind
  <2>4. QED
    BY <1>8, <2>1, <2>2, <2>3 DEF WorkerFault
<1>9. QED
  BY <1>3, <1>4, <1>5, <1>6, <1>7, <1>8, QuietDeliver, QuietTaskStep DEF WorkerStep

\* What a request changes besides its own place and copy and the row of its run
\* is the revoked ids and the queue: the workers are where they were.
LEMMA AskedWorkers ==
  ASSUME TypeInv, Quiet, UNCHANGED <<taskVars, workerVars>>, revoked \subseteq revoked',
         \A m \in Messages : Valid(m) /\ m.id \notin revoked' => row'[m.run] = row[m.run]
  PROVE  /\ SingleTask'
         /\ Following'
         /\ queue' = queue => SingleCopy'
<1>1. SingleTask' /\ (queue' = queue => SingleCopy')
  BY DEF Quiet, SingleTask, SingleCopy, workerVars
<1>2. \A w \in Workers : held[w] # NoMessage => held[w] \in Messages /\ HasMessage(held[w])
  BY DEF TypeInv, TypeOK, HasMessage
<1>3. Following'
  BY <1>2 DEF Quiet, Following, Follows, Valid, taskVars, workerVars
<1>4. QED
  BY <1>1, <1>3

\* A request is admitted once the workers have acted on what was revoked.
LEMMA QuietAdmit ==
  ASSUME \A r, s \in Requests : r = s, TypeInv, Quiet, NothingLeftBehind',
         NEW r \in Requests, NEW x \in Runs, Create(r, x) \/ Request(r, x)
  PROVE  Quiet'
<1>1. /\ row \in [Runs -> Row] /\ reqAt \in [Requests -> RequestPlaces]
      /\ reqRun \in [Requests -> Runs] /\ reqCopy \in [Requests -> Row]
  BY DEF TypeInv, TypeOK, TaskTypeOK
<1>2. Heard
  BY DEF Create, Request, Admit, Fault, NothingLeftBehind
<1>3. UNCHANGED <<taskVars, queue, workerVars, revoked>>
  BY DEF Create, Request
<1>4. \A m \in Messages : (HasMessage(m)' <=> HasMessage(m)) /\ (Valid(m)' <=> Valid(m))
  BY <1>3 DEF HasMessage, Valid, workerVars
<1>5. \A w \in Workers : ~Lingering(w)'
  BY <1>2, <1>3 DEF Heard, Lingering, taskVars, workerVars
<1>6. reqRun'[r] = x
  BY <1>1 DEF Create, Request, Admit
<1>7. \A m \in Messages : m.run \in Runs
  BY DEF Messages
<1>8. CASE Create(r, x)
  <2>1. /\ row'[x] = Created /\ reqAt'[r] = "refresh" /\ \A y \in Runs : y # x => row'[y] = row[y]
    BY <1>1, <1>8 DEF Create, Write, RequestGoto
  <2>2. \A m \in Messages : Valid(m) => m.run # x /\ row'[m.run] = row[m.run]
    BY <1>7, <1>8, <2>1 DEF Create, Quiet, Current
  <2>3. Current' /\ Unheard' /\ Knowing'
    BY <1>4, <1>5, <1>6, <2>1, <2>2 DEF Quiet, Current, Unheard, Knowing
  <2>4. Dispatching'
    BY <1>6, <2>1 DEF Dispatching, Created
  <2>5. QED
    BY <1>3, <2>2, <2>3, <2>4, AskedWorkers DEF Quiet
<1>9. CASE Request(r, x)
  <2>1. UNCHANGED row /\ reqCopy'[r] = row[x]
    BY <1>1, <1>9 DEF Request
  <2>2. \/ reqAt'[r] \in {"pause", "kill"}
        \/ reqAt'[r] = "resume" /\ row[x].status = "paused"
    BY <1>1, <1>9 DEF Request, RequestGoto
  <2>3. Current' /\ Unheard' /\ Knowing'
    BY <1>4, <1>5, <1>6, <2>1, <2>2 DEF Quiet, Current, Unheard, Knowing
  <2>4. Dispatching'
    BY <2>1, <2>2 DEF Dispatching
  <2>5. QED
    BY <1>3, <2>1, <2>3, <2>4, AskedWorkers DEF Quiet
<1>10. QED
  BY <1>8, <1>9

\* A request that goes on to a place where it knows nothing of a message of its
\* run, or that ends.
LEMMA QuietRequest ==
  ASSUME \A r, s \in Requests : r = s, TypeInv, Quiet, NEW r \in Requests, RequestStep(r),
         NothingLeftBehind', IdInv
  PROVE  Quiet'
<1>. DEFINE c == reqCopy[r]
<1>1. /\ row \in [Runs -> Row] /\ reqAt \in [Requests -> RequestPlaces]
      /\ reqRun \in [Requests -> Runs] /\ reqCopy \in [Requests -> Row] /\ c \in Row
      /\ c.taskId \in TaskIds \cup {NoId} /\ Assigned
      /\ \A m \in Messages : m.run \in Runs /\ m.id \in TaskIds
  BY DEF TypeInv, TypeOK, TaskTypeOK, Row, Messages
<1>2. /\ UNCHANGED <<taskVars, workerVars, reqRun>> /\ revoked \subseteq revoked'
  BY DEF RequestStep, Revoke, Commit, Resume, Refresh, Dispatch, Enqueue, Unassign
<1>3. PICK x \in Runs : x = reqRun[r] /\ x = reqRun'[r]
  BY <1>1, <1>2
<1>4. UNCHANGED queue => \A m \in Messages : Valid(m)' => Valid(m) /\ m.id \notin revoked'
  BY <1>2 DEF Valid, HasMessage, workerVars
<1>5. \A w \in Workers : held[w] # NoMessage => held[w] \in Messages /\ HasMessage(held[w])
  BY DEF TypeInv, TypeOK, HasMessage
<1>. HIDE DEF c
\* Before the commit of a pause or a kill.
<1>6. ASSUME NEW from \in {"pause", "kill"}, NEW to \in {"pausing", "killing"}, Revoke(r, from, to)
      PROVE  Quiet'
  <2>1. UNCHANGED <<row, queue, reqCopy>> /\ reqAt[r] = from
    BY <1>6 DEF Revoke
  <2>2. \A m \in Messages : Valid(m) /\ m.run = x => m.id = c.taskId
    BY <1>3, <2>1 DEF Quiet, Knowing, c
  <2>3. \/ reqAt'[r] = to /\ ((c.taskId = NoId /\ UNCHANGED revoked) \/ revoked' = revoked \cup {c.taskId})
        \/ reqAt'[r] = "idle" /\ UNCHANGED revoked
    BY <1>1, <1>6 DEF Revoke, RequestGoto, Fault, NothingLeftBehind, c
  <2>4. \A m \in Messages : Valid(m)' => Valid(m)
    BY <1>4, <2>1
  <2>5. Current'
    BY <2>1, <2>4 DEF Quiet, Current
  <2>6. Knowing'
    BY <1>1, <1>3, <1>4, <2>1, <2>2, <2>3, IdsAssumption DEF Knowing
  <2>7. Dispatching'
    BY <2>3 DEF Dispatching
  <2>8. Unheard'
    <3>. SUFFICES ASSUME NEW w \in Workers, Lingering(w)'
                  PROVE  /\ \A m \in Messages : Valid(m)' => m.run # held[w].run
                         /\ \A s \in Requests : reqAt'[s] \in {"idle", "pausing", "killing"}
      BY <1>2 DEF Unheard, workerVars
    <3>1. held[w] \in Messages /\ HasMessage(held[w]) /\ held[w].id \in revoked' /\ active[w] \notin cancelled
      BY <1>2, <1>5 DEF Lingering, workerVars, taskVars
    <3>2. \A m \in Messages : Valid(m)' => m.run # held[w].run
      <4>1. CASE held[w].id \in revoked
        BY <2>4, <3>1, <4>1, <1>2, MessageAssumption DEF Quiet, Unheard, Lingering
      <4>2. CASE held[w].id \notin revoked
        BY <1>4, <2>1, <3>1, <4>2 DEF Quiet, Current, Valid
      <4>3. QED
        BY <4>1, <4>2
    <3>3. QED
      BY <2>3, <3>2
  <2>9. QED
    BY <1>2, <2>1, <2>5, <2>6, <2>7, <2>8, AskedWorkers DEF Quiet
\* After it no unrevoked message of the run is about.
<1>7. ASSUME reqAt[r] \notin {"idle", "pause", "kill"}, UNCHANGED queue, UNCHANGED revoked,
             \A y \in Runs : y # x => row'[y] = row[y],
             reqAt[r] \in {"pausing", "killing"} => reqAt'[r] = "idle",
             reqAt'[r] \notin {"pausing", "killing", "resume"},
             reqAt'[r] \in {"refresh", "dispatch", "enqueue"}
               => row'[x].status \notin {"absent", "paused"},
             reqAt'[r] = "enqueue" => row'[x].taskId = reqCopy'[r].taskId
      PROVE  Quiet'
  <2>1. \A m \in Messages : Valid(m) => m.run # x /\ row'[m.run] = row[m.run]
    BY <1>1, <1>3, <1>7 DEF Quiet, Knowing
  <2>2. \A m \in Messages : Valid(m)' => Valid(m)
    BY <1>4, <1>7
  <2>3. Current' /\ Knowing' /\ Dispatching'
    BY <1>3, <1>7, <2>1, <2>2 DEF Quiet, Current, Knowing, Dispatching
  <2>4. \A w \in Workers : Lingering(w)' => Lingering(w)
    BY <1>2, <1>7 DEF Lingering, workerVars, taskVars
  <2>5. \A w \in Workers : Lingering(w)' => reqAt'[r] = "idle"
    BY <1>7, <2>4 DEF Quiet, Unheard
  <2>6. Unheard'
    BY <1>2, <2>2, <2>4, <2>5 DEF Quiet, Unheard, workerVars
  <2>7. QED
    BY <1>2, <1>7, <2>1, <2>3, <2>6, AskedWorkers DEF Quiet
<1>8. \A new : Write(x, new) => row'[x] = new /\ \A y \in Runs : y # x => row'[y] = row[y]
  BY <1>1, <1>3 DEF Write
<1>9. \A place : RequestGoto(r, place) => reqAt'[r] = place
  BY <1>1 DEF RequestGoto
<1>10. ASSUME NEW from \in {"pausing", "killing"}, NEW status, Commit(r, from, status) PROVE Quiet'
  BY <1>3, <1>7, <1>8, <1>9, <1>10 DEF Commit
<1>11. CASE Resume(r)
  <2>1. c.status = "paused"
    BY <1>11 DEF Resume, Quiet, Dispatching, c
  <2>2. Sent(x, c, Copied("running", NoControl, NoId, c)).status = "running"
    BY <2>1 DEF Sent, Flushed, Copied
  <2>3. Write(x, Sent(x, c, Copied("running", NoControl, NoId, c)))
    BY <1>3, <1>11 DEF Resume, c
  <2>4. QED
    BY <1>7, <1>8, <1>9, <1>11, <2>2, <2>3 DEF Resume
<1>12. CASE Refresh(r)
  <2>1. row[x].status \notin {"absent", "paused"}
    BY <1>3, <1>12 DEF Refresh, Quiet, Dispatching
  <2>2. QED
    BY <1>7, <1>9, <1>12, <2>1 DEF Refresh
<1>13. CASE Dispatch(r)
  <2>1. row[x].status \notin {"absent", "paused"}
    BY <1>3, <1>13 DEF Dispatch, Quiet, Dispatching
  <2>2. CASE UNCHANGED row /\ reqAt'[r] = "idle"
    BY <1>7, <1>13, <2>2 DEF Dispatch
  <2>3. ASSUME NEW id \in TaskIds, Write(x, Flushed(x, c, Copied(c.status, c.control, id, c), FALSE)),
               reqCopy'[r] = Copied(c.status, c.control, id, c), reqAt'[r] = "enqueue"
        PROVE  Quiet'
    <3>1. row'[x].status = row[x].status /\ row'[x].taskId = id /\ reqCopy'[r].taskId = id
      BY <1>8, <2>3 DEF Flushed, Copied
    <3>2. QED
      BY <1>7, <1>8, <1>13, <2>1, <2>3, <3>1 DEF Dispatch
  <2>4. QED
    BY <1>1, <1>3, <1>9, <1>13, <2>2, <2>3 DEF Dispatch, c
<1>14. CASE Unassign(r)
  BY <1>3, <1>7, <1>8, <1>9, <1>14 DEF Unassign
<1>15. CASE Enqueue(r)
  <2>1. CASE UNCHANGED queue /\ reqAt'[r] = "unassign"
    BY <1>7, <1>15, <2>1 DEF Enqueue
  <2>2. CASE queue' = queue \cup {[run |-> reqRun[r], id |-> c.taskId]} /\ reqAt'[r] = "idle"
    <3>1. PICK n \in Messages : n = [run |-> reqRun[r], id |-> c.taskId]
      BY <1>1, <1>15 DEF Enqueue, Assigned, Messages, c
    <3>2. /\ reqAt[r] = "enqueue" /\ UNCHANGED <<row, revoked>>
          /\ row[x].taskId = n.id /\ row[x].status \notin {"absent", "paused"} /\ n.run = x
      BY <1>3, <1>15, <3>1 DEF Enqueue, Quiet, Dispatching, c
    <3>3. \A m \in Messages : Valid(m)' => Valid(m) \/ m = n
      BY <1>2, <2>2, <3>1, <3>2 DEF Valid, HasMessage, workerVars
    <3>4. \A w \in Workers : held[w] # n
      BY <1>15, <3>1 DEF Enqueue, IdInv, HasMessage, c
    <3>5. SingleCopy'
      BY <1>2, <2>2, <3>1, <3>4 DEF Quiet, SingleCopy, workerVars
    <3>6. Current'
      BY <3>2, <3>3 DEF Quiet, Current
    <3>7. \A w \in Workers : ~Lingering(w)
      BY <3>2 DEF Quiet, Unheard
    <3>8. Unheard'
      BY <1>2, <3>2, <3>7 DEF Unheard, Lingering, workerVars, taskVars
    <3>9. Knowing' /\ Dispatching'
      BY <2>2 DEF Knowing, Dispatching
    <3>10. QED
      BY <1>2, <3>2, <3>5, <3>6, <3>8, <3>9, AskedWorkers DEF Quiet
  <2>3. QED
    BY <1>9, <1>15, <2>1, <2>2 DEF Enqueue, c
<1>16. QED
  BY <1>6, <1>10, <1>11, <1>12, <1>13, <1>14, <1>15 DEF RequestStep

\* The API process ends, and with it the request.
LEMMA QuietLoseApi ==
  ASSUME TypeInv, Quiet, LoseApi
  PROVE  Quiet'
<1>1. /\ UNCHANGED <<row, taskVars, queue, workerVars, revoked, reqRun, reqCopy>>
      /\ \A r \in Requests : reqAt'[r] = "idle"
  BY DEF LoseApi
<1>2. \A m \in Messages : Valid(m)' <=> Valid(m)
  BY <1>1 DEF Valid, HasMessage, workerVars
<1>3. SingleTask' /\ SingleCopy' /\ Following'
  BY <1>1, AskedWorkers DEF Quiet
<1>4. Current' /\ Knowing' /\ Dispatching'
  BY <1>1, <1>2 DEF Quiet, Current, Knowing, Dispatching
<1>5. Unheard'
  BY <1>1, <1>2 DEF Quiet, Unheard, Lingering, workerVars, taskVars
<1>6. QED
  BY <1>3, <1>4, <1>5 DEF Quiet

\* All that holds with one request at a time.
SerialInv ==
  /\ TypeInv /\ LoopInv /\ ControlInv /\ IdInv
  /\ NothingLeftBehind => Quiet

LEMMA InitSerial == Init => SerialInv
BY InitTypes, InitLoops, InitControl, InitIds, InitQuiet DEF SerialInv

\* A fault that has happened has happened for good.
LEMMA FaultsStay == [Next]_vars => (NothingLeftBehind' => NothingLeftBehind)
<1>1. [Next]_vars => faults \subseteq faults'
  BY DEF Next, WorkerStep, Deliver, TaskStep, Finish, Reap, Terminate, Exit, WorkerFault, LoseWorker,
         LoseConnection, SoftLimit, HardLimit, Discard, Create, Request, Admit, RequestStep, Revoke, Commit,
         Resume, Refresh, Dispatch, Enqueue, Unassign, LoseApi, Fault, vars
<1>2. QED
  BY <1>1 DEF NothingLeftBehind

LEMMA SerialStep ==
  ASSUME \A r, s \in Requests : r = s
  PROVE  SerialInv /\ [Next]_vars => SerialInv'
<1>. SUFFICES ASSUME SerialInv, [Next]_vars PROVE SerialInv'
  OBVIOUS
<1>1. TypeInv' /\ LoopInv' /\ ControlInv' /\ IdInv'
  BY TypeStep, LoopStep, ControlStep, IdStep DEF SerialInv
<1>2. ASSUME NothingLeftBehind' PROVE Quiet'
  <2>1. TypeInv /\ LoopInv /\ ControlInv /\ IdInv /\ Quiet
    BY <1>2, FaultsStay DEF SerialInv
  <2>2. CASE \/ \E w \in Workers : WorkerStep(w) \/ WorkerFault(w)
             \/ \E m \in queue : Discard(m)
    BY <1>2, <2>1, <2>2, QuietWorkers
  <2>3. CASE \E r \in Requests, x \in Runs : Create(r, x) \/ Request(r, x)
    BY <1>2, <2>1, <2>3, QuietAdmit
  <2>4. CASE \E r \in Requests : RequestStep(r)
    BY <1>2, <2>1, <2>4, QuietRequest
  <2>5. CASE LoseApi
    BY <2>1, <2>5, QuietLoseApi
  <2>6. CASE UNCHANGED vars
    BY <2>1, <2>6 DEF vars, taskVars, workerVars, requestVars, Quiet, SingleTask, SingleCopy, Current,
                      Following, Follows, Unheard, Lingering, Knowing, Dispatching, Valid, HasMessage
  <2>7. QED
    BY <2>2, <2>3, <2>4, <2>5, <2>6 DEF Next
<1>3. QED
  BY <1>1, <1>2 DEF SerialInv

LEMMA SerialHolds ==
  ASSUME \A r, s \in Requests : r = s
  PROVE  Spec => []SerialInv
<1>. QED
  BY InitSerial, SerialStep, PTL DEF Spec

\* With one request at a time, no two workers that nobody told to stop crawl the
\* same run: a second unrevoked message of a run would bear the task id of the
\* first, because pause_run and kill_run revoked whatever stood in the row.
THEOREM OneCrawlerHolds ==
  ASSUME \A r, s \in Requests : r = s
  PROVE  Spec => []OneCrawler
<1>1. SerialInv => OneCrawler
  <2>. SUFFICES ASSUME SerialInv, NothingLeftBehind, NEW x \in Runs,
                       NEW v \in Crawlers(x), NEW w \in Crawlers(x)
                PROVE  v = w
    BY DEF OneCrawler
  <2>1. TypeInv /\ LoopInv /\ IdInv /\ Quiet
    BY DEF SerialInv
  <2>2. \A u \in Crawlers(x) : /\ u \in Workers /\ held[u] \in Messages /\ held[u] # NoMessage
                               /\ HasMessage(held[u]) /\ Valid(held[u]) /\ held[u].run = x
    BY <2>1, WhereTasksAre DEF Crawlers, Valid, TypeInv, Occupied
  <2>3. held[v].id = row[x].taskId /\ held[w].id = row[x].taskId
    BY <2>1, <2>2 DEF Quiet, Current
  <2>4. held[v] = held[w]
    BY <2>1, <2>2, <2>3 DEF IdInv
  <2>5. QED
    BY <2>1, <2>2, <2>4 DEF Quiet, SingleCopy
<1>2. QED
  BY <1>1, SerialHolds, PTL

\* With one request at a time, a run whose last message goes is not left running,
\* unless its task was told to stop, was stopped by the time limit or let an
\* exception escape: a lost worker returns its message, and a task that was not
\* revoked ends only with its run.
THEOREM AttendanceHolds ==
  ASSUME \A r, s \in Requests : r = s
  PROVE  Spec => RunningIsAttended
<1>1. SerialInv /\ [Next]_vars =>
        [\A x \in Runs :
           NothingLeftBehind' /\ InFlight(x) /\ ~InFlight(x)' /\ row'[x].status = "running"
             => \/ \E m \in queue \cup {held[w] : w \in Workers} :
                      m # NoMessage /\ m.run = x /\ m.id \in revoked
                \/ \E w \in Workers :
                      HardLimit(w) \/ (Finish(w) /\ at[active[w]] = "escaped")]_vars
  <2>. SUFFICES ASSUME SerialInv, [Next]_vars, NEW x \in Runs,
                       NothingLeftBehind', InFlight(x), ~InFlight(x)', row'[x].status = "running"
                PROVE  \/ \E m \in queue \cup {held[w] : w \in Workers} :
                            m # NoMessage /\ m.run = x /\ m.id \in revoked
                       \/ \E w \in Workers :
                            HardLimit(w) \/ (Finish(w) /\ at[active[w]] = "escaped")
    OBVIOUS
  <2>1. /\ TypeInv /\ LoopInv /\ Quiet
        /\ held \in [Workers -> Messages \cup {NoMessage}] /\ queue \subseteq Messages /\ NoMessage \notin Messages
    BY FaultsStay, MessageAssumption DEF SerialInv, TypeInv, TypeOK
  <2>2. ASSUME queue \subseteq queue', UNCHANGED held PROVE FALSE
    BY <2>2 DEF InFlight
  <2>3. ASSUME NEW w \in Workers, Acknowledge(w), UNCHANGED queue PROVE held[w] # NoMessage /\ held[w].run = x
    BY <2>1, <2>3 DEF Acknowledge, InFlight
  <2>4. ASSUME NEW m \in queue, Discard(m)
        PROVE  m # NoMessage /\ m.run = x /\ m.id \in revoked
    BY <2>1, <2>4 DEF Discard, InFlight, workerVars
  <2>5. ASSUME NEW w \in Workers, Exit(w)
        PROVE  held[w] # NoMessage /\ held[w].run = x /\ held[w].id \in revoked
    BY <2>1, <2>3, <2>5, OneLoop DEF Exit
  <2>6. ASSUME NEW w \in Workers, Finish(w)
        PROVE  \/ held[w] # NoMessage /\ held[w].run = x /\ held[w].id \in revoked
               \/ at[active[w]] = "escaped"
    <3>1. held[w] # NoMessage /\ held[w].run = x /\ UNCHANGED row
      BY <2>3, <2>6 DEF Finish
    <3>2. at[active[w]] = "ended" /\ held[w].id \notin revoked => row[x].status \in TerminalStatuses
      BY <2>1, <3>1 DEF Quiet, Following, Follows
    <3>3. QED
      BY <2>6, <3>1, <3>2 DEF Finish, Done, TerminalStatuses
  <2>7. ASSUME NEW w \in Workers, LoseWorker(w) PROVE FALSE
    BY <2>1, <2>7 DEF LoseWorker, Acknowledge, InFlight
  <2>8. ASSUME NEW w \in Workers, SoftLimit(w) \/ LoseConnection(w) PROVE FALSE
    BY <2>8 DEF SoftLimit, LoseConnection, Fault, NothingLeftBehind
  <2>9. ASSUME NEW w \in Workers, NEW m \in queue, NEW t \in Tasks, Deliver(w, m, t) PROVE FALSE
    BY <2>1, <2>9 DEF Deliver, InFlight
  <2>10. ASSUME NEW w \in Workers,
                Terminate(w) \/ \E t \in Tasks : TaskStep(w, t) \/ Reap(w, t)
         PROVE  FALSE
    BY <2>2, <2>10 DEF Terminate, TaskStep, Reap, workerVars
  <2>11. CASE \E r \in Requests : RequestStep(r) \/ \E y \in Runs : Create(r, y) \/ Request(r, y)
    BY <2>2, <2>11 DEF RequestStep, Revoke, Commit, Resume, Refresh, Dispatch, Enqueue, Unassign,
                       Create, Request, workerVars
  <2>12. CASE LoseApi \/ UNCHANGED vars
    BY <2>2, <2>12 DEF LoseApi, vars, workerVars
  <2>13. QED
    BY <2>4, <2>5, <2>6, <2>7, <2>8, <2>9, <2>10, <2>11, <2>12 DEF Next, WorkerStep, WorkerFault
<1>2. QED
  BY <1>1, SerialHolds, PTL DEF Spec, RunningIsAttended
=============================================================================
