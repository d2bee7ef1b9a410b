--------------------------- MODULE LocalRunProofs ---------------------------
(***************************************************************************)
(* Machine-checked proofs about LocalRun, for every set of runs, tasks and *)
(* clients, every number of URLs and every bound on requests and restarts. *)
(* What holds with one request at a time assumes that there is one client. *)
(***************************************************************************)
EXTENDS LocalRun, RunTaskProofs

-----------------------------------------------------------------------------
(* Type correctness.                                                       *)

TypeInv == TypeOK /\ UrlsLeft

LEMMA InitTypes == Init => TypeInv
<1>. SUFFICES ASSUME Init PROVE TypeInv
  OBVIOUS
<1>1. Absent \in Row
  BY RowNames DEF Absent, Row
<1>2. TaskTypeOK
  BY <1>1, RowNames, UrlsAssumption DEF Init, TaskInit, TaskTypeOK, TaskPlaces
<1>3. UrlsLeft
  BY DEF Init, TaskInit, UrlsLeft
<1>4. QED
  BY <1>1, <1>2, <1>3, RowNames, BoundsAssumption
     DEF Init, TypeInv, TypeOK, ActorPlaces, Actors

\* What Write and the changes of a task's place leave well typed.
LEMMA SharedTypes ==
  ASSUME TypeInv
  PROVE  /\ UNCHANGED taskVars /\ row' \in [Runs -> Row] => TaskTypeOK' /\ UrlsLeft'
         /\ \A x \in Runs : Clear(x) =>
              /\ registry' \in [Runs -> Tasks \cup {NoTask}]
              /\ cancelled' \subseteq Tasks
         /\ \A a \in Actors, place \in ActorPlaces :
              ActorGoto(a, place) => reqAt' \in [Actors -> ActorPlaces]
<1>1. UNCHANGED taskVars /\ row' \in [Runs -> Row] => TaskTypeOK' /\ UrlsLeft'
  BY DEF TypeInv, TypeOK, TaskTypeOK, UrlsLeft, taskVars
<1>2. \A x \in Runs : Clear(x) => /\ registry' \in [Runs -> Tasks \cup {NoTask}]
                                  /\ cancelled' \subseteq Tasks
  BY DEF TypeInv, TypeOK, TaskTypeOK, Clear, Live
<1>3. \A a \in Actors, place \in ActorPlaces :
        ActorGoto(a, place) => reqAt' \in [Actors -> ActorPlaces]
  BY DEF TypeInv, TypeOK, ActorGoto
<1>4. QED
  BY <1>1, <1>2, <1>3

\* The requests that load a run keep the types.
LEMMA AdmitTypes ==
  ASSUME TypeInv, NEW r \in Requests, NEW x \in Runs, Create(r, x) \/ Request(r, x)
  PROVE  TypeInv'
<1>1. r \in Actors /\ Created \in Row /\ row \in [Runs -> Row]
  BY RowNames DEF Actors, Created, Row, TypeInv, TypeOK, TaskTypeOK
<1>2. /\ calls' \in 0 .. MaxCalls /\ reqRun' \in [Actors -> Runs]
      /\ restarts' = restarts /\ todo' = todo /\ marked' = marked
      /\ registry' = registry /\ UNCHANGED taskVars
  BY <1>1, BoundsAssumption DEF Create, Request, Admit, TypeInv, TypeOK
<1>3. row' \in [Runs -> Row]
  BY <1>1, WriteTypes DEF Create, Request, TypeInv, TypeOK
<1>4. reqCopy' \in [Actors -> Row] /\ reqAt' \in [Actors -> ActorPlaces]
  BY <1>1 DEF Create, Request, ActorGoto, ActorPlaces, TypeInv, TypeOK
<1>5. QED
  BY <1>2, <1>3, <1>4, SharedTypes DEF TypeInv, TypeOK

\* The steps of a request keep the types.
LEMMA RequestTypes ==
  ASSUME TypeInv, NEW r \in Requests, RequestStep(r)
  PROVE  TypeInv'
<1>. DEFINE x == reqRun[r]
            c == reqCopy[r]
<1>1. /\ r \in Actors /\ x \in Runs /\ c \in Row /\ TaskTypeOK
      /\ c.status \in Statuses \cup {"absent"}
      /\ c.control \in ControlRequests \cup {NoControl}
      /\ c.taskId \in TaskIds \cup {NoId}
  BY DEF Actors, TypeInv, TypeOK, Row
<1>2. \A status \in Statuses \cup {"absent"}, control \in ControlRequests \cup {NoControl},
         id \in TaskIds \cup {NoId} :
        LET new == Copied(status, control, id, c)
        IN  /\ Sent(x, c, new) \in Row
            /\ \A touched \in BOOLEAN : Flushed(x, c, new, touched) \in Row
  BY <1>1, RowTypes
<1>3. \A new \in Row : Write(x, new) => row' \in [Runs -> Row]
  BY <1>1, WriteTypes
<1>4. row \in [Runs -> Row]
  BY <1>1 DEF TaskTypeOK
<1>5. ASSUME UNCHANGED <<todo, marked, restarts, reqRun, calls>>,
             reqCopy' \in [Actors -> Row], reqAt' \in [Actors -> ActorPlaces],
             registry' \in [Runs -> Tasks \cup {NoTask}], TaskTypeOK', UrlsLeft'
      PROVE  TypeInv'
  BY <1>5 DEF TypeInv, TypeOK
<1>6. ASSUME UNCHANGED <<registry, taskVars, todo, marked, restarts, reqRun, calls>>,
             reqCopy' \in [Actors -> Row], NEW place \in ActorPlaces, ActorGoto(r, place),
             row' \in [Runs -> Row]
      PROVE  TypeInv'
  BY <1>1, <1>5, <1>6, SharedTypes DEF TypeInv, TypeOK
<1>7. UNCHANGED reqCopy => reqCopy' \in [Actors -> Row]
  BY DEF TypeInv, TypeOK
<1>. HIDE DEF x, c
<1>8. CASE PauseLive(r)
  <2>1. row' \in [Runs -> Row]
    BY <1>1, <1>2, <1>3, <1>8, RowNames DEF PauseLive, x, c
  <2>2. QED
    BY <1>6, <1>7, <1>8, <2>1 DEF PauseLive, ActorPlaces
<1>9. CASE PauseAbsent(r)
  <2>1. row' \in [Runs -> Row]
    BY <1>1, <1>2, <1>3, <1>4, <1>9, RowNames DEF PauseAbsent, x, c
  <2>2. QED
    BY <1>6, <1>7, <1>9, <2>1 DEF PauseAbsent, ActorPlaces
<1>10. CASE Resume(r)
  <2>. DEFINE sent == Sent(x, c, Copied("running", NoControl, NoId, c))
  <2>1. sent \in Row
    BY <1>2, RowNames
  <2>2. Write(x, sent) /\ reqCopy' = [reqCopy EXCEPT ![r] = sent]
    BY <1>10 DEF Resume, x, c
  <2>. HIDE DEF sent
  <2>3. reqCopy' \in [Actors -> Row] /\ row' \in [Runs -> Row]
    BY <1>1, <1>3, <2>1, <2>2 DEF TypeInv, TypeOK
  <2>4. QED
    BY <1>6, <1>10, <2>3 DEF Resume, ActorPlaces
<1>11. CASE Dispatch(r)
  <2>1. row' \in [Runs -> Row]
    BY <1>1, <1>2, <1>3, <1>4, <1>11, RowNames DEF Dispatch, x, c
  <2>2. QED
    BY <1>6, <1>7, <1>11, <2>1 DEF Dispatch, ActorPlaces
<1>12. CASE StartTask(r)
  <2>1. PICK t \in Tasks : Track(t, x)
    BY <1>12 DEF StartTask, x
  <2>2. /\ TaskTypeOK' /\ UrlsLeft'
        /\ registry' \in [Runs -> Tasks \cup {NoTask}]
    BY <1>1, <1>12, <2>1, UrlsAssumption
       DEF Track, Spawn, Live, StartTask, TaskTypeOK, TaskPlaces, UrlsLeft, TypeInv, TypeOK
  <2>3. QED
    BY <1>1, <1>5, <1>7, <1>12, <2>2, SharedTypes DEF StartTask, ActorPlaces
<1>13. CASE KillLive(r)
  <2>1. TaskTypeOK' /\ UrlsLeft' /\ registry' \in [Runs -> Tasks \cup {NoTask}]
    BY <1>1, <1>13, SharedTypes DEF KillLive, TaskTypeOK, UrlsLeft, TypeInv, x
  <2>2. QED
    BY <1>1, <1>5, <1>7, <1>13, <2>1, SharedTypes DEF KillLive, ActorPlaces
<1>14. CASE CommitKill(r) \/ CommitKillAbsent(r)
  <2>1. row' \in [Runs -> Row]
    BY <1>1, <1>2, <1>3, <1>14, RowNames DEF CommitKill, CommitKillAbsent, x, c
  <2>2. QED
    BY <1>6, <1>7, <1>14, <2>1 DEF CommitKill, CommitKillAbsent, ActorPlaces
<1>15. CASE KillAbsent(r)
  BY <1>4, <1>6, <1>7, <1>15 DEF KillAbsent, ActorPlaces
<1>16. CASE Refresh(r)
  <2>1. reqCopy' \in [Actors -> Row]
    BY <1>1, <1>4, <1>16 DEF Refresh, TypeInv, TypeOK, x
  <2>2. QED
    BY <1>4, <1>6, <1>16, <2>1 DEF Refresh, ActorPlaces
<1>17. QED
  BY <1>8, <1>9, <1>10, <1>11, <1>12, <1>13, <1>14, <1>15, <1>16 DEF RequestStep

\* The steps of a recovery keep the types.
LEMMA RecoveryTypes ==
  ASSUME TypeInv, NEW a \in Actors, RecoveryStep(a)
  PROVE  TypeInv'
<1>. DEFINE m == marked[a]
<1>1. /\ TaskTypeOK /\ row \in [Runs -> Row] /\ reqRun[a] \in Runs
      /\ reqCopy \in [Actors -> Row] /\ reqCopy[a] \in Row
      /\ m.run \in Runs /\ m.target \in {"killed", "failed"} /\ m.copy \in Row
      /\ todo[a] \in SUBSET (Runs \X {"pending", "running"})
  BY DEF TypeInv, TypeOK, TaskTypeOK
<1>2. UNCHANGED <<calls, restarts, reqRun>>
  BY DEF RecoveryStep, RecoverSelect, RecoverNext, RecoverMark, Recovered
<1>3. CASE RecoverSelect(a)
  <2>1. {<<x, row[x].status>> : x \in {y \in Runs : Stale(y)}}
          \in SUBSET (Runs \X {"pending", "running"})
    BY DEF Stale
  <2>2. todo' \in [Actors -> SUBSET (Runs \X {"pending", "running"})]
    BY <1>3, <2>1 DEF RecoverSelect, TypeInv, TypeOK
  <2>3. QED
    BY <1>1, <1>3, <2>2, SharedTypes DEF RecoverSelect, TypeInv, TypeOK, ActorPlaces
<1>4. CASE RecoverNext(a)
  <2>1. PICK stale \in todo[a] :
          LET x == stale[1]
              c == IF a # Startup /\ x = reqRun[a] THEN reqCopy[a] ELSE row[x]
          IN  /\ Clear(x)
              /\ todo' = [todo EXCEPT ![a] = @ \ {stale}]
              /\ IF \/ c.status \in TerminalStatuses /\ c.taskId # NoId
                    \/ c.status = stale[2]
                   THEN /\ marked' = [marked EXCEPT ![a] =
                              [run |-> x, copy |-> c,
                               target |-> IF stale[2] = "pending" THEN "killed" ELSE "failed"]]
                        /\ ActorGoto(a, "mark")
                   ELSE UNCHANGED <<marked, reqAt>>
    BY <1>4 DEF RecoverNext
  <2>. DEFINE x == stale[1]
              c == IF a # Startup /\ x = reqRun[a] THEN reqCopy[a] ELSE row[x]
  <2>2. x \in Runs /\ c \in Row
    BY <1>1
  <2>3. todo' \in [Actors -> SUBSET (Runs \X {"pending", "running"})]
    BY <2>1 DEF TypeInv, TypeOK
  <2>4. registry' \in [Runs -> Tasks \cup {NoTask}] /\ cancelled' \subseteq Tasks
    BY <2>1, <2>2, SharedTypes
  <2>5. marked' \in [Actors -> [run : Runs, target : {"killed", "failed"}, copy : Row]]
    <3>1. [run |-> x, copy |-> c, target |-> IF stale[2] = "pending" THEN "killed" ELSE "failed"]
            \in [run : Runs, target : {"killed", "failed"}, copy : Row]
      BY <2>2
    <3>2. marked \in [Actors -> [run : Runs, target : {"killed", "failed"}, copy : Row]]
      BY DEF TypeInv, TypeOK
    <3>. HIDE DEF c, x
    <3>3. \/ marked' = [marked EXCEPT ![a] =
                 [run |-> x, copy |-> c,
                  target |-> IF stale[2] = "pending" THEN "killed" ELSE "failed"]]
          \/ marked' = marked
      BY <2>1 DEF c, x
    <3>4. QED
      BY <3>1, <3>2, <3>3
  <2>6. reqAt' \in [Actors -> ActorPlaces]
    BY <2>1 DEF TypeInv, TypeOK, ActorGoto, ActorPlaces
  <2>7. TaskTypeOK' /\ UrlsLeft'
    BY <1>1, <1>4, <2>4 DEF RecoverNext, TypeInv, TaskTypeOK, UrlsLeft
  <2>8. QED
    BY <1>2, <1>4, <2>3, <2>4, <2>5, <2>6, <2>7 DEF RecoverNext, TypeInv, TypeOK
<1>5. CASE RecoverMark(a)
  <2>. DEFINE settled == m.copy.status \in TerminalStatuses
              new == Copied(IF settled THEN m.copy.status ELSE m.target,
                            m.copy.control, NoId, m.copy)
  <2>1. new \in Row
    <3>1. /\ m.copy.status \in Statuses \cup {"absent"}
          /\ m.copy.control \in ControlRequests \cup {NoControl}
      BY <1>1 DEF Row
    <3>2. m.target \in Statuses
      BY <1>1, RowNames
    <3>. HIDE DEF m
    <3>3. QED
      BY <1>1, <3>1, <3>2, RowTypes
  <2>2. Sent(m.run, m.copy, new) \in Row /\ Flushed(m.run, m.copy, new, FALSE) \in Row
    BY <1>1, <2>1, RowTypes
  <2>3. /\ Write(m.run, IF settled THEN Sent(m.run, m.copy, new)
                        ELSE Flushed(m.run, m.copy, new, FALSE))
        /\ reqCopy' = IF a # Startup /\ m.run = reqRun[a]
                        THEN [reqCopy EXCEPT ![a] = new] ELSE reqCopy
    BY <1>5 DEF RecoverMark
  <2>. HIDE DEF new, settled, m
  <2>4. row' \in [Runs -> Row]
    BY <1>1, <2>2, <2>3, WriteTypes
  <2>5. reqCopy' \in [Actors -> Row]
    BY <1>1, <2>1, <2>3
  <2>6. TaskTypeOK' /\ UrlsLeft' /\ reqAt' \in [Actors -> ActorPlaces]
    BY <1>5, <2>4, SharedTypes DEF RecoverMark, ActorPlaces
  <2>7. QED
    BY <1>5, <2>5, <2>6 DEF RecoverMark, TypeInv, TypeOK
<1>6. CASE Recovered(a)
  BY <1>1, <1>6, SharedTypes DEF Recovered, TypeInv, TypeOK, ActorPlaces
<1>7. QED
  BY <1>3, <1>4, <1>5, <1>6 DEF RecoveryStep

\* The steps of the backend's tasks keep the types.
LEMMA TaskStepTypes ==
  ASSUME TypeInv, NEW t \in Tasks, TaskStep(t)
  PROVE  TypeInv'
<1>1. TaskTypeOK /\ UrlsLeft
  BY DEF TypeInv, TypeOK
<1>2. CASE Cleanup(t)
  <2>1. TaskTypeOK' /\ UrlsLeft' /\ registry' \in [Runs -> Tasks \cup {NoTask}]
    BY <1>1, <1>2 DEF Cleanup, Goto, TaskTypeOK, TaskPlaces, UrlsLeft, TypeInv, TypeOK
  <2>2. QED
    BY <1>2, <2>1 DEF Cleanup, actorVars, TypeInv, TypeOK
<1>3. CASE ~Cleanup(t)
  <2>1. TaskTypeOK' /\ UrlsLeft' /\ UNCHANGED <<registry, actorVars, calls, restarts>>
    <3>1. UNCHANGED <<registry, actorVars, calls, restarts>>
      BY <1>3 DEF TaskStep
    <3>2. CASE CrawlStep(t)
      BY <1>1, <3>1, <3>2, TaskTypes, TaskUrls
    <3>3. CASE Escaped(t) /\ UNCHANGED <<of, cancelled>>
      BY <1>1, <3>1, <3>3
         DEF Escaped, Running, Keep, Goto, TaskTypeOK, TaskPlaces, UrlsLeft
    <3>4. CASE PersistFailure(t, "refailing", "ended") /\ UNCHANGED <<of, cancelled>>
      <4>1. TaskTypeOK'
        BY <1>1, <3>4, PersistTypes DEF TaskPlaces
      <4>2. UrlsLeft'
        BY <1>1, <3>4 DEF PersistFailure, Goto, TaskTypeOK, UrlsLeft
      <4>3. QED
        BY <3>1, <4>1, <4>2
    <3>5. QED
      BY <1>3, <3>2, <3>3, <3>4 DEF TaskStep
  <2>2. QED
    BY <2>1 DEF actorVars, TypeInv, TypeOK
<1>4. QED
  BY <1>2, <1>3

LEMMA TypeStep == TypeInv /\ [Next]_vars => TypeInv'
<1>. SUFFICES ASSUME TypeInv, [Next]_vars PROVE TypeInv'
  OBVIOUS
<1>1. CASE UNCHANGED vars
  BY <1>1 DEF vars, taskVars, actorVars, TypeInv, TypeOK, TaskTypeOK, UrlsLeft
<1>2. ASSUME NEW x \in Runs, TimePasses(x) PROVE TypeInv'
  <2>1. [status |-> row[x].status, control |-> row[x].control,
         taskId |-> row[x].taskId, stale |-> TRUE] \in Row
    BY DEF TypeInv, TypeOK, TaskTypeOK, Row
  <2>2. row' \in [Runs -> Row]
    BY <1>2, <2>1, WriteTypes DEF TimePasses, Age, TypeInv, TypeOK
  <2>3. QED
    BY <1>2, <2>2, SharedTypes DEF TimePasses, actorVars, TypeInv, TypeOK
<1>3. CASE Restart
  <2>1. TaskTypeOK' /\ UrlsLeft'
    BY <1>3 DEF Restart, TypeInv, TypeOK, TaskTypeOK, TaskPlaces, UrlsLeft
  <2>2. QED
    BY <1>3, <2>1, BoundsAssumption DEF Restart, ActorPlaces, TypeInv, TypeOK
<1>4. QED
  BY <1>1, <1>2, <1>3, TaskStepTypes, AdmitTypes, RequestTypes, RecoveryTypes DEF Next

LEMMA TypesHold == Spec => []TypeInv
<1>. QED
  BY InitTypes, TypeStep, PTL DEF Spec

\* The rows, the tasks' and the requests' copies, the registry and the
\* recovery's work list are always what the code takes them for.
THEOREM TypeCorrect == Spec => []TypeOK
<1>1. TypeInv => TypeOK
  BY DEF TypeInv
<1>2. QED
  BY <1>1, TypesHold, PTL

-----------------------------------------------------------------------------
(* Every live task can be reached.                                         *)

\* What the registry names is a task of that run that still has its done
\* callback to come: forgetting it never loses a task of another run.
RegistryNamesRun ==
  \A x \in Runs : registry[x] # NoTask => of[registry[x]] = x /\ at[registry[x]] # "free"

Reachable == LiveTaskIsRegistered /\ RegistryNamesRun

\* A step of a task that is not its cleanup changes at most its own place: it
\* does not free the task, and only a live task that was not cancelled may go on.
LEMMA TaskMoves ==
  ASSUME TypeInv, NEW t \in Tasks, TaskStep(t), ~Cleanup(t)
  PROVE  /\ UNCHANGED <<of, cancelled, registry>>
         /\ \A u \in Tasks : u # t => at'[u] = at[u]
         /\ at'[t] # "free"
         /\ Active(t)' => Active(t) /\ t \notin cancelled
<1>1. at \in [Tasks -> TaskPlaces]
  BY DEF TypeInv, TypeOK, TaskTypeOK
<1>2. UNCHANGED <<of, cancelled, registry>>
  BY DEF TaskStep, CrawlStep
<1>3. CASE CrawlStep(t)
  BY <1>2, <1>3, CrawlMoves DEF TypeInv, TypeOK, Active
<1>4. CASE Escaped(t) \/ PersistFailure(t, "refailing", "ended")
  BY <1>1, <1>2, <1>4 DEF Escaped, PersistFailure, Running, Goto, Active
<1>5. QED
  BY <1>3, <1>4 DEF TaskStep

\* Forgetting a task cancels it, so that no live task is lost.
LEMMA ClearReaches ==
  ASSUME TypeInv, Reachable, NEW x \in Runs, Clear(x), UNCHANGED <<at, of>>
  PROVE  Reachable'
<1>1. registry \in [Runs -> Tasks \cup {NoTask}] /\ of \in [Tasks -> Runs]
  BY DEF TypeInv, TypeOK, TaskTypeOK
<1>2. LiveTaskIsRegistered'
  <2>. SUFFICES ASSUME NEW u \in Tasks, Active(u), u \notin cancelled'
                PROVE  registry'[of[u]] = u
    BY DEF LiveTaskIsRegistered, Active
  <2>1. registry[of[u]] = u
    BY DEF Clear, Reachable, LiveTaskIsRegistered
  <2>2. of[u] # x
    BY <2>1, NamesAssumption DEF Clear, Live, Active
  <2>3. QED
    BY <1>1, <2>1, <2>2 DEF Clear
<1>3. RegistryNamesRun'
  BY <1>1 DEF Clear, Reachable, RegistryNamesRun
<1>4. QED
  BY <1>2, <1>3 DEF Reachable

\* The new task takes the place of the one it cancels.
LEMMA TrackReaches ==
  ASSUME TypeInv, Reachable, NEW x \in Runs, NEW t \in Tasks, Track(t, x)
  PROVE  Reachable'
<1>1. /\ registry \in [Runs -> Tasks \cup {NoTask}] /\ of \in [Tasks -> Runs]
      /\ at \in [Tasks -> TaskPlaces]
  BY DEF TypeInv, TypeOK, TaskTypeOK
<1>2. /\ at[t] = "free" /\ at' = [at EXCEPT ![t] = "get"]
      /\ of' = [of EXCEPT ![t] = x] /\ registry' = [registry EXCEPT ![x] = t]
      /\ cancelled' = IF Live(x) THEN cancelled \cup {registry[x]} ELSE cancelled
  BY DEF Track, Spawn
<1>3. LiveTaskIsRegistered'
  <2>. SUFFICES ASSUME NEW u \in Tasks, Active(u)', u \notin cancelled'
                PROVE  registry'[of'[u]] = u
    BY DEF LiveTaskIsRegistered
  <2>1. CASE u = t
    BY <1>1, <1>2, <2>1
  <2>2. CASE u # t
    <3>1. Active(u) /\ u \notin cancelled /\ of'[u] = of[u]
      BY <1>1, <1>2, <2>2 DEF Active
    <3>2. registry[of[u]] = u
      BY <3>1 DEF Reachable, LiveTaskIsRegistered
    <3>3. of[u] # x
      BY <1>2, <3>1, <3>2, NamesAssumption DEF Live, Active
    <3>4. QED
      BY <1>1, <1>2, <3>1, <3>2, <3>3
  <2>3. QED
    BY <2>1, <2>2
<1>4. RegistryNamesRun'
  <2>. SUFFICES ASSUME NEW y \in Runs, registry'[y] # NoTask
                PROVE  of'[registry'[y]] = y /\ at'[registry'[y]] # "free"
    BY DEF RegistryNamesRun
  <2>1. CASE y = x
    BY <1>1, <1>2, <2>1
  <2>2. CASE y # x
    <3>1. registry'[y] = registry[y] /\ registry[y] \in Tasks
      BY <1>1, <1>2, <2>2
    <3>2. of[registry[y]] = y /\ at[registry[y]] # "free"
      BY <3>1 DEF Reachable, RegistryNamesRun
    <3>3. registry[y] # t
      BY <1>2, <3>2
    <3>4. QED
      BY <1>1, <1>2, <3>1, <3>2, <3>3
  <2>3. QED
    BY <2>1, <2>2
<1>5. QED
  BY <1>3, <1>4 DEF Reachable

\* The done callback of a task that was replaced leaves the new one alone.
LEMMA CleanupReaches ==
  ASSUME TypeInv, Reachable, NEW t \in Tasks, Cleanup(t)
  PROVE  Reachable'
<1>1. /\ registry \in [Runs -> Tasks \cup {NoTask}] /\ of \in [Tasks -> Runs]
      /\ at \in [Tasks -> TaskPlaces]
  BY DEF TypeInv, TypeOK, TaskTypeOK
<1>2. /\ at[t] = "ended" /\ at' = [at EXCEPT ![t] = "free"] /\ of' = of
      /\ registry' = IF registry[of[t]] = t
                       THEN [registry EXCEPT ![of[t]] = NoTask] ELSE registry
      /\ cancelled' = cancelled \ {t}
  BY DEF Cleanup, Goto
<1>3. LiveTaskIsRegistered'
  <2>. SUFFICES ASSUME NEW u \in Tasks, Active(u)', u \notin cancelled'
                PROVE  registry'[of'[u]] = u
    BY DEF LiveTaskIsRegistered
  <2>1. u # t /\ Active(u) /\ u \notin cancelled
    BY <1>1, <1>2 DEF Active
  <2>2. registry[of[u]] = u
    BY <2>1 DEF Reachable, LiveTaskIsRegistered
  <2>3. QED
    BY <1>1, <1>2, <2>1, <2>2
<1>4. RegistryNamesRun'
  <2>. SUFFICES ASSUME NEW y \in Runs, registry'[y] # NoTask
                PROVE  of'[registry'[y]] = y /\ at'[registry'[y]] # "free"
    BY DEF RegistryNamesRun
  <2>1. registry'[y] = registry[y] /\ registry[y] \in Tasks
    BY <1>1, <1>2
  <2>2. of[registry[y]] = y /\ at[registry[y]] # "free"
    BY <2>1 DEF Reachable, RegistryNamesRun
  <2>3. registry[y] # t
    BY <1>1, <1>2, <2>1, <2>2
  <2>4. QED
    BY <1>1, <1>2, <2>1, <2>2, <2>3
<1>5. QED
  BY <1>3, <1>4 DEF Reachable

LEMMA ReachStep == TypeInv /\ Reachable /\ [Next]_vars => Reachable'
<1>. SUFFICES ASSUME TypeInv, Reachable, [Next]_vars PROVE Reachable'
  OBVIOUS
<1>1. ASSUME UNCHANGED <<at, of, registry, cancelled>> PROVE Reachable'
  BY <1>1 DEF Reachable, LiveTaskIsRegistered, RegistryNamesRun, Active
<1>2. ASSUME NEW t \in Tasks, TaskStep(t) PROVE Reachable'
  <2>1. CASE Cleanup(t)
    BY <2>1, CleanupReaches
  <2>2. CASE ~Cleanup(t)
    <3>1. /\ UNCHANGED <<of, cancelled, registry>>
          /\ \A u \in Tasks : u # t => at'[u] = at[u]
          /\ at'[t] # "free"
          /\ Active(t)' => Active(t) /\ t \notin cancelled
      BY <1>2, <2>2, TaskMoves
    <3>2. registry \in [Runs -> Tasks \cup {NoTask}]
      BY DEF TypeInv, TypeOK
    <3>3. QED
      BY <3>1, <3>2 DEF Reachable, LiveTaskIsRegistered, RegistryNamesRun, Active
  <2>3. QED
    BY <2>1, <2>2
<1>3. ASSUME NEW r \in Requests, NEW x \in Runs, Create(r, x) \/ Request(r, x) PROVE Reachable'
  BY <1>1, <1>3 DEF Create, Request, taskVars
<1>4. ASSUME NEW r \in Requests, RequestStep(r) PROVE Reachable'
  <2>1. reqRun[r] \in Runs
    BY DEF TypeInv, TypeOK, Actors
  <2>2. CASE StartTask(r)
    BY <2>1, <2>2, TrackReaches DEF StartTask
  <2>3. CASE KillLive(r)
    BY <2>1, <2>3, ClearReaches DEF KillLive
  <2>4. CASE ~StartTask(r) /\ ~KillLive(r)
    BY <1>1, <1>4, <2>4 DEF RequestStep, PauseLive, PauseAbsent, Resume, Refresh, Dispatch, CommitKill,
                            KillAbsent, CommitKillAbsent, taskVars
  <2>5. QED
    BY <2>2, <2>3, <2>4
<1>5. ASSUME NEW a \in Actors, RecoveryStep(a) PROVE Reachable'
  <2>1. CASE RecoverNext(a)
    <3>1. todo[a] \subseteq Runs \X {"pending", "running"}
      BY DEF TypeInv, TypeOK
    <3>2. QED
      BY <2>1, <3>1, ClearReaches DEF RecoverNext
  <2>2. CASE ~RecoverNext(a)
    BY <1>1, <1>5, <2>2 DEF RecoveryStep, RecoverSelect, RecoverMark, Recovered, taskVars
  <2>3. QED
    BY <2>1, <2>2
<1>6. CASE \E x \in Runs : TimePasses(x)
  BY <1>1, <1>6 DEF TimePasses, taskVars
<1>7. CASE Restart
  BY <1>7 DEF Restart, Reachable, LiveTaskIsRegistered, RegistryNamesRun, Active
<1>8. CASE UNCHANGED vars
  BY <1>1, <1>8 DEF vars, taskVars
<1>9. QED
  BY <1>2, <1>3, <1>4, <1>5, <1>6, <1>7, <1>8 DEF Next

\* A task that still crawls and was not told to stop is the one the registry
\* names for its run, whatever requests, recoveries and restarts overlap: so
\* two tasks never crawl the same run, and a kill always reaches the one there is.
THEOREM LiveTaskReached == Spec => []LiveTaskIsRegistered
<1>1. Init => Reachable
  BY DEF Init, TaskInit, Reachable, LiveTaskIsRegistered, RegistryNamesRun, Active
<1>2. TypeInv /\ TypeInv' /\ Reachable /\ [Next]_vars => Reachable'
  BY ReachStep
<1>3. Reachable => LiveTaskIsRegistered
  BY DEF Reachable
<1>4. QED
  BY <1>1, <1>2, <1>3, TypesHold, PTL DEF Spec

-----------------------------------------------------------------------------
(* One request at a time: what a paused or ended run is protected by.      *)

Settled == TerminalStatuses \cup {"paused"}

\* A task that finishes, or handles what went wrong, crawls no more URL.
Leaving == {"end", "complete", "fail", "failing", "escaped", "refailing"}

\* t is at work on x and nobody told it to stop.
Working(t, x) == of[t] = x /\ Active(t) /\ t \notin cancelled

Untended(x) == \A t \in Tasks : ~Working(t, x)

\* A request between the commit of its status and the start of the run's task.
Dispatching == {"refresh", "recover", "sweep", "mark", "dispatch", "track"}

OneClient == \A r, s \in Requests : r = s

OneActor == \A p, q \in Actors : reqAt[p] # "idle" /\ reqAt[q] # "idle" => p = q

\* What holds of a run while a task is at work on it.
Tended(t, x) ==
  /\ row[x].status # "absent"
  /\ at[t] \notin Leaving \cup {"get"} \/ at[t] = "complete" => row[x].status \notin Settled
  /\ at[t] = "get" => row[x].status # "paused"
  /\ at[t] \in {"failing", "refailing"} /\ row[x].status = "paused"
       => copy[t].status = "paused"

TaskPart == \A x \in Runs, t \in Tasks : Working(t, x) => Tended(t, x)

\* What holds of the run an actor is about to write or to dispatch.
Prepared(p) ==
  /\ reqAt[p] \in {"killing", "killAbsent"} => Untended(reqRun[p])
  /\ reqAt[p] = "resume" => reqCopy[p].status = "paused"
  /\ p \in Requests /\ reqAt[p] \in Dispatching \cup {"resume"} =>
       /\ row[reqRun[p]].status # "absent"
       /\ \A t \in Tasks : Working(t, reqRun[p]) => at[t] \in Leaving
  /\ p \in Requests /\ reqAt[p] \in Dispatching => row[reqRun[p]].status # "paused"
  /\ reqAt[p] = "mark" =>
       /\ Untended(marked[p].run)
       /\ marked[p].copy.status \notin TerminalStatuses
            => row[marked[p].run].status # "paused"

ActorPart == \A p \in Actors : Prepared(p)

Serial == OneActor /\ TaskPart /\ ActorPart

\* The status a flushed copy leaves in the row.
LEMMA WrittenStatus ==
  ASSUME NEW x \in Runs, NEW c, NEW new
  PROVE  /\ \A touched : Flushed(x, c, new, touched).status
                           = IF new.status = c.status THEN row[x].status ELSE new.status
         /\ Sent(x, c, new).status
              = IF new.status = c.status THEN row[x].status ELSE new.status
         /\ \A status, control, id : Copied(status, control, id, c).status = status
BY DEF Flushed, Sent, Copied

LEMMA WrittenRow ==
  ASSUME TypeInv, NEW x \in Runs, NEW r, Write(x, r)
  PROVE  row'[x] = r /\ \A y \in Runs : y # x => row'[y] = row[y]
BY DEF Write, TypeInv, TypeOK, TaskTypeOK

\* The transitions the steps below ask for.
LEMMA Transitions ==
  /\ \A s \in {"pending", "paused"} : ~CanTransition(s, "failed")
  /\ \A s \in Statuses : CanTransition(s, "completed") => s \in {"running", "completed"}
  /\ "running" \notin Settled /\ "pending" \notin Settled /\ "absent" \notin Settled
  /\ "paused" \notin TerminalStatuses /\ "absent" \notin Statuses
  /\ {"completed", "killed", "failed"} \subseteq TerminalStatuses
BY DEF CanTransition, AllowedTransitions, Statuses, ActiveStatuses, TerminalStatuses, Settled

\* A run has one task at work at most, and none without a live one.
LEMMA OneTask ==
  ASSUME TypeInv, Reachable, NEW x \in Runs
  PROVE  /\ \A t, u \in Tasks : Working(t, x) /\ Working(u, x) => t = u
         /\ ~Live(x) => Untended(x)
         /\ \A t \in Tasks : Live(x) /\ Working(t, x) => registry[x] = t
BY NamesAssumption
   DEF Reachable, LiveTaskIsRegistered, Working, Untended, Live, Active, TypeInv, TypeOK

LEMMA ClearUntends ==
  ASSUME TypeInv, Reachable, NEW x \in Runs, Clear(x), UNCHANGED <<at, of>>
  PROVE  Untended(x)' /\ cancelled \subseteq cancelled'
BY OneTask DEF Clear, Untended, Working, Active

\* How a step of a task moves it, and what it may do to its run's status.
LEMMA TaskStatus ==
  ASSUME TypeInv, TaskPart, NEW t \in Tasks, TaskStep(t), ~Cleanup(t)
  PROVE  LET x == of[t]
         IN  /\ \A y \in Runs : y # x => row'[y].status = row[y].status
             /\ \A u \in Tasks : u # t => copy'[u] = copy[u]
             /\ \/ row'[x].status = row[x].status
                \/ /\ Working(t, x)
                   /\ row[x].status # "paused"
                   /\ \/ at[t] = "boot" /\ row'[x].status = "running"
                      \/ at[t] = "checkpoint" /\ at'[t] = "end" /\ row'[x].status \in {"paused", "killed"}
                      \/ at'[t] = "ended" /\ row'[x].status \in {"completed", "failed"}
             /\ at[t] \in Leaving => at'[t] \in Leaving \cup {"ended"}
             /\ at'[t] # "get"
             /\ at'[t] \notin Leaving \cup {"ended"} \/ at'[t] = "complete"
                  => row'[x].status \notin Settled
             /\ at'[t] \in {"failing", "refailing"} => copy'[t].status = row[x].status
<1>. DEFINE x == of[t]
<1>1. /\ at \in [Tasks -> TaskPlaces] /\ copy \in [Tasks -> Row] /\ row \in [Runs -> Row]
      /\ x \in Runs /\ row[x].status \in Statuses \cup {"absent"}
      /\ copy[t].status \in Statuses \cup {"absent"}
  BY DEF TypeInv, TypeOK, TaskTypeOK, Row
<1>2. Active(t) /\ t \notin cancelled => Tended(t, x)
  BY <1>1 DEF TaskPart, Working
<1>3. \A where \in TaskPlaces : Goto(t, where) => at'[t] = where
  BY <1>1 DEF Goto
<1>4. \A c : Keep(t, c) => copy'[t] = c
  BY <1>1 DEF Keep
<1>5. \A u \in Tasks : u # t => copy'[u] = copy[u]
  <2>1. UNCHANGED copy \/ \E c : Keep(t, c)
    BY Zenon DEF TaskStep, CrawlStep, Get, Load, Boot, Resolve, Top, Checkpoint, Start, Crawl, Record, End,
                Complete, Raise, Fail, MarkFailed, PersistFailure, Cancelled, Escaped
  <2>2. QED
    BY <1>1, <2>1 DEF Keep
<1>6. \A r : Write(x, r) => row'[x] = r /\ \A y \in Runs : y # x => row'[y] = row[y]
  BY <1>1, WrittenRow
<1>. HIDE DEF x
<1>9. CASE Get(t) \/ Load(t) \/ Top(t) \/ Crawl(t) \/ Raise(t)
  <2>1. UNCHANGED row
    BY <1>9 DEF Get, Load, Top, Crawl, Raise
  <2>2. /\ at[t] \in {"get", "load", "resolve", "top", "crawl"}
        /\ Tended(t, x)
        /\ at'[t] \in {"ended", "load", "boot", "start", "checkpoint", "record", "end", "fail",
                       "escaped"}
        /\ at'[t] = "load" => row[x].status \notin TerminalStatuses
        /\ at[t] = "get" => at'[t] \in {"load", "ended"}
    BY <1>2, <1>3, <1>9
       DEF Get, Load, Top, Crawl, Raise, Running, Active, TaskPlaces, x
  <2>3. at[t] # "get" => row[x].status \notin Settled
    BY <2>2 DEF Tended, Leaving
  <2>4. at'[t] # "ended" => row[x].status \notin Settled
    BY <2>2, <2>3 DEF Tended, Settled
  <2>5. QED
    BY <1>5, <2>1, <2>2, <2>3, <2>4 DEF Settled, Leaving, x
<1>10. CASE End(t) \/ Fail(t) \/ Cancelled(t) \/ Escaped(t)
  <2>1. UNCHANGED row
    BY <1>10 DEF End, Fail, Cancelled, Escaped
  <2>2. /\ at'[t] \in {"ended", "complete", "fail", "failing", "refailing"}
        /\ at'[t] = "complete" => row[x].status \notin TerminalStatuses
                                  /\ CanTransition(row[x].status, "completed")
                                  /\ Tended(t, x)
        /\ at'[t] \in {"failing", "refailing"} => copy'[t] = row[x]
    BY <1>2, <1>3, <1>4, <1>10
       DEF End, Fail, Cancelled, Escaped, Running, Active, TaskPlaces, x
  <2>3. at'[t] = "complete" => row[x].status \notin Settled
    BY <1>1, <2>2, Transitions DEF Settled, Tended
  <2>4. QED
    BY <1>5, <2>1, <2>2, <2>3 DEF Settled, Leaving, x
<1>11. CASE Resolve(t) \/ Start(t) \/ Record(t)
  <2>1. /\ row'[x].status = row[x].status
        /\ \A y \in Runs : y # x => row'[y] = row[y]
    BY <1>6, <1>11 DEF Flushed, Copied, Resolve, Start, Record, x
  <2>2. /\ at[t] \in {"resolve", "start", "record"} /\ Tended(t, x)
        /\ at'[t] \in {"top", "crawl", "end"}
    BY <1>2, <1>3, <1>11 DEF Resolve, Start, Record, Running, Active, TaskPlaces
  <2>3. row[x].status \notin Settled
    BY <2>2 DEF Tended, Leaving
  <2>4. QED
    BY <1>5, <2>1, <2>2, <2>3 DEF Settled, Leaving, x
<1>12. CASE Boot(t)
  <2>1. /\ row'[x].status \in {"running", row[x].status}
        /\ \A y \in Runs : y # x => row'[y] = row[y]
    BY <1>6, <1>12 DEF Boot, x
  <2>2. at[t] = "boot" /\ at'[t] = "resolve" /\ Tended(t, x) /\ Working(t, x)
    BY <1>2, <1>3, <1>12 DEF Boot, Running, Active, TaskPlaces, Working, x
  <2>3. row[x].status \notin Settled
    BY <2>2 DEF Tended, Leaving
  <2>4. QED
    BY <1>5, <2>1, <2>2, <2>3, Transitions DEF Settled, Leaving, x
<1>13. CASE Checkpoint(t)
  <2>1. /\ at[t] = "checkpoint" /\ Tended(t, x) /\ Working(t, x)
        /\ at'[t] \in {"end", "fail"}
    BY <1>2, <1>3, <1>13 DEF Checkpoint, Running, Active, TaskPlaces, Working, x
  <2>2. row[x].status \notin Settled
    BY <2>1 DEF Tended, Leaving
  <2>3. \/ at'[t] = "fail" /\ UNCHANGED row
        \/ /\ at'[t] = "end"
           /\ row'[x].status \in {row[x].status, "paused", "killed"}
           /\ \A y \in Runs : y # x => row'[y] = row[y]
    BY <1>3, <1>6, <1>13 DEF Flushed, Copied, Checkpoint, TaskPlaces, x
  <2>4. QED
    BY <1>5, <2>1, <2>2, <2>3 DEF Settled, Leaving, x
<1>14. CASE Complete(t)
  <2>1. at[t] = "complete" /\ at'[t] = "ended" /\ Tended(t, x) /\ Working(t, x)
    BY <1>2, <1>3, <1>14 DEF Complete, Running, Active, TaskPlaces, Working, x
  <2>2. row[x].status \notin Settled
    BY <2>1 DEF Tended
  <2>3. /\ row'[x].status \in {row[x].status, "completed"}
        /\ \A y \in Runs : y # x => row'[y] = row[y]
    BY <1>6, <1>14 DEF Flushed, Copied, Complete, x
  <2>4. QED
    BY <1>5, <2>1, <2>2, <2>3 DEF Settled, Leaving, x
<1>15. ASSUME NEW where \in {"failing", "refailing"}, NEW otherwise \in {"escaped", "ended"},
              PersistFailure(t, where, otherwise),
              where = "failing" \/ otherwise = "ended"
       PROVE  \/ /\ at'[t] = otherwise /\ UNCHANGED row /\ at[t] = where
              \/ /\ at'[t] = "ended" /\ at[t] = where /\ Working(t, x)
                 /\ \A y \in Runs : y # x => row'[y] = row[y]
                 /\ \/ row'[x].status = row[x].status
                    \/ row'[x].status = "failed" /\ row[x].status # "paused"
  <2>1. at[t] = where /\ Tended(t, x) /\ Working(t, x)
    BY <1>2, <1>15 DEF PersistFailure, Running, Active, Working, x
  <2>2. CASE copy[t].status \in TerminalStatuses
    BY <1>3, <1>6, <1>15, <2>1, <2>2 DEF Flushed, Copied, PersistFailure, TaskPlaces, x
  <2>3. CASE copy[t].status \notin TerminalStatuses /\ ~CanTransition(copy[t].status, "failed")
    BY <1>3, <1>15, <2>1, <2>3 DEF PersistFailure, TaskPlaces, x
  <2>4. CASE copy[t].status \notin TerminalStatuses /\ CanTransition(copy[t].status, "failed")
    <3>1. /\ at'[t] = "ended" /\ row'[x].status \in {row[x].status, "failed"}
          /\ \A y \in Runs : y # x => row'[y] = row[y]
      BY <1>3, <1>6, <1>15, <2>4 DEF Flushed, Copied, PersistFailure, TaskPlaces, x
    <3>2. row[x].status # "paused"
      BY <2>1, <2>4, Transitions DEF Tended
    <3>3. QED
      BY <2>1, <3>1, <3>2
  <2>5. QED
    BY <2>2, <2>3, <2>4
<1>16. CASE MarkFailed(t) \/ PersistFailure(t, "refailing", "ended")
  BY <1>5, <1>15, <1>16 DEF MarkFailed, Leaving, x
<1>17. QED
  BY <1>9, <1>10, <1>11, <1>12, <1>13, <1>14, <1>16 DEF TaskStep, CrawlStep

\* No step of a task makes another one work on a run.
LEMMA TaskWorking ==
  ASSUME TypeInv, NEW t \in Tasks, TaskStep(t)
  PROVE  /\ \A x \in Runs, u \in Tasks : Working(u, x)' => Working(u, x)
         /\ \A x \in Runs : Untended(x) => Untended(x)'
<1>1. \A x \in Runs, u \in Tasks : Working(u, x)' => Working(u, x)
  <2>1. CASE Cleanup(t)
    BY <2>1 DEF Cleanup, Goto, Working, Active, TypeInv, TypeOK, TaskTypeOK
  <2>2. CASE ~Cleanup(t)
    BY <2>2, TaskMoves DEF Working, Active
  <2>3. QED
    BY <2>1, <2>2
<1>2. QED
  BY <1>1 DEF Untended

LEMMA TaskKeepsTasks ==
  ASSUME TypeInv, Reachable, TaskPart, NEW t \in Tasks, TaskStep(t)
  PROVE  TaskPart'
<1>. SUFFICES ASSUME NEW x \in Runs, NEW u \in Tasks, Working(u, x)' PROVE Tended(u, x)'
  BY DEF TaskPart
<1>1. Working(u, x) /\ Tended(u, x)
  BY TaskWorking DEF TaskPart
<1>2. CASE Cleanup(t)
  <2>1. u # t
    BY <1>1, <1>2 DEF Cleanup, Working, Active
  <2>2. at'[u] = at[u] /\ UNCHANGED <<row, copy>>
    BY <1>2, <2>1 DEF Cleanup, Goto, TypeInv, TypeOK, TaskTypeOK
  <2>3. QED
    BY <1>1, <2>2 DEF Tended
<1>3. CASE ~Cleanup(t)
  <2>1. of[t] \in Runs /\ of[u] = x /\ UNCHANGED <<of, cancelled>>
    BY <1>1, <1>3, TaskMoves DEF TypeInv, TypeOK, TaskTypeOK, Working
  <2>2. CASE u # t
    <3>1. ~(Working(t, of[t]) /\ of[t] = x)
      BY <1>1, <2>2, OneTask
    <3>2. row'[x].status = row[x].status /\ copy'[u] = copy[u] /\ at'[u] = at[u]
      BY <1>3, <2>1, <2>2, <3>1, TaskStatus, TaskMoves
    <3>3. QED
      BY <1>1, <3>2 DEF Tended
  <2>3. CASE u = t
    <3>1. /\ of[t] = x /\ Working(t, x) /\ row[x].status # "absent"
          /\ at'[t] \notin {"free", "ended"}
      BY <1>1, <2>1, <2>3 DEF Tended, Working, Active
    <3>2. row'[x].status # "absent"
      BY <1>3, <3>1, TaskStatus
    <3>3. at'[t] \notin Leaving \cup {"get"} \/ at'[t] = "complete" => row'[x].status \notin Settled
      BY <1>3, <3>1, TaskStatus
    <3>4. at'[t] # "get"
      BY <1>3, TaskStatus
    <3>5. at'[t] \in {"failing", "refailing"} /\ row'[x].status = "paused"
            => copy'[t].status = "paused"
      BY <1>3, <3>1, TaskStatus
    <3>6. QED
      BY <2>3, <3>2, <3>3, <3>4, <3>5 DEF Tended
  <2>4. QED
    BY <2>2, <2>3
<1>4. QED
  BY <1>2, <1>3

LEMMA TaskKeepsActors ==
  ASSUME TypeInv, Reachable, TaskPart, ActorPart, NEW t \in Tasks, TaskStep(t)
  PROVE  ActorPart'
<1>. SUFFICES ASSUME NEW p \in Actors PROVE Prepared(p)'
  BY DEF ActorPart
<1>1. Prepared(p) /\ reqRun[p] \in Runs /\ marked[p].run \in Runs
  BY DEF ActorPart, TypeInv, TypeOK
<1>2. UNCHANGED actorVars
  BY DEF TaskStep, Cleanup
<1>3. \A x \in Runs : /\ Untended(x) => row'[x].status = row[x].status
                      /\ row[x].status # "absent" => row'[x].status # "absent"
                      /\ (\A u \in Tasks : Working(u, x) => at[u] \in Leaving)
                           => /\ row[x].status # "paused" => row'[x].status # "paused"
                              /\ \A u \in Tasks : Working(u, x)' => at'[u] \in Leaving
  <2>. SUFFICES ASSUME NEW x \in Runs
                PROVE  /\ Untended(x) => row'[x].status = row[x].status
                       /\ row[x].status # "absent" => row'[x].status # "absent"
                       /\ (\A u \in Tasks : Working(u, x) => at[u] \in Leaving)
                            => /\ row[x].status # "paused" => row'[x].status # "paused"
                               /\ \A u \in Tasks : Working(u, x)' => at'[u] \in Leaving
    OBVIOUS
  <2>1. \A u \in Tasks : Working(u, x)' => Working(u, x)
    BY TaskWorking
  <2>2. CASE Cleanup(t)
    <3>1. UNCHANGED row /\ \A u \in Tasks : u # t => at'[u] = at[u]
      BY <2>2 DEF Cleanup, Goto, TypeInv, TypeOK, TaskTypeOK
    <3>2. ~Working(t, x)
      BY <2>2 DEF Cleanup, Working, Active
    <3>3. QED
      BY <2>1, <3>1, <3>2
  <2>3. CASE ~Cleanup(t)
    <3>1. /\ Untended(x) => row'[x].status = row[x].status
          /\ row[x].status # "absent" => row'[x].status # "absent"
      BY <2>3, TaskStatus DEF Untended
    <3>2. ASSUME \A u \in Tasks : Working(u, x) => at[u] \in Leaving,
                 NEW u \in Tasks, Working(u, x)'
          PROVE  at'[u] \in Leaving
      <4>1. Working(u, x) /\ at[u] \in Leaving /\ at'[u] # "ended"
        BY <2>1, <3>2 DEF Working, Active
      <4>2. u # t => at'[u] = at[u]
        BY <2>3, TaskMoves
      <4>3. u = t => at'[u] \in Leaving \cup {"ended"}
        BY <2>3, <4>1, TaskStatus
      <4>4. QED
        BY <4>1, <4>2, <4>3
    <3>3. ASSUME \A u \in Tasks : Working(u, x) => at[u] \in Leaving, row[x].status # "paused"
          PROVE  row'[x].status # "paused"
      <4>1. at[t] = "checkpoint" => ~Working(t, x)
        BY <3>3 DEF Leaving
      <4>2. QED
        BY <2>3, <3>3, <4>1, TaskStatus
    <3>4. QED
      BY <3>1, <3>2, <3>3
  <2>4. QED
    BY <2>2, <2>3
<1>4. \A x \in Runs : Untended(x) => Untended(x)'
  BY TaskWorking
<1>5. QED
  BY <1>1, <1>2, <1>3, <1>4 DEF Prepared, actorVars

\* A paused run is left alone by all but a resume and a kill.
PauseKept ==
  \A x \in Runs :
    row[x].status = "paused" /\ row'[x].status # "paused"
      => \E r \in Requests : reqRun[r] = x /\ reqAt[r] \in {"resume", "killing", "killAbsent"}

\* With one client, the actor that takes a step is the only one that is busy.
LEMMA Alone ==
  ASSUME OneClient, TypeInv, OneActor, NEW p \in Actors,
         \/ p \in Requests /\ \E x \in Runs : Create(p, x) \/ Request(p, x)
         \/ p \in Requests /\ RequestStep(p)
         \/ RecoveryStep(p)
  PROVE  \A q \in Actors : q # p => reqAt'[q] = "idle"
<1>1. reqAt \in [Actors -> ActorPlaces]
  BY DEF TypeInv, TypeOK
<1>2. \A q \in Actors : q # p => reqAt[q] = "idle"
  <2>1. CASE p \in Requests /\ \E x \in Runs : Create(p, x) \/ Request(p, x)
    BY <2>1 DEF Create, Request, Admit, OneClient, Actors
  <2>2. CASE p \in Requests /\ RequestStep(p)
    <3>1. reqAt[p] # "idle"
      BY <2>2 DEF RequestStep, PauseLive, PauseAbsent, Resume, Refresh, Dispatch, StartTask,
                  KillLive, CommitKill, KillAbsent, CommitKillAbsent
    <3>2. QED
      BY <3>1 DEF OneActor
  <2>3. CASE RecoveryStep(p)
    <3>1. reqAt[p] # "idle"
      BY <2>3 DEF RecoveryStep, RecoverSelect, RecoverNext, RecoverMark, Recovered
    <3>2. QED
      BY <3>1 DEF OneActor
  <2>4. QED
    BY <2>1, <2>2, <2>3
<1>3. UNCHANGED reqAt \/ \E place : ActorGoto(p, place)
  BY Zenon DEF Create, Request, RequestStep, PauseLive, PauseAbsent, Resume, Refresh, Dispatch,
         StartTask, KillLive, CommitKill, KillAbsent, CommitKillAbsent,
         RecoveryStep, RecoverSelect, RecoverNext, RecoverMark, Recovered
<1>4. QED
  BY <1>1, <1>2, <1>3 DEF ActorGoto

LEMMA AloneSuffices ==
  ASSUME NEW p \in Actors, \A q \in Actors : q # p => reqAt'[q] = "idle", Prepared(p)'
  PROVE  OneActor' /\ ActorPart'
<1>1. OneActor'
  BY DEF OneActor
<1>2. ASSUME NEW q \in Actors PROVE Prepared(q)'
  BY DEF Prepared, Dispatching
<1>3. QED
  BY <1>1, <1>2 DEF ActorPart

\* What an actor may do to the status of a run without disturbing a task.
LEMMA KeepTasks ==
  ASSUME TypeInv, TaskPart, UNCHANGED <<at, of, copy>>, cancelled \subseteq cancelled',
         \A x \in Runs : \/ row'[x].status = row[x].status
                         \/ Untended(x)
                         \/ row'[x].status = "running"
  PROVE  /\ TaskPart'
         /\ \A x \in Runs, t \in Tasks : Working(t, x)' => Working(t, x)
         /\ \A x \in Runs : Untended(x) => Untended(x)'
<1>1. \A x \in Runs, t \in Tasks : Working(t, x)' => Working(t, x)
  BY DEF Working, Active
<1>2. ASSUME NEW x \in Runs, NEW t \in Tasks, Working(t, x)' PROVE Tended(t, x)'
  <2>1. Tended(t, x) /\ ~Untended(x)
    BY <1>1, <1>2 DEF TaskPart, Untended
  <2>2. CASE row'[x].status = row[x].status
    BY <2>1, <2>2 DEF Tended
  <2>3. CASE row'[x].status = "running"
    BY <2>3, Transitions DEF Tended
  <2>4. QED
    BY <2>1, <2>2, <2>3
<1>3. QED
  BY <1>1, <1>2 DEF TaskPart, Untended

LEMMA AdmitSerial ==
  ASSUME OneClient, TypeInv, Serial, NEW r \in Requests, NEW x \in Runs,
         Create(r, x) \/ Request(r, x)
  PROVE  Serial' /\ PauseKept
<1>1. /\ r \in Actors /\ reqRun \in [Actors -> Runs] /\ reqCopy \in [Actors -> Row]
      /\ reqAt \in [Actors -> ActorPlaces] /\ row \in [Runs -> Row]
      /\ TaskPart /\ UNCHANGED taskVars
      /\ reqRun'[r] = x
  BY DEF Actors, Serial, TypeInv, TypeOK, TaskTypeOK, Create, Request, Admit
<1>2. \A q \in Actors : q # r => reqAt'[q] = "idle"
  BY <1>1, Alone DEF Serial
<1>3. CASE Create(r, x)
  <2>1. /\ row[x].status = "absent" /\ row'[x].status = "pending"
        /\ \A y \in Runs : y # x => row'[y] = row[y]
        /\ reqAt'[r] = "refresh"
    BY <1>1, <1>3, WrittenRow DEF Create, Created, ActorGoto
  <2>2. Untended(x)
    BY <1>1, <2>1 DEF TaskPart, Tended, Untended
  <2>3. TaskPart' /\ Untended(x)'
    BY <1>1, <2>1, <2>2, KeepTasks DEF taskVars
  <2>4. Prepared(r)'
    BY <1>1, <2>1, <2>3 DEF Prepared, Untended, Dispatching
  <2>5. PauseKept
    BY <2>1 DEF PauseKept
  <2>6. QED
    BY <1>1, <1>2, <2>3, <2>4, <2>5, AloneSuffices DEF Serial
<1>4. CASE Request(r, x)
  <2>1. /\ UNCHANGED row /\ reqAt'[r] \in {"pause", "kill", "resume"}
        /\ reqAt'[r] = "resume" => row[x].status = "paused" /\ reqCopy'[r] = row[x]
    BY <1>1, <1>4 DEF Request, ActorGoto
  <2>2. TaskPart' /\ \A t \in Tasks : Working(t, x)' => Working(t, x) /\ at'[t] = at[t]
    BY <1>1, <2>1, KeepTasks DEF taskVars
  <2>3. ASSUME row[x].status = "paused", NEW t \in Tasks, Working(t, x)
        PROVE  at[t] \in Leaving
    BY <1>1, <2>3 DEF TaskPart, Tended, Settled
  <2>4. row[x].status = "paused" => row[x].status # "absent"
    OBVIOUS
  <2>5. Prepared(r)'
    BY <1>1, <2>1, <2>2, <2>3, <2>4 DEF Prepared, Dispatching
  <2>6. PauseKept
    BY <2>1 DEF PauseKept
  <2>7. QED
    BY <1>1, <1>2, <2>2, <2>5, <2>6, AloneSuffices DEF Serial
<1>5. QED
  BY <1>3, <1>4

\* A step that leaves its actor idle.
LEMMA IdleSerial ==
  ASSUME TypeInv, TaskPart, NEW p \in Actors, \A q \in Actors : q # p => reqAt'[q] = "idle",
         reqAt'[p] = "idle", TaskPart'
  PROVE  Serial'
<1>1. Prepared(p)'
  BY DEF Prepared, Dispatching
<1>2. QED
  BY <1>1, AloneSuffices DEF Serial

LEMMA RequestSerial ==
  ASSUME OneClient, TypeInv, Reachable, Serial, NEW r \in Requests, RequestStep(r)
  PROVE  Serial' /\ PauseKept
<1>0. PICK x \in Runs : x = reqRun[r]
  BY DEF TypeInv, TypeOK, Actors
<1>1. /\ r \in Actors /\ x = reqRun[r] /\ reqCopy \in [Actors -> Row]
      /\ reqAt \in [Actors -> ActorPlaces] /\ row \in [Runs -> Row]
      /\ TaskPart /\ Prepared(r)
  BY <1>0 DEF Actors, Serial, ActorPart, TypeInv, TypeOK, TaskTypeOK
<1>2. \A q \in Actors : q # r => reqAt'[q] = "idle"
  BY <1>1, Alone DEF Serial
<1>3. \A new \in Row : Write(x, new) => row'[x] = new /\ \A y \in Runs : y # x => row'[y] = row[y]
  BY <1>1, WrittenRow
<1>4. \A place \in ActorPlaces : ActorGoto(r, place) => reqAt'[r] = place
  BY <1>1 DEF ActorGoto
<1>5. ASSUME UNCHANGED taskVars, reqAt'[r] = "idle",
             \A y \in Runs : y # x => row'[y] = row[y],
             row'[x].status = row[x].status \/ Untended(x)
      PROVE  Serial'
  BY <1>1, <1>2, <1>5, KeepTasks, IdleSerial DEF taskVars
<1>6. CASE PauseLive(r) \/ PauseAbsent(r)
  <2>1. /\ UNCHANGED taskVars /\ reqAt'[r] = "idle"
        /\ \A y \in Runs : y # x => row'[y] = row[y]
    BY <1>1, <1>4, <1>6, WrittenRow DEF PauseLive, PauseAbsent, ActorPlaces
  <2>2. /\ \/ row'[x].status = row[x].status
           \/ ~Live(x) /\ row'[x].status = "paused"
    BY <1>1, <1>6, WrittenRow DEF PauseLive, PauseAbsent, Sent, Flushed, Copied
  <2>3. Serial'
    BY <1>1, <1>5, <2>1, <2>2, OneTask
  <2>4. PauseKept
    BY <2>1, <2>2 DEF PauseKept
  <2>5. QED
    BY <2>3, <2>4
<1>7. CASE CommitKill(r) \/ CommitKillAbsent(r)
  <2>1. /\ UNCHANGED taskVars /\ reqAt'[r] = "idle"
        /\ reqAt[r] \in {"killing", "killAbsent"}
        /\ \A y \in Runs : y # x => row'[y] = row[y]
    BY <1>1, <1>4, <1>7, WrittenRow DEF CommitKill, CommitKillAbsent, ActorPlaces
  <2>2. Serial'
    BY <1>1, <1>5, <2>1 DEF Prepared
  <2>3. PauseKept
    BY <1>0, <2>1 DEF PauseKept
  <2>4. QED
    BY <2>2, <2>3
<1>8. CASE KillLive(r)
  <2>1. /\ UNCHANGED <<row, at, of, copy, reqRun>> /\ Clear(x) /\ reqAt'[r] = "killing"
    BY <1>1, <1>4, <1>8 DEF KillLive, ActorPlaces
  <2>2. Untended(x)' /\ cancelled \subseteq cancelled'
    BY <1>1, <2>1, ClearUntends
  <2>3. TaskPart'
    BY <1>1, <2>1, <2>2, KeepTasks
  <2>4. Prepared(r)'
    BY <1>0, <2>1, <2>2 DEF Prepared, Dispatching
  <2>5. QED
    BY <1>1, <1>2, <2>1, <2>3, <2>4, AloneSuffices DEF Serial, PauseKept
<1>9. CASE KillAbsent(r)
  <2>1. /\ UNCHANGED <<row, taskVars, reqRun>> /\ ~Live(x)
        /\ reqAt'[r] \in {"killAbsent", "idle"}
    BY <1>1, <1>4, <1>9 DEF KillAbsent, ActorPlaces
  <2>2. TaskPart' /\ Untended(x)'
    BY <1>1, <2>1, OneTask, KeepTasks DEF taskVars
  <2>3. Prepared(r)'
    BY <1>0, <2>1, <2>2 DEF Prepared, Dispatching
  <2>4. QED
    BY <1>1, <1>2, <2>1, <2>2, <2>3, AloneSuffices DEF Serial, PauseKept
<1>10. CASE Resume(r)
  <2>1. /\ UNCHANGED <<taskVars, reqRun>> /\ reqAt[r] = "resume" /\ reqAt'[r] = "refresh"
        /\ \A y \in Runs : y # x => row'[y] = row[y]
    BY <1>1, <1>4, <1>10, WrittenRow DEF Resume, ActorPlaces
  <2>2. reqCopy[r].status = "paused"
    BY <1>1, <2>1 DEF Prepared
  <2>3. row'[x].status = "running"
    BY <1>1, <1>10, <2>2, WrittenRow DEF Resume, Sent, Flushed, Copied
  <2>4. /\ TaskPart'
        /\ \A t \in Tasks : Working(t, x)' => Working(t, x) /\ at'[t] = at[t]
    BY <1>1, <2>1, <2>3, KeepTasks DEF taskVars
  <2>5. \A t \in Tasks : Working(t, x) => at[t] \in Leaving
    BY <1>1, <2>1 DEF Prepared
  <2>6. Prepared(r)'
    BY <1>0, <2>1, <2>3, <2>4, <2>5 DEF Prepared, Dispatching
  <2>7. PauseKept
    BY <1>0, <2>1 DEF PauseKept
  <2>8. QED
    BY <1>1, <1>2, <2>4, <2>6, <2>7, AloneSuffices DEF Serial
<1>11. CASE Refresh(r) \/ Dispatch(r)
  <2>1. /\ UNCHANGED <<taskVars, reqRun>> /\ reqAt[r] \in {"refresh", "dispatch"}
        /\ reqAt'[r] \in {"recover", "track", "idle"}
        /\ \A y \in Runs : y # x => row'[y] = row[y]
    BY <1>1, <1>4, <1>11, WrittenRow DEF Refresh, Dispatch, ActorPlaces
  <2>2. row'[x].status = row[x].status
    <3>1. CASE Refresh(r)
      BY <3>1 DEF Refresh
    <3>2. CASE Dispatch(r) /\ reqCopy[r].status \in {"pending", "running"}
      <4>1. PICK id \in TaskIds :
              LET c == reqCopy[r]
              IN  Write(x, Flushed(x, c, Copied(c.status, c.control, id, c), FALSE))
        BY <1>0, <3>2 DEF Dispatch
      <4>2. QED
        BY <4>1, WrittenRow DEF Flushed, Copied
    <3>3. CASE Dispatch(r) /\ reqCopy[r].status \notin {"pending", "running"}
      BY <3>3 DEF Dispatch
    <3>4. QED
      BY <1>11, <3>1, <3>2, <3>3
  <2>3. /\ TaskPart'
        /\ \A t \in Tasks : Working(t, x)' => Working(t, x) /\ at'[t] = at[t]
    BY <1>1, <2>1, <2>2, KeepTasks DEF taskVars
  <2>4. /\ row[x].status \notin {"absent", "paused"}
        /\ \A t \in Tasks : Working(t, x) => at[t] \in Leaving
    BY <1>1, <2>1 DEF Prepared, Dispatching
  <2>5. Prepared(r)'
    BY <1>0, <2>1, <2>2, <2>3, <2>4 DEF Prepared, Dispatching
  <2>6. PauseKept
    BY <2>1, <2>2 DEF PauseKept
  <2>7. QED
    BY <1>1, <1>2, <2>3, <2>5, <2>6, AloneSuffices DEF Serial
<1>12. CASE StartTask(r)
  <2>1. /\ UNCHANGED row /\ reqAt[r] = "track" /\ reqAt'[r] = "idle"
    BY <1>1, <1>4, <1>12 DEF StartTask, ActorPlaces
  <2>2. PICK t \in Tasks : Track(t, x)
    BY <1>0, <1>12 DEF StartTask
  <2>3. /\ at \in [Tasks -> TaskPlaces] /\ of \in [Tasks -> Runs]
        /\ at' = [at EXCEPT ![t] = "get"] /\ of' = [of EXCEPT ![t] = x]
        /\ cancelled \subseteq cancelled' /\ UNCHANGED copy
    BY <2>2 DEF Track, Spawn, TypeInv, TypeOK, TaskTypeOK
  <2>4. row[x].status \notin {"absent", "paused"}
    BY <1>1, <2>1 DEF Prepared, Dispatching
  <2>5. ASSUME NEW y \in Runs, NEW u \in Tasks, Working(u, y)' PROVE Tended(u, y)'
    <3>1. CASE u = t
      <4>1. y = x /\ at'[u] = "get"
        BY <2>3, <2>5, <3>1 DEF Working
      <4>2. QED
        BY <2>1, <2>4, <4>1 DEF Tended
    <3>2. CASE u # t
      <4>1. Working(u, y) /\ at'[u] = at[u]
        BY <2>3, <2>5, <3>2 DEF Working, Active
      <4>2. QED
        BY <1>1, <2>1, <2>3, <4>1 DEF TaskPart, Tended
    <3>3. QED
      BY <3>1, <3>2
  <2>6. TaskPart'
    BY <2>5 DEF TaskPart
  <2>7. QED
    BY <1>1, <1>2, <2>1, <2>6, IdleSerial DEF PauseKept
<1>13. QED
  BY <1>6, <1>7, <1>8, <1>9, <1>10, <1>11, <1>12 DEF RequestStep

LEMMA RecoverySerial ==
  ASSUME OneClient, TypeInv, Reachable, Serial, NEW a \in Actors, RecoveryStep(a)
  PROVE  Serial' /\ PauseKept
<1>0. PICK x \in Runs : x = reqRun[a]
  BY DEF TypeInv, TypeOK
<1>1. /\ reqCopy \in [Actors -> Row] /\ reqAt \in [Actors -> ActorPlaces]
      /\ row \in [Runs -> Row] /\ marked[a].run \in Runs
      /\ todo[a] \subseteq Runs \X {"pending", "running"}
      /\ marked \in [Actors -> [run : Runs, target : {"killed", "failed"}, copy : Row]]
      /\ TaskPart /\ Prepared(a) /\ UNCHANGED <<at, of, copy, reqRun>>
  BY DEF Serial, ActorPart, TypeInv, TypeOK, TaskTypeOK, RecoveryStep, RecoverSelect, RecoverNext,
         RecoverMark, Recovered, taskVars
<1>2. \A q \in Actors : q # a => reqAt'[q] = "idle"
  BY Alone DEF Serial
<1>3. \A place \in ActorPlaces : ActorGoto(a, place) => reqAt'[a] = place
  BY <1>1 DEF ActorGoto
<1>4. reqAt[a] \in {"recover", "sweep", "mark"}
  BY DEF RecoveryStep, RecoverSelect, RecoverNext, RecoverMark, Recovered
<1>5. a \in Requests =>
        /\ row[x].status \notin {"absent", "paused"}
        /\ \A t \in Tasks : Working(t, x) => at[t] \in Leaving
  BY <1>0, <1>1, <1>4 DEF Prepared, Dispatching
<1>6. ASSUME cancelled \subseteq cancelled',
             reqAt'[a] \in Dispatching \cup {"idle"},
             \A y \in Runs : row'[y].status = row[y].status \/ Untended(y),
             row'[x].status = row[x].status \/ row'[x].status \in TerminalStatuses,
             reqAt'[a] = "mark" =>
               /\ Untended(marked[a].run)'
               /\ marked'[a].copy.status \notin TerminalStatuses
                    => row'[marked'[a].run].status # "paused"
      PROVE  Serial'
  <2>1. /\ TaskPart'
        /\ \A t \in Tasks : Working(t, x)' => Working(t, x) /\ at'[t] = at[t]
    BY <1>1, <1>6, KeepTasks
  <2>2. a \in Requests => row'[x].status \notin {"absent", "paused"}
    BY <1>5, <1>6, Transitions DEF Statuses
  <2>3. Prepared(a)'
    BY <1>0, <1>1, <1>5, <1>6, <2>1, <2>2 DEF Prepared, Dispatching
  <2>4. QED
    BY <1>2, <2>1, <2>3, AloneSuffices DEF Serial
<1>7. CASE RecoverSelect(a) \/ Recovered(a)
  <2>1. /\ UNCHANGED <<row, cancelled>>
        /\ reqAt'[a] \in {"sweep", "idle", "dispatch"}
    BY <1>3, <1>7 DEF RecoverSelect, Recovered, ActorPlaces, taskVars
  <2>2. QED
    BY <1>6, <2>1 DEF Dispatching, PauseKept
<1>8. CASE RecoverNext(a)
  <2>1. PICK stale \in todo[a], y \in Runs :
          /\ y = stale[1]
          /\ Clear(y)
          /\ LET c == IF a # Startup /\ y = reqRun[a] THEN reqCopy[a] ELSE row[y]
             IN  IF \/ c.status \in TerminalStatuses /\ c.taskId # NoId
                    \/ c.status = stale[2]
                   THEN /\ marked' = [marked EXCEPT ![a] =
                              [run |-> y, copy |-> c,
                               target |-> IF stale[2] = "pending" THEN "killed" ELSE "failed"]]
                        /\ ActorGoto(a, "mark")
                   ELSE UNCHANGED <<marked, reqAt>>
    BY <1>1, <1>8 DEF RecoverNext
  <2>2. PICK c : c = IF a # Startup /\ y = reqRun[a] THEN reqCopy[a] ELSE row[y]
    OBVIOUS
  <2>3. /\ UNCHANGED row /\ reqAt[a] = "sweep"
        /\ Untended(y)' /\ cancelled \subseteq cancelled'
    BY <1>1, <1>8, <2>1, ClearUntends DEF RecoverNext
  <2>4. CASE UNCHANGED <<marked, reqAt>>
    BY <1>6, <2>3, <2>4 DEF Dispatching, PauseKept
  <2>5. CASE /\ c.status \in TerminalStatuses \/ c.status = stale[2]
             /\ marked'[a].run = y /\ marked'[a].copy = c /\ reqAt'[a] = "mark"
    <3>1. c.status \notin TerminalStatuses => row[y].status # "paused"
      <4>. SUFFICES ASSUME c.status \notin TerminalStatuses PROVE row[y].status # "paused"
        OBVIOUS
      <4>1. c.status \in {"pending", "running"}
        BY <1>1, <2>5
      <4>2. CASE c = row[y]
        BY <4>1, <4>2
      <4>3. CASE a # Startup /\ y = reqRun[a]
        BY <1>0, <1>5, <4>3 DEF Actors
      <4>4. QED
        BY <2>2, <4>2, <4>3
    <3>2. QED
      <4>1. Untended(marked[a].run)'
        BY <2>3, <2>5 DEF Untended, Working, Active
      <4>2. QED
        BY <1>6, <2>3, <2>5, <3>1, <4>1 DEF Dispatching, PauseKept
  <2>6. QED
    BY <1>1, <1>3, <2>1, <2>2, <2>4, <2>5 DEF ActorPlaces
<1>9. CASE RecoverMark(a)
  <2>1. PICK m \in [run : Runs, target : {"killed", "failed"}, copy : Row] : m = marked[a]
    BY <1>1
  <2>2. /\ reqAt[a] = "mark" /\ reqAt'[a] = "sweep" /\ UNCHANGED cancelled
        /\ \A y \in Runs : y # m.run => row'[y] = row[y]
    BY <1>1, <1>3, <1>9, <2>1, WrittenRow DEF RecoverMark, ActorPlaces, taskVars
  <2>3. /\ Untended(m.run)
        /\ m.copy.status \notin TerminalStatuses => row[m.run].status # "paused"
    BY <1>1, <2>1, <2>2 DEF Prepared
  <2>4. \/ row'[m.run].status = row[m.run].status
        \/ /\ m.copy.status \notin TerminalStatuses
           /\ row'[m.run].status \in {"killed", "failed"}
    <3>1. CASE m.copy.status \in TerminalStatuses
      BY <1>9, <2>1, <3>1, WrittenRow DEF RecoverMark, Sent, Flushed, Copied
    <3>2. CASE m.copy.status \notin TerminalStatuses
      <4>1. /\ m.target \in TerminalStatuses /\ m.target \in {"killed", "failed"}
            /\ Write(m.run, Flushed(m.run, m.copy,
                       Copied(m.target, m.copy.control, NoId, m.copy), FALSE))
        BY <1>9, <2>1, <3>2, Transitions DEF RecoverMark
      <4>2. QED
        BY <2>1, <3>2, <4>1, WrittenRow DEF Flushed, Copied
    <3>3. QED
      BY <3>1, <3>2
  <2>5. Serial'
    BY <1>6, <2>2, <2>3, <2>4, Transitions DEF Dispatching
  <2>6. PauseKept
    BY <2>2, <2>3, <2>4 DEF PauseKept
  <2>7. QED
    BY <2>5, <2>6
<1>10. QED
  BY <1>7, <1>8, <1>9 DEF RecoveryStep

LEMMA SerialInit == Init => Serial
BY DEF Init, TaskInit, Serial, OneActor, TaskPart, ActorPart, Prepared, Working, Active, Dispatching

LEMMA SerialStep ==
  ASSUME OneClient, TypeInv, Reachable, Serial, [Next]_vars
  PROVE  Serial' /\ (PauseKept \/ UNCHANGED vars)
<1>1. ASSUME UNCHANGED <<at, of, copy, cancelled, actorVars>>,
             \A x \in Runs : row'[x].status = row[x].status
      PROVE  Serial' /\ PauseKept
  <2>1. TaskPart' /\ \A x \in Runs : Untended(x) => Untended(x)'
    BY <1>1, KeepTasks DEF Serial
  <2>2. ASSUME NEW p \in Actors PROVE Prepared(p)'
    <3>1. Prepared(p) /\ reqRun[p] \in Runs /\ marked[p].run \in Runs
      BY DEF Serial, ActorPart, TypeInv, TypeOK
    <3>2. QED
      BY <1>1, <2>1, <3>1 DEF Prepared, Working, Active, actorVars
  <2>3. OneActor'
    BY <1>1 DEF Serial, OneActor, actorVars
  <2>4. QED
    BY <1>1, <2>1, <2>2, <2>3 DEF Serial, ActorPart, PauseKept
<1>2. ASSUME NEW t \in Tasks, TaskStep(t) PROVE Serial' /\ PauseKept
  <2>1. TaskPart' /\ ActorPart'
    BY <1>2, TaskKeepsTasks, TaskKeepsActors DEF Serial
  <2>2. OneActor'
    BY <1>2 DEF Serial, OneActor, TaskStep, Cleanup, actorVars
  <2>3. PauseKept
    <3>1. CASE Cleanup(t)
      BY <3>1 DEF Cleanup, PauseKept
    <3>2. CASE ~Cleanup(t)
      BY <1>2, <3>2, TaskStatus DEF Serial, PauseKept
    <3>3. QED
      BY <3>1, <3>2
  <2>4. QED
    BY <2>1, <2>2, <2>3 DEF Serial
<1>3. ASSUME NEW x \in Runs, TimePasses(x) PROVE Serial' /\ PauseKept
  <2>1. \A y \in Runs : row'[y].status = row[y].status
    BY <1>3, WrittenRow DEF TimePasses, Age
  <2>2. QED
    BY <1>1, <1>3, <2>1 DEF TimePasses, taskVars
<1>4. CASE Restart
  <2>1. /\ UNCHANGED row
        /\ \A t \in Tasks : at'[t] = "free"
        /\ \A p \in Actors : reqAt'[p] = IF p = Startup THEN "recover" ELSE "idle"
    BY <1>4 DEF Restart
  <2>2. OneActor' /\ TaskPart' /\ ActorPart'
    BY <2>1, NamesAssumption
       DEF OneActor, TaskPart, ActorPart, Prepared, Working, Active, Dispatching
  <2>3. QED
    BY <2>1, <2>2 DEF Serial, PauseKept
<1>5. CASE UNCHANGED vars
  BY <1>1, <1>5 DEF vars, taskVars
<1>6. QED
  BY <1>2, <1>3, <1>4, <1>5, AdmitSerial, RequestSerial, RecoverySerial DEF Next

LEMMA SerialHolds ==
  ASSUME OneClient
  PROVE  Spec => [](TypeInv /\ Reachable /\ Serial)
<1>1. TypeInv /\ Reachable /\ Serial /\ [Next]_vars => Serial'
  BY SerialStep
<1>2. Init => Reachable
  BY DEF Init, TaskInit, Reachable, LiveTaskIsRegistered, RegistryNamesRun, Active
<1>3. QED
  BY <1>1, <1>2, SerialInit, ReachStep, TypesHold, PTL DEF Spec

\* With one request at a time nobody crawls a run that is paused or ended: what
\* pauses, kills or recovers it has first waited out, cancelled or not found the
\* task at work, and dispatch starts no task on a run that is paused.
THEOREM SettledNotCrawled ==
  ASSUME \A r, s \in Requests : r = s
  PROVE  Spec => []SettledRunIsNotCrawled
<1>1. OneClient
  BY DEF OneClient
<1>2. TypeInv /\ Serial => SettledRunIsNotCrawled
  <2>. SUFFICES ASSUME TypeInv, Serial, NEW t \in Tasks, Active(t), t \notin cancelled,
                       row[of[t]].status \in TerminalStatuses \cup {"paused"}
                PROVE  at[t] \in {"get", "end", "fail", "failing", "escaped", "refailing"}
    BY DEF SettledRunIsNotCrawled
  <2>1. Tended(t, of[t])
    BY DEF Serial, TaskPart, Working, TypeInv, TypeOK, TaskTypeOK
  <2>2. QED
    BY <2>1 DEF Tended, Leaving, Settled
<1>3. QED
  BY <1>1, <1>2, SerialHolds, PTL

\* With one request at a time a paused run waits for its resume or its kill:
\* neither the task that paused it, which still passes the completion and both
\* failure handlers with copies of its own, nor a recovery ends it.
THEOREM PauseStable ==
  ASSUME \A r, s \in Requests : r = s
  PROVE  Spec => PauseIsStable
<1>1. OneClient
  BY DEF OneClient
<1>2. TypeInv /\ Reachable /\ Serial /\ [Next]_vars
        => [\A x \in Runs :
              row[x].status = "paused" /\ row'[x].status # "paused"
                => \E r \in Requests : reqRun[r] = x
                     /\ reqAt[r] \in {"resume", "killing", "killAbsent"}]_vars
  BY <1>1, SerialStep DEF PauseKept
<1>3. QED
  BY <1>1, <1>2, SerialHolds, PTL DEF Spec, PauseIsStable
=============================================================================
