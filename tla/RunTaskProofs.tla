--------------------------- MODULE RunTaskProofs ----------------------------
(***************************************************************************)
(* Machine-checked lemmas about RunTask: what the steps of a task leave    *)
(* alone and which types they keep, whoever runs the task.                 *)
(***************************************************************************)
EXTENDS RunTask, TLAPS

\* The names a row may hold.
LEMMA RowNames ==
  /\ {"pending", "running", "paused", "completed", "killed", "failed"} \subseteq Statuses
  /\ NoControl \in ControlRequests \cup {NoControl}
  /\ ControlRequests = {"pause", "kill"}
  /\ AnyRun \in Runs
BY RunsAssumption DEF Statuses, ActiveStatuses, TerminalStatuses, ControlRequests, AnyRun

\* What a session writes back is a row.
LEMMA RowTypes ==
  ASSUME TaskTypeOK, NEW x \in Runs, NEW c \in Row
  PROVE  /\ \A status \in Statuses \cup {"absent"},
               control \in ControlRequests \cup {NoControl},
               taskId \in TaskIds \cup {NoId} : Copied(status, control, taskId, c) \in Row
         /\ \A new \in Row, touched \in BOOLEAN : Flushed(x, c, new, touched) \in Row
         /\ \A new \in Row : Sent(x, c, new) \in Row
<1>1. row[x] \in Row
  BY DEF TaskTypeOK
<1>2. \A status \in Statuses \cup {"absent"},
         control \in ControlRequests \cup {NoControl},
         taskId \in TaskIds \cup {NoId}, o \in Row : Copied(status, control, taskId, o) \in Row
  BY DEF Row, Copied
<1>3. \A new \in Row, touched \in BOOLEAN : Flushed(x, c, new, touched) \in Row
  BY <1>1 DEF Row, Flushed
<1>4. \A new \in Row : Sent(x, c, new) \in Row
  <2>. SUFFICES ASSUME NEW new \in Row PROVE Sent(x, c, new) \in Row
    OBVIOUS
  <2>1. Flushed(x, c, new, FALSE) \in Row
    BY <1>3
  <2>2. Copied(IF new.status = c.status THEN row[x].status ELSE new.status,
               row[x].control, row[x].taskId, row[x]) \in Row
    BY <1>1 DEF Row, Copied
  <2>3. QED
    BY <2>1, <2>2 DEF Sent
<1>5. QED
  BY <1>2, <1>3, <1>4

LEMMA WriteTypes ==
  ASSUME TaskTypeOK, NEW x \in Runs, NEW r \in Row, Write(x, r)
  PROVE  row' \in [Runs -> Row]
BY DEF TaskTypeOK, Write

\* A task that has found a URL to crawl has not finished them all.
UrlsLeft ==
  \A t \in Tasks : at[t] \in {"checkpoint", "start", "crawl", "record"} => next[t] < NumUrls

\* Marking a run failed keeps the types.
LEMMA PersistTypes ==
  ASSUME TaskTypeOK, NEW t \in Tasks, NEW where, NEW otherwise \in TaskPlaces,
         PersistFailure(t, where, otherwise), UNCHANGED <<of, cancelled>>
  PROVE  TaskTypeOK'
<1>. DEFINE x == of[t]
            c == copy[t]
            failed == Copied("failed", c.control, c.taskId, c)
<1>1. /\ x \in Runs /\ c \in Row
      /\ c.control \in ControlRequests \cup {NoControl} /\ c.taskId \in TaskIds \cup {NoId}
  BY DEF TaskTypeOK, Row
<1>2. failed \in Row /\ Flushed(x, c, failed, FALSE) \in Row /\ Flushed(x, c, c, FALSE) \in Row
  BY <1>1, RowTypes, RowNames
<1>3. /\ \/ Write(x, Flushed(x, c, c, FALSE)) /\ Goto(t, "ended")
         \/ Write(x, Flushed(x, c, failed, FALSE)) /\ Goto(t, "ended")
         \/ Goto(t, otherwise) /\ UNCHANGED row
      /\ UNCHANGED <<copy, next>>
  BY DEF PersistFailure
<1>. HIDE DEF x, c, failed
<1>4. row' \in [Runs -> Row]
  BY <1>1, <1>2, <1>3, WriteTypes DEF TaskTypeOK
<1>5. at' \in [Tasks -> TaskPlaces]
  BY <1>3 DEF Goto, TaskTypeOK, TaskPlaces
<1>6. QED
  BY <1>3, <1>4, <1>5 DEF TaskTypeOK

\* A step of a task keeps the types of the rows and the tasks.
LEMMA TaskTypes ==
  ASSUME TaskTypeOK, UrlsLeft, NEW t \in Tasks,
         CrawlStep(t)
  PROVE  TaskTypeOK'
<1>. DEFINE x == of[t]
            c == copy[t]
<1>1. /\ x \in Runs /\ c \in Row /\ row[x] \in Row /\ next[t] \in 0 .. NumUrls
      /\ c.status \in Statuses \cup {"absent"}
      /\ c.control \in ControlRequests \cup {NoControl}
      /\ c.taskId \in TaskIds \cup {NoId}
  BY DEF TaskTypeOK, Row
<1>2. UNCHANGED <<of, cancelled>>
  BY DEF CrawlStep
<1>3. ASSUME row' \in [Runs -> Row], at' \in [Tasks -> TaskPlaces],
             copy' \in [Tasks -> Row], next' \in [Tasks -> 0 .. NumUrls]
      PROVE  TaskTypeOK'
  BY <1>2, <1>3 DEF TaskTypeOK
<1>4. \A status \in Statuses, control \in ControlRequests \cup {NoControl} :
        /\ Copied(status, control, c.taskId, c) \in Row
        /\ \A touched \in BOOLEAN :
             Flushed(x, c, Copied(status, control, c.taskId, c), touched) \in Row
  BY <1>1, RowTypes
<1>5. \A touched \in BOOLEAN : Flushed(x, c, c, touched) \in Row
  BY <1>1, RowTypes
<1>6. \A r \in Row : Write(x, r) => row' \in [Runs -> Row]
  BY <1>1, WriteTypes
<1>7. \A place \in TaskPlaces : Goto(t, place) => at' \in [Tasks -> TaskPlaces]
  BY DEF TaskTypeOK, Goto
<1>8. \A r \in Row : Keep(t, r) => copy' \in [Tasks -> Row]
  BY DEF TaskTypeOK, Keep
<1>9. UNCHANGED row => row' \in [Runs -> Row]
  BY DEF TaskTypeOK
<1>10. UNCHANGED copy => copy' \in [Tasks -> Row]
  BY DEF TaskTypeOK
<1>11. UNCHANGED next => next' \in [Tasks -> 0 .. NumUrls]
  BY DEF TaskTypeOK
<1>. HIDE DEF x, c
<1>12. CASE Get(t) \/ Load(t) \/ Crawl(t) \/ End(t) \/ Raise(t) \/ Fail(t) \/ Cancelled(t)
  <2>1. at' \in [Tasks -> TaskPlaces]
    BY <1>7, <1>12 DEF Get, Load, Crawl, End, Raise, Fail, Cancelled, TaskPlaces
  <2>2. row' \in [Runs -> Row] /\ next' \in [Tasks -> 0 .. NumUrls]
    BY <1>9, <1>11, <1>12 DEF Get, Load, Crawl, End, Raise, Fail, Cancelled
  <2>3. copy' \in [Tasks -> Row]
    BY <1>1, <1>8, <1>10, <1>12
       DEF Get, Load, Crawl, End, Raise, Fail, Cancelled, x
  <2>4. QED
    BY <1>3, <2>1, <2>2, <2>3
<1>13. CASE Boot(t)
  <2>. DEFINE booted == Copied(IF c.status = "pending" THEN "running" ELSE c.status,
                               c.control, c.taskId, c)
  <2>1. booted \in Row
    BY <1>1, RowTypes, RowNames
  <2>2. Keep(t, booted) /\ Goto(t, "resolve") /\ UNCHANGED next
    BY <1>13 DEF Boot, c
  <2>3. [status |-> IF c.status = "pending" THEN "running" ELSE row[x].status,
         control |-> row[x].control, taskId |-> row[x].taskId, stale |-> FALSE] \in Row
    BY <1>1, RowNames DEF Row
  <2>4. row' \in [Runs -> Row]
    BY <1>6, <1>13, <2>3 DEF Boot, x, c
  <2>5. QED
    BY <1>3, <1>7, <1>8, <1>11, <2>1, <2>2, <2>4 DEF TaskPlaces
<1>14. CASE Resolve(t) \/ Start(t)
  <2>1. row' \in [Runs -> Row]
    BY <1>5, <1>6, <1>14 DEF Resolve, Start, x, c
  <2>2. QED
    BY <1>3, <1>7, <1>10, <1>11, <1>14, <2>1 DEF Resolve, Start, TaskPlaces
<1>15. CASE Top(t)
  <2>1. copy' \in [Tasks -> Row]
    BY <1>1, <1>8, <1>10, <1>15 DEF Top, x
  <2>2. at' \in [Tasks -> TaskPlaces]
    BY <1>7, <1>15 DEF Top, TaskPlaces
  <2>3. QED
    BY <1>3, <1>9, <1>11, <1>15, <2>1, <2>2 DEF Top
<1>16. CASE Checkpoint(t)
  <2>. DEFINE target == IF c.control = "pause" THEN "paused" ELSE "killed"
              new == Copied(target, NoControl, c.taskId, c)
  <2>1. new \in Row /\ Flushed(x, c, new, TRUE) \in Row
    BY <1>4, RowNames
  <2>2. \/ Keep(t, new) /\ Write(x, Flushed(x, c, new, TRUE)) /\ Goto(t, "end")
        \/ Goto(t, "fail") /\ UNCHANGED <<row, copy>>
    BY <1>16 DEF Checkpoint, x, c
  <2>3. UNCHANGED next
    BY <1>16 DEF Checkpoint
  <2>. HIDE DEF new
  <2>4. QED
    BY <1>3, <1>6, <1>7, <1>8, <1>9, <1>10, <1>11, <2>1, <2>2, <2>3 DEF TaskPlaces
<1>17. CASE Record(t)
  <2>1. row' \in [Runs -> Row]
    BY <1>5, <1>6, <1>17 DEF Record, x, c
  <2>2. next' = [next EXCEPT ![t] = @ + 1] /\ next[t] < NumUrls
    BY <1>17 DEF Record, Running, UrlsLeft
  <2>3. next' \in [Tasks -> 0 .. NumUrls]
    BY <1>1, <2>2, UrlsAssumption DEF TaskTypeOK
  <2>4. QED
    BY <1>3, <1>7, <1>10, <1>17, <2>1, <2>3 DEF Record, TaskPlaces
<1>18. CASE Complete(t)
  <2>. DEFINE final == Copied("completed", c.control, c.taskId, c)
  <2>1. final \in Row /\ Flushed(x, c, final, TRUE) \in Row
    BY <1>1, <1>4, RowNames
  <2>2. Keep(t, final) /\ Write(x, Flushed(x, c, final, TRUE)) /\ Goto(t, "ended")
        /\ UNCHANGED next
    BY <1>18 DEF Complete, x, c
  <2>. HIDE DEF final
  <2>3. QED
    BY <1>3, <1>6, <1>7, <1>8, <1>11, <2>1, <2>2 DEF TaskPlaces
<1>19. CASE MarkFailed(t)
  BY <1>2, <1>19, PersistTypes DEF MarkFailed, TaskPlaces
<1>20. QED
  BY <1>12, <1>13, <1>14, <1>15, <1>16, <1>17, <1>18, <1>19 DEF CrawlStep

\* A step of a task keeps a URL left for a task that found one.
LEMMA TaskUrls ==
  ASSUME TaskTypeOK, UrlsLeft, NEW t \in Tasks,
         CrawlStep(t)
  PROVE  UrlsLeft'
<1>1. /\ at \in [Tasks -> TaskPlaces] /\ next \in [Tasks -> 0 .. NumUrls]
      /\ NumUrls \in Nat
  BY UrlsAssumption DEF TaskTypeOK
<1>2. \E place : Goto(t, place)
  BY Zenon DEF CrawlStep, Get, Load, Boot, Resolve, Top, Checkpoint, Start, Crawl, Record, End,
         Complete, Raise, Fail, MarkFailed, PersistFailure, Cancelled
<1>3. \A u \in Tasks : u # t => at'[u] = at[u]
  BY <1>1, <1>2 DEF Goto
<1>4. \A u \in Tasks : u # t => next'[u] = next[u]
  BY <1>1 DEF CrawlStep, Get, Load, Boot, Resolve, Top, Checkpoint, Start, Crawl, Record, End,
         Complete, Raise, Fail, MarkFailed, PersistFailure, Cancelled
<1>5. at'[t] \in {"checkpoint", "start", "crawl", "record"} => next'[t] < NumUrls
  <2>1. CASE Top(t)
    BY <1>1, <2>1 DEF Top, Goto
  <2>2. CASE Start(t) \/ Crawl(t)
    BY <1>1, <2>2 DEF Start, Crawl, Running, Goto, UrlsLeft
  <2>3. CASE Get(t) \/ Load(t) \/ Boot(t) \/ Resolve(t) \/ Checkpoint(t) \/ Record(t) \/ End(t)
    BY <1>1, <2>3 DEF Get, Load, Boot, Resolve, Checkpoint, Record, End, Goto
  <2>4. CASE Complete(t) \/ Raise(t) \/ Fail(t) \/ MarkFailed(t) \/ Cancelled(t)
    BY <1>1, <2>4 DEF Complete, Raise, Fail, MarkFailed, PersistFailure, Cancelled, Goto
  <2>5. QED
    BY <2>1, <2>2, <2>3, <2>4 DEF CrawlStep
<1>6. QED
  BY <1>3, <1>4, <1>5 DEF UrlsLeft

\* A step of a task changes at most its own place, copy and count and the row of
\* its run, it does not free the task, and only a live task that was not
\* cancelled goes on.
LEMMA CrawlMoves ==
  ASSUME TaskTypeOK, NEW t \in Tasks, CrawlStep(t)
  PROVE  /\ UNCHANGED <<of, cancelled>>
         /\ \A u \in Tasks : u # t => at'[u] = at[u] /\ copy'[u] = copy[u]
         /\ at'[t] # "free"
         /\ at'[t] # "ended" => Active(t) /\ t \notin cancelled
<1>1. at \in [Tasks -> TaskPlaces] /\ copy \in [Tasks -> Row]
  BY DEF TaskTypeOK
<1>2. UNCHANGED <<of, cancelled>>
  BY DEF CrawlStep
<1>3. UNCHANGED copy \/ \E c : Keep(t, c)
  BY Zenon DEF CrawlStep, Get, Load, Boot, Resolve, Top, Checkpoint, Start, Crawl, Record, End,
         Complete, Raise, Fail, MarkFailed, PersistFailure, Cancelled
<1>4. \E place \in TaskPlaces \ {"free"} :
        /\ Goto(t, place)
        /\ place # "ended" => \E where \in TaskPlaces \ {"free", "ended"} : Running(t, where)
  <2>1. CASE Get(t) \/ Load(t) \/ Boot(t) \/ Resolve(t) \/ Top(t)
    BY <2>1 DEF Get, Load, Boot, Resolve, Top, TaskPlaces
  <2>2. CASE Checkpoint(t) \/ Start(t) \/ Crawl(t) \/ Record(t)
    BY <2>2 DEF Checkpoint, Start, Crawl, Record, TaskPlaces
  <2>3. CASE End(t) \/ Complete(t) \/ Raise(t) \/ Fail(t)
    BY <2>3 DEF End, Complete, Raise, Fail, TaskPlaces
  <2>4. CASE MarkFailed(t) \/ Cancelled(t)
    BY <2>4 DEF MarkFailed, PersistFailure, Cancelled, TaskPlaces
  <2>5. QED
    BY <2>1, <2>2, <2>3, <2>4 DEF CrawlStep
<1>5. QED
  BY <1>1, <1>2, <1>3, <1>4 DEF Goto, Keep, Running, Active
=============================================================================
