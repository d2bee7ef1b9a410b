------------------------ MODULE ExtractionPoolProofs ------------------------
(***************************************************************************)
(* Machine-checked proofs about ExtractionPool, for every set of requests  *)
(* and every number of processes.                                          *)
(***************************************************************************)
EXTENDS ExtractionPool, FiniteSetTheorems, TLAPS

\* A request in one of these places talks to a process.
Exchange == {"starting", "asking", "reading"}
Before == {"new", "waiting", "spawning"}

\* The lock of a worker excludes its other requests.
LocksHeld ==
  \A r \in Requests :
    /\ place[r] \in Holding \cup {"waiting"} => mine[r] \in pool \cup dropped
    /\ place[r] \in Holding => lock[mine[r]] = r

\* Nobody knows a process before it is started.
ProcessesFresh ==
  \A p \in Requests :
    /\ life[p] = "none" => \A r \in Requests : proc[r] # p /\ uses[r] # p
    /\ place[p] \in Before => life[p] = "none" /\ uses[p] = NoOne

KnownOnce ==
  \A v, w \in Requests : proc[v] = proc[w] /\ proc[v] # NoOne => v = w

\* A request talks to the process of its worker, which only a shutdown may
\* have taken away, and no other worker has.
TalksToOwn ==
  \A r \in Requests :
    /\ place[r] \in Exchange =>
         /\ uses[r] \in Requests
         /\ proc[mine[r]] = uses[r] \/ life[uses[r]] # "alive"
         /\ \A w \in Requests : proc[w] = uses[r] => w = mine[r]
    /\ place[r] = "starting" => uses[r] = r
    /\ place[r] = "spawning" => WorkerGone(mine[r])

OneReader ==
  \A r, s \in Requests :
    place[r] \in Exchange /\ place[s] \in Exchange /\ uses[r] = uses[s] => r = s

\* What is in the pipes of a process belongs to the request that talks to it.
PipesOwned ==
  \A p \in Requests :
    /\ asked[p] # NoOne =>
         /\ place[asked[p]] = "reading"
         /\ uses[asked[p]] = p
         /\ frames[p] = <<>>
    /\ frames[p] # <<>> =>
         \/ frames[p] = <<Ready>> /\ place[p] = "starting"
         \/ \E q \in Requests : /\ frames[p] = <<q>>
                                /\ place[q] = "reading"
                                /\ uses[q] = p

Inv ==
  /\ TypeOK
  /\ LocksHeld
  /\ ProcessesFresh
  /\ KnownOnce
  /\ TalksToOwn
  /\ OneReader
  /\ PipesOwned
  /\ AnswersMatch
  /\ StraysComeFromShutdown

LEMMA InitInv == Init => Inv
BY NamesAssumption
   DEF Init, Inv, TypeOK, LocksHeld, ProcessesFresh, KnownOnce, TalksToOwn,
       OneReader, PipesOwned, AnswersMatch, StraysComeFromShutdown, Names,
       Places, Lives, Holding, Exchange, Before

USE NamesAssumption DEF Inv, TypeOK, Names, Places, Lives, Holding, Ended,
  Exchange, Before, Running, workerVars, processVars, requestVars

LEMMA SubmitInv ==
  ASSUME Inv, NEW r \in Requests, Submit(r)
  PROVE  Inv'
<1>1. TypeOK'
  <2>1. LeastPending \subseteq pool
    BY DEF LeastPending
  <2>2. pool' \subseteq Requests
    BY DEF Submit
  <2>3. mine' \in [Requests -> Names]
    BY <2>1 DEF Submit
  <2> QED
    BY <2>2, <2>3 DEF Submit
<1>2. LocksHeld'
  BY DEF LeastPending, LocksHeld, Submit
<1>3. ProcessesFresh'
  BY DEF LocksHeld, ProcessesFresh, Submit
<1>4. KnownOnce'
  BY DEF KnownOnce, LocksHeld, ProcessesFresh, Submit
<1>5. TalksToOwn'
  BY DEF KnownOnce, LocksHeld, ProcessesFresh, TalksToOwn, Submit, WorkerGone
<1>6. OneReader'
  BY DEF LocksHeld, OneReader, ProcessesFresh, TalksToOwn, Submit
<1>7. PipesOwned'
  BY DEF LocksHeld, OneReader, PipesOwned, ProcessesFresh, TalksToOwn, Submit
<1>8. AnswersMatch'
  BY DEF AnswersMatch, OneReader, PipesOwned, TalksToOwn, Submit
<1>9. StraysComeFromShutdown'
  BY DEF LocksHeld, ProcessesFresh, StraysComeFromShutdown, TalksToOwn, Submit
<1> QED  BY <1>1, <1>2, <1>3, <1>4, <1>5, <1>6, <1>7, <1>8, <1>9 DEF Inv

LEMMA EnterInv ==
  ASSUME Inv, NEW r \in Requests, Enter(r)
  PROVE  Inv'
<1>1. TypeOK'
  <2>1. mine[r] \in Requests
    BY DEF Enter, LocksHeld
  <2>2. lock' \in [Requests -> Names]
    BY <2>1 DEF Enter
  <2>3. /\ place' \in [Requests -> Places]
        /\ uses' \in [Requests -> Names]
    BY <2>1 DEF Enter, WorkerGone
  <2> QED
    BY <2>2, <2>3 DEF Enter
<1>2. LocksHeld'
  BY DEF LocksHeld, Enter, WorkerGone
<1>3. ProcessesFresh'
  BY DEF LocksHeld, ProcessesFresh, Enter, WorkerGone
<1>4. KnownOnce'
  BY DEF KnownOnce, LocksHeld, ProcessesFresh, Enter, WorkerGone
<1>5. TalksToOwn'
  <2>1. mine[r] \in Requests
    BY DEF Enter, LocksHeld
  <2>2. CASE WorkerGone(mine[r])
    BY <2>1, <2>2 DEF Enter, TalksToOwn, WorkerGone
  <2>3. CASE ~WorkerGone(mine[r])
    <3>1. /\ proc[mine[r]] \in Requests
          /\ uses' = [uses EXCEPT ![r] = proc[mine[r]]]
          /\ place' = [place EXCEPT ![r] = "asking"]
          /\ UNCHANGED <<proc, life, mine>>
      BY <2>1, <2>3 DEF Enter, WorkerGone
    <3>2. \A w \in Requests : proc[w] = proc[mine[r]] => w = mine[r]
      BY <2>1, <3>1 DEF KnownOnce
    <3> QED
      BY <3>1, <3>2 DEF TalksToOwn, WorkerGone
  <2> QED
    BY <2>2, <2>3
<1>6. OneReader'
  <2>1. mine[r] \in Requests /\ lock[mine[r]] = NoOne
    BY DEF Enter, LocksHeld
  <2>2. \A s \in Requests : place[s] \in Exchange => mine[s] # mine[r]
    BY <2>1 DEF LocksHeld
  <2>3. \A s \in Requests : place[s] \in Exchange => uses[s] # proc[mine[r]]
    BY <2>1, <2>2 DEF TalksToOwn
  <2>4. CASE WorkerGone(mine[r])
    <3>1. uses' = uses /\ place' = [place EXCEPT ![r] = "spawning"]
      BY <2>4 DEF Enter
    <3> QED
      BY <3>1 DEF OneReader
  <2>5. CASE ~WorkerGone(mine[r])
    <3>1. /\ uses' = [uses EXCEPT ![r] = proc[mine[r]]]
          /\ place' = [place EXCEPT ![r] = "asking"]
      BY <2>5 DEF Enter
    <3> QED
      BY <2>3, <3>1 DEF OneReader
  <2> QED
    BY <2>4, <2>5
<1>7. PipesOwned'
  BY DEF LocksHeld, OneReader, PipesOwned, ProcessesFresh, TalksToOwn, Enter, WorkerGone
<1>8. AnswersMatch'
  BY DEF AnswersMatch, OneReader, PipesOwned, TalksToOwn, Enter, WorkerGone
<1>9. StraysComeFromShutdown'
  BY DEF LocksHeld, ProcessesFresh, StraysComeFromShutdown, TalksToOwn, Enter, WorkerGone
<1> QED  BY <1>1, <1>2, <1>3, <1>4, <1>5, <1>6, <1>7, <1>8, <1>9 DEF Inv

LEMMA SpawnedInv ==
  ASSUME Inv, NEW r \in Requests, Spawned(r)
  PROVE  Inv'
<1>1. TypeOK'
  BY DEF Spawned
<1>2. LocksHeld'
  BY DEF LocksHeld, Spawned
<1>3. ProcessesFresh'
  BY DEF LocksHeld, ProcessesFresh, Spawned
<1>4. KnownOnce'
  BY DEF KnownOnce, LocksHeld, ProcessesFresh, Spawned
<1>5. TalksToOwn'
  BY DEF KnownOnce, LocksHeld, ProcessesFresh, TalksToOwn, Spawned, WorkerGone
<1>6. OneReader'
  BY DEF LocksHeld, OneReader, ProcessesFresh, TalksToOwn, Spawned
<1>7. PipesOwned'
  BY DEF LocksHeld, OneReader, PipesOwned, ProcessesFresh, TalksToOwn, Spawned
<1>8. AnswersMatch'
  BY DEF AnswersMatch, OneReader, PipesOwned, TalksToOwn, Spawned
<1>9. StraysComeFromShutdown'
  <2> SUFFICES ASSUME NEW p \in Requests, life'[p] = "alive"
               PROVE  \E w \in pool' \cup dropped' : proc'[w] = p
    BY DEF StraysComeFromShutdown
  <2>1. mine[r] \in pool \cup dropped
    BY DEF Spawned, LocksHeld
  <2>2. CASE p = r
    BY <2>1, <2>2 DEF Spawned
  <2>3. CASE p # r
    <3>1. PICK w \in pool \cup dropped : proc[w] = p
      BY <2>3 DEF Spawned, StraysComeFromShutdown
    <3>2. w # mine[r]
      BY <2>3, <3>1 DEF Spawned, TalksToOwn, WorkerGone
    <3> QED
      BY <3>1, <3>2 DEF Spawned
  <2> QED
    BY <2>2, <2>3
<1> QED  BY <1>1, <1>2, <1>3, <1>4, <1>5, <1>6, <1>7, <1>8, <1>9 DEF Inv

LEMMA StartedInv ==
  ASSUME Inv, NEW r \in Requests, Started(r)
  PROVE  Inv'
<1>1. TypeOK'
  BY DEF TalksToOwn, Started
<1>2. LocksHeld'
  BY DEF LocksHeld, Started
<1>3. ProcessesFresh'
  BY DEF LocksHeld, ProcessesFresh, Started
<1>4. KnownOnce'
  BY DEF KnownOnce, LocksHeld, ProcessesFresh, Started
<1>5. TalksToOwn'
  BY DEF KnownOnce, LocksHeld, ProcessesFresh, TalksToOwn, Started, WorkerGone
<1>6. OneReader'
  BY DEF LocksHeld, OneReader, ProcessesFresh, TalksToOwn, Started
<1>7. PipesOwned'
  <2>1. uses[r] = r /\ Head(frames[r]) = Ready /\ frames[r] # <<>>
    BY DEF Started, TalksToOwn
  <2>2. frames[r] = <<Ready>> /\ asked[r] = NoOne
    BY <2>1 DEF PipesOwned
  <2>3. frames' = [frames EXCEPT ![r] = <<>>]
    BY <2>1, <2>2 DEF Started
  <2> QED
    BY <2>2, <2>3 DEF Started, PipesOwned
<1>8. AnswersMatch'
  BY DEF AnswersMatch, OneReader, PipesOwned, TalksToOwn, Started
<1>9. StraysComeFromShutdown'
  BY DEF LocksHeld, ProcessesFresh, StraysComeFromShutdown, TalksToOwn, Started
<1> QED  BY <1>1, <1>2, <1>3, <1>4, <1>5, <1>6, <1>7, <1>8, <1>9 DEF Inv

LEMMA AskInv ==
  ASSUME Inv, NEW r \in Requests, Ask(r)
  PROVE  Inv'
<1>1. TypeOK'
  BY DEF Ask
<1>2. LocksHeld'
  BY DEF LocksHeld, Ask
<1>3. ProcessesFresh'
  BY DEF LocksHeld, ProcessesFresh, Ask
<1>4. KnownOnce'
  BY DEF KnownOnce, LocksHeld, ProcessesFresh, Ask
<1>5. TalksToOwn'
  BY DEF KnownOnce, LocksHeld, ProcessesFresh, TalksToOwn, Ask, WorkerGone
<1>6. OneReader'
  BY DEF LocksHeld, OneReader, ProcessesFresh, TalksToOwn, Ask
<1>7. PipesOwned'
  BY DEF LocksHeld, OneReader, PipesOwned, ProcessesFresh, TalksToOwn, Ask
<1>8. AnswersMatch'
  BY DEF AnswersMatch, OneReader, PipesOwned, TalksToOwn, Ask
<1>9. StraysComeFromShutdown'
  BY DEF LocksHeld, ProcessesFresh, StraysComeFromShutdown, TalksToOwn, Ask
<1> QED  BY <1>1, <1>2, <1>3, <1>4, <1>5, <1>6, <1>7, <1>8, <1>9 DEF Inv

LEMMA ReadInv ==
  ASSUME Inv, NEW r \in Requests, Read(r)
  PROVE  Inv'
<1>1. TypeOK'
  <2>1. uses[r] \in Requests /\ mine[r] \in Requests
    BY DEF Read, TalksToOwn, LocksHeld
  <2>2. PICK q \in Requests : frames[uses[r]] = <<q>>
    <3>1. frames[uses[r]] # <<>> /\ place[r] = "reading"
      BY DEF Read
    <3>2. place[uses[r]] # "starting"
      BY <2>1, <3>1 DEF TalksToOwn, OneReader
    <3> QED
      BY <2>1, <3>1, <3>2 DEF PipesOwned
  <2>3. answer' \in [Requests -> Names]
    BY <2>2 DEF Read
  <2>4. frames' \in [Requests -> Seq(Requests \cup {Ready})]
    BY <2>1, <2>2 DEF Read
  <2> QED
    BY <2>3, <2>4 DEF Read, Release, End
<1>2. LocksHeld'
  BY DEF LocksHeld, Read, Release, End
<1>3. ProcessesFresh'
  BY DEF LocksHeld, ProcessesFresh, Read, Release, End
<1>4. KnownOnce'
  BY DEF KnownOnce, LocksHeld, ProcessesFresh, Read, Release, End
<1>5. TalksToOwn'
  BY DEF KnownOnce, LocksHeld, ProcessesFresh, TalksToOwn, Read, Release, End, WorkerGone
<1>6. OneReader'
  BY DEF LocksHeld, OneReader, ProcessesFresh, TalksToOwn, Read, Release, End
<1>7. PipesOwned'
  BY DEF LocksHeld, OneReader, PipesOwned, ProcessesFresh, TalksToOwn, Read, Release, End
<1>8. AnswersMatch'
  BY DEF AnswersMatch, LocksHeld, OneReader, PipesOwned, TalksToOwn, Read, Release, End
<1>9. StraysComeFromShutdown'
  BY DEF LocksHeld, ProcessesFresh, StraysComeFromShutdown, TalksToOwn, Read, Release, End
<1> QED  BY <1>1, <1>2, <1>3, <1>4, <1>5, <1>6, <1>7, <1>8, <1>9 DEF Inv

LEMMA GiveUpInv ==
  ASSUME Inv, NEW r \in Requests, GiveUp(r)
  PROVE  Inv'
<1>1. TypeOK'
  BY DEF LocksHeld, GiveUp, Close, Terminated
<1>2. LocksHeld'
  BY DEF LocksHeld, GiveUp, Close, Terminated
<1>3. ProcessesFresh'
  BY DEF LocksHeld, ProcessesFresh, GiveUp, Close, Terminated
<1>4. KnownOnce'
  BY DEF KnownOnce, LocksHeld, ProcessesFresh, GiveUp, Close, Terminated
<1>5. TalksToOwn'
  BY DEF KnownOnce, LocksHeld, ProcessesFresh, TalksToOwn, GiveUp, Close, Terminated, WorkerGone
<1>6. OneReader'
  BY DEF LocksHeld, OneReader, ProcessesFresh, TalksToOwn, GiveUp, Close, Terminated
<1>7. PipesOwned'
  BY DEF LocksHeld, OneReader, PipesOwned, ProcessesFresh, TalksToOwn, GiveUp, Close, Terminated
<1>8. AnswersMatch'
  BY DEF AnswersMatch, OneReader, PipesOwned, TalksToOwn, GiveUp, Close, Terminated
<1>9. StraysComeFromShutdown'
  BY DEF LocksHeld, StraysComeFromShutdown, GiveUp, Close, Terminated
<1> QED  BY <1>1, <1>2, <1>3, <1>4, <1>5, <1>6, <1>7, <1>8, <1>9 DEF Inv

LEMMA ClosedInv ==
  ASSUME Inv, NEW r \in Requests, Closed(r)
  PROVE  Inv'
<1>1. TypeOK'
  BY DEF Closed, Release, End
<1>2. LocksHeld'
  BY DEF LocksHeld, Closed, Release, End
<1>3. ProcessesFresh'
  BY DEF LocksHeld, ProcessesFresh, Closed, Release, End
<1>4. KnownOnce'
  BY DEF KnownOnce, LocksHeld, ProcessesFresh, Closed, Release, End
<1>5. TalksToOwn'
  BY DEF KnownOnce, LocksHeld, ProcessesFresh, TalksToOwn, Closed, Release, End, WorkerGone
<1>6. OneReader'
  BY DEF LocksHeld, OneReader, ProcessesFresh, TalksToOwn, Closed, Release, End
<1>7. PipesOwned'
  BY DEF LocksHeld, OneReader, PipesOwned, ProcessesFresh, TalksToOwn, Closed, Release, End
<1>8. AnswersMatch'
  BY DEF AnswersMatch, OneReader, PipesOwned, TalksToOwn, Closed, Release, End
<1>9. StraysComeFromShutdown'
  BY DEF LocksHeld, ProcessesFresh, StraysComeFromShutdown, TalksToOwn, Closed, Release, End
<1> QED  BY <1>1, <1>2, <1>3, <1>4, <1>5, <1>6, <1>7, <1>8, <1>9 DEF Inv

LEMMA CancelClosingInv ==
  ASSUME Inv, NEW r \in Requests, CancelClosing(r)
  PROVE  Inv'
<1>1. TypeOK'
  BY DEF CancelClosing, Release, End
<1>2. LocksHeld'
  BY DEF LocksHeld, CancelClosing, Release, End
<1>3. ProcessesFresh'
  BY DEF LocksHeld, ProcessesFresh, CancelClosing, Release, End
<1>4. KnownOnce'
  BY DEF KnownOnce, LocksHeld, ProcessesFresh, CancelClosing, Release, End
<1>5. TalksToOwn'
  BY DEF KnownOnce, LocksHeld, ProcessesFresh, TalksToOwn, CancelClosing, Release, End, WorkerGone
<1>6. OneReader'
  BY DEF LocksHeld, OneReader, ProcessesFresh, TalksToOwn, CancelClosing, Release, End
<1>7. PipesOwned'
  BY DEF LocksHeld, OneReader, PipesOwned, ProcessesFresh, TalksToOwn, CancelClosing, Release, End
<1>8. AnswersMatch'
  BY DEF AnswersMatch, OneReader, PipesOwned, TalksToOwn, CancelClosing, Release, End
<1>9. StraysComeFromShutdown'
  BY DEF StraysComeFromShutdown, CancelClosing, Release, End
<1> QED  BY <1>1, <1>2, <1>3, <1>4, <1>5, <1>6, <1>7, <1>8, <1>9 DEF Inv

LEMMA CancelWaitingInv ==
  ASSUME Inv, NEW r \in Requests, CancelWaiting(r)
  PROVE  Inv'
<1>1. TypeOK'
  BY DEF CancelWaiting, End
<1>2. LocksHeld'
  BY DEF LocksHeld, CancelWaiting, End
<1>3. ProcessesFresh'
  BY DEF LocksHeld, ProcessesFresh, CancelWaiting, End
<1>4. KnownOnce'
  BY DEF KnownOnce, LocksHeld, ProcessesFresh, CancelWaiting, End
<1>5. TalksToOwn'
  BY DEF KnownOnce, LocksHeld, ProcessesFresh, TalksToOwn, CancelWaiting, End, WorkerGone
<1>6. OneReader'
  BY DEF LocksHeld, OneReader, ProcessesFresh, TalksToOwn, CancelWaiting, End
<1>7. PipesOwned'
  BY DEF LocksHeld, OneReader, PipesOwned, ProcessesFresh, TalksToOwn, CancelWaiting, End
<1>8. AnswersMatch'
  BY DEF AnswersMatch, OneReader, PipesOwned, TalksToOwn, CancelWaiting, End
<1>9. StraysComeFromShutdown'
  BY DEF LocksHeld, ProcessesFresh, StraysComeFromShutdown, TalksToOwn, CancelWaiting, End
<1> QED  BY <1>1, <1>2, <1>3, <1>4, <1>5, <1>6, <1>7, <1>8, <1>9 DEF Inv

LEMMA UpInv ==
  ASSUME Inv, NEW r \in Requests, Up(r)
  PROVE  Inv'
<1>1. TypeOK'
  BY DEF Up
<1>2. LocksHeld'
  BY DEF LocksHeld, Up
<1>3. ProcessesFresh'
  BY DEF LocksHeld, ProcessesFresh, Up
<1>4. KnownOnce'
  BY DEF KnownOnce, LocksHeld, ProcessesFresh, Up
<1>5. TalksToOwn'
  BY DEF KnownOnce, LocksHeld, ProcessesFresh, TalksToOwn, Up, WorkerGone
<1>6. OneReader'
  BY DEF LocksHeld, OneReader, ProcessesFresh, TalksToOwn, Up
<1>7. PipesOwned'
  BY DEF LocksHeld, OneReader, PipesOwned, ProcessesFresh, TalksToOwn, Up
<1>8. AnswersMatch'
  BY DEF AnswersMatch, OneReader, PipesOwned, TalksToOwn, Up
<1>9. StraysComeFromShutdown'
  BY DEF LocksHeld, ProcessesFresh, StraysComeFromShutdown, TalksToOwn, Up
<1> QED  BY <1>1, <1>2, <1>3, <1>4, <1>5, <1>6, <1>7, <1>8, <1>9 DEF Inv

LEMMA RespondInv ==
  ASSUME Inv, NEW r \in Requests, Respond(r)
  PROVE  Inv'
<1>1. TypeOK'
  BY DEF Respond
<1>2. LocksHeld'
  BY DEF LocksHeld, Respond
<1>3. ProcessesFresh'
  BY DEF LocksHeld, ProcessesFresh, Respond
<1>4. KnownOnce'
  BY DEF KnownOnce, LocksHeld, ProcessesFresh, Respond
<1>5. TalksToOwn'
  BY DEF KnownOnce, LocksHeld, ProcessesFresh, TalksToOwn, Respond, WorkerGone
<1>6. OneReader'
  BY DEF LocksHeld, OneReader, ProcessesFresh, TalksToOwn, Respond
<1>7. PipesOwned'
  <2>1. /\ asked[r] \in Requests
        /\ place[asked[r]] = "reading" /\ uses[asked[r]] = r
        /\ frames[r] = <<>>
    BY DEF Respond, PipesOwned
  <2>2. frames'[r] = <<asked[r]>> /\ asked'[r] = NoOne
    BY <2>1 DEF Respond
  <2> QED
    BY <2>1, <2>2 DEF Respond, PipesOwned
<1>8. AnswersMatch'
  BY DEF AnswersMatch, OneReader, PipesOwned, TalksToOwn, Respond
<1>9. StraysComeFromShutdown'
  BY DEF LocksHeld, ProcessesFresh, StraysComeFromShutdown, TalksToOwn, Respond
<1> QED  BY <1>1, <1>2, <1>3, <1>4, <1>5, <1>6, <1>7, <1>8, <1>9 DEF Inv

LEMMA CrashInv ==
  ASSUME Inv, NEW r \in Requests, Crash(r)
  PROVE  Inv'
<1>1. TypeOK'
  BY DEF Crash, Dies
<1>2. LocksHeld'
  BY DEF LocksHeld, Crash, Dies
<1>3. ProcessesFresh'
  BY DEF LocksHeld, ProcessesFresh, Crash, Dies
<1>4. KnownOnce'
  BY DEF KnownOnce, LocksHeld, ProcessesFresh, Crash, Dies
<1>5. TalksToOwn'
  BY DEF KnownOnce, LocksHeld, ProcessesFresh, TalksToOwn, Crash, Dies, WorkerGone
<1>6. OneReader'
  BY DEF LocksHeld, OneReader, ProcessesFresh, TalksToOwn, Crash, Dies
<1>7. PipesOwned'
  BY DEF LocksHeld, OneReader, PipesOwned, ProcessesFresh, TalksToOwn, Crash, Dies
<1>8. AnswersMatch'
  BY DEF AnswersMatch, OneReader, PipesOwned, TalksToOwn, Crash, Dies
<1>9. StraysComeFromShutdown'
  BY DEF StraysComeFromShutdown, Crash, Dies
<1> QED  BY <1>1, <1>2, <1>3, <1>4, <1>5, <1>6, <1>7, <1>8, <1>9 DEF Inv

LEMMA ExitInv ==
  ASSUME Inv, NEW r \in Requests, Exit(r)
  PROVE  Inv'
<1>1. TypeOK'
  BY DEF Exit, Dies
<1>2. LocksHeld'
  BY DEF LocksHeld, Exit, Dies
<1>3. ProcessesFresh'
  BY DEF LocksHeld, ProcessesFresh, Exit, Dies
<1>4. KnownOnce'
  BY DEF KnownOnce, LocksHeld, ProcessesFresh, Exit, Dies
<1>5. TalksToOwn'
  BY DEF KnownOnce, LocksHeld, ProcessesFresh, TalksToOwn, Exit, Dies, WorkerGone
<1>6. OneReader'
  BY DEF LocksHeld, OneReader, ProcessesFresh, TalksToOwn, Exit, Dies
<1>7. PipesOwned'
  BY DEF LocksHeld, OneReader, PipesOwned, ProcessesFresh, TalksToOwn, Exit, Dies
<1>8. AnswersMatch'
  BY DEF AnswersMatch, OneReader, PipesOwned, TalksToOwn, Exit, Dies
<1>9. StraysComeFromShutdown'
  BY DEF StraysComeFromShutdown, Exit, Dies
<1> QED  BY <1>1, <1>2, <1>3, <1>4, <1>5, <1>6, <1>7, <1>8, <1>9 DEF Inv

LEMMA ReapInv ==
  ASSUME Inv, NEW r \in Requests, Reap(r)
  PROVE  Inv'
<1>1. TypeOK'
  BY DEF Reap
<1>2. LocksHeld'
  BY DEF LocksHeld, Reap
<1>3. ProcessesFresh'
  BY DEF LocksHeld, ProcessesFresh, Reap
<1>4. KnownOnce'
  BY DEF KnownOnce, LocksHeld, ProcessesFresh, Reap
<1>5. TalksToOwn'
  BY DEF KnownOnce, LocksHeld, ProcessesFresh, TalksToOwn, Reap, WorkerGone
<1>6. OneReader'
  BY DEF LocksHeld, OneReader, ProcessesFresh, TalksToOwn, Reap
<1>7. PipesOwned'
  BY DEF LocksHeld, OneReader, PipesOwned, ProcessesFresh, TalksToOwn, Reap
<1>8. AnswersMatch'
  BY DEF AnswersMatch, OneReader, PipesOwned, TalksToOwn, Reap
<1>9. StraysComeFromShutdown'
  BY DEF StraysComeFromShutdown, Reap
<1> QED  BY <1>1, <1>2, <1>3, <1>4, <1>5, <1>6, <1>7, <1>8, <1>9 DEF Inv

LEMMA ShutdownInv ==
  ASSUME Inv, Shutdown
  PROVE  Inv'
<1>1. TypeOK'
  BY DEF Shutdown, Terminated
<1>2. LocksHeld'
  <2>1. ASSUME NEW r \in Requests, place[r] \in Holding \cup {"waiting"}, mine[r] \in pool
        PROVE  mine[r] \in dropped'
    <3>1. r \in PendingOn(mine[r]) /\ PendingOn(mine[r]) \subseteq Requests
      BY <2>1 DEF PendingOn
    <3>2. Pending(mine[r]) \in Nat /\ Pending(mine[r]) # 0
      BY <3>1, RequestsAssumption, FS_Subset, FS_EmptySet, FS_CardinalityType
         DEF Pending
    <3> QED
      BY <2>1, <3>2 DEF Shutdown
  <2> QED
    BY <2>1 DEF LocksHeld, Shutdown
<1>3. ProcessesFresh'
  BY DEF ProcessesFresh, Shutdown, Terminated
<1>4. KnownOnce'
  BY DEF KnownOnce, Shutdown
<1>5. TalksToOwn'
  <2>1. ASSUME NEW r \in Requests, place[r] \in Exchange
        PROVE  proc'[mine[r]] = uses[r] \/ life'[uses[r]] # "alive"
    <3>1. uses[r] \in Requests /\ mine[r] \in Requests
      BY <2>1 DEF TalksToOwn, LocksHeld
    <3>2. CASE mine[r] \in pool /\ proc[mine[r]] = uses[r]
      <4>1. uses[r] \in {proc[w] : w \in pool}
        BY <3>2
      <4> QED
        BY <3>1, <4>1 DEF Shutdown, Terminated
    <3>3. CASE mine[r] \notin pool /\ proc[mine[r]] = uses[r]
      BY <3>1, <3>3 DEF Shutdown
    <3>4. CASE life[uses[r]] # "alive"
      BY <3>1, <3>4 DEF Shutdown, Terminated
    <3> QED
      BY <2>1, <3>2, <3>3, <3>4 DEF TalksToOwn
  <2>2. ASSUME NEW r \in Requests, place[r] = "spawning"
        PROVE  WorkerGone(mine[r])'
    <3>1. WorkerGone(mine[r]) /\ mine[r] \in Requests
      BY <2>2 DEF TalksToOwn, LocksHeld
    <3> QED
      BY <3>1 DEF Shutdown, Terminated, WorkerGone
  <2>3. \A w \in Requests : proc'[w] # NoOne => proc'[w] = proc[w]
    BY DEF Shutdown
  <2>4. UNCHANGED <<place, uses, mine>>
    BY DEF Shutdown
  <2> QED
    BY <2>1, <2>2, <2>3, <2>4 DEF TalksToOwn
<1>6. OneReader'
  BY DEF OneReader, Shutdown
<1>7. PipesOwned'
  BY DEF PipesOwned, Shutdown
<1>8. AnswersMatch'
  BY DEF AnswersMatch, Shutdown
<1>9. StraysComeFromShutdown'
  <2> SUFFICES ASSUME NEW p \in Requests, life'[p] = "alive"
               PROVE  \E w \in pool' \cup dropped' : proc'[w] = p
    BY DEF StraysComeFromShutdown
  <2>1. life[p] = "alive" /\ p \notin {proc[w] : w \in pool}
    BY DEF Shutdown, Terminated
  <2>2. PICK w \in pool \cup dropped : proc[w] = p
    BY <2>1 DEF StraysComeFromShutdown
  <2>3. w \in dropped \ pool
    BY <2>1, <2>2
  <2> QED
    BY <2>2, <2>3 DEF Shutdown
<1> QED  BY <1>1, <1>2, <1>3, <1>4, <1>5, <1>6, <1>7, <1>8, <1>9 DEF Inv

LEMMA StepInv == Inv /\ [Next]_vars => Inv'
<1> SUFFICES ASSUME Inv, [Next]_vars PROVE Inv'
  OBVIOUS
<1>1. CASE UNCHANGED vars
  BY <1>1 DEF vars, LocksHeld, ProcessesFresh, KnownOnce, TalksToOwn, OneReader,
       PipesOwned, AnswersMatch, StraysComeFromShutdown, WorkerGone
<1>2. CASE Shutdown
  BY <1>2, ShutdownInv
<1>3. ASSUME NEW r \in Requests,
             \/ Submit(r) \/ CancelClosing(r) \/ CancelWaiting(r)
             \/ Up(r) \/ Respond(r) \/ Crash(r) \/ Exit(r) \/ Reap(r)
      PROVE  Inv'
  BY <1>3, SubmitInv, CancelClosingInv, CancelWaitingInv, UpInv, RespondInv,
     CrashInv, ExitInv, ReapInv
<1>4. ASSUME NEW r \in Requests, RequestStep(r)
      PROVE  Inv'
  BY <1>4, EnterInv, SpawnedInv, StartedInv, AskInv, ReadInv, GiveUpInv, ClosedInv
     DEF RequestStep
<1> QED
  BY <1>1, <1>2, <1>3, <1>4 DEF Next, ProcessStep

LEMMA Invariant == Spec => []Inv
BY InitInv, StepInv, PTL DEF Spec

\* All state of the pool stays well typed.
THEOREM TypeCorrect == Spec => []TypeOK
<1>1. Inv => TypeOK
  BY DEF Inv
<1> QED  BY Invariant, <1>1, PTL

\* No request ever reads the answer to another one.
THEOREM OwnAnswers == Spec => []AnswersMatch
<1>1. Inv => AnswersMatch
  BY DEF Inv
<1> QED  BY Invariant, <1>1, PTL

\* An extraction goes on only while the request that asked for it waits.
THEOREM ExtractionStops == Spec => []EndedRequestsStopExtraction
<1>1. Inv => EndedRequestsStopExtraction
  BY DEF PipesOwned, EndedRequestsStopExtraction
<1> QED  BY Invariant, <1>1, PTL

\* Only requests that a shutdown found under way start a process nobody closes.
THEOREM NoOtherStrays == Spec => []StraysComeFromShutdown
<1>1. Inv => StraysComeFromShutdown
  BY DEF Inv
<1> QED  BY Invariant, <1>1, PTL

(* The number of processes.                                                *)

\* The pool never outgrows the setting, and until a shutdown finds a request
\* under way it knows every process that runs on.
PoolBounded == IsFiniteSet(pool) /\ Cardinality(pool) <= Concurrency

LEMMA PoolStaysBounded ==
  ASSUME TypeOK, PoolBounded, [Next]_vars
  PROVE  PoolBounded'
<1>1. CASE pool' = pool
  BY <1>1 DEF PoolBounded
<1>2. CASE pool' = {}
  BY <1>2, FS_EmptySet, ConcurrencyAssumption DEF PoolBounded
<1>3. ASSUME NEW r \in Requests, Wanted, pool' = pool \cup {r}
      PROVE  PoolBounded'
  <2>1. Cardinality(pool) \in Nat /\ Cardinality(pool) < Concurrency
    BY <1>3, FS_CardinalityType, FS_EmptySet, ConcurrencyAssumption
       DEF PoolBounded, Wanted
  <2>2. /\ IsFiniteSet(pool \cup {r})
        /\ \/ Cardinality(pool \cup {r}) = Cardinality(pool)
           \/ Cardinality(pool \cup {r}) = Cardinality(pool) + 1
    BY FS_AddElement, Zenon DEF PoolBounded
  <2> QED
    BY <1>3, <2>1, <2>2, ConcurrencyAssumption DEF PoolBounded
<1>4. CASE \E r \in Requests : Submit(r)
  BY <1>1, <1>3, <1>4 DEF Submit
<1>5. CASE Shutdown
  BY <1>2, <1>5 DEF Shutdown
<1>6. CASE UNCHANGED vars
  BY <1>1, <1>6 DEF vars
<1>7. CASE \E r \in Requests : RequestStep(r) \/ CancelClosing(r)
                               \/ CancelWaiting(r) \/ ProcessStep(r)
  BY <1>1, <1>7 DEF RequestStep, ProcessStep, Enter, Spawned, Started, Ask, Read,
       GiveUp, Close, Closed, Release, End, CancelClosing, CancelWaiting, Up,
       Respond, Crash, Exit, Dies, Reap
<1> QED
  BY <1>4, <1>5, <1>6, <1>7 DEF Next

LEMMA AliveAreFew ==
  ASSUME Inv, PoolBounded
  PROVE  BoundedProcesses
<1> SUFFICES ASSUME dropped = {}
             PROVE  Cardinality({p \in Requests : life[p] = "alive"}) <= Concurrency
  BY DEF BoundedProcesses
<1> DEFINE Alive == {p \in Requests : life[p] = "alive"}
           Busy  == {w \in pool : proc[w] \in Alive}
           f     == [w \in Busy |-> proc[w]]
<1>1. IsFiniteSet(Busy) /\ Cardinality(Busy) <= Cardinality(pool)
  BY FS_Subset DEF PoolBounded
<1>2. \A p \in Alive : \E w \in Busy : f[w] = p
  BY DEF StraysComeFromShutdown
<1>3. f \in Surjection(Busy, Alive)
  BY <1>2 DEF Surjection
<1>4. IsFiniteSet(Alive) /\ Cardinality(Alive) <= Cardinality(Busy)
  BY <1>1, <1>3, FS_Surjection
<1>5. /\ Cardinality(Alive) \in Nat
      /\ Cardinality(Busy) \in Nat
      /\ Cardinality(pool) \in Nat
  BY <1>1, <1>4, FS_CardinalityType DEF PoolBounded
<1> QED
  BY <1>1, <1>4, <1>5, ConcurrencyAssumption DEF PoolBounded

\* No more processes run on than the setting allows, unless a shutdown found
\* requests under way.
THEOREM ProcessesAreFew == Spec => []BoundedProcesses
<1>1. Init => PoolBounded
  BY FS_EmptySet, ConcurrencyAssumption DEF Init, PoolBounded
<1>2. Inv /\ PoolBounded /\ [Next]_vars => PoolBounded'
  BY PoolStaysBounded
<1>3. Inv /\ PoolBounded => BoundedProcesses
  BY AliveAreFew
<1> QED
  BY Invariant, <1>1, <1>2, <1>3, PTL DEF Spec
=============================================================================
