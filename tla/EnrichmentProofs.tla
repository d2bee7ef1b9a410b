-------------------------- MODULE EnrichmentProofs --------------------------
(***************************************************************************)
(* Machine-checked proofs about Enrichment, for every set of records and   *)
(* every number of jobs.                                                   *)
(***************************************************************************)
EXTENDS Enrichment, TLAPS

SeenTypes == [Jobs -> [Records -> [rec : RecordStatuses \cup {"none"}, product : ProductStatuses]]]

-----------------------------------------------------------------------------
(* Types. *)

LEMMA SeenStays ==
  ASSUME seen \in SeenTypes, NEW j \in Jobs, NEW r \in Records,
         NEW x \in RecordStatuses \cup {"none"}, NEW y \in ProductStatuses
  PROVE  /\ [seen EXCEPT ![j][r].rec = x] \in SeenTypes
         /\ [seen EXCEPT ![j][r].product = y] \in SeenTypes
<1>1. seen[j][r] \in [rec : RecordStatuses \cup {"none"}, product : ProductStatuses]
  BY DEF SeenTypes
<1>2. /\ [seen[j][r] EXCEPT !.rec = x] \in [rec : RecordStatuses \cup {"none"}, product : ProductStatuses]
      /\ [seen[j][r] EXCEPT !.product = y] \in [rec : RecordStatuses \cup {"none"}, product : ProductStatuses]
  BY <1>1
<1>3. /\ [seen[j] EXCEPT ![r].rec = x] \in [Records -> [rec : RecordStatuses \cup {"none"}, product : ProductStatuses]]
      /\ [seen[j] EXCEPT ![r].product = y] \in [Records -> [rec : RecordStatuses \cup {"none"}, product : ProductStatuses]]
  BY <1>2 DEF SeenTypes
<1> QED BY <1>3 DEF SeenTypes

\* What a load changes.
LEMMA SeenChanged ==
  ASSUME NEW s \in SeenTypes, NEW j \in Jobs, NEW r \in Records, NEW x
  PROVE  /\ [s EXCEPT ![j][r].rec = x][j][r].rec = x
         /\ [s EXCEPT ![j][r].rec = x][j][r].product = s[j][r].product
         /\ [s EXCEPT ![j][r].product = x][j][r].product = x
         /\ [s EXCEPT ![j][r].product = x][j][r].rec = s[j][r].rec
<1> DEFINE t == s[j]
           e == t[r]
<1>1. /\ t \in [Records -> [rec : RecordStatuses \cup {"none"}, product : ProductStatuses]]
      /\ e \in [rec : RecordStatuses \cup {"none"}, product : ProductStatuses]
  BY DEF SeenTypes
<1>2. /\ [e EXCEPT !.rec = x].rec = x /\ [e EXCEPT !.rec = x].product = e.product
      /\ [e EXCEPT !.product = x].product = x /\ [e EXCEPT !.product = x].rec = e.rec
  BY <1>1
<1> HIDE DEF e
<1>3. /\ [t EXCEPT ![r] = [e EXCEPT !.rec = x]][r] = [e EXCEPT !.rec = x]
      /\ [t EXCEPT ![r] = [e EXCEPT !.product = x]][r] = [e EXCEPT !.product = x]
  BY <1>1
<1> HIDE DEF t
<1>4. \A y : [s EXCEPT ![j] = y][j] = y
  BY DEF SeenTypes
<1>5. /\ [s EXCEPT ![j] = [t EXCEPT ![r] = [e EXCEPT !.rec = x]]]
          = [s EXCEPT ![j][r].rec = x]
      /\ [s EXCEPT ![j] = [t EXCEPT ![r] = [e EXCEPT !.product = x]]]
          = [s EXCEPT ![j][r].product = x]
  BY DEF t, e
<1> QED BY <1>2, <1>3, <1>4, <1>5 DEF t, e

LEMMA ProductStays ==
  ASSUME TypeOK, NEW r \in Records, NEW y \in ProductStatuses
  PROVE  [product EXCEPT ![r].status = y]
           \in [Records -> [job : Jobs \cup {NoJob}, status : ProductStatuses]]
<1>1. product[r] \in [job : Jobs \cup {NoJob}, status : ProductStatuses]
  BY DEF TypeOK
<1>2. [product[r] EXCEPT !.status = y] \in [job : Jobs \cup {NoJob}, status : ProductStatuses]
  BY <1>1
<1> QED BY <1>2 DEF TypeOK

\* What a task has loaded and what it would write have their types.
LEMMA AtHand ==
  ASSUME TypeOK, NEW j \in Jobs, at[j] \in AtRecord
  PROVE  /\ current[j] \in Records
         /\ rec[current[j]] \in RecordStatuses \cup {"gone"}
         /\ product[current[j]].status \in ProductStatuses
         /\ \A x, y, z \in ProductStatuses : Written(x, y, z) \in ProductStatuses
BY DEF TypeOK, Written

\* A new status leaves a product with its job.
LEMMA JobStays ==
  ASSUME TypeOK, NEW c, NEW r \in Records, NEW y
  PROVE  [product EXCEPT ![c].status = y][r].job = product[r].job
<1>1. CASE c # r
  BY <1>1 DEF TypeOK
<1>2. CASE c = r
  <2>1. product[r] \in [job : Jobs \cup {NoJob}, status : ProductStatuses]
    BY DEF TypeOK
  <2>2. [product[r] EXCEPT !.status = y].job = product[r].job
    BY <2>1
  <2> QED BY <1>2, <2>2 DEF TypeOK
<1> QED BY <1>1, <1>2

LEMMA InitType == Init => TypeOK
BY NoneAssumption DEF Init, TypeOK, AtRecord, NoProduct, Unseen, RecordStatuses, ProductStatuses

LEMMA RequestType ==
  ASSUME TypeOK, NEW j \in Jobs,
         \/ Request(j) \/ Accept(j) \/ Refuse(j)
         \/ \E r \in Records : LoadRecord(j, r) \/ SelectProduct(j, r)
  PROVE  TypeOK'
<1>1. CASE Request(j)
  BY <1>1 DEF TypeOK, Request, Goto, rows, AtRecord, Creating
<1>2. CASE Accept(j)
  BY <1>2 DEF TypeOK, Accept, Goto, rows, AtRecord, Creating
<1>3. CASE Refuse(j)
  BY <1>3 DEF TypeOK, Refuse, Goto, rows, AtRecord, Creating, Unseen, RecordStatuses, ProductStatuses
<1>4. ASSUME NEW r \in Records, LoadRecord(j, r) PROVE TypeOK'
  BY <1>4 DEF TypeOK, LoadRecord, Reached, rows
<1>5. ASSUME NEW r \in Records, SelectProduct(j, r) PROVE TypeOK'
  <2>1. seen' \in SeenTypes
    BY <1>5, SeenStays DEF TypeOK, SeenTypes, SelectProduct
  <2> QED BY <1>5, <2>1 DEF TypeOK, SelectProduct, Reached, rows, SeenTypes
<1> QED BY <1>1, <1>2, <1>3, <1>4, <1>5

LEMMA CommitType ==
  ASSUME TypeOK, NEW j \in Jobs, Commit(j)
  PROVE  TypeOK'
<1>1. \A r \in Records : Claimed(j, r) \in [job : Jobs \cup {NoJob}, status : ProductStatuses]
  BY DEF TypeOK, Claimed, Written, ProductStatuses
<1>2. product' \in [Records -> [job : Jobs \cup {NoJob}, status : ProductStatuses]]
  BY <1>1 DEF TypeOK, Commit
<1>3. rec' \in [Records -> RecordStatuses \cup {"gone"}]
  BY DEF TypeOK, Commit, RecordStatuses
<1>4. seen' \in [Jobs -> [Records -> [rec : RecordStatuses \cup {"none"}, product : ProductStatuses]]]
  BY DEF TypeOK, Commit, Unseen, RecordStatuses, ProductStatuses
<1>5. job' \in [Jobs -> {"none", "pending", "running"} \cup FinalStatuses]
  BY DEF TypeOK, Commit
<1>6. /\ at' \in [Jobs -> {"idle", "refused", "dead", "done"} \cup Creating \cup Working]
      /\ \A k \in Jobs : current'[k] \in Records <=> at'[k] \in AtRecord
  BY DEF TypeOK, Commit, Goto, Working, AtRecord
<1>7. UNCHANGED <<todo, accepted, current, outcomes>> /\ overlapped' \subseteq Records
  BY DEF TypeOK, Commit
<1> QED BY <1>2, <1>3, <1>4, <1>5, <1>6, <1>7 DEF TypeOK

LEMMA SettleType ==
  ASSUME TypeOK, NEW j \in Jobs, NEW outcome \in {"enriched", "failed"},
         NEW logged \in BOOLEAN, Settle(j, outcome, logged), at[j] \in AtRecord
  PROVE  TypeOK'
<1>1. product' \in [Records -> [job : Jobs \cup {NoJob}, status : ProductStatuses]]
  BY AtHand, ProductStays DEF Settle, Written, ProductStatuses
<1>2. rec' \in [Records -> RecordStatuses \cup {"gone"}]
  BY DEF TypeOK, Settle, Written, RecordStatuses
<1>3. seen' \in [Jobs -> [Records -> [rec : RecordStatuses \cup {"none"}, product : ProductStatuses]]]
  BY DEF TypeOK, Settle, Settled, Unseen, RecordStatuses, ProductStatuses
<1> QED BY <1>1, <1>2, <1>3, NoneAssumption DEF TypeOK, Settle, Settled, Goto, Working, AtRecord

LEMMA TaskType ==
  ASSUME TypeOK, NEW j \in Jobs, Task(j) \/ Die(j)
  PROVE  TypeOK'
<1>1. CASE Start(j)
  BY <1>1 DEF TypeOK, Start, Goto, Working, AtRecord
<1>2. CASE LoadRefs(j)
  BY <1>2 DEF TypeOK, LoadRefs, Goto, Working, AtRecord, rows
<1>3. CASE LoadItsRecord(j)
  <2>1. seen' \in SeenTypes
    BY <1>3, SeenStays, AtHand DEF TypeOK, LoadItsRecord, SeenTypes, AtRecord
  <2> QED BY <1>3, <2>1 DEF SeenTypes, TypeOK, LoadItsRecord, Goto, Working, AtRecord, rows
<1>4. CASE RecordMissing(j)
  <2>1. seen[j][current[j]].product \in ProductStatuses
    BY <1>4, AtHand DEF TypeOK, RecordMissing, AtRecord
  <2>2. product' \in [Records -> [job : Jobs \cup {NoJob}, status : ProductStatuses]]
    BY <1>4, <2>1, AtHand, ProductStays DEF RecordMissing, Written, AtRecord, ProductStatuses
  <2> QED BY <1>4, <2>2, NoneAssumption
          DEF TypeOK, RecordMissing, ProductStatuses, Settled, Goto, Working, AtRecord, Unseen,
              RecordStatuses
<1>5. CASE Enrich(j) \/ EnrichFails(j) \/ FailRecovered(j)
  BY <1>5, SettleType DEF Enrich, EnrichFails, FailRecovered, AtRecord
<1>6. CASE RollBack(j)
  <2>1. seen' \in SeenTypes
    BY <1>6, SeenStays, AtHand DEF TypeOK, RollBack, SeenTypes, AtRecord
  <2> QED BY <1>6, <2>1 DEF SeenTypes, TypeOK, RollBack, Goto, Working, AtRecord, rows
<1>7. CASE Reload(j)
  <2>1. seen' \in SeenTypes
    BY <1>7, SeenStays, AtHand DEF TypeOK, Reload, SeenTypes, AtRecord
  <2> QED BY <1>7, <2>1 DEF SeenTypes, TypeOK, Reload, Goto, Working, AtRecord, rows
<1>8. CASE Finish(j)
  <2>1. Verdict(outcomes[j]) \in FinalStatuses
    BY DEF Verdict, FinalStatuses
  <2> QED BY <1>8, <2>1 DEF TypeOK, Finish, Goto, AtRecord
<1>9. CASE RecordLost(j) \/ Die(j)
  <2>1. Abandon(j)
    BY <1>9 DEF RecordLost, Die
  <2> QED BY <2>1, NoneAssumption DEF TypeOK, Abandon, Goto, rows, AtRecord, Unseen, RecordStatuses, ProductStatuses
<1>10. ASSUME NEW r \in Records, LoadProduct(j, r) PROVE TypeOK'
  BY <1>10 DEF TypeOK, LoadProduct, Reached, Goto, Working, AtRecord, rows, RecordStatuses, ProductStatuses
<1> QED BY <1>1, <1>2, <1>3, <1>4, <1>5, <1>6, <1>7, <1>8, <1>9, <1>10 DEF Task

LEMMA StepType == TypeOK /\ [Next]_vars => TypeOK'
<1>1. ASSUME TypeOK, NEW r \in Records, DeleteRecord(r) PROVE TypeOK'
  BY <1>1 DEF TypeOK, DeleteRecord, locals
<1>2. ASSUME TypeOK, UNCHANGED vars PROVE TypeOK'
  BY <1>2 DEF TypeOK, vars, rows, locals
<1> QED BY <1>1, <1>2, RequestType, CommitType, TaskType DEF Next

\* Every variable has its type.
THEOREM TypeCorrect == Spec => []TypeOK
BY InitType, StepType, PTL DEF Spec

-----------------------------------------------------------------------------
(* Every locked record is held. *)

\* Only a job that was committed has products.
Owned(j, r) == product[r].job = j => at[j] \notin {"idle", "refused"} \cup Creating

Places(j) ==
  /\ todo[j] # {} => at[j] \notin {"idle", "refused", "queued", "refs", "done"}
  /\ current[j] \notin todo[j]
  /\ at[j] \in {"idle", "loading"} => \A r \in Records : seen[j][r].product = "none"

\* As long as the product is the job's, nobody makes it or the record pending
\* after the task has loaded them.
Fresh(j, r) ==
  r = current[j] /\ product[r].job = j =>
    /\ seen[j][r].product # "pending" => product[r].status # "pending"
    /\ at[j] \in {"enrich", "fail"} /\ seen[j][r].rec # "pending" => rec[r] # "pending"

Locked(r) == rec[r] = "pending" \/ (rec[r] # "gone" /\ product[r].status = "pending")

HeldInv ==
  /\ TypeOK
  /\ \A j \in Jobs : Places(j)
  /\ \A j \in Jobs, r \in Records : Owned(j, r) /\ Fresh(j, r)
  /\ \A r \in Records : Locked(r) => \E j \in Jobs : Holds(j, r)

LEMMA InitHeld == Init => HeldInv
BY InitType, NoneAssumption
DEF Init, HeldInv, Places, Owned, Fresh, Locked, NoProduct, Unseen, Creating

LEMMA RequestHeld ==
  ASSUME HeldInv, NEW j \in Jobs,
         \/ Request(j) \/ Accept(j) \/ Refuse(j)
         \/ \E r \in Records : LoadRecord(j, r) \/ SelectProduct(j, r)
  PROVE  HeldInv'
<1>1. TypeOK'
  BY RequestType DEF HeldInv
<1>2. /\ at[j] \in {"idle"} \cup Creating /\ at'[j] \in {"refused"} \cup Creating
      /\ (at'[j] = "refused" => todo'[j] = {})
      /\ \A k \in Jobs \ {j} : at'[k] = at[k] /\ todo'[k] = todo[k] /\ seen'[k] = seen[k]
      /\ UNCHANGED <<rec, product, current>>
  BY DEF HeldInv, TypeOK, Request, Accept, Refuse, LoadRecord, SelectProduct, Goto, Reached,
         rows, Creating
<1>3. current[j] \notin Records /\ \A r \in Records : product[r].job # j
  BY <1>2 DEF HeldInv, TypeOK, Owned, Creating, AtRecord
<1>4. at'[j] = "loading" => at[j] \in {"idle", "loading"} /\ seen'[j] = seen[j]
  BY DEF HeldInv, TypeOK, Request, Accept, Refuse, LoadRecord, SelectProduct, Goto, Reached,
         rows, Creating
<1>5. ASSUME NEW k \in Jobs PROVE Places(k)'
  <2>1. CASE k # j
    BY <1>2, <2>1 DEF HeldInv, Places
  <2>2. CASE k = j
    <3>1. current'[j] \notin todo'[j]
      BY <1>1, <1>2, <1>3 DEF TypeOK
    <3>2. todo'[j] # {} => at'[j] \in Creating
      BY <1>2
    <3>3. at'[j] \in {"idle", "loading"} => \A r \in Records : seen'[j][r].product = "none"
      BY <1>2, <1>4 DEF HeldInv, Places, Creating
    <3> QED BY <2>2, <3>1, <3>2, <3>3 DEF Places, Creating
  <2> QED BY <2>1, <2>2
<1>6. ASSUME NEW k \in Jobs, NEW r \in Records PROVE Owned(k, r)' /\ Fresh(k, r)'
  BY <1>2, <1>3 DEF HeldInv, Owned, Fresh
<1>7. ASSUME NEW r \in Records, Locked(r)' PROVE \E k \in Jobs : Holds(k, r)'
  <2>1. PICK k \in Jobs : Holds(k, r)
    BY <1>2, <1>7 DEF HeldInv, Locked
  <2> QED BY <1>2, <1>3, <2>1 DEF Holds
<1> QED BY <1>1, <1>5, <1>6, <1>7 DEF HeldInv

LEMMA CommitHeld ==
  ASSUME HeldInv, NEW j \in Jobs, Commit(j)
  PROVE  HeldInv'
<1>1. TypeOK'
  BY CommitType DEF HeldInv
<1>2. /\ at[j] = "selecting" /\ at'[j] = "queued" /\ todo[j] = {}
      /\ \A k \in Jobs \ {j} : at'[k] = at[k] /\ seen'[k] = seen[k]
      /\ UNCHANGED <<todo, current>>
      /\ \A r \in accepted[j] : product'[r].job = j
      /\ \A r \in Records \ accepted[j] : product'[r] = product[r] /\ rec'[r] = rec[r]
      /\ accepted[j] \subseteq Records
  BY DEF HeldInv, TypeOK, Commit, Goto, Claimed
<1>3. current[j] \notin Records /\ \A r \in Records : product[r].job # j
  BY <1>2 DEF HeldInv, TypeOK, Owned, Creating, AtRecord
<1>4. ASSUME NEW k \in Jobs PROVE Places(k)'
  BY <1>1, <1>2, <1>3 DEF HeldInv, Places
<1>5. ASSUME NEW k \in Jobs, NEW r \in Records PROVE Owned(k, r)' /\ Fresh(k, r)'
  BY <1>2, <1>3 DEF HeldInv, Owned, Fresh, Creating
<1>6. ASSUME NEW r \in Records, Locked(r)' PROVE \E k \in Jobs : Holds(k, r)'
  <2>1. CASE r \in accepted[j]
    BY <1>2, <2>1 DEF Holds
  <2>2. CASE r \notin accepted[j]
    <3>1. PICK k \in Jobs : Holds(k, r)
      BY <1>2, <1>6, <2>2 DEF HeldInv, Locked
    <3> QED BY <1>2, <1>3, <2>2, <3>1 DEF Holds
  <2> QED BY <2>1, <2>2
<1> QED BY <1>1, <1>4, <1>5, <1>6 DEF HeldInv

\* A task writes a final status to the record it is at, and never a pending
\* one; its other effects are on itself.
LEMMA SettlesHeld ==
  ASSUME HeldInv, TypeOK', NEW j \in Jobs, NEW r \in Records, r = current[j],
         NEW outcome \in {"enriched", "failed"},
         Settled(j, outcome),
         \A q \in Records \ {r} : product'[q] = product[q] /\ rec'[q] = rec[q],
         product'[r].job = product[r].job,
         \/ product'[r].status = outcome
         \/ product'[r].status = product[r].status /\ seen[j][r].product # "pending",
         \/ rec'[r] = outcome /\ rec[r] # "gone"
         \/ rec'[r] = rec[r] /\ at[j] \in {"enrich", "fail"} /\ seen[j][r].rec # "pending"
         \/ rec'[r] = "gone" /\ rec[r] = "gone"
  PROVE  HeldInv'
<1>1. /\ at'[j] = "next" /\ at[j] \in AtRecord
      /\ current'[j] = NoRecord
      /\ UNCHANGED todo
      /\ \A k \in Jobs \ {j} : at'[k] = at[k] /\ seen'[k] = seen[k] /\ current'[k] = current[k]
  BY DEF HeldInv, TypeOK, Settled, Goto
<1>2. ASSUME NEW k \in Jobs PROVE Places(k)'
  <2>1. CASE k # j
    BY <1>1, <2>1 DEF HeldInv, Places
  <2>2. CASE k = j
    BY <1>1, <2>2, NoneAssumption DEF Places, TypeOK
  <2> QED BY <2>1, <2>2
<1>3. ASSUME NEW k \in Jobs, NEW q \in Records PROVE Owned(k, q)'
  BY <1>1 DEF HeldInv, Owned, Creating, AtRecord
<1>4. ASSUME NEW k \in Jobs, NEW q \in Records PROVE Fresh(k, q)'
  <2>1. CASE k = j
    BY <1>1, <2>1, NoneAssumption DEF Fresh
  <2>2. CASE k # j /\ q # r
    BY <1>1, <2>2 DEF HeldInv, Fresh
  <2>3. CASE k # j /\ q = r
    BY <1>1, <2>3 DEF HeldInv, Fresh
  <2> QED BY <2>1, <2>2, <2>3
<1>5. ASSUME NEW q \in Records, Locked(q)' PROVE \E k \in Jobs : Holds(k, q)'
  <2>1. Locked(q)
    BY <1>5 DEF Locked
  <2>2. PICK k \in Jobs : Holds(k, q)
    BY <2>1 DEF HeldInv
  <2>3. CASE k # j \/ q # r
    BY <1>1, <2>2, <2>3 DEF Holds, AtRecord
  <2>4. CASE k = j /\ q = r
    BY <1>5, <2>2, <2>4 DEF HeldInv, Locked, Fresh, Holds
  <2> QED BY <2>3, <2>4
<1> QED BY <1>2, <1>3, <1>4, <1>5 DEF HeldInv

LEMMA SettleHeld ==
  ASSUME HeldInv, NEW j \in Jobs, at[j] \in {"enrich", "fail"},
         NEW outcome \in {"enriched", "failed"}, NEW logged \in BOOLEAN,
         Settle(j, outcome, logged)
  PROVE  HeldInv'
<1> DEFINE r == current[j]
<1>1. TypeOK' /\ r \in Records
  BY SettleType, AtHand DEF HeldInv, AtRecord
<1>2. /\ \A q \in Records \ {r} : product'[q] = product[q] /\ rec'[q] = rec[q]
      /\ product'[r].job = product[r].job
      /\ \/ product'[r].status = outcome
         \/ product'[r].status = product[r].status /\ seen[j][r].product # "pending"
  BY <1>1 DEF HeldInv, TypeOK, Settle, Written
<1>3. \/ rec'[r] = outcome /\ rec[r] # "gone"
      \/ rec'[r] = rec[r] /\ seen[j][r].rec # "pending"
  BY <1>1 DEF HeldInv, TypeOK, Settle, Written
<1>4. Settled(j, outcome)
  BY DEF Settle
<1> QED BY <1>1, <1>2, <1>3, <1>4, SettlesHeld

LEMMA MissingHeld ==
  ASSUME HeldInv, NEW j \in Jobs, RecordMissing(j)
  PROVE  HeldInv'
<1> DEFINE r == current[j]
<1>1. TypeOK' /\ r \in Records
  BY TaskType, AtHand DEF HeldInv, RecordMissing, AtRecord, Task
<1>2. /\ \A q \in Records \ {r} : product'[q] = product[q] /\ rec'[q] = rec[q]
      /\ product'[r].job = product[r].job
      /\ \/ product'[r].status = "failed"
         \/ product'[r].status = product[r].status /\ seen[j][r].product # "pending"
      /\ rec'[r] = "gone" /\ rec[r] = "gone"
  BY <1>1 DEF HeldInv, TypeOK, RecordMissing, Written
<1>3. Settled(j, "failed")
  BY DEF RecordMissing
<1> QED BY <1>1, <1>2, <1>3, SettlesHeld

\* The other steps of a task leave the rows alone, but for the status of its job.
LEMMA WalkHeld ==
  ASSUME HeldInv, NEW j \in Jobs,
         \/ Start(j) \/ LoadRefs(j) \/ LoadItsRecord(j) \/ RollBack(j) \/ Reload(j)
         \/ Finish(j) \/ RecordLost(j) \/ Die(j)
         \/ \E r \in Records : LoadProduct(j, r)
  PROVE  HeldInv'
<1>1. TypeOK'
  BY TaskType DEF HeldInv, Task
<1>2. /\ UNCHANGED <<rec, product>>
      /\ \A k \in Jobs \ {j} : /\ at'[k] = at[k] /\ todo'[k] = todo[k]
                               /\ seen'[k] = seen[k] /\ current'[k] = current[k]
      /\ at[j] \in Working /\ at'[j] \in Working \cup {"dead", "done"}
  BY DEF HeldInv, TypeOK, Start, LoadRefs, LoadItsRecord, RollBack, Reload, Finish, RecordLost,
         Die, Abandon, LoadProduct, Goto, Reached, rows, Working, AtRecord
<1>3. ASSUME NEW r \in Records, product[r].job = j, Locked(r), Holds(j, r)
      PROVE  Holds(j, r)'
  BY <1>1, <1>3, NoneAssumption
  DEF HeldInv, TypeOK, Start, LoadRefs, LoadItsRecord, RollBack, Reload, Finish, RecordLost,
      Die, Abandon, LoadProduct, Goto, Reached, rows, Working, AtRecord, Holds, Locked
<1>4. Places(j)'
  BY <1>1, NoneAssumption
  DEF HeldInv, TypeOK, Start, LoadRefs, LoadItsRecord, RollBack, Reload, Finish, RecordLost,
      Die, Abandon, LoadProduct, Goto, Reached, rows, Working, AtRecord, Places
<1>5. ASSUME NEW r \in Records PROVE Fresh(j, r)'
  <2> SUFFICES ASSUME r = current'[j], product[r].job = j
               PROVE  /\ seen'[j][r].product # "pending" => product[r].status # "pending"
                      /\ at'[j] \in {"enrich", "fail"} /\ seen'[j][r].rec # "pending"
                           => rec[r] # "pending"
    BY <1>2 DEF Fresh
  <2>1. CASE LoadItsRecord(j) \/ Reload(j)
    <3>1. current[j] = r /\ current[j] \in Records
      BY <2>1 DEF LoadItsRecord, Reload
    <3>2. seen' = [seen EXCEPT ![j][r].rec = rec[r]]
      BY <2>1, <3>1 DEF LoadItsRecord, Reload
    <3>3. seen'[j][r].rec = rec[r] /\ seen'[j][r].product = seen[j][r].product
      BY <3>2, SeenChanged DEF HeldInv, TypeOK, SeenTypes
    <3> QED BY <3>1, <3>3 DEF HeldInv, Fresh
  <2>2. CASE RollBack(j)
    BY <2>2 DEF HeldInv, TypeOK, RollBack, Goto
  <2>3. CASE \E q \in Records : LoadProduct(j, q)
    BY <2>3 DEF HeldInv, TypeOK, LoadProduct, Goto
  <2>4. CASE Start(j) \/ LoadRefs(j) \/ Finish(j) \/ RecordLost(j) \/ Die(j)
    <3>1. at'[j] \notin AtRecord
      BY <2>4 DEF HeldInv, TypeOK, Start, LoadRefs, Finish, RecordLost, Die, Abandon, Goto, AtRecord
    <3> QED BY <1>1, <3>1 DEF TypeOK
  <2> QED BY <2>1, <2>2, <2>3, <2>4
<1>6. ASSUME NEW k \in Jobs PROVE Places(k)'
  BY <1>2, <1>4 DEF HeldInv, Places
<1>7. ASSUME NEW k \in Jobs, NEW r \in Records PROVE Owned(k, r)' /\ Fresh(k, r)'
  BY <1>2, <1>5 DEF HeldInv, Owned, Fresh, Working, Creating, AtRecord
<1>8. ASSUME NEW r \in Records, Locked(r)' PROVE \E k \in Jobs : Holds(k, r)'
  <2>1. PICK k \in Jobs : Holds(k, r)
    BY <1>2, <1>8 DEF HeldInv, Locked
  <2> QED BY <1>2, <1>3, <1>8, <2>1 DEF Holds, Locked
<1> QED BY <1>1, <1>6, <1>7, <1>8 DEF HeldInv

LEMMA DeleteHeld ==
  ASSUME HeldInv, NEW r \in Records, DeleteRecord(r)
  PROVE  HeldInv'
<1>1. TypeOK'
  BY StepType DEF HeldInv, Next
<1>2. /\ UNCHANGED <<product, at, todo, current, seen>>
      /\ \A q \in Records : rec'[q] = rec[q] \/ rec'[q] = "gone"
      /\ rec'[r] = "gone"
  BY DEF HeldInv, TypeOK, DeleteRecord, locals
<1>3. ASSUME NEW q \in Records, Locked(q)' PROVE \E k \in Jobs : Holds(k, q)'
  BY <1>2, <1>3 DEF HeldInv, Locked, Holds
<1> QED BY <1>1, <1>2, <1>3 DEF HeldInv, Places, Owned, Fresh

LEMMA StepHeld == HeldInv /\ [Next]_vars => HeldInv'
<1>1. ASSUME HeldInv, NEW j \in Jobs, Enrich(j) \/ EnrichFails(j) \/ FailRecovered(j)
      PROVE  HeldInv'
  BY <1>1, SettleHeld DEF Enrich, EnrichFails, FailRecovered
<1>2. ASSUME HeldInv, UNCHANGED vars PROVE HeldInv'
  BY <1>2 DEF HeldInv, TypeOK, Places, Owned, Fresh, Locked, Holds, vars, rows, locals
<1> QED BY <1>1, <1>2, RequestHeld, CommitHeld, MissingHeld, WalkHeld, DeleteHeld DEF Next, Task

LEMMA AlwaysHeld == Spec => []HeldInv
BY InitHeld, StepHeld, PTL DEF Spec

\* Nothing stays pending under a job that has ended, whatever the requests,
\* tasks, deletions and deaths, for every number of them.
THEOREM LockedIsHeld == Spec => []LockedRecordIsHeld
<1>1. HeldInv => LockedRecordIsHeld
  BY DEF HeldInv, LockedRecordIsHeld, Locked, SkipStatuses
<1> QED BY <1>1, AlwaysHeld, PTL

-----------------------------------------------------------------------------
(* Requests that do not overlap leave each record to one job. *)

\* A task works on records of its own job.
Own(j, r) == r = current[j] \/ (r \in todo[j] /\ at[j] \notin Creating) => product[r].job = j

\* A request has accepted records that no job holds.
Idle(k, r) ==
  /\ at[k] = "idle" => r \notin accepted[k]
  /\ at[k] \in Creating /\ r \in accepted[k] => \A j \in Jobs : ~Holds(j, r)

\* A held record is locked.
HeldIsLocked(j, r) == Holds(j, r) /\ rec[r] # "gone" => rec[r] = "pending"

\* A request finds the product of an accepted record unlocked.
Unlocked(k, r) ==
  at[k] = "selecting" /\ r \in accepted[k] /\ rec[r] # "gone" => seen[k][r].product # "pending"

Matches(r) == rec[r] # "gone" /\ product[r] # NoProduct => rec[r] = product[r].status

Alone(j, r) == Own(j, r) /\ Idle(j, r) /\ HeldIsLocked(j, r) /\ Unlocked(j, r)

AloneInv ==
  \A r \in Records \ overlapped : Matches(r) /\ \A j \in Jobs : Alone(j, r)

LEMMA InitAlone == Init => AloneInv
BY NoneAssumption
DEF Init, AloneInv, Alone, Own, Idle, HeldIsLocked, Unlocked, Matches, Creating, Holds, NoProduct

LEMMA RequestAlone ==
  ASSUME HeldInv, HeldInv', AloneInv, NEW j \in Jobs,
         \/ Request(j) \/ Accept(j) \/ Refuse(j)
         \/ \E r \in Records : LoadRecord(j, r) \/ SelectProduct(j, r)
  PROVE  AloneInv'
<1>1. /\ at[j] \in {"idle"} \cup Creating /\ at'[j] \in {"refused"} \cup Creating
      /\ (at'[j] = "refused" => todo'[j] = {})
      /\ \A k \in Jobs \ {j} : at'[k] = at[k] /\ todo'[k] = todo[k] /\ seen'[k] = seen[k]
                               /\ accepted'[k] = accepted[k]
      /\ UNCHANGED <<rec, product, current, overlapped>>
  BY DEF HeldInv, TypeOK, Request, Accept, Refuse, LoadRecord, SelectProduct, Goto, Reached,
         rows, Creating
<1>2. current[j] \notin Records /\ \A r \in Records : product[r].job # j
  BY <1>1 DEF HeldInv, TypeOK, Owned, Creating, AtRecord
<1>3. ASSUME NEW r \in Records, NEW k \in Jobs PROVE Holds(k, r)' <=> Holds(k, r)
  BY <1>1, <1>2 DEF Holds
<1>4. ASSUME NEW r \in Records \ overlapped, NEW k \in Jobs, k # j PROVE Alone(k, r)'
  BY <1>1, <1>3, <1>4 DEF AloneInv, Alone, Own, Idle, HeldIsLocked, Unlocked
<1>5. ASSUME NEW r \in Records \ overlapped PROVE Own(j, r)' /\ HeldIsLocked(j, r)'
  BY <1>1, <1>2 DEF Own, HeldIsLocked, Holds
<1>6. ASSUME NEW r \in Records \ overlapped PROVE Idle(j, r)'
  <2>1. CASE r \in accepted[j] /\ at[j] \in Creating
    BY <1>1, <1>3, <2>1 DEF AloneInv, Alone, Idle, Creating
  <2>2. CASE LoadRecord(j, r) /\ rec[r] # "pending"
    BY <1>1, <1>3, <2>2 DEF Creating, AloneInv, Alone, HeldIsLocked, Idle, LoadRecord
  <2>3. CASE /\ ~(r \in accepted[j] /\ at[j] \in Creating)
             /\ ~(LoadRecord(j, r) /\ rec[r] # "pending")
    <3>1. r \notin accepted'[j]
      BY <2>3 DEF HeldInv, TypeOK, AloneInv, Alone, Idle, Request, Accept, Refuse, LoadRecord,
                  SelectProduct, SkipStatuses, Creating
    <3> QED BY <3>1 DEF Idle
  <2> QED BY <2>1, <2>2, <2>3
<1>7. ASSUME NEW r \in Records \ overlapped PROVE Unlocked(j, r)'
  <2> SUFFICES ASSUME at'[j] = "selecting", r \in accepted'[j], rec[r] # "gone"
               PROVE  seen'[j][r].product # "pending"
    BY <1>1 DEF Unlocked
  <2>1. CASE Accept(j)
    BY <2>1 DEF HeldInv, Places, Accept
  <2>2. CASE SelectProduct(j, r)
    <3>1. \A k \in Jobs : ~Holds(k, r)
      BY <2>2 DEF AloneInv, Alone, Idle, SelectProduct, Creating
    <3>2. product[r].status # "pending"
      BY <3>1 DEF HeldInv, Locked
    <3> QED BY <2>2, <3>2, SeenChanged DEF HeldInv, TypeOK, SeenTypes, SelectProduct
  <2>3. ASSUME NEW q \in Records \ {r}, SelectProduct(j, q) PROVE seen'[j][r].product # "pending"
    BY <2>3 DEF HeldInv, TypeOK, AloneInv, Alone, Unlocked, SelectProduct
  <2>4. CASE Request(j) \/ Refuse(j) \/ \E q \in Records : LoadRecord(j, q)
    BY <2>4 DEF HeldInv, TypeOK, Request, Refuse, LoadRecord, Goto
  <2> QED BY <2>1, <2>2, <2>3, <2>4
<1>8. ASSUME NEW r \in Records \ overlapped PROVE Matches(r)'
  BY <1>1 DEF AloneInv, Matches
<1> QED BY <1>1, <1>4, <1>5, <1>6, <1>7, <1>8 DEF AloneInv, Alone

LEMMA CommitAlone ==
  ASSUME HeldInv, HeldInv', AloneInv, NEW j \in Jobs, Commit(j)
  PROVE  AloneInv'
<1>1. /\ at[j] = "selecting" /\ at'[j] = "queued" /\ todo[j] = {}
      /\ \A k \in Jobs \ {j} : at'[k] = at[k] /\ seen'[k] = seen[k]
      /\ UNCHANGED <<todo, current, accepted>>
      /\ \A r \in accepted[j] : product'[r] = Claimed(j, r) /\ rec'[r] = "pending"
      /\ \A r \in Records \ accepted[j] : product'[r] = product[r] /\ rec'[r] = rec[r]
      /\ overlapped \subseteq overlapped'
      /\ accepted[j] \subseteq Records
      /\ \A r \in accepted[j] : rec[r] # "gone"
  BY DEF HeldInv, TypeOK, Commit, Goto, Conflict
<1>2. current[j] \notin Records /\ \A r \in Records : product[r].job # j
  BY <1>1 DEF HeldInv, TypeOK, Owned, Creating, AtRecord
<1>3. ASSUME NEW r \in Records \ overlapped', r \in accepted[j]
      PROVE  Matches(r)' /\ \A k \in Jobs : Alone(k, r)'
  <2>1. \A k \in Jobs : ~Holds(k, r)
    BY <1>1, <1>3 DEF AloneInv, Alone, Idle, Creating
  <2>2. product'[r].job = j /\ product'[r].status = "pending" /\ rec'[r] = "pending"
    <3>1. seen[j][r].product # "pending"
      BY <1>1, <1>3 DEF AloneInv, Alone, Unlocked
    <3>2. Claimed(j, r).job = j /\ Claimed(j, r).status = "pending"
      BY <3>1 DEF Claimed, Written
    <3> QED BY <1>1, <1>3, <3>2
  <2>3. \A k \in Jobs : r # current[k] /\ (r \in todo[k] => at[k] \in Creating)
    BY <1>1, <1>3, <2>1 DEF AloneInv, Alone, Own, Holds
  <2>4. \A k \in Jobs \ {j} : at[k] \in Creating => r \notin accepted[k]
    BY <1>3 DEF Commit
  <2>5. ASSUME NEW k \in Jobs PROVE Own(k, r)' /\ Idle(k, r)' /\ Unlocked(k, r)'
    BY <1>1, <1>3, <2>3, <2>4 DEF AloneInv, Alone, Own, Idle, Unlocked, Creating
  <2> QED BY <2>2, <2>5 DEF Matches, Alone, HeldIsLocked
<1>4. ASSUME NEW r \in Records \ overlapped', r \notin accepted[j]
      PROVE  Matches(r)' /\ \A k \in Jobs : Alone(k, r)'
  <2>1. \A k \in Jobs : Holds(k, r)' => Holds(k, r)
    BY <1>1, <1>2, <1>4 DEF Holds
  <2>2. Matches(r) /\ \A k \in Jobs : Alone(k, r)
    BY <1>1, <1>4 DEF AloneInv
  <2>3. ASSUME NEW k \in Jobs PROVE Alone(k, r)'
    BY <1>1, <1>2, <1>4, <2>1, <2>2 DEF Alone, Own, Idle, HeldIsLocked, Unlocked, Creating
  <2> QED BY <1>1, <1>4, <2>2, <2>3 DEF Matches
<1> QED BY <1>3, <1>4 DEF AloneInv

\* A task that settles a record nobody else holds writes both rows.
LEMMA SettleAlone ==
  ASSUME HeldInv, HeldInv', AloneInv, NEW j \in Jobs, at[j] \in {"enrich", "fail"},
         NEW outcome \in {"enriched", "failed"}, NEW logged \in BOOLEAN,
         Settle(j, outcome, logged)
  PROVE  AloneInv'
<1>1. PICK r \in Records : r = current[j]
  BY AtHand DEF HeldInv, AtRecord
<1>2. /\ at'[j] = "next" /\ current'[j] = NoRecord
      /\ UNCHANGED <<todo, accepted, overlapped>>
      /\ \A k \in Jobs \ {j} : at'[k] = at[k] /\ seen'[k] = seen[k] /\ current'[k] = current[k]
      /\ \A q \in Records \ {r} : product'[q] = product[q] /\ rec'[q] = rec[q]
      /\ product'[r].job = product[r].job
      /\ rec[r] = "gone" => rec'[r] = "gone"
  BY <1>1 DEF HeldInv, TypeOK, Settle, Settled, Goto, Written
<1>3. ASSUME NEW k \in Jobs, NEW q \in Records, Holds(k, q)'
      PROVE  Holds(k, q) /\ (k # j \/ q # r)
  BY <1>1, <1>2, <1>3, NoneAssumption DEF HeldInv, Places, Holds
<1>4. ASSUME NEW q \in Records \ overlapped, q # r
      PROVE  Matches(q)' /\ \A k \in Jobs : Alone(k, q)'
  <2>1. Matches(q) /\ \A k \in Jobs : Alone(k, q)
    BY DEF AloneInv
  <2>2. \A k \in Jobs : Own(k, q)'
    BY <1>2, <1>4, <2>1, NoneAssumption DEF Alone, Own, Creating
  <2>3. \A k \in Jobs : Idle(k, q)' /\ HeldIsLocked(k, q)' /\ Unlocked(k, q)'
    BY <1>2, <1>3, <1>4, <2>1 DEF Alone, Idle, HeldIsLocked, Unlocked, Creating
  <2> QED BY <1>2, <1>4, <2>1, <2>2, <2>3 DEF Matches, Alone
<1>5. ASSUME r \notin overlapped
      PROVE  Matches(r)' /\ \A k \in Jobs : Alone(k, r)'
  <2>1. \A k \in Jobs : Alone(k, r)
    BY <1>1, <1>5 DEF AloneInv
  <2>2. product[r].job = j /\ Holds(j, r)
    BY <1>1, <2>1 DEF Alone, Own, Holds
  <2>3. \A k \in Jobs : ~Holds(k, r)'
    BY <1>1, <1>2, <1>3, <2>2 DEF Holds
  <2>4. ASSUME NEW k \in Jobs PROVE Own(k, r)' /\ Idle(k, r)' /\ HeldIsLocked(k, r)'
    BY <1>1, <1>2, <2>1, <2>3, NoneAssumption DEF HeldInv, Places, Alone, Own, Idle, HeldIsLocked, Creating
  <2>5. ASSUME NEW k \in Jobs PROVE Unlocked(k, r)'
    BY <1>2, <2>1, <2>2 DEF Alone, Idle, Unlocked, Creating
  <2>6. Matches(r)'
    <3>1. CASE rec[r] = "gone"
      BY <1>2, <3>1 DEF Matches
    <3>2. CASE rec[r] # "gone"
      <4>1. rec[r] = "pending" /\ product[r].status = "pending"
        BY <1>1, <1>5, <2>1, <2>2, <3>2, NoneAssumption
        DEF AloneInv, Alone, HeldIsLocked, Matches, NoProduct
      <4>2. seen[j][r].product = "pending" /\ seen[j][r].rec = "pending"
        BY <1>1, <2>2, <4>1 DEF HeldInv, Fresh
      <4>3. product'[r].status = outcome /\ rec'[r] = outcome
        BY <1>1, <4>2 DEF HeldInv, TypeOK, Settle, Written
      <4> QED BY <4>3 DEF Matches
    <3> QED BY <3>1, <3>2
  <2> QED BY <2>4, <2>5, <2>6 DEF Alone
<1> QED BY <1>2, <1>4, <1>5 DEF AloneInv

LEMMA MissingAlone ==
  ASSUME HeldInv, HeldInv', AloneInv, NEW j \in Jobs, RecordMissing(j)
  PROVE  AloneInv'
<1>1. PICK r \in Records : r = current[j]
  BY AtHand DEF HeldInv, RecordMissing, AtRecord
<1>2. /\ at[j] = "record" /\ at'[j] = "next" /\ current'[j] = NoRecord
      /\ UNCHANGED <<rec, todo, accepted, overlapped>>
      /\ \A k \in Jobs \ {j} : at'[k] = at[k] /\ seen'[k] = seen[k] /\ current'[k] = current[k]
      /\ \A q \in Records : product'[q].job = product[q].job
      /\ \A q \in Records \ {r} : product'[q] = product[q]
      /\ rec[r] = "gone"
  BY <1>1 DEF HeldInv, TypeOK, RecordMissing, Settled, Goto
<1>3. ASSUME NEW k \in Jobs, NEW q \in Records, Holds(k, q)' PROVE Holds(k, q)
  BY <1>2, <1>3, NoneAssumption DEF Holds
<1>4. ASSUME NEW q \in Records \ overlapped, NEW k \in Jobs PROVE Alone(k, q)'
  <2>1. Alone(k, q)
    BY DEF AloneInv
  <2>2. Own(k, q)'
    BY <1>2, <2>1, NoneAssumption DEF Alone, Own, Creating
  <2> QED BY <1>2, <1>3, <2>1, <2>2 DEF Alone, Idle, HeldIsLocked, Unlocked, Creating
<1>5. ASSUME NEW q \in Records \ overlapped PROVE Matches(q)'
  BY <1>2 DEF AloneInv, Matches
<1> QED BY <1>2, <1>4, <1>5 DEF AloneInv

LEMMA WalkAlone ==
  ASSUME HeldInv, HeldInv', AloneInv, NEW j \in Jobs,
         \/ Start(j) \/ LoadRefs(j) \/ LoadItsRecord(j) \/ RollBack(j) \/ Reload(j)
         \/ Finish(j) \/ RecordLost(j) \/ Die(j)
         \/ \E r \in Records : LoadProduct(j, r)
  PROVE  AloneInv'
<1>1. /\ UNCHANGED <<rec, product, accepted, overlapped>>
      /\ \A k \in Jobs \ {j} : /\ at'[k] = at[k] /\ todo'[k] = todo[k]
                               /\ seen'[k] = seen[k] /\ current'[k] = current[k]
      /\ at[j] \in Working /\ at'[j] \in Working \cup {"dead", "done"}
  BY DEF HeldInv, TypeOK, Start, LoadRefs, LoadItsRecord, RollBack, Reload, Finish, RecordLost,
         Die, Abandon, LoadProduct, Goto, Reached, rows, Working, AtRecord
<1>2. ASSUME NEW r \in Records, Holds(j, r)' PROVE Holds(j, r)
  BY <1>2, NoneAssumption
  DEF HeldInv, TypeOK, Start, LoadRefs, LoadItsRecord, RollBack, Reload, Finish, RecordLost,
      Die, Abandon, LoadProduct, Goto, Reached, rows, Working, AtRecord, Holds
<1>3. ASSUME NEW r \in Records, Own(j, r) PROVE Own(j, r)'
  BY <1>3, NoneAssumption
  DEF HeldInv, TypeOK, Start, LoadRefs, LoadItsRecord, RollBack, Reload, Finish, RecordLost,
      Die, Abandon, LoadProduct, Goto, Reached, rows, Working, AtRecord, Holds, Own, Creating
<1>4. ASSUME NEW r \in Records, NEW k \in Jobs, Holds(k, r)' PROVE Holds(k, r)
  BY <1>1, <1>2, <1>4 DEF Holds
<1>5. ASSUME NEW r \in Records \ overlapped, NEW k \in Jobs PROVE Alone(k, r)'
  <2>1. \A i \in Jobs : Alone(i, r)
    BY DEF AloneInv
  <2>2. Own(k, r)'
    BY <1>1, <1>3, <2>1 DEF Alone, Own
  <2> QED BY <1>1, <1>4, <2>1, <2>2
          DEF Alone, Idle, HeldIsLocked, Unlocked, Creating, Working, AtRecord
<1> QED BY <1>1, <1>5 DEF AloneInv, Matches

LEMMA DeleteAlone ==
  ASSUME HeldInv, AloneInv, NEW r \in Records, DeleteRecord(r)
  PROVE  AloneInv'
<1>1. /\ UNCHANGED <<product, at, todo, accepted, current, seen, overlapped>>
      /\ \A q \in Records : rec'[q] = rec[q] \/ rec'[q] = "gone"
  BY DEF HeldInv, TypeOK, DeleteRecord, locals
<1> QED BY <1>1
        DEF AloneInv, Alone, Own, Idle, HeldIsLocked, Unlocked, Matches, Holds

LEMMA StepAlone == HeldInv /\ HeldInv' /\ AloneInv /\ [Next]_vars => AloneInv'
<1>1. ASSUME HeldInv, HeldInv', AloneInv, NEW j \in Jobs,
             Enrich(j) \/ EnrichFails(j) \/ FailRecovered(j)
      PROVE  AloneInv'
  BY <1>1, SettleAlone DEF Enrich, EnrichFails, FailRecovered
<1>2. ASSUME AloneInv, UNCHANGED vars PROVE AloneInv'
  BY <1>2 DEF AloneInv, Alone, Own, Idle, HeldIsLocked, Unlocked, Matches, Holds,
              vars, rows, locals
<1> QED BY <1>1, <1>2, RequestAlone, CommitAlone, MissingAlone, WalkAlone, DeleteAlone
        DEF Next, Task

LEMMA AlwaysAlone == Spec => [](HeldInv /\ AloneInv)
BY InitAlone, StepAlone, InitHeld, StepHeld, PTL DEF Spec

\* A record and its product agree, unless requests for the record overlapped.
THEOREM RowsAgree == Spec => []RecordMatchesProduct
<1>1. AloneInv => RecordMatchesProduct
  BY DEF AloneInv, RecordMatchesProduct, Matches
<1> QED BY <1>1, AlwaysAlone, PTL

\* No job loses a record it holds, unless requests for the record overlapped.
THEOREM JobsAreNotRobbed == Spec => ActiveJobsKeepTheirRecords
<1>1. ASSUME HeldInv, AloneInv, Next, NEW r \in Records \ overlapped,
             product'[r].job # product[r].job, NEW i \in Jobs
      PROVE  ~(Holds(i, r) \/ current[i] = r)
  <2>1. PICK j \in Jobs : Commit(j)
    <3>1. ASSUME NEW j \in Jobs, Enrich(j) \/ EnrichFails(j) \/ FailRecovered(j) \/ RecordMissing(j)
          PROVE  FALSE
      <4>1. PICK y : product' = [product EXCEPT ![current[j]].status = y]
        BY <3>1 DEF Enrich, EnrichFails, FailRecovered, Settle, RecordMissing
      <4> QED BY <1>1, <4>1, JobStays DEF HeldInv
    <3>2. product' # product
      BY <1>1
    <3> QED BY <1>1, <3>1, <3>2
            DEF Next, Task, Request, Accept, Refuse, LoadRecord, SelectProduct, Start, LoadRefs,
                LoadItsRecord, RollBack, Reload, Finish, RecordLost, Die, Abandon, LoadProduct,
                DeleteRecord, rows
  <2>2. r \in accepted[j] /\ at[j] = "selecting"
    BY <1>1, <2>1 DEF Commit, HeldInv, TypeOK
  <2>3. Alone(j, r) /\ Alone(i, r)
    BY <1>1 DEF AloneInv
  <2>4. ~Holds(i, r)
    BY <2>2, <2>3 DEF Alone, Idle, Creating
  <2> QED BY <2>3, <2>4 DEF Alone, Own, Holds
<1>2. HeldInv /\ AloneInv /\ [Next]_vars
      => [\A r \in Records \ overlapped :
            product'[r].job # product[r].job
              => ~\E j \in Jobs : Holds(j, r) \/ current[j] = r]_vars
  BY <1>1
<1> QED BY <1>2, AlwaysAlone, PTL DEF Spec, ActiveJobsKeepTheirRecords
=============================================================================
