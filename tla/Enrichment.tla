----------------------------- MODULE Enrichment -----------------------------
(***************************************************************************)
(* Data enrichment jobs (app/services/data_enrichment/service.py,          *)
(* job_execution.py).                                                      *)
(*                                                                         *)
(* A request claims crawl records by their enrichment_status, creates a    *)
(* job and gives it the enriched product of every record it accepted.      *)
(* After the response a background task of the same process works through  *)
(* the products of the job.  Requests and tasks have a database session    *)
(* each, and no lock: a session writes the columns whose value differs     *)
(* from the one it loaded, when it commits.  A task that ends before its   *)
(* job, with the process or by a database error, is not started again.     *)
(*                                                                         *)
(* The status running of a record or product is set and overwritten within *)
(* one transaction, so that no other session sees it: it is left out.      *)
(***************************************************************************)
EXTENDS FiniteSets

CONSTANTS
  Records,       \* crawl records of ecommerce detail runs
  Jobs,          \* requests to enrich, and the jobs they create
  NoJob, NoRecord

ASSUME NoneAssumption == NoJob \notin Jobs /\ NoRecord \notin Records

VARIABLES
  rec,           \* crawl_records.enrichment_status, "gone" with the record
  product,       \* enriched_products by source record: job_id and status
  job,           \* data_enrichment_jobs.status
  at,            \* where the request, and later the task, of a job stands
  todo,          \* the records its present loop has yet to reach
  accepted,      \* accepted_records of the request
  current,       \* the record the task works on
  seen,          \* the statuses its session loaded of each record and product
  outcomes,      \* what the task counted: enriched_count, failed_count
  overlapped     \* history: records accepted by a request while another was
                 \* committing that had accepted them too

rows == <<rec, product, job, overlapped>>
locals == <<at, todo, accepted, current, seen, outcomes>>
vars == <<rows, locals>>

RecordStatuses == {"unenriched", "pending", "enriched", "failed"}
ProductStatuses == {"none", "pending", "enriched", "failed"}
FinalStatuses == {"enriched", "degraded", "failed"}

\* DATA_ENRICHMENT_SKIP_RECORD_STATUSES; the mistake of skipping running only.
SkipRunningOnly == {}

SkipStatuses == {"pending"}

Creating == {"loading", "selecting"}
AtRecord == {"record", "enrich", "reload", "fail"}
Working == {"queued", "refs", "next"} \cup AtRecord

NoProduct == [job |-> NoJob, status |-> "none"]
Unseen == [rec |-> "none", product |-> "none"]

TypeOK ==
  /\ rec \in [Records -> RecordStatuses \cup {"gone"}]
  /\ product \in [Records -> [job : Jobs \cup {NoJob}, status : ProductStatuses]]
  /\ job \in [Jobs -> {"none", "pending", "running"} \cup FinalStatuses]
  /\ at \in [Jobs -> {"idle", "refused", "dead", "done"} \cup Creating \cup Working]
  /\ todo \in [Jobs -> SUBSET Records]
  /\ accepted \in [Jobs -> SUBSET Records]
  /\ current \in [Jobs -> Records \cup {NoRecord}]
  /\ \A j \in Jobs : current[j] \in Records <=> at[j] \in AtRecord
  /\ seen \in [Jobs -> [Records -> [rec : RecordStatuses \cup {"none"},
                                    product : ProductStatuses]]]
  /\ outcomes \in [Jobs -> SUBSET {"enriched", "failed"}]
  /\ overlapped \subseteq Records

Init ==
  /\ rec = [r \in Records |-> "unenriched"]
  /\ product = [r \in Records |-> NoProduct]
  /\ job = [j \in Jobs |-> "none"]
  /\ at = [j \in Jobs |-> "idle"]
  /\ todo = [j \in Jobs |-> {}]
  /\ accepted = [j \in Jobs |-> {}]
  /\ current = [j \in Jobs |-> NoRecord]
  /\ seen = [j \in Jobs |-> [r \in Records |-> Unseen]]
  /\ outcomes = [j \in Jobs |-> {}]
  /\ overlapped = {}

\* The task of j will come to r or is at it; what a task leaves behind when it
\* dies stays with its job.
Holds(j, r) ==
  /\ product[r].job = j
  /\ at[j] \in {"queued", "refs"} \/ r \in todo[j] \/ r = current[j]

Goto(j, place) == at' = [at EXCEPT ![j] = place]
Reached(j, r) == todo' = [todo EXCEPT ![j] = @ \ {r}]

-----------------------------------------------------------------------------
(* The request. *)

\* _source_record_ids, or the records of source_run_id
Request(j) ==
  /\ at[j] = "idle"
  /\ \E S \in SUBSET Records \ {{}} : todo' = [todo EXCEPT ![j] = S]
  /\ Goto(j, "loading")
  /\ UNCHANGED <<rows, accepted, current, seen, outcomes>>

\* The record is loaded, and accepted unless another job has it.
LoadRecord(j, r) ==
  /\ at[j] = "loading" /\ r \in todo[j]
  /\ rec[r] # "gone"
  /\ accepted' = [accepted EXCEPT ![j] = IF rec[r] \in SkipStatuses THEN @ ELSE @ \cup {r}]
  /\ Reached(j, r)
  /\ UNCHANGED <<rows, at, current, seen, outcomes>>

\* The accepted records are known: the job is inserted, and the products follow.
Accept(j) ==
  /\ at[j] = "loading" /\ todo[j] = {} /\ accepted[j] # {}
  /\ Goto(j, "selecting")
  /\ todo' = [todo EXCEPT ![j] = accepted[j]]
  /\ UNCHANGED <<rows, accepted, current, seen, outcomes>>

\* _upsert_enriched_product looks for the product of the record.
SelectProduct(j, r) ==
  /\ at[j] = "selecting" /\ r \in todo[j]
  /\ seen' = [seen EXCEPT ![j][r].product = product[r].status]
  /\ Reached(j, r)
  /\ UNCHANGED <<rows, at, accepted, current, outcomes>>

\* A record that is gone, or a product that another request inserted since
\* this one looked, fails the commit.
Conflict(j) ==
  \E r \in accepted[j] :
    \/ rec[r] = "gone"
    \/ seen[j][r].product = "none" /\ product[r] # NoProduct

\* A column is written when the session changed it.
Written(old, new, present) == IF old # new THEN new ELSE present

\* The product of an accepted record is inserted, or moves to the job; the
\* mistake of leaving it with the job that had it.
ClaimedInPlace(j, r) ==
  [job |-> IF product[r] = NoProduct THEN j ELSE product[r].job,
   status |-> Written(seen[j][r].product, "pending", product[r].status)]

Claimed(j, r) ==
  [job |-> j, status |-> Written(seen[j][r].product, "pending", product[r].status)]

Commit(j) ==
  /\ at[j] = "selecting" /\ todo[j] = {}
  /\ ~Conflict(j)
  /\ rec' = [r \in Records |-> IF r \in accepted[j] THEN "pending" ELSE rec[r]]
  /\ product' = [r \in Records |-> IF r \in accepted[j] THEN Claimed(j, r) ELSE product[r]]
  /\ job' = [job EXCEPT ![j] = "pending"]
  /\ overlapped' = overlapped \cup
       {r \in accepted[j] : \E k \in Jobs \ {j} : at[k] \in Creating /\ r \in accepted[k]}
  /\ seen' = [seen EXCEPT ![j] = [r \in Records |-> Unseen]]
  /\ Goto(j, "queued")
  /\ UNCHANGED <<todo, accepted, current, outcomes>>

\* No record is eligible, one is gone, or the transaction fails: a request may
\* also be cut off at any time.
Refuse(j) ==
  /\ at[j] \in Creating
  /\ Goto(j, "refused")
  /\ todo' = [todo EXCEPT ![j] = {}]
  /\ accepted' = [accepted EXCEPT ![j] = {}]
  /\ seen' = [seen EXCEPT ![j] = [r \in Records |-> Unseen]]
  /\ UNCHANGED <<rows, current, outcomes>>

-----------------------------------------------------------------------------
(* The background task. *)

\* run_data_enrichment_job, and the first commit of _run_job
Start(j) ==
  /\ at[j] = "queued" /\ job[j] = "pending"
  /\ job' = [job EXCEPT ![j] = "running"]
  /\ Goto(j, "refs")
  /\ UNCHANGED <<rec, product, overlapped, todo, accepted, current, seen, outcomes>>

\* load_product_refs: the products the job has now, whose record exists
LoadRefs(j) ==
  /\ at[j] = "refs"
  /\ todo' = [todo EXCEPT ![j] = {r \in Records : product[r].job = j /\ rec[r] # "gone"}]
  /\ Goto(j, "next")
  /\ UNCHANGED <<rows, accepted, current, seen, outcomes>>

\* process_product_ref loads the product, then the record.
LoadProduct(j, r) ==
  /\ at[j] = "next" /\ r \in todo[j]
  /\ current' = [current EXCEPT ![j] = r]
  /\ seen' = [seen EXCEPT ![j][r] = [rec |-> "none", product |-> product[r].status]]
  /\ Reached(j, r)
  /\ Goto(j, "record")
  /\ UNCHANGED <<rows, accepted, outcomes>>

LoadItsRecord(j) ==
  LET r == current[j]
  IN  /\ at[j] = "record" /\ rec[r] # "gone"
      /\ seen' = [seen EXCEPT ![j][r].rec = rec[r]]
      /\ Goto(j, "enrich")
      /\ UNCHANGED <<rows, todo, accepted, current, outcomes>>

\* The product is settled with its outcome, and the task goes on to the next.
Settled(j, outcome) ==
  /\ outcomes' = [outcomes EXCEPT ![j] = @ \cup {outcome}]
  /\ current' = [current EXCEPT ![j] = NoRecord]
  /\ seen' = [seen EXCEPT ![j] = [r \in Records |-> Unseen]]
  /\ Goto(j, "next")
  /\ UNCHANGED <<job, overlapped, todo, accepted>>

\* source_record_missing
RecordMissing(j) ==
  LET r == current[j]
  IN  /\ at[j] = "record" /\ rec[r] = "gone"
      /\ product' = [product EXCEPT ![r].status = Written(seen[j][r].product, "failed", @)]
      /\ Settled(j, "failed")
      /\ UNCHANGED rec

\* The product and the record get their final status.  When a call of the
\* language model was logged, both were written as running before; and a
\* success writes enriched_at in any case, which a record that is gone fails.
Settle(j, outcome, logged) ==
  LET r == current[j]
      Final(old, present) == IF logged THEN outcome ELSE Written(old, outcome, present)
  IN  /\ logged \/ outcome = "enriched" \/ seen[j][r].rec # outcome => rec[r] # "gone"
      /\ product' = [product EXCEPT ![r].status = Final(seen[j][r].product, @)]
      /\ rec' = [rec EXCEPT ![r] = Final(seen[j][r].rec, @)]
      /\ Settled(j, outcome)

Enrich(j) == at[j] = "enrich" /\ \E logged \in BOOLEAN : Settle(j, "enriched", logged)

\* enrich_product raised.
EnrichFails(j) == at[j] = "enrich" /\ \E logged \in BOOLEAN : Settle(j, "failed", logged)

\* It raised an SQLAlchemyError: _recover_enrichment_error rolls back and
\* loads the product and the record again.
RollBack(j) ==
  LET r == current[j]
  IN  /\ at[j] = "enrich"
      /\ seen' = [seen EXCEPT ![j][r].product = product[r].status]
      /\ Goto(j, "reload")
      /\ UNCHANGED <<rows, todo, accepted, current, outcomes>>

Reload(j) ==
  LET r == current[j]
  IN  /\ at[j] = "reload" /\ rec[r] # "gone"
      /\ seen' = [seen EXCEPT ![j][r].rec = rec[r]]
      /\ Goto(j, "fail")
      /\ UNCHANGED <<rows, todo, accepted, current, outcomes>>

\* The mistakes of writing to the record that was loaded before the rollback,
\* and of trying the product once more.
FailStaleRecord(j) ==
  LET r == current[j]
  IN  /\ at[j] = "fail" /\ rec[r] # "gone"
      /\ product' = [product EXCEPT ![r].status = "failed"]
      /\ Settled(j, "failed")
      /\ UNCHANGED rec

RetryRecovered(j) ==
  /\ at[j] = "fail"
  /\ Goto(j, "enrich")
  /\ UNCHANGED <<rows, todo, accepted, current, seen, outcomes>>

FailRecovered(j) == at[j] = "fail" /\ Settle(j, "failed", FALSE)

Verdict(counted) ==
  CASE counted = {"enriched", "failed"} -> "degraded"
    [] counted = {"failed"} -> "failed"
    [] OTHER -> "enriched"

Finish(j) ==
  /\ at[j] = "next" /\ todo[j] = {}
  /\ job' = [job EXCEPT ![j] = Verdict(outcomes[j])]
  /\ Goto(j, "done")
  /\ UNCHANGED <<rec, product, overlapped, todo, accepted, current, seen, outcomes>>

\* The task ends before its job, which stays as it is; todo is what it leaves.
Abandon(j) ==
  /\ Goto(j, "dead")
  /\ todo' = [todo EXCEPT ![j] = {r \in Records : Holds(j, r)}]
  /\ current' = [current EXCEPT ![j] = NoRecord]
  /\ seen' = [seen EXCEPT ![j] = [r \in Records |-> Unseen]]
  /\ UNCHANGED <<rows, accepted, outcomes>>

\* The commit finds no row of the record, or the reload no record: outside the
\* handler of enrich_product nothing catches it.
RecordLost(j) ==
  /\ \/ at[j] \in {"enrich", "reload"}
     \/ at[j] = "fail" /\ seen[j][current[j]].rec # "failed"
  /\ rec[current[j]] = "gone"
  /\ Abandon(j)

\* The process ends, or the database fails outside that handler.
Die(j) == at[j] \in Working /\ Abandon(j)

-----------------------------------------------------------------------------
\* delete_run of the record's run, which is not active
DeleteRecord(r) ==
  /\ rec[r] # "gone"
  /\ rec' = [rec EXCEPT ![r] = "gone"]
  /\ UNCHANGED <<product, job, overlapped, locals>>

Task(j) ==
  \/ Start(j) \/ LoadRefs(j) \/ LoadItsRecord(j) \/ RecordMissing(j)
  \/ Enrich(j) \/ EnrichFails(j) \/ RollBack(j) \/ Reload(j) \/ FailRecovered(j)
  \/ Finish(j) \/ RecordLost(j)
  \/ \E r \in Records : LoadProduct(j, r)

Next ==
  \/ \E j \in Jobs :
       \/ Request(j) \/ Accept(j) \/ Commit(j) \/ Refuse(j)
       \/ \E r \in Records : LoadRecord(j, r) \/ SelectProduct(j, r)
       \/ Task(j) \/ Die(j)
  \/ \E r \in Records : DeleteRecord(r)

Spec == Init /\ [][Next]_vars

\* A background task goes on: its statements and the calls of the language
\* model have timeouts.
FairSpec == Spec /\ \A j \in Jobs : WF_vars(Task(j))

-----------------------------------------------------------------------------
(* Properties. *)

\* A record or product that is pending, which keeps other requests away from
\* it, belongs to a job whose task will still come to it, or left it behind
\* when it died: no interleaving of requests and tasks leaves one pending under
\* a job that has ended (_upsert_enriched_product moves the product with its
\* status, load_product_refs asks for the products as they are).
LockedRecordIsHeld ==
  \A r \in Records :
    rec[r] \in SkipStatuses \/ (rec[r] # "gone" /\ product[r].status = "pending")
      => \E j \in Jobs : Holds(j, r)

\* The status of a record and that of its product agree after every commit,
\* although sessions write the columns they changed only: unless requests
\* overlapped, no two of them work on one record (process_product_ref).
RecordMatchesProduct ==
  \A r \in Records \ overlapped :
    rec[r] # "gone" /\ product[r] # NoProduct => rec[r] = product[r].status

\* No job is robbed of a record its task has not settled, unless two requests
\* loaded the record before either committed; what a dead task left behind
\* nobody takes over (DATA_ENRICHMENT_SKIP_RECORD_STATUSES).
ActiveJobsKeepTheirRecords ==
  [][\A r \in Records \ overlapped :
       product'[r].job # product[r].job
         => ~\E j \in Jobs : Holds(j, r) \/ current[j] = r]_vars

\* The task of a job that was created comes to its end, whatever happens to
\* single records: it fails, loses or settles each of them once.
JobsEnd == \A j \in Jobs : at[j] = "queued" ~> at[j] \in {"done", "dead"}
=============================================================================
