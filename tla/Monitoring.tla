----------------------------- MODULE Monitoring -----------------------------
(***************************************************************************)
(* Monitors and alerts (app/services/monitor_*.py, alert_service.py).      *)
(*                                                                         *)
(* A tick of the scheduler goes through the monitors that are due.  It     *)
(* asks of each URL whether its page changed since the last check, creates *)
(* a crawl run per domain for those that did, and moves next_run_at.  When *)
(* a run has completed, a callback compares its records with the latest    *)
(* snapshot of the monitor, writes events and a new snapshot, and sends    *)
(* webhooks for alerts.  Nobody repeats a callback that failed.            *)
(*                                                                         *)
(* A page is a version number: what a check sees of it and what a crawl    *)
(* extracts from it.  0 is no fingerprint, and no record.                  *)
(***************************************************************************)
EXTENDS Naturals, FiniteSets, Sequences, SequencesExt

CONSTANTS
  Monitors,      \* rows of monitor_jobs, of one priority
  Urls,
  Of,            \* the monitor of a URL
  DomainOf,      \* the domain of a URL
  Alerts,        \* the monitors with poll_interval_seconds and a webhook
  Unchecked,     \* the monitors with skip_head_check
  Runs,          \* crawl runs of monitors that may exist at a time
  NoMonitor,
  MaxPerTick,    \* MAX_CONCURRENT_MONITOR_DISPATCHES_PER_TICK
  MaxAttempts,   \* WEBHOOK_MAX_RETRY_ATTEMPTS
  MaxVersion,    \* how often a page may change
  MaxEvents,     \* how many updates, purges and runs on demand
  MaxFaults      \* how many checks, dispatches, crawls and runs may fail, and how
                 \* many hosts vanish and monitors or URLs are barred

ASSUME SetsAssumption   == /\ IsFiniteSet(Monitors) /\ NoMonitor \notin Monitors
                           /\ Alerts \cup Unchecked \subseteq Monitors
ASSUME UrlsAssumption   == Of \in [Urls -> Monitors] /\ DOMAIN DomainOf = Urls
ASSUME LimitsAssumption == /\ MaxPerTick \in Nat \ {0} /\ MaxAttempts \in Nat \ {0}
                           /\ MaxVersion \in Nat \ {0} /\ MaxEvents \in Nat /\ MaxFaults \in Nat

VARIABLES
  page,      \* the present version of each page
  gone,      \* the URLs whose host no longer resolves
  barred,    \* the URLs of which no run can be created, for another reason
  print,     \* MonitorURLState: the version seen by the last check
  status,    \* MonitorJob.status
  due,       \* the monitors with next_run_at <= now, by next_run_at
  tick,      \* the tick of the scheduler
  run,       \* the crawl runs and their callbacks
  snap,      \* the latest snapshot of the URL's monitor
  events,    \* how many requests are left
  faults,    \* how many faults are left
  crawled,   \* history: the newest version a callback has recorded
  lost,      \* history: URLs whose dispatch, run or callback failed or found nothing
  posted,    \* history: deltas a webhook was accepted for
  blurred    \* history: monitors whose runs overlapped or lost a sent callback

worldVars == <<page, gone, barred, events, faults>>
tickVars == <<print, due, tick>>
callbackVars == <<snap, crawled>>
historyVars == <<posted, blurred>>
vars == <<status, run, lost, worldVars, tickVars, callbackVars, historyVars>>

Versions == 0 .. MaxVersion
Statuses == {"active", "paused", "triggered", "error", "archived"}
UrlsOf(m) == {u \in Urls : Of[u] = m}

NoTick == [at |-> "idle", list |-> <<>>, changed |-> {}, count |-> 0]
NoRun == [at |-> "free", of |-> NoMonitor, urls |-> {}, quiet |-> FALSE,
          seen |-> [u \in {} |-> 0], base |-> [u \in {} |-> 0],
          met |-> FALSE, over |-> FALSE, tries |-> 0]

\* create_crawl_run raises for a run with such a URL, or is not even called.
Broken == gone \cup barred

\* The pages of the run have been read, and its callback has not committed.
Unsaved(r) == run[r].at \in {"crawled", "compared", "posting", "saving"}

\* The callback of r has flushed its change of the monitor: the row is locked
\* until it commits.
Locks(r) == run[r].at \in {"posting", "saving"}
Unlocked(m) == \A r \in Runs : Locks(r) => run[r].of # m

TypeOK ==
  /\ page \in [Urls -> Versions \ {0}] /\ gone \subseteq Urls /\ barred \subseteq Urls
  /\ print \in [Urls -> Versions]
  /\ status \in [Monitors -> Statuses]
  /\ due \in Seq(Monitors) /\ IsInjective(due)
  /\ tick.at \in {"idle", "check", "dispatch", "save"}
  /\ tick.list \in Seq(Monitors) /\ (tick.at = "idle" <=> tick.list = <<>>)
  /\ tick.changed \subseteq Urls /\ tick.count \in 0 .. MaxPerTick
  /\ \A r \in Runs : /\ run[r].of \in Monitors \cup {NoMonitor}
                     /\ run[r].urls \subseteq UrlsOf(run[r].of)
                     /\ run[r].tries \in 0 .. MaxAttempts
  /\ \A r, q \in Runs : Locks(r) /\ Locks(q) /\ run[r].of = run[q].of => r = q
  /\ snap \in [Urls -> Versions] /\ crawled \in [Urls -> Versions]
  /\ events \in 0 .. MaxEvents /\ faults \in 0 .. MaxFaults
  /\ lost \subseteq Urls /\ blurred \subseteq Monitors

Init ==
  /\ page = [u \in Urls |-> 1] /\ gone = {} /\ barred = {}
  /\ events = MaxEvents /\ faults = MaxFaults
  /\ print = [u \in Urls |-> 0]
  /\ status = [m \in Monitors |-> "active"]
  /\ due = <<>> /\ tick = NoTick
  /\ run = [r \in Runs |-> NoRun]
  /\ snap = [u \in Urls |-> 0] /\ crawled = snap
  /\ lost = {} /\ posted = {} /\ blurred = {}

-----------------------------------------------------------------------------
(* The environment. *)

PageChanges(u) ==
  /\ page[u] < MaxVersion
  /\ page' = [page EXCEPT ![u] = @ + 1]
  /\ UNCHANGED <<gone, barred, events, faults, status, run, lost, tickVars, callbackVars, historyVars>>

HostVanishes(u) ==
  /\ u \notin Broken /\ faults > 0
  /\ gone' = gone \cup {u} /\ faults' = faults - 1
  /\ UNCHANGED <<page, barred, events, status, run, lost, tickVars, callbackVars, historyVars>>

\* The owner of the monitor is deleted, its stored extraction contract is not
\* valid, or a host now resolves to an address that is not public.
Bar(m) ==
  /\ faults > 0 /\ faults' = faults - 1
  /\ \E U \in SUBSET UrlsOf(m) : ~(U \subseteq Broken) /\ barred' = barred \cup U
  /\ UNCHANGED <<page, gone, events, status, run, lost, tickVars, callbackVars, historyVars>>

\* next_run_at arrives.
TimePasses(m) ==
  /\ m \notin ToSet(due)
  /\ due' = Append(due, m)
  /\ UNCHANGED <<status, run, lost, worldVars, print, tick, callbackVars, historyVars>>

Without(m) == SelectSeq(due, LAMBDA n : n # m)

\* The bound on what users and the retention do.
Event == events > 0 /\ events' = events - 1

\* update_monitor, update_alert and delete_alert; a new interval sets next_run_at.
Update(m) ==
  /\ Event
  /\ Unlocked(m)
  /\ \E s \in {"active", "paused", "archived"} :
       status' = [status EXCEPT ![m] = s]
  /\ due' \in {due, Without(m)}
  /\ UNCHANGED <<page, gone, barred, faults, run, lost, print, tick, callbackVars, historyVars>>

\* purge_expired: the latest snapshot is older than retention_days.
Purge(m) ==
  /\ Event
  /\ snap' = [u \in Urls |-> IF Of[u] = m THEN 0 ELSE snap[u]]
  /\ print' = [u \in Urls |-> IF Of[u] = m /\ status[m] = "archived"
                                THEN 0 ELSE print[u]]
  /\ UNCHANGED <<page, gone, barred, faults, status, run, lost, due, tick, crawled, historyVars>>

-----------------------------------------------------------------------------
(* check_due_jobs. *)

StartTick ==
  LET list == SelectSeq(due, LAMBDA m : status[m] = "active") IN
  /\ tick.at = "idle" /\ list # <<>>
  /\ tick' = [NoTick EXCEPT !.at = "check", !.list = list]
  /\ UNCHANGED <<status, run, lost, worldVars, print, due, callbackVars, historyVars>>

\* What is left of a tick when its first monitor is through.
NextOf(t) == IF Len(t.list) = 1 THEN NoTick
             ELSE [t EXCEPT !.at = "check", !.list = Tail(@), !.changed = {}]

OverLimit == tick.count >= MaxPerTick

SkipMonitor ==
  /\ tick.at = "check" /\ OverLimit
  /\ tick' = NextOf(tick)
  /\ UNCHANGED <<status, run, lost, worldVars, print, due, callbackVars, historyVars>>

\* The mistake of taking a page without a fingerprint for unchanged.
ReportsKnownOnly(u, how) == \/ how \in {"failed", "opaque", "erased"}
                            \/ how = "read anew" /\ print[u] # 0
                            \/ how = "read" /\ print[u] \notin {0, page[u]}

\* pre_check_url.  A validator or a hash is compared with the stored one (read);
\* none of its kind is stored (read anew); the request fails; the page has no
\* validator and is too large for a hash (opaque: a stored hash stays, erased: a
\* stored validator goes); or HEAD is refused, the page too large, and no hash is
\* stored (skipped).
Reports(u, how) == \/ how \in {"read anew", "failed", "opaque", "erased"}
                   \/ how = "read" /\ print[u] # page[u]

Printed(u, how) == IF how \in {"read", "read anew"} THEN page[u]
                   ELSE IF how = "erased" THEN 0 ELSE print[u]

Outcomes(U) ==
  {how \in [U -> {"read", "read anew", "failed", "opaque", "erased", "skipped"}] :
     \A u \in U \cap gone : how[u] = "failed"}

\* The bound on failures that pass.
Faults(F) == /\ Cardinality(F) <= faults
             /\ faults' = faults - Cardinality(F)

\* _changed_urls_for_monitor; the fingerprints are committed.
Asked(m) == IF m \in Unchecked THEN {} ELSE UrlsOf(m)

Check ==
  LET m == Head(tick.list) IN
  /\ tick.at = "check" /\ ~OverLimit
  /\ \E how \in Outcomes(Asked(m)) :
       LET changed == {u \in UrlsOf(m) : u \in Asked(m) => Reports(u, how[u])} IN
       /\ tick' = [tick EXCEPT !.changed = changed,
                               !.at = IF changed = {} THEN "save" ELSE "dispatch"]
       /\ Faults({u \in Asked(m) \ Broken : how[u] = "failed"})
       /\ print' = [u \in Urls |-> IF u \in Asked(m) THEN Printed(u, how[u]) ELSE print[u]]
       /\ lost' = lost \ changed
  /\ UNCHANGED <<page, gone, barred, events, status, run, due, callbackVars, historyVars>>

\* create_crawl_run validates a run, and resolves its hosts, before it inserts it.
NewRun(r, m, U, quiet) ==
  /\ run[r].at = "free"
  /\ U \cap Broken = {}
  /\ run' = [run EXCEPT ![r] = [NoRun EXCEPT !.at = "queued", !.of = m, !.urls = U,
                                             !.quiet = quiet]]

\* dispatch_monitor_run: one run for each domain.
Group(u, U) == {v \in U : DomainOf[v] = DomainOf[u]}

Dispatch(r) ==
  LET m == Head(tick.list) IN
  /\ tick.at = "dispatch"
  /\ \E u \in tick.changed :
       LET group == Group(u, tick.changed)
           last == tick.changed = group
       IN
       /\ NewRun(r, m, group, FALSE)
       /\ tick' = [tick EXCEPT !.changed = @ \ group,
                               !.at = IF last THEN "save" ELSE "dispatch",
                               !.count = IF last THEN @ + 1 ELSE @]
  /\ UNCHANGED <<status, lost, worldVars, print, due, callbackVars, historyVars>>

\* No run can be created, or the database, the broker or the process fails
\* before one is, or before next_run_at is committed.
\* Only the loop of the scheduler catches the exception: the tick is over.
DispatchFails ==
  /\ tick.at \in {"dispatch", "save"}
  /\ \/ tick.changed \cap Broken # {} /\ UNCHANGED faults
     \/ faults > 0 /\ faults' = faults - 1
  /\ lost' = lost \cup tick.changed
  /\ tick' = NoTick
  /\ UNCHANGED <<page, gone, barred, events, status, run, print, due, callbackVars, historyVars>>

\* The mistake of adding the interval to the old next_run_at.
SaveOldSchedule ==
  LET m == Head(tick.list) IN
  /\ tick.at = "save" /\ Unlocked(m)
  /\ due' = <<m>> \o Without(m)
  /\ tick' = NextOf(tick)
  /\ UNCHANGED <<status, run, lost, worldVars, print, callbackVars, historyVars>>

\* last_run_at and next_run_at are committed.
SaveSchedule ==
  LET m == Head(tick.list) IN
  /\ tick.at = "save" /\ Unlocked(m)
  /\ due' = Without(m)
  /\ tick' = NextOf(tick)
  /\ UNCHANGED <<status, run, lost, worldVars, print, callbackVars, historyVars>>

\* monitor_run_now and test_alert: the schedule is left alone.  A request for
\* several domains is several steps, of which a failure leaves some out.
RunNow(m, r) ==
  /\ Event
  /\ m \notin Alerts => status[m] \notin {"archived", "paused"}
  /\ \E u \in UrlsOf(m) : NewRun(r, m, Group(u, UrlsOf(m)), m \in Alerts)
  /\ UNCHANGED <<page, gone, barred, faults, status, lost, tickVars, callbackVars, historyVars>>

-----------------------------------------------------------------------------
(* The run and handle_run_complete. *)

\* The run reads its pages; a page may yield no record.
Crawl(r) ==
  LET m == run[r].of IN
  /\ run[r].at = "queued"
  /\ \E E \in SUBSET (run[r].urls \ gone) :
       /\ run' = [run EXCEPT ![r].at = "crawled",
                    ![r].seen = [u \in UrlsOf(m) |-> IF u \in E THEN page[u] ELSE 0]]
       /\ lost' = lost \cup (run[r].urls \ E)
       /\ Faults(run[r].urls \ (E \cup Broken))
  /\ blurred' = IF \E q \in Runs \ {r} : Unsaved(q) /\ run[q].of = m
                  THEN blurred \cup {m} ELSE blurred
  /\ UNCHANGED <<page, gone, barred, events, status, tickVars, callbackVars, posted>>

\* _change_events: FIELD_CHANGED needs a record on both sides.
Differs(seen, base) == {u \in DOMAIN seen : seen[u] # 0 /\ base[u] # 0
                                             /\ seen[u] # base[u]}
Changed(r) == Differs(run[r].seen, run[r].base)

\* The callback loads the monitor and its latest snapshot, compares, and stamps
\* its own snapshot.  The condition of an alert may hold of a changed field.
Compare(r) ==
  LET m == run[r].of
      base == [u \in UrlsOf(m) |-> snap[u]]
  IN
  /\ run[r].at = "crawled"
  /\ \E met \in BOOLEAN :
       /\ met => m \in Alerts /\ Differs(run[r].seen, base) # {}
       /\ run' = [run EXCEPT ![r].at = "compared", ![r].base = base,
                             ![r].met = met]
  /\ UNCHANGED <<status, lost, worldVars, tickVars, callbackVars, historyVars>>

\* The change of the monitor is flushed.
LockMonitor(r) ==
  /\ run[r].at = "compared"
  /\ Unlocked(run[r].of)
  /\ run' = [run EXCEPT ![r].at = IF run[r].met /\ ~run[r].quiet
                                    THEN "posting" ELSE "saving"]
  /\ UNCHANGED <<status, lost, worldVars, tickVars, callbackVars, historyVars>>

\* _deliver_payload: an attempt is answered with success, or it is not.
Delta(r) == {<<u, run[r].base[u], run[r].seen[u]>> : u \in Changed(r)}

\* The mistake of not leaving the loop after a success.
PostAcceptedAndAgain(r) ==
  /\ run[r].at = "posting"
  /\ run' = [run EXCEPT ![r].tries = @ + 1,
                        ![r].at = IF run[r].tries + 1 = MaxAttempts THEN "saving" ELSE @]
  /\ posted' = posted \cup Delta(r)
  /\ UNCHANGED <<status, lost, worldVars, tickVars, callbackVars, blurred>>

PostAccepted(r) ==
  /\ run[r].at = "posting"
  /\ run' = [run EXCEPT ![r].tries = @ + 1, ![r].at = "saving"]
  /\ posted' = posted \cup Delta(r)
  /\ UNCHANGED <<status, lost, worldVars, tickVars, callbackVars, blurred>>

PostRefused(r) ==
  /\ run[r].at = "posting"
  /\ run' = [run EXCEPT ![r].tries = @ + 1,
                        ![r].at = IF run[r].tries + 1 = MaxAttempts THEN "saving" ELSE @]
  /\ UNCHANGED <<status, lost, worldVars, tickVars, callbackVars, historyVars>>

\* _update_monitor_after_run.  A poll that extracts nothing may be the one that
\* reaches ALERT_CONSECUTIVE_FAILURE_LIMIT.
Extracted(r) == \E u \in run[r].urls : run[r].seen[u] # 0

StatusesAfter(r) ==
  LET m == run[r].of IN
  IF run[r].met THEN {"triggered"}
  ELSE IF m \in Alerts /\ ~Extracted(r) THEN {status[m], "error"}
  ELSE {status[m]}

\* The mistake of comparing with the oldest snapshot for ever.
SaveChangesOldest(r) ==
  LET m == run[r].of
      Recorded(u) == Of[u] = m /\ run[r].seen[u] > crawled[u]
  IN
  /\ run[r].at = "saving"
  /\ snap' = [u \in Urls |-> IF Of[u] = m /\ snap[u] = 0 THEN run[r].seen[u] ELSE snap[u]]
  /\ crawled' = [u \in Urls |-> IF Recorded(u) THEN run[r].seen[u] ELSE crawled[u]]
  /\ run' = [run EXCEPT ![r] = NoRun]
  /\ UNCHANGED <<status, lost, worldVars, tickVars, historyVars>>

\* Snapshot, events and monitor are committed.  A snapshot that was stamped
\* before one already committed is not the latest.
SaveChanges(r) ==
  LET m == run[r].of
      seen == run[r].seen
      Rivals == {q \in Runs \ {r} : run[q].at = "compared" /\ run[q].of = m}
      Recorded(u) == Of[u] = m /\ seen[u] > crawled[u]
  IN
  /\ run[r].at = "saving"
  /\ snap' = [u \in Urls |-> IF Of[u] = m /\ ~run[r].over THEN seen[u] ELSE snap[u]]
  /\ crawled' = [u \in Urls |-> IF Recorded(u) THEN seen[u] ELSE crawled[u]]
  /\ \E s \in StatusesAfter(r) : status' = [status EXCEPT ![m] = s]
  /\ \E earlier \in SUBSET Rivals :
       run' = [q \in Runs |-> IF q = r THEN NoRun
                              ELSE IF q \in earlier THEN [run[q] EXCEPT !.over = TRUE]
                              ELSE run[q]]
  /\ UNCHANGED <<lost, worldVars, tickVars, historyVars>>

\* The run fails or is killed, so that there is no callback; or the callback
\* fails or its process ends, and its transaction is rolled back.
LoseRun(r) ==
  /\ run[r].at # "free"
  /\ faults > 0 /\ faults' = faults - 1
  /\ lost' = lost \cup run[r].urls
  /\ blurred' = IF run[r].tries > 0 THEN blurred \cup {run[r].of} ELSE blurred
  /\ run' = [run EXCEPT ![r] = NoRun]
  /\ UNCHANGED <<page, gone, barred, events, status, tickVars, callbackVars, posted>>

TickStep == \/ StartTick \/ SkipMonitor \/ Check \/ DispatchFails \/ SaveSchedule
            \/ \E r \in Runs : Dispatch(r)

RunStep(r) == Crawl(r) \/ Compare(r) \/ LockMonitor(r) \/ PostAccepted(r)
              \/ PostRefused(r) \/ SaveChanges(r)

Next == \/ \E u \in Urls : PageChanges(u) \/ HostVanishes(u)
        \/ \E m \in Monitors : \/ Bar(m) \/ TimePasses(m) \/ Update(m) \/ Purge(m)
                               \/ \E r \in Runs : RunNow(m, r)
        \/ TickStep
        \/ \E r \in Runs : RunStep(r) \/ LoseRun(r)

Spec == Init /\ [][Next]_vars

\* The loop of the scheduler goes on after a failed tick, every request of a
\* check or a webhook has a timeout, and a run ends.
Fairness == WF_vars(TickStep) /\ \A r \in Runs : WF_vars(RunStep(r))

FairSpec == Spec /\ Fairness

-----------------------------------------------------------------------------
\* A run that has read, or will read, the version in the fingerprint.
Carries(r, u) == /\ u \in run[r].urls
                 /\ \/ run[r].at = "queued"
                    \/ Unsaved(r) /\ run[r].seen[u] >= print[u]

Upcoming(u) == \/ tick.at = "dispatch" /\ u \in tick.changed
               \/ \E r \in Runs : Carries(r, u)

\* A page change that a check has put into the fingerprint, and that no check
\* will report again, has been crawled and recorded, is on its way, or is lost:
\* its dispatch, its run or its callback failed, or the crawl found no record.
ChangeIsCrawled ==
  \A u \in Urls : u \in lost \/ crawled[u] >= print[u] \/ Upcoming(u)

\* A webhook that was accepted is not sent again for the same delta, unless runs
\* of the monitor overlapped or a callback was lost after it had sent one.
WebhookOncePerDelta ==
  [][\A r \in Runs :
       PostAccepted(r) /\ run[r].of \notin blurred => Delta(r) \cap posted = {}]_vars

\* Each change recorded of a monitor whose runs do not overlap leads to a version
\* of the page that was not recorded before: no change is reported again.
HistoryMovesForward ==
  [][\A r \in Runs :
       SaveChanges(r) /\ run[r].of \notin blurred
         => \A u \in Changed(r) : crawled[u] < run[r].seen[u]]_vars

\* A monitor at or ahead of m in the queue ends every tick that gets to it and
\* finds its page changed: no run can be created for one of its URLs.
Blocked(m) ==
  \E i, j \in DOMAIN due :
    /\ i <= j /\ due[j] = m
    /\ status[due[i]] = "active" /\ UrlsOf(due[i]) \cap Broken # {}

\* A monitor that is due is served, whatever fails for a while, and whatever is
\* broken for ever behind it.  The exception is one monitor that is active, due
\* and broken for ever: it may keep itself and all behind it waiting for ever
\* (check_due_jobs).
DueIsServed ==
  \A m \in Monitors : m \in ToSet(due) ~> \/ m \notin ToSet(due)
                                          \/ status[m] # "active"
                                          \/ Blocked(m)
=============================================================================
