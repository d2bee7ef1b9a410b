-------------------------- MODULE MonitoringProofs --------------------------
(***************************************************************************)
(* Machine-checked proofs about Monitoring, for every set of monitors,     *)
(* URLs and runs, every limit and every number of events and faults.       *)
(***************************************************************************)
EXTENDS Monitoring, TLAPS

Fields == {"at", "of", "urls", "quiet", "seen", "base", "met", "over", "tries"}
Compared(r) == run[r].at \in {"compared", "posting", "saving"}

\* What the steps need to know of the records.
Shapes ==
  /\ DOMAIN tick = {"at", "list", "changed", "count"}
  /\ DOMAIN run = Runs
  /\ \A r \in Runs : DOMAIN run[r] = Fields

\* Versions are numbers, and nobody has seen a version a page has not had.
Bounded ==
  /\ page \in [Urls -> Nat] /\ print \in [Urls -> Nat]
  /\ snap \in [Urls -> Nat] /\ crawled \in [Urls -> Nat]
  /\ \A u \in Urls : print[u] <= page[u] /\ crawled[u] <= page[u]

\* The tick and the runs deal with URLs of their monitor.
TickOwned ==
  tick.at = "dispatch" => tick.changed \subseteq UrlsOf(Head(tick.list))

RunOwned(r) ==
  /\ run[r].at \in {"free", "queued"} \/ Unsaved(r)
  /\ run[r].urls \subseteq UrlsOf(run[r].of)
  /\ Unsaved(r) =>
       /\ run[r].seen \in [UrlsOf(run[r].of) -> Nat]
       /\ \A u \in UrlsOf(run[r].of) : run[r].seen[u] <= page[u]
  /\ Compared(r) => run[r].base \in [UrlsOf(run[r].of) -> Nat]
  /\ run[r].tries \in Nat

Types == Shapes /\ Bounded /\ TickOwned /\ \A r \in Runs : RunOwned(r)

TypesInv == Types /\ ChangeIsCrawled
-----------------------------------------------------------------------------
LEMMA InitTypes == Init => TypesInv
BY LimitsAssumption, UrlsAssumption
DEF Init, TypesInv, Types, Shapes, Bounded, TickOwned, RunOwned, ChangeIsCrawled,
    NoRun, NoTick, Fields, Unsaved, Compared, UrlsOf

\* A run that carries a URL still does when the fingerprint does not grow.
LEMMA StillCarries ==
  ASSUME Types, NEW r \in Runs, NEW u \in Urls, Carries(r, u),
         run'[r].at = run[r].at, run'[r].urls = run[r].urls,
         run'[r].seen = run[r].seen,
         print'[u] \in Nat, print'[u] <= print[u]
  PROVE  Carries(r, u)'
<1>1. CASE run[r].at = "queued"
  BY <1>1 DEF Carries
<1>2. CASE Unsaved(r) /\ run[r].seen[u] >= print[u]
  <2>1. run[r].seen[u] \in Nat /\ print[u] \in Nat
    BY <1>2 DEF Carries, Types, RunOwned, UrlsOf, Bounded
  <2>2. run'[r].seen[u] >= print'[u]
    BY <1>2, <2>1
  <2> QED BY <1>2, <2>2 DEF Carries, Unsaved
<1> QED BY <1>1, <1>2 DEF Carries

\* A run that a step leaves alone is as it was.
LEMMA StillOwned ==
  ASSUME Types, NEW r \in Runs, RunOwned(r),
         \/ run'[r] = run[r]
         \/ run'[r] = [run[r] EXCEPT !.over = TRUE],
         page' \in [Urls -> Nat], \A u \in Urls : page'[u] >= page[u]
  PROVE  RunOwned(r)'
<1>1. /\ run'[r].at = run[r].at /\ run'[r].of = run[r].of
      /\ run'[r].urls = run[r].urls /\ run'[r].seen = run[r].seen
      /\ run'[r].base = run[r].base /\ run'[r].tries = run[r].tries
  BY DEF Types, Shapes, Fields
<1>2. Unsaved(r) =>
        /\ run'[r].seen \in [UrlsOf(run'[r].of) -> Nat]
        /\ \A u \in UrlsOf(run'[r].of) : run'[r].seen[u] <= page'[u]
  <2> SUFFICES ASSUME Unsaved(r)
               PROVE  /\ run[r].seen \in [UrlsOf(run[r].of) -> Nat]
                      /\ \A u \in UrlsOf(run[r].of) : run[r].seen[u] <= page'[u]
    BY <1>1
  <2>1. /\ run[r].seen \in [UrlsOf(run[r].of) -> Nat]
        /\ \A u \in UrlsOf(run[r].of) : run[r].seen[u] <= page[u]
    BY DEF RunOwned
  <2>2. page \in [Urls -> Nat]
    BY DEF Types, Bounded
  <2> QED BY <2>1, <2>2 DEF UrlsOf
<1> QED BY <1>1, <1>2 DEF RunOwned, Unsaved, Compared, UrlsOf

\* Steps of the environment and of the tick that create no run.
LEMMA IdleRuns ==
  ASSUME TypesInv, run' = run, crawled' = crawled,
         DOMAIN tick' = {"at", "list", "changed", "count"},
         page' \in [Urls -> Nat], snap' \in [Urls -> Nat], print' \in [Urls -> Nat],
         \A u \in Urls : page'[u] >= page[u] /\ print'[u] <= page'[u],
         TickOwned',
         \A u \in Urls :
           \/ u \in lost'
           \/ tick'.at = "dispatch" /\ u \in tick'.changed
           \/ /\ print'[u] <= print[u]
              /\ u \notin lost
              /\ ~(tick.at = "dispatch" /\ u \in tick.changed)
  PROVE  TypesInv'
<1>1. Shapes' BY DEF TypesInv, Types, Shapes
<1>2. Bounded' BY DEF TypesInv, Types, Bounded
<1>3. \A r \in Runs : RunOwned(r)'
  BY StillOwned DEF TypesInv, Types
<1>4. ChangeIsCrawled'
  <2> SUFFICES ASSUME NEW u \in Urls, u \notin lost', ~Upcoming(u)'
               PROVE  crawled'[u] >= print'[u]
    BY DEF ChangeIsCrawled
  <2>1. /\ print'[u] <= print[u] /\ u \notin lost
        /\ ~(tick.at = "dispatch" /\ u \in tick.changed)
    BY DEF Upcoming
  <2>2. ~ \E r \in Runs : Carries(r, u)
    BY <2>1, StillCarries DEF Upcoming, TypesInv, Types, Bounded
  <2>3. crawled[u] >= print[u]
    BY <2>1, <2>2 DEF TypesInv, ChangeIsCrawled, Upcoming
  <2> QED BY <2>1, <2>3 DEF TypesInv, Types, Bounded
<1> QED BY <1>1, <1>2, <1>3, <1>4 DEF TypesInv, Types

\* Steps of a run: what it carried is lost, recorded, or still carried.
LEMMA OneRun ==
  ASSUME TypesInv, NEW r \in Runs, Shapes', TickOwned', RunOwned(r)',
         \A q \in Runs \ {r} : \/ run'[q] = run[q]
                               \/ run'[q] = [run[q] EXCEPT !.over = TRUE],
         UNCHANGED <<page, print>>, snap' \in [Urls -> Nat], crawled' \in [Urls -> Nat],
         \A u \in Urls : crawled[u] <= crawled'[u] /\ crawled'[u] <= page[u],
         lost \subseteq lost',
         \A u \in Urls : \/ ~Carries(r, u)
                         \/ u \in lost' \/ crawled'[u] >= print[u] \/ Carries(r, u)',
         \A u \in Urls : \/ ~(tick.at = "dispatch" /\ u \in tick.changed)
                         \/ tick'.at = "dispatch" /\ u \in tick'.changed
                         \/ Carries(r, u)'
  PROVE  TypesInv'
<1>1. Bounded' BY DEF TypesInv, Types, Bounded
<1>2. \A q \in Runs : RunOwned(q)'
  <2> SUFFICES ASSUME NEW q \in Runs \ {r} PROVE RunOwned(q)'
    OBVIOUS
  <2>1. page' \in [Urls -> Nat] /\ \A u \in Urls : page'[u] >= page[u]
    BY DEF TypesInv, Types, Bounded
  <2>2. Types /\ RunOwned(q)
    BY DEF TypesInv, Types
  <2> QED BY <2>1, <2>2, StillOwned
<1>3. ChangeIsCrawled'
  <2> SUFFICES ASSUME NEW u \in Urls, u \notin lost', ~Upcoming(u)'
               PROVE  crawled'[u] >= print'[u]
    BY DEF ChangeIsCrawled
  <2>1. CASE crawled[u] >= print[u]
    BY <2>1 DEF TypesInv, Types, Bounded
  <2>2. CASE tick.at = "dispatch" /\ u \in tick.changed
    BY <2>2 DEF Upcoming
  <2>3. ASSUME NEW q \in Runs, Carries(q, u) PROVE crawled'[u] >= print'[u]
    <3>1. CASE q = r
      BY <2>3, <3>1 DEF Upcoming
    <3>2. CASE q # r
      <4>1. /\ run'[q].at = run[q].at /\ run'[q].urls = run[q].urls
            /\ run'[q].seen = run[q].seen
        BY <3>2 DEF TypesInv, Types, Shapes, Fields
      <4>2. print[u] \in Nat /\ print'[u] = print[u]
        BY DEF TypesInv, Types, Bounded
      <4>3. Carries(q, u)'
        BY <4>1, <4>2, <2>3, StillCarries DEF TypesInv
      <4> QED BY <4>3 DEF Upcoming
    <3> QED BY <3>1, <3>2
  <2> QED BY <2>1, <2>2, <2>3 DEF TypesInv, ChangeIsCrawled, Upcoming
<1> QED BY <1>1, <1>2, <1>3 DEF TypesInv, Types
-----------------------------------------------------------------------------
(* The environment and the tick. *)

LEMMA EnvironmentTypes ==
  ASSUME TypesInv,
         \/ \E u \in Urls : PageChanges(u) \/ HostVanishes(u)
         \/ \E m \in Monitors : Bar(m) \/ TimePasses(m) \/ Update(m) \/ Purge(m)
  PROVE  TypesInv'
<1> USE DEF TypesInv, Types, Shapes, Bounded, TickOwned, tickVars, callbackVars
<1>1. ASSUME NEW u \in Urls, PageChanges(u) PROVE TypesInv'
  BY <1>1, IdleRuns DEF PageChanges
<1>2. ASSUME NEW u \in Urls, HostVanishes(u) PROVE TypesInv'
  BY <1>2, IdleRuns DEF HostVanishes
<1>3. ASSUME NEW m \in Monitors, TimePasses(m) PROVE TypesInv'
  BY <1>3, IdleRuns DEF TimePasses, worldVars
<1>4. ASSUME NEW m \in Monitors, Update(m) PROVE TypesInv'
  BY <1>4, IdleRuns DEF Update
<1>5. ASSUME NEW m \in Monitors, Purge(m) PROVE TypesInv'
  BY <1>5, IdleRuns DEF Purge
<1>6. ASSUME NEW m \in Monitors, Bar(m) PROVE TypesInv'
  BY <1>6, IdleRuns DEF Bar
<1> QED BY <1>1, <1>2, <1>3, <1>4, <1>5, <1>6

\* The tick goes to its next monitor, or ends.
LEMMA NextMonitor ==
  ASSUME Shapes
  PROVE  /\ DOMAIN NextOf(tick) = {"at", "list", "changed", "count"}
         /\ NextOf(tick).at # "dispatch"
BY DEF Shapes, NextOf, NoTick

\* A check never puts a version into the fingerprint that the page has not had,
\* and a newer one only if it reports the page.
LEMMA PrintedBounds ==
  ASSUME Bounded, NEW u \in Urls, NEW how
  PROVE  /\ Printed(u, how) \in Nat /\ Printed(u, how) <= page[u]
         /\ ~Reports(u, how) => Printed(u, how) <= print[u]
<1>1. page[u] \in Nat /\ print[u] \in Nat /\ print[u] <= page[u]
  BY DEF Bounded
<1>2. Printed(u, how) \in {page[u], 0, print[u]}
  BY DEF Printed
<1>3. ~Reports(u, how) => Printed(u, how) \in {0, print[u]}
  <2>1. CASE how = "read"
    BY <2>1 DEF Printed, Reports
  <2>2. CASE how = "read anew"
    BY <2>2 DEF Reports
  <2>3. CASE how \notin {"read", "read anew"}
    BY <2>3 DEF Printed
  <2> QED BY <2>1, <2>2, <2>3
<1> QED BY <1>1, <1>2, <1>3

LEMMA TickTypes ==
  ASSUME TypesInv, StartTick \/ SkipMonitor \/ Check \/ DispatchFails \/ SaveSchedule
  PROVE  TypesInv'
<1> USE DEF TypesInv, Types, Bounded, callbackVars, worldVars
<1>1. CASE StartTick
  BY <1>1, IdleRuns DEF StartTick, NoTick, Shapes, TickOwned
<1>2. CASE SkipMonitor
  BY <1>2, IdleRuns, NextMonitor DEF SkipMonitor, TickOwned
<1>3. CASE Check
  <2> DEFINE m == Head(tick.list)
  <2>1. PICK how \in Outcomes(Asked(m)), changed \in SUBSET UrlsOf(m) :
          /\ changed = {u \in UrlsOf(m) : u \in Asked(m) => Reports(u, how[u])}
          /\ tick' = [tick EXCEPT !.changed = changed,
                                  !.at = IF changed = {} THEN "save" ELSE "dispatch"]
          /\ print' = [u \in Urls |-> IF u \in Asked(m) THEN Printed(u, how[u])
                                       ELSE print[u]]
          /\ lost' = lost \ changed
    BY <1>3, Zenon DEF Check
  <2>2. tick.at = "check" /\ UNCHANGED <<page, run, snap, crawled>>
    BY <1>3 DEF Check
  <2>3. /\ DOMAIN tick' = {"at", "list", "changed", "count"}
        /\ tick'.list = tick.list /\ tick'.changed = changed
        /\ tick'.at = IF changed = {} THEN "save" ELSE "dispatch"
    BY <2>1 DEF Shapes
  <2>4. /\ print' \in [Urls -> Nat]
        /\ \A u \in Urls : print'[u] <= page[u]
    BY <2>1, PrintedBounds
  <2>5. TickOwned'
    BY <2>3 DEF TickOwned, UrlsOf
  <2>6. ASSUME NEW u \in Urls, u \notin changed PROVE print'[u] <= print[u]
    <3>1. u \in Asked(m) => u \in UrlsOf(m) /\ ~Reports(u, how[u])
      BY <2>1, <2>6 DEF Asked
    <3> QED BY <2>1, <3>1, PrintedBounds
  <2>7. \A u \in Urls : \/ u \in lost'
                        \/ tick'.at = "dispatch" /\ u \in tick'.changed
                        \/ print'[u] <= print[u] /\ u \notin lost
    BY <2>1, <2>3, <2>6
  <2> QED BY <2>2, <2>3, <2>4, <2>5, <2>7, IdleRuns
<1>4. CASE DispatchFails
  BY <1>4, IdleRuns DEF DispatchFails, NoTick, TickOwned
<1>5. CASE SaveSchedule
  BY <1>5, IdleRuns, NextMonitor DEF SaveSchedule, TickOwned
<1> QED BY <1>1, <1>2, <1>3, <1>4, <1>5
-----------------------------------------------------------------------------
(* The runs. *)

LEMMA CreateTypes ==
  ASSUME TypesInv, NEW r \in Runs, NEW m, NEW U \in SUBSET UrlsOf(m), NEW quiet,
         NewRun(r, m, U, quiet), UNCHANGED <<page, print, snap, crawled, lost>>,
         DOMAIN tick' = {"at", "list", "changed", "count"}, TickOwned',
         \A u \in Urls : \/ ~(tick.at = "dispatch" /\ u \in tick.changed)
                         \/ tick'.at = "dispatch" /\ u \in tick'.changed
                         \/ u \in U
  PROVE  TypesInv'
<1> USE DEF TypesInv, Types, Bounded
<1>1. /\ run[r].at = "free"
      /\ run' = [run EXCEPT ![r] = [NoRun EXCEPT !.at = "queued", !.of = m, !.urls = U,
                                                 !.quiet = quiet]]
  BY DEF NewRun
<1>2. /\ run'[r].at = "queued" /\ run'[r].of = m /\ run'[r].urls = U
      /\ run'[r].tries = 0 /\ DOMAIN run'[r] = Fields
      /\ \A q \in Runs \ {r} : run'[q] = run[q]
  BY <1>1 DEF NoRun, Fields, Shapes
<1>3. Shapes'
  BY <1>1, <1>2 DEF Shapes
<1>4. RunOwned(r)'
  BY <1>2 DEF RunOwned, Unsaved, Compared, UrlsOf
<1>5. \A u \in Urls : ~Carries(r, u)
  BY <1>1 DEF Carries, Unsaved
<1>6. \A u \in U : Carries(r, u)'
  BY <1>2 DEF Carries
<1> QED BY <1>2, <1>3, <1>4, <1>5, <1>6, OneRun

LEMMA DispatchTypes ==
  ASSUME TypesInv, NEW r \in Runs, Dispatch(r)
  PROVE  TypesInv'
<1> DEFINE m == Head(tick.list)
<1> DEFINE group(u) == Group(u, tick.changed)
<1>1. PICK u \in tick.changed :
        /\ NewRun(r, m, group(u), FALSE)
        /\ tick' = [tick EXCEPT !.changed = @ \ group(u),
                                !.at = IF tick.changed = group(u)
                                         THEN "save" ELSE "dispatch",
                                !.count = IF tick.changed = group(u) THEN @ + 1 ELSE @]
  BY DEF Dispatch
<1>2. /\ DOMAIN tick' = {"at", "list", "changed", "count"}
      /\ tick'.list = tick.list /\ tick'.changed = tick.changed \ group(u)
      /\ tick'.at = IF tick.changed = group(u) THEN "save" ELSE "dispatch"
  BY <1>1 DEF TypesInv, Types, Shapes
<1>3. tick.at = "dispatch" /\ tick.changed \subseteq UrlsOf(m)
  BY DEF Dispatch, TypesInv, Types, TickOwned
<1>4. TickOwned'
  BY <1>2, <1>3 DEF TickOwned, UrlsOf
<1>5. group(u) \in SUBSET UrlsOf(m)
  BY <1>3 DEF Group
<1>6. UNCHANGED <<page, print, snap, crawled, lost>>
  BY DEF Dispatch, worldVars, callbackVars
<1> QED BY <1>1, <1>2, <1>4, <1>5, <1>6, CreateTypes

LEMMA RunNowTypes ==
  ASSUME TypesInv, NEW r \in Runs, NEW m \in Monitors, RunNow(m, r)
  PROVE  TypesInv'
<1>1. PICK U \in SUBSET UrlsOf(m) : NewRun(r, m, U, m \in Alerts)
  BY DEF RunNow, Group
<1>2. UNCHANGED <<page, print, tick, snap, crawled, lost>>
  BY DEF RunNow, tickVars, callbackVars
<1>3. TickOwned' /\ DOMAIN tick' = {"at", "list", "changed", "count"}
  BY <1>2 DEF TypesInv, Types, Shapes, TickOwned, UrlsOf
<1> QED BY <1>1, <1>2, <1>3, CreateTypes

\* A step that moves a run on and keeps what it has seen.
LEMMA MoveTypes ==
  ASSUME TypesInv, NEW r \in Runs, NEW entry,
         Unsaved(r), run' = [run EXCEPT ![r] = entry], DOMAIN entry = Fields,
         entry.at \in {"compared", "posting", "saving"},
         entry.of = run[r].of, entry.urls = run[r].urls, entry.seen = run[r].seen,
         entry.base \in [UrlsOf(run[r].of) -> Nat], entry.tries \in Nat,
         UNCHANGED <<page, print, tick, snap, crawled, lost>>
  PROVE  TypesInv'
<1> USE DEF TypesInv, Types, Bounded
<1>1. run'[r] = entry /\ \A q \in Runs \ {r} : run'[q] = run[q]
  BY DEF Shapes
<1>2. Shapes'
  BY <1>1 DEF Shapes
<1>3. RunOwned(r)'
  <2>1. /\ run[r].urls \subseteq UrlsOf(run[r].of)
        /\ run[r].seen \in [UrlsOf(run[r].of) -> Nat]
        /\ \A u \in UrlsOf(run[r].of) : run[r].seen[u] <= page[u]
    BY DEF RunOwned
  <2>2. /\ run'[r].of = run[r].of /\ run'[r].urls = run[r].urls
        /\ run'[r].seen = run[r].seen /\ run'[r].tries \in Nat
        /\ run'[r].base \in [UrlsOf(run[r].of) -> Nat]
        /\ run'[r].at \in {"compared", "posting", "saving"} /\ page' = page
    BY <1>1
  <2> HIDE DEF TypesInv, Types, Bounded
  <2> QED BY <2>1, <2>2 DEF RunOwned, Unsaved, Compared, UrlsOf
<1>4. TickOwned'
  BY DEF TickOwned, UrlsOf
<1>5. \A u \in Urls : Carries(r, u) => Carries(r, u)'
  BY <1>1 DEF Carries, Unsaved
<1> QED BY <1>1, <1>2, <1>3, <1>4, <1>5, OneRun

LEMMA MovesTypes ==
  ASSUME TypesInv, NEW r \in Runs,
         Compare(r) \/ LockMonitor(r) \/ PostAccepted(r) \/ PostRefused(r)
  PROVE  TypesInv'
<1> USE DEF worldVars, tickVars, callbackVars
<1>1. DOMAIN run[r] = Fields /\ RunOwned(r)
  BY DEF TypesInv, Types, Shapes
<1>2. CASE Compare(r)
  <2> DEFINE base == [u \in UrlsOf(run[r].of) |-> snap[u]]
  <2>1. PICK met \in BOOLEAN :
          run' = [run EXCEPT ![r].at = "compared", ![r].base = base, ![r].met = met]
    BY <1>2 DEF Compare
  <2> DEFINE entry == [run[r] EXCEPT !.at = "compared", !.base = base, !.met = met]
  <2>2. run' = [run EXCEPT ![r] = entry]
    BY <1>1, <2>1
  <2>3. /\ DOMAIN entry = Fields /\ entry.at = "compared" /\ entry.of = run[r].of
        /\ entry.urls = run[r].urls /\ entry.seen = run[r].seen
        /\ entry.base = base /\ entry.tries = run[r].tries
    BY <1>1 DEF Fields
  <2>4. base \in [UrlsOf(run[r].of) -> Nat] /\ run[r].tries \in Nat
    BY <1>1 DEF TypesInv, Types, Bounded, UrlsOf, RunOwned
  <2>5. Unsaved(r) /\ UNCHANGED <<page, print, tick, snap, crawled, lost>>
    BY <1>2 DEF Compare, Unsaved
  <2> HIDE DEF entry, base
  <2> QED BY <2>2, <2>3, <2>4, <2>5, MoveTypes
<1>3. ASSUME NEW at \in {"posting", "saving"}, NEW tries \in Nat,
             run' = [run EXCEPT ![r].at = at, ![r].tries = tries],
             Compared(r), UNCHANGED <<page, print, tick, snap, crawled, lost>>
      PROVE  TypesInv'
  <2> DEFINE entry == [run[r] EXCEPT !.at = at, !.tries = tries]
  <2>1. run' = [run EXCEPT ![r] = entry]
    BY <1>1, <1>3
  <2>2. /\ DOMAIN entry = Fields /\ entry.at = at /\ entry.of = run[r].of
        /\ entry.urls = run[r].urls /\ entry.seen = run[r].seen
        /\ entry.base = run[r].base /\ entry.tries = tries
    BY <1>1 DEF Fields
  <2>3. Unsaved(r) /\ run[r].base \in [UrlsOf(run[r].of) -> Nat]
    BY <1>1, <1>3 DEF Unsaved, Compared, RunOwned
  <2> HIDE DEF entry
  <2> QED BY <1>3, <2>1, <2>2, <2>3, MoveTypes
<1>4. run[r].tries \in Nat
  BY <1>1 DEF RunOwned
<1>5. CASE LockMonitor(r)
  <2> DEFINE next == IF run[r].met /\ ~run[r].quiet THEN "posting" ELSE "saving"
  <2>1. run' = [run EXCEPT ![r].at = next]
    BY <1>5 DEF LockMonitor
  <2>2. run' = [run EXCEPT ![r].at = next, ![r].tries = run[r].tries]
    BY <1>1, <2>1 DEF Fields
  <2> QED BY <1>3, <1>4, <1>5, <2>2 DEF LockMonitor, Compared
<1>6. CASE PostAccepted(r)
  <2> DEFINE tries == run[r].tries + 1
  <2>1. run' = [run EXCEPT ![r].at = "saving", ![r].tries = tries]
    BY <1>1, <1>6 DEF PostAccepted, Fields
  <2>2. tries \in Nat
    BY <1>4
  <2>3. Compared(r) /\ UNCHANGED <<page, print, tick, snap, crawled, lost>>
    BY <1>6 DEF PostAccepted, Compared
  <2> HIDE DEF tries
  <2> QED BY <1>3, <2>1, <2>2, <2>3
<1>7. CASE PostRefused(r)
  <2> DEFINE next == IF run[r].tries + 1 = MaxAttempts THEN "saving" ELSE run[r].at
  <2> DEFINE tries == run[r].tries + 1
  <2>1. run' = [run EXCEPT ![r].at = next, ![r].tries = tries]
    BY <1>1, <1>7 DEF PostRefused, Fields
  <2>2. tries \in Nat /\ next \in {"posting", "saving"}
    BY <1>4, <1>7 DEF PostRefused
  <2>3. Compared(r) /\ UNCHANGED <<page, print, tick, snap, crawled, lost>>
    BY <1>7 DEF PostRefused, Compared
  <2> HIDE DEF tries, next
  <2> QED BY <1>3, <2>1, <2>2, <2>3
<1> QED BY <1>2, <1>5, <1>6, <1>7

LEMMA CrawlTypes ==
  ASSUME TypesInv, NEW r \in Runs, Crawl(r)
  PROVE  TypesInv'
<1> USE DEF TypesInv, Types, Bounded
<1> DEFINE m == run[r].of
<1>1. PICK E \in SUBSET run[r].urls :
        /\ run' = [run EXCEPT ![r].at = "crawled",
                     ![r].seen = [u \in UrlsOf(m) |-> IF u \in E THEN page[u] ELSE 0]]
        /\ lost' = lost \cup (run[r].urls \ E)
  BY DEF Crawl
<1>2. DOMAIN run[r] = Fields /\ RunOwned(r) /\ run[r].at = "queued"
  BY DEF Shapes, Crawl
<1>3. /\ run'[r].at = "crawled" /\ run'[r].of = m /\ run'[r].urls = run[r].urls
      /\ run'[r].seen = [u \in UrlsOf(m) |-> IF u \in E THEN page[u] ELSE 0]
      /\ run'[r].tries = run[r].tries /\ DOMAIN run'[r] = Fields
      /\ \A q \in Runs \ {r} : run'[q] = run[q]
  BY <1>1, <1>2 DEF Fields, Shapes
<1>4. UNCHANGED <<page, print, tick, snap, crawled>>
  BY DEF Crawl, tickVars, callbackVars
<1>5. Shapes'
  BY <1>1, <1>3, <1>4 DEF Shapes
<1>6. RunOwned(r)'
  BY <1>2, <1>3, <1>4 DEF RunOwned, Unsaved, Compared, UrlsOf
<1>7. TickOwned'
  BY <1>4 DEF TickOwned, UrlsOf
<1>8. ASSUME NEW u \in Urls, Carries(r, u) PROVE u \in lost' \/ Carries(r, u)'
  <2>1. CASE u \in E
    <3>1. u \in UrlsOf(m) /\ u \in run[r].urls
      BY <1>2, <2>1 DEF RunOwned
    <3>2. run'[r].seen[u] = page[u] /\ print'[u] <= page[u] /\ page[u] \in Nat
          /\ print'[u] \in Nat
      BY <1>3, <1>4, <2>1, <3>1
    <3> QED BY <1>3, <3>1, <3>2 DEF Carries, Unsaved
  <2>2. CASE u \notin E
    BY <1>1, <1>8, <2>2 DEF Carries
  <2> QED BY <2>1, <2>2
<1>9. lost \subseteq lost'
  BY <1>1
<1> QED BY <1>3, <1>4, <1>5, <1>6, <1>7, <1>8, <1>9, OneRun

LEMMA SaveTypes ==
  ASSUME TypesInv, NEW r \in Runs, SaveChanges(r)
  PROVE  TypesInv'
<1> USE DEF TypesInv, Types, Bounded
<1> DEFINE m == run[r].of
           seen == run[r].seen
           Recorded(u) == Of[u] = m /\ seen[u] > crawled[u]
<1>1. PICK earlier \in SUBSET (Runs \ {r}) :
        run' = [q \in Runs |-> IF q = r THEN NoRun
                               ELSE IF q \in earlier THEN [run[q] EXCEPT !.over = TRUE]
                               ELSE run[q]]
  BY DEF SaveChanges
<1>2. /\ run[r].at = "saving"
      /\ snap' = [u \in Urls |-> IF Of[u] = m /\ ~run[r].over THEN seen[u] ELSE snap[u]]
      /\ crawled' = [u \in Urls |-> IF Recorded(u) THEN seen[u] ELSE crawled[u]]
      /\ UNCHANGED <<page, print, tick, lost>>
  BY DEF SaveChanges, worldVars, tickVars
<1>3. \A u \in Urls : Of[u] = m => seen[u] \in Nat /\ seen[u] <= page[u]
  BY <1>2 DEF RunOwned, Unsaved, UrlsOf
<1>4. /\ snap' \in [Urls -> Nat] /\ crawled' \in [Urls -> Nat]
      /\ \A u \in Urls : crawled[u] <= crawled'[u] /\ crawled'[u] <= page[u]
  BY <1>2, <1>3
<1>5. /\ run'[r] = NoRun
      /\ \A q \in Runs \ {r} : \/ run'[q] = run[q]
                               \/ run'[q] = [run[q] EXCEPT !.over = TRUE]
  BY <1>1
<1>6. Shapes'
  BY <1>1, <1>2, <1>5 DEF Shapes, Fields, NoRun
<1>7. RunOwned(r)'
  BY <1>5 DEF RunOwned, NoRun, Unsaved, Compared, UrlsOf
<1>8. TickOwned'
  BY <1>2 DEF TickOwned, UrlsOf
<1>9. ASSUME NEW u \in Urls, Carries(r, u) PROVE crawled'[u] >= print[u]
  <2>1. Of[u] = m /\ seen[u] >= print[u]
    BY <1>2, <1>9 DEF Carries, RunOwned, UrlsOf
  <2> QED BY <1>2, <1>3, <2>1
<1> QED BY <1>2, <1>4, <1>5, <1>6, <1>7, <1>8, <1>9, OneRun

LEMMA LoseTypes ==
  ASSUME TypesInv, NEW r \in Runs, LoseRun(r)
  PROVE  TypesInv'
<1> USE DEF TypesInv, Types, Bounded
<1>1. /\ run' = [run EXCEPT ![r] = NoRun]
      /\ lost' = lost \cup run[r].urls
      /\ UNCHANGED <<page, print, tick, snap, crawled>>
  BY DEF LoseRun, tickVars, callbackVars
<1>2. run'[r] = NoRun /\ \A q \in Runs \ {r} : run'[q] = run[q]
  BY <1>1 DEF Shapes
<1>3. Shapes'
  BY <1>1, <1>2 DEF Shapes, Fields, NoRun
<1>4. RunOwned(r)'
  BY <1>2 DEF RunOwned, NoRun, Unsaved, Compared, UrlsOf
<1>5. TickOwned'
  BY <1>1 DEF TickOwned, UrlsOf
<1>6. \A u \in Urls : Carries(r, u) => u \in lost'
  BY <1>1 DEF Carries
<1> QED BY <1>1, <1>2, <1>3, <1>4, <1>5, <1>6, OneRun

LEMMA StutterTypes == TypesInv /\ UNCHANGED vars => TypesInv'
BY IdleRuns DEF vars, worldVars, tickVars, callbackVars, TypesInv, Types, Shapes,
                Bounded, TickOwned, UrlsOf

LEMMA StepTypes == TypesInv /\ [Next]_vars => TypesInv'
BY EnvironmentTypes, TickTypes, DispatchTypes, RunNowTypes, CrawlTypes, MovesTypes,
   SaveTypes, LoseTypes, StutterTypes
DEF Next, TickStep, RunStep

\* A page change that has reached the fingerprint is recorded, on its way, or
\* lost by a failure: no interleaving of ticks, runs and callbacks drops it.
THEOREM ChangesAreCrawled == Spec => []ChangeIsCrawled
<1>1. Spec => []TypesInv
  BY InitTypes, StepTypes, PTL DEF Spec
<1> QED BY <1>1, PTL DEF TypesInv
-----------------------------------------------------------------------------
(* What is reported, of monitors whose runs do not overlap. *)

OneUnsaved ==
  \A r, q \in Runs : /\ Unsaved(r) /\ Unsaved(q) /\ run[r].of = run[q].of
                     /\ run[r].of \notin blurred
                     => r = q

\* The latest snapshot is what was recorded last, or has been purged.
SnapIsLast == \A u \in Urls : Of[u] \notin blurred => snap[u] \in {0, crawled[u]}

\* A run has seen nothing older than what is recorded, and compares with that.
UpToDate(r) ==
  run[r].of \notin blurred =>
    /\ ~run[r].over
    /\ Unsaved(r) => \A u \in UrlsOf(run[r].of) :
                       run[r].seen[u] = 0 \/ run[r].seen[u] >= crawled[u]
    /\ Compared(r) => \A u \in UrlsOf(run[r].of) : run[r].base[u] \in {0, crawled[u]}

\* The callback that sent the change of u to version s has yet to commit.
Sent(u, s) == \E r \in Runs : /\ run[r].at = "saving" /\ run[r].tries > 0
                              /\ run[r].of = Of[u] /\ run[r].seen[u] = s

PostedRecorded ==
  \A u \in Urls, b \in Nat, s \in Nat :
    <<u, b, s>> \in posted /\ Of[u] \notin blurred => s <= crawled[u] \/ Sent(u, s)

Hist == OneUnsaved /\ SnapIsLast /\ (\A r \in Runs : UpToDate(r)) /\ PostedRecorded

LEMMA InitHist == Init => Hist
BY DEF Init, Hist, OneUnsaved, SnapIsLast, UpToDate, PostedRecorded, NoRun, Unsaved,
       Compared

LEMMA IdleHist ==
  ASSUME Hist, UNCHANGED <<run, crawled, posted, blurred>>,
         \A u \in Urls : snap'[u] \in {0, snap[u]}
  PROVE  Hist'
<1>1. OneUnsaved' BY DEF Hist, OneUnsaved, Unsaved
<1>2. SnapIsLast' BY DEF Hist, SnapIsLast
<1>3. \A r \in Runs : UpToDate(r)' BY DEF Hist, UpToDate, Unsaved, Compared, UrlsOf
<1>4. PostedRecorded' BY DEF Hist, PostedRecorded, Sent
<1> QED BY <1>1, <1>2, <1>3, <1>4 DEF Hist

\* A run that is created, or that fails before it has sent anything, has no
\* bearing on what is reported.
LEMMA AwayHist ==
  ASSUME Hist, NEW r \in Runs,
         \A q \in Runs \ {r} : run'[q] = run[q],
         ~Unsaved(r)', ~run'[r].over, UNCHANGED <<snap, crawled, posted>>, blurred \subseteq blurred',
         run[r].at = "saving" /\ run[r].tries > 0 => run[r].of \in blurred'
  PROVE  Hist'
<1>1. OneUnsaved' BY DEF Hist, OneUnsaved, Unsaved
<1>2. SnapIsLast' BY DEF Hist, SnapIsLast
<1>3. ASSUME NEW q \in Runs PROVE UpToDate(q)'
  <2>1. CASE q = r
    BY <2>1 DEF UpToDate, Unsaved, Compared
  <2>2. CASE q # r
    BY <2>2 DEF Hist, UpToDate, Unsaved, Compared, UrlsOf
  <2> QED BY <2>1, <2>2
<1>4. PostedRecorded'
  <2> SUFFICES ASSUME NEW u \in Urls, NEW b \in Nat, NEW s \in Nat,
                      <<u, b, s>> \in posted, Of[u] \notin blurred'
               PROVE  s <= crawled[u] \/ Sent(u, s)'
    BY DEF PostedRecorded
  <2>1. s <= crawled[u] \/ Sent(u, s)
    BY DEF Hist, PostedRecorded
  <2> QED BY <2>1 DEF Sent
<1> QED BY <1>1, <1>2, <1>3, <1>4 DEF Hist

\* A callback that goes on, with what it has seen.
LEMMA MoveHist ==
  ASSUME Hist, NEW r \in Runs, Unsaved(r), run[r].at # "saving",
         \A q \in Runs \ {r} : run'[q] = run[q],
         run'[r].of = run[r].of, run'[r].seen = run[r].seen,
         UpToDate(r)', UNCHANGED <<snap, crawled, blurred>>,
         \A u \in Urls, b \in Nat, s \in Nat :
           <<u, b, s>> \in posted' => <<u, b, s>> \in posted \/ Sent(u, s)'
  PROVE  Hist'
<1>1. OneUnsaved' BY DEF Hist, OneUnsaved, Unsaved
<1>2. SnapIsLast' BY DEF Hist, SnapIsLast
<1>3. ASSUME NEW q \in Runs PROVE UpToDate(q)'
  BY DEF Hist, UpToDate, Unsaved, Compared, UrlsOf
<1>4. PostedRecorded'
  <2> SUFFICES ASSUME NEW u \in Urls, NEW b \in Nat, NEW s \in Nat,
                      <<u, b, s>> \in posted, Of[u] \notin blurred
               PROVE  s <= crawled[u] \/ Sent(u, s)'
    BY DEF PostedRecorded
  <2>1. s <= crawled[u] \/ Sent(u, s)
    BY DEF Hist, PostedRecorded
  <2> QED BY <2>1 DEF Sent
<1> QED BY <1>1, <1>2, <1>3, <1>4 DEF Hist

LEMMA MovesHist ==
  ASSUME TypesInv, Hist, NEW r \in Runs,
         Compare(r) \/ LockMonitor(r) \/ PostRefused(r)
  PROVE  Hist'
<1>1. DOMAIN run[r] = Fields /\ DOMAIN run = Runs /\ UpToDate(r)
  BY DEF TypesInv, Types, Shapes, Hist
<1>2. CASE Compare(r)
  <2> DEFINE base == [u \in UrlsOf(run[r].of) |-> snap[u]]
  <2>1. PICK met \in BOOLEAN :
          run' = [run EXCEPT ![r].at = "compared", ![r].base = base, ![r].met = met]
    BY <1>2 DEF Compare
  <2>2. /\ run'[r].at = "compared" /\ run'[r].base = base /\ run'[r].of = run[r].of
        /\ run'[r].seen = run[r].seen /\ run'[r].over = run[r].over
        /\ \A q \in Runs \ {r} : run'[q] = run[q]
    BY <1>1, <2>1 DEF Fields
  <2>3. run[r].at = "crawled" /\ UNCHANGED <<snap, crawled, blurred, posted>>
    BY <1>2 DEF Compare, callbackVars, historyVars
  <2>4. UpToDate(r)'
    BY <1>1, <2>2, <2>3 DEF UpToDate, Unsaved, Compared, UrlsOf, Hist, SnapIsLast
  <2> QED BY <2>2, <2>3, <2>4, MoveHist DEF Unsaved
<1>3. CASE LockMonitor(r)
  <2> DEFINE next == IF run[r].met /\ ~run[r].quiet THEN "posting" ELSE "saving"
  <2>1. run' = [run EXCEPT ![r].at = next]
    BY <1>3 DEF LockMonitor
  <2>2. /\ run'[r].at = next /\ run'[r].base = run[r].base /\ run'[r].of = run[r].of
        /\ run'[r].seen = run[r].seen /\ run'[r].over = run[r].over
        /\ \A q \in Runs \ {r} : run'[q] = run[q]
    BY <1>1, <2>1 DEF Fields
  <2>3. run[r].at = "compared" /\ UNCHANGED <<snap, crawled, blurred, posted>>
    BY <1>3 DEF LockMonitor, callbackVars, historyVars
  <2>4. UpToDate(r)'
    BY <1>1, <2>2, <2>3 DEF UpToDate, Unsaved, Compared, UrlsOf
  <2> QED BY <2>2, <2>3, <2>4, MoveHist DEF Unsaved
<1>4. CASE PostRefused(r)
  <2> DEFINE next == IF run[r].tries + 1 = MaxAttempts THEN "saving" ELSE run[r].at
  <2>1. run' = [run EXCEPT ![r].tries = @ + 1, ![r].at = next]
    BY <1>4 DEF PostRefused
  <2>2. /\ run'[r].at = next /\ run'[r].base = run[r].base /\ run'[r].of = run[r].of
        /\ run'[r].seen = run[r].seen /\ run'[r].over = run[r].over
        /\ \A q \in Runs \ {r} : run'[q] = run[q]
    BY <1>1, <2>1 DEF Fields
  <2>3. run[r].at = "posting" /\ UNCHANGED <<snap, crawled, blurred, posted>>
    BY <1>4 DEF PostRefused, callbackVars, historyVars
  <2>4. UpToDate(r)'
    BY <1>1, <2>2, <2>3 DEF UpToDate, Unsaved, Compared, UrlsOf
  <2> QED BY <2>2, <2>3, <2>4, MoveHist DEF Unsaved
<1> QED BY <1>2, <1>3, <1>4

LEMMA AcceptedHist ==
  ASSUME TypesInv, Hist, NEW r \in Runs, PostAccepted(r)
  PROVE  Hist'
<1>1. DOMAIN run[r] = Fields /\ DOMAIN run = Runs /\ UpToDate(r) /\ RunOwned(r)
  BY DEF TypesInv, Types, Shapes, Hist
<1>2. /\ run[r].at = "posting" /\ UNCHANGED <<snap, crawled, blurred>>
      /\ run' = [run EXCEPT ![r].tries = @ + 1, ![r].at = "saving"]
      /\ posted' = posted \cup Delta(r)
  BY DEF PostAccepted, callbackVars
<1>3. /\ run'[r].at = "saving" /\ run'[r].base = run[r].base /\ run'[r].of = run[r].of
      /\ run'[r].seen = run[r].seen /\ run'[r].over = run[r].over
      /\ run'[r].tries > 0
      /\ \A q \in Runs \ {r} : run'[q] = run[q]
  BY <1>1, <1>2 DEF Fields, RunOwned
<1>4. UpToDate(r)'
  BY <1>1, <1>2, <1>3 DEF UpToDate, Unsaved, Compared, UrlsOf
<1>5. ASSUME NEW u \in Urls, NEW b \in Nat, NEW s \in Nat, <<u, b, s>> \in Delta(r)
      PROVE  Sent(u, s)'
  <2>1. u \in UrlsOf(run[r].of) /\ s = run[r].seen[u]
    BY <1>1, <1>2, <1>5 DEF Delta, Changed, Differs, RunOwned, Unsaved
  <2> QED BY <1>3, <2>1 DEF Sent, UrlsOf
<1> QED BY <1>2, <1>3, <1>4, <1>5, MoveHist DEF Unsaved

LEMMA CrawlHist ==
  ASSUME TypesInv, Hist, NEW r \in Runs, Crawl(r)
  PROVE  Hist'
<1> DEFINE m == run[r].of
<1>1. PICK E \in SUBSET run[r].urls :
        run' = [run EXCEPT ![r].at = "crawled",
                  ![r].seen = [u \in UrlsOf(m) |-> IF u \in E THEN page[u] ELSE 0]]
  BY DEF Crawl
<1>2. /\ run[r].at = "queued" /\ UNCHANGED <<snap, crawled, posted>>
      /\ blurred' = IF \E q \in Runs \ {r} : Unsaved(q) /\ run[q].of = m
                      THEN blurred \cup {m} ELSE blurred
  BY DEF Crawl, callbackVars
<1>3. DOMAIN run[r] = Fields /\ DOMAIN run = Runs /\ UpToDate(r)
  BY DEF TypesInv, Types, Shapes, Hist
<1>4. /\ run'[r].at = "crawled" /\ run'[r].of = m /\ run'[r].over = run[r].over
      /\ run'[r].seen = [u \in UrlsOf(m) |-> IF u \in E THEN page[u] ELSE 0]
      /\ \A q \in Runs \ {r} : run'[q] = run[q]
  BY <1>1, <1>3 DEF Fields
<1>5. blurred \subseteq blurred'
  BY <1>2
<1>6. OneUnsaved'
  BY <1>2, <1>4, <1>5 DEF Hist, OneUnsaved, Unsaved
<1>7. SnapIsLast' BY <1>2, <1>5 DEF Hist, SnapIsLast
<1>8. UpToDate(r)'
  <2>1. \A u \in UrlsOf(m) : run'[r].seen[u] = 0 \/ run'[r].seen[u] >= crawled[u]
    BY <1>4 DEF TypesInv, Types, Bounded, UrlsOf
  <2> QED BY <1>2, <1>3, <1>4, <1>5, <2>1 DEF UpToDate, Compared
<1>9. ASSUME NEW q \in Runs \ {r} PROVE UpToDate(q)'
  BY <1>2, <1>4, <1>5 DEF Hist, UpToDate, Unsaved, Compared, UrlsOf
<1>10. PostedRecorded'
  <2> SUFFICES ASSUME NEW u \in Urls, NEW b \in Nat, NEW s \in Nat,
                      <<u, b, s>> \in posted, Of[u] \notin blurred'
               PROVE  s <= crawled[u] \/ Sent(u, s)'
    BY <1>2 DEF PostedRecorded
  <2>1. s <= crawled[u] \/ Sent(u, s)
    BY <1>5 DEF Hist, PostedRecorded
  <2> QED BY <1>2, <1>4, <2>1 DEF Sent
<1> QED BY <1>6, <1>7, <1>8, <1>9, <1>10 DEF Hist

LEMMA SaveHist ==
  ASSUME TypesInv, Hist, NEW r \in Runs, SaveChanges(r)
  PROVE  Hist'
<1> DEFINE m == run[r].of
           seen == run[r].seen
           Recorded(u) == Of[u] = m /\ seen[u] > crawled[u]
           Rivals == {q \in Runs \ {r} : run[q].at = "compared" /\ run[q].of = m}
<1>1. PICK earlier \in SUBSET Rivals :
        run' = [q \in Runs |-> IF q = r THEN NoRun
                               ELSE IF q \in earlier THEN [run[q] EXCEPT !.over = TRUE]
                               ELSE run[q]]
  BY DEF SaveChanges
<1>2. /\ run[r].at = "saving"
      /\ snap' = [u \in Urls |-> IF Of[u] = m /\ ~run[r].over THEN seen[u] ELSE snap[u]]
      /\ crawled' = [u \in Urls |-> IF Recorded(u) THEN seen[u] ELSE crawled[u]]
      /\ UNCHANGED <<posted, blurred>>
  BY DEF SaveChanges, historyVars
<1>3. /\ crawled \in [Urls -> Nat] /\ RunOwned(r) /\ UpToDate(r)
      /\ \A q \in Runs : DOMAIN run[q] = Fields
  BY DEF TypesInv, Types, Shapes, Bounded, Hist
<1>4. \A u \in Urls : Of[u] = m => seen[u] \in Nat
  BY <1>2, <1>3 DEF RunOwned, Unsaved, UrlsOf
<1>5. \A u \in Urls : /\ Of[u] = m => crawled'[u] >= seen[u]
                      /\ crawled'[u] >= crawled[u]
                      /\ Of[u] # m => crawled'[u] = crawled[u] /\ snap'[u] = snap[u]
  BY <1>2, <1>3, <1>4
<1>6. run'[r] = NoRun
  BY <1>1
<1>7. ASSUME NEW q \in Runs \ {r}
      PROVE  /\ run'[q].at = run[q].at /\ run'[q].of = run[q].of
             /\ run'[q].seen = run[q].seen /\ run'[q].base = run[q].base
             /\ run'[q].tries = run[q].tries
             /\ q \notin Rivals => run'[q].over = run[q].over
  BY <1>1, <1>3 DEF Fields
<1>8. m \notin blurred => \A q \in Runs \ {r} : ~(Unsaved(q) /\ run[q].of = m)
  BY <1>2 DEF Hist, OneUnsaved, Unsaved
<1>9. OneUnsaved'
  BY <1>2, <1>6, <1>7 DEF Hist, OneUnsaved, Unsaved, NoRun
<1>10. SnapIsLast'
  <2> SUFFICES ASSUME NEW u \in Urls, Of[u] \notin blurred
               PROVE  snap'[u] \in {0, crawled'[u]}
    BY <1>2 DEF SnapIsLast
  <2>1. CASE Of[u] = m
    <3>1. ~run[r].over /\ (seen[u] = 0 \/ seen[u] >= crawled[u])
      BY <1>2, <1>3, <2>1 DEF UpToDate, Unsaved, UrlsOf
    <3> QED BY <1>2, <1>3, <1>4, <2>1, <3>1
  <2>2. CASE Of[u] # m
    BY <1>5, <2>2 DEF Hist, SnapIsLast
  <2> QED BY <2>1, <2>2
<1>11. ASSUME NEW q \in Runs PROVE UpToDate(q)'
  <2>1. CASE q = r
    BY <1>6, <2>1 DEF UpToDate, NoRun, Unsaved, Compared
  <2>2. CASE q # r /\ run[q].of = m
    BY <1>2, <1>7, <1>8, <2>2 DEF Hist, UpToDate, Unsaved, Compared
  <2>3. CASE q # r /\ run[q].of # m
    <3>1. \A u \in UrlsOf(run[q].of) : crawled'[u] = crawled[u]
      BY <1>5, <2>3 DEF UrlsOf
    <3> QED BY <1>2, <1>7, <2>3, <3>1 DEF Hist, UpToDate, Unsaved, Compared, UrlsOf
  <2> QED BY <2>1, <2>2, <2>3
<1>12. PostedRecorded'
  <2> SUFFICES ASSUME NEW u \in Urls, NEW b \in Nat, NEW s \in Nat,
                      <<u, b, s>> \in posted, Of[u] \notin blurred, ~(s <= crawled'[u])
               PROVE  Sent(u, s)'
    BY <1>2 DEF PostedRecorded
  <2>1. crawled[u] \in Nat /\ crawled'[u] \in Nat /\ ~(s <= crawled[u])
    BY <1>2, <1>3, <1>4, <1>5
  <2>2. PICK q \in Runs : /\ run[q].at = "saving" /\ run[q].tries > 0
                          /\ run[q].of = Of[u] /\ run[q].seen[u] = s
    BY <2>1 DEF Hist, PostedRecorded, Sent
  <2>3. q # r
    BY <1>5, <2>1, <2>2
  <2> QED BY <1>7, <2>2, <2>3 DEF Sent
<1> QED BY <1>9, <1>10, <1>11, <1>12 DEF Hist

LEMMA LoseHist ==
  ASSUME TypesInv, Hist, NEW r \in Runs, LoseRun(r)
  PROVE  Hist'
<1>1. run'[r] = NoRun /\ \A q \in Runs \ {r} : run'[q] = run[q]
  BY DEF LoseRun, TypesInv, Types, Shapes
<1>2. /\ UNCHANGED <<snap, crawled, posted>> /\ blurred \subseteq blurred'
      /\ run[r].tries > 0 => run[r].of \in blurred'
  BY DEF LoseRun, callbackVars
<1> QED BY <1>1, <1>2, AwayHist DEF NoRun, Unsaved

LEMMA CreateHist ==
  ASSUME TypesInv, Hist, NEW r \in Runs, Dispatch(r) \/ \E m \in Monitors : RunNow(m, r)
  PROVE  Hist'
<1>1. PICK m, U, quiet : NewRun(r, m, U, quiet)
  BY DEF Dispatch, RunNow
<1>2. /\ run[r].at = "free" /\ run'[r].at = "queued" /\ ~run'[r].over
      /\ \A q \in Runs \ {r} : run'[q] = run[q]
  BY <1>1 DEF NewRun, NoRun, TypesInv, Types, Shapes
<1>3. UNCHANGED <<snap, crawled, posted, blurred>>
  BY DEF Dispatch, RunNow, callbackVars, historyVars
<1> QED BY <1>2, <1>3, AwayHist DEF Unsaved

LEMMA ElsewhereHist ==
  ASSUME TypesInv, Hist,
         \/ \E u \in Urls : PageChanges(u) \/ HostVanishes(u)
         \/ \E m \in Monitors : Bar(m) \/ TimePasses(m) \/ Update(m) \/ Purge(m)
         \/ StartTick \/ SkipMonitor \/ Check \/ DispatchFails \/ SaveSchedule
         \/ UNCHANGED vars
  PROVE  Hist'
<1>1. UNCHANGED <<run, crawled, posted, blurred>>
  BY DEF PageChanges, HostVanishes, Bar, TimePasses, Update, Purge, StartTick,
         SkipMonitor, Check, DispatchFails, SaveSchedule, callbackVars, historyVars, vars
<1>2. \A u \in Urls : snap'[u] \in {0, snap[u]}
  BY DEF PageChanges, HostVanishes, Bar, TimePasses, Update, Purge, StartTick,
         SkipMonitor, Check, DispatchFails, SaveSchedule, callbackVars, vars
<1> QED BY <1>1, <1>2, IdleHist

LEMMA StepHist == TypesInv /\ Hist /\ [Next]_vars => Hist'
BY ElsewhereHist, CreateHist, CrawlHist, MovesHist, AcceptedHist, SaveHist, LoseHist
DEF Next, TickStep, RunStep

LEMMA AlwaysHist == Spec => [](TypesInv /\ Hist)
<1>1. Init => TypesInv /\ Hist
  BY InitTypes, InitHist
<1>2. TypesInv /\ Hist /\ [Next]_vars => (TypesInv /\ Hist)'
  BY StepTypes, StepHist
<1> QED BY <1>1, <1>2, PTL DEF Spec

\* What a callback compares with is what was recorded last, and what it has seen
\* is not older.
LEMMA ChangeIsNew ==
  ASSUME TypesInv, Hist, NEW r \in Runs, Compared(r), run[r].of \notin blurred,
         NEW u \in Changed(r)
  PROVE  /\ u \in Urls /\ Of[u] = run[r].of
         /\ run[r].seen[u] \in Nat /\ run[r].base[u] \in Nat /\ crawled[u] \in Nat
         /\ crawled[u] < run[r].seen[u]
<1>1. RunOwned(r) /\ UpToDate(r) /\ crawled \in [Urls -> Nat]
  BY DEF TypesInv, Types, Bounded, Hist
<1>2. /\ u \in UrlsOf(run[r].of) /\ run[r].seen[u] \in Nat /\ run[r].base[u] \in Nat
      /\ run[r].seen[u] # 0 /\ run[r].base[u] # 0 /\ run[r].seen[u] # run[r].base[u]
  BY <1>1 DEF Changed, Differs, RunOwned, Unsaved, Compared
<1>3. run[r].base[u] = crawled[u] /\ run[r].seen[u] >= crawled[u]
  BY <1>1, <1>2 DEF UpToDate, Unsaved, Compared
<1> QED BY <1>1, <1>2, <1>3 DEF UrlsOf

\* No change is reported twice: each one leads to a version that was not recorded.
THEOREM ChangesAreNew == Spec => HistoryMovesForward
<1>1. ASSUME TypesInv, Hist, NEW r \in Runs, SaveChanges(r), run[r].of \notin blurred
      PROVE  \A u \in Changed(r) : crawled[u] < run[r].seen[u]
  BY <1>1, ChangeIsNew DEF SaveChanges, Compared
<1>2. TypesInv /\ Hist
      => [\A r \in Runs : SaveChanges(r) /\ run[r].of \notin blurred
            => \A u \in Changed(r) : crawled[u] < run[r].seen[u]]_vars
  BY <1>1
<1> QED BY <1>2, AlwaysHist, PTL DEF HistoryMovesForward

\* No webhook is sent again for a change that one was accepted for: before the
\* commit the lock of the monitor, afterwards the snapshot, stands in the way.
THEOREM WebhooksAreSentOnce == Spec => WebhookOncePerDelta
<1>1. ASSUME TypesInv, Hist, NEW r \in Runs, PostAccepted(r), run[r].of \notin blurred
      PROVE  Delta(r) \cap posted = {}
  <2> SUFFICES ASSUME NEW u \in Changed(r),
                      <<u, run[r].base[u], run[r].seen[u]>> \in posted
               PROVE  FALSE
    BY DEF Delta
  <2>1. run[r].at = "posting" /\ Compared(r)
    BY <1>1 DEF PostAccepted, Compared
  <2>2. /\ u \in Urls /\ Of[u] = run[r].of
        /\ run[r].seen[u] \in Nat /\ run[r].base[u] \in Nat /\ crawled[u] \in Nat
        /\ crawled[u] < run[r].seen[u]
    BY <1>1, <2>1, ChangeIsNew
  <2>3. Sent(u, run[r].seen[u])
    BY <1>1, <2>2 DEF Hist, PostedRecorded
  <2>4. PICK q \in Runs : run[q].at = "saving" /\ run[q].of = run[r].of
    BY <2>2, <2>3 DEF Sent
  <2> QED BY <1>1, <2>1, <2>4 DEF Hist, OneUnsaved, Unsaved
<1>2. TypesInv /\ Hist
      => [\A r \in Runs : PostAccepted(r) /\ run[r].of \notin blurred
            => Delta(r) \cap posted = {}]_vars
  BY <1>1
<1> QED BY <1>2, AlwaysHist, PTL DEF WebhookOncePerDelta
=============================================================================
