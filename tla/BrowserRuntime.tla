--------------------------- MODULE BrowserRuntime ---------------------------
(***************************************************************************)
(* A browser that many pages share (SharedBrowserRuntime in                *)
(* app/services/acquisition/browser_pool.py).                              *)
(*                                                                         *)
(* page() takes a slot of the semaphore, sees to it that a browser runs,   *)
(* counts itself as active, opens a context and a page in it, and gives    *)
(* everything back when its caller is done.  The browser is started and    *)
(* closed under a lock: when it has served enough contexts or is too old,  *)
(* when it died, when it died under a context that was being opened, and   *)
(* when the pool evicts the runtime or shuts down.  A browser is a child   *)
(* of its driver, which is started first and stopped last.  Starting and   *)
(* stopping them may fail, and a caller may be cancelled wherever it       *)
(* waits, because its URL times out or its run is killed: processes may    *)
(* then be left behind.                                                    *)
(* A step is what the code does between two suspension points.             *)
(***************************************************************************)
EXTENDS Integers, FiniteSets

CONSTANTS
  Pages,         \* the callers of page()
  Closers,       \* the callers of close(): eviction and shutdown of the pool
  Browsers,      \* identities of drivers; a browser has that of its driver
  NoBrowser,
  NoOne,         \* nobody holds the lock
  MaxContexts,   \* max_contexts: the capacity of the semaphore
  RecycleAfter,  \* browser_max_contexts_before_recycle; 0 is never
  MaxAbandoned   \* how many processes that were left behind run at a time

ASSUME PagesAssumption    == IsFiniteSet(Pages)
ASSUME ActorsAssumption   == NoOne \notin Pages \cup Closers
                             /\ Pages \cap Closers = {}
ASSUME BrowserAssumption  == NoBrowser \notin Browsers
ASSUME CapacityAssumption == MaxContexts \in Nat \ {0}
ASSUME RecycleAssumption  == RecycleAfter \in Nat
ASSUME AbandonAssumption  == MaxAbandoned \in Nat

Actors == Pages \cup Closers

VARIABLES
  slots,     \* the value of _semaphore
  lock,      \* who holds _lock
  driver,    \* _playwright
  browser,   \* _browser
  drivers,   \* the driver processes that run
  live,      \* the browser processes that run, connected to their driver
  created,   \* _total_contexts_created, counted up to RecycleAfter
  aged,      \* whether _browser is older than browser_max_lifetime_seconds
  active,    \* _active_contexts
  at,        \* where each caller is
  ctx,       \* the browser in which a page opens or has its context
  retry,     \* the pages on the second attempt of _open_context_page
  why,       \* what the holder of the lock closes the browser for
  lost,      \* history: slots of callers cancelled in _ensure_for_page
  abandoned  \* history: running drivers whose start, launch or stop was cut short

processVars == <<drivers, live, abandoned>>
browserVars == <<driver, browser, processVars, created, aged>>
vars == <<slots, lock, browserVars, active, at, ctx, retry, why, lost>>

\* Places of a caller.  It waits for a slot (slot, reslot), for the lock of
\* ensure (lock) or of the recycling after a disconnect (disconnected).
Locked == {"starting", "launching", "closing", "stopping"}
Ensuring == {"lock"} \cup Locked
InUse == {"opening", "bootstrap", "paged"}
Places == {"idle", "slot", "reslot", "context", "disconnected"}
          \cup Ensuring \cup InUse

Causes == {"none", "recycle", "disconnect", "failed", "close"}

TypeOK ==
  /\ slots \in 0 .. MaxContexts
  /\ lock \in Actors \cup {NoOne}
  /\ driver \in Browsers \cup {NoBrowser}
  /\ browser \in {driver, NoBrowser}
  /\ drivers \subseteq Browsers
  /\ live \subseteq drivers
  /\ abandoned \subseteq drivers
  /\ created \in 0 .. RecycleAfter
  /\ aged \in BOOLEAN
  /\ active \in Nat
  /\ at \in [Actors -> Places]
  /\ ctx \in [Pages -> Browsers \cup {NoBrowser}]
  /\ retry \subseteq Pages
  /\ why \in [Actors -> Causes]
  /\ lost \in Nat

Init ==
  /\ slots = MaxContexts
  /\ lock = NoOne
  /\ driver = NoBrowser
  /\ browser = NoBrowser
  /\ drivers = {}
  /\ live = {}
  /\ abandoned = {}
  /\ created = 0
  /\ aged = FALSE
  /\ active = 0
  /\ at = [a \in Actors |-> "idle"]
  /\ ctx = [p \in Pages |-> NoBrowser]
  /\ retry = {}
  /\ why = [a \in Actors |-> "none"]
  /\ lost = 0

-----------------------------------------------------------------------------
(* Decisions.                                                              *)

\* _context_recycle_threshold_reached
ThresholdReached == RecycleAfter > 0 /\ created >= RecycleAfter

\* Mutant: contexts in use do not keep a worn browser from being recycled.
RecycleInUse ==
  /\ browser # NoBrowser
  /\ browser \notin live \/ ThresholdReached \/ aged

\* _should_recycle_browser: a disconnected browser always, a worn one only
\* when no context is active.
ShouldRecycle ==
  /\ browser # NoBrowser
  /\ \/ browser \notin live
     \/ active = 0 /\ (ThresholdReached \/ aged)

\* The fast path of _ensure.
Ready == browser # NoBrowser /\ ~ShouldRecycle

Goto(a, place) == at' = [at EXCEPT ![a] = place]

-----------------------------------------------------------------------------
(* A slot.                                                                 *)

\* _ensure returned with browser b.  A first attempt counts itself as active
\* and loads the storage state; a second one opens its context at once.
Ensured(p, b) ==
  IF p \in retry
    THEN /\ Goto(p, "opening")
         /\ ctx' = [ctx EXCEPT ![p] = b]
         /\ UNCHANGED active
    ELSE Goto(p, "context") /\ active' = active + 1 /\ UNCHANGED ctx

\* The caller took a slot and runs on to its first suspension in _ensure.
Enter(p) ==
  /\ slots' = slots - 1
  /\ IF Ready THEN Ensured(p, browser)
              ELSE Goto(p, "lock") /\ UNCHANGED <<active, ctx>>

Request(p) ==
  /\ at[p] = "idle"
  /\ Goto(p, "slot")
  /\ UNCHANGED <<slots, lock, browserVars, active, ctx, retry, why, lost>>

OthersWait(p) == \E q \in Pages \ {p} : at[q] \in {"slot", "reslot"}

\* _yield_slot_until_recycle_window: with an idle browser that is due for
\* recycling the slot is released and acquired again, behind whoever waits.
YieldsSlot(p) ==
  browser # NoBrowser /\ ThresholdReached /\ active = 0 /\ OthersWait(p)

TakeSlot(p) ==
  /\ at[p] = "slot"
  /\ slots > 0
  /\ ~YieldsSlot(p)
  /\ Enter(p)
  /\ UNCHANGED <<lock, browserVars, retry, why, lost>>

YieldSlot(p) ==
  /\ at[p] = "slot"
  /\ slots > 0
  /\ YieldsSlot(p)
  /\ Goto(p, "reslot")
  /\ UNCHANGED <<slots, lock, browserVars, active, ctx, retry, why, lost>>

TakeSlotAgain(p) ==
  /\ at[p] = "reslot"
  /\ slots > 0
  /\ Enter(p)
  /\ UNCHANGED <<lock, browserVars, retry, why, lost>>

\* Mutant: a caller that timed out releases a slot it never took.
SlotTimeoutReleasing(p) ==
  /\ at[p] \in {"slot", "reslot"}
  /\ Goto(p, "idle")
  /\ slots' = slots + 1
  /\ UNCHANGED <<lock, browserVars, active, ctx, retry, why, lost>>

\* wait_for gives up after browser_context_slot_timeout_seconds.
SlotTimeout(p) ==
  /\ at[p] \in {"slot", "reslot"}
  /\ Goto(p, "idle")
  /\ UNCHANGED <<slots, lock, browserVars, active, ctx, retry, why, lost>>

-----------------------------------------------------------------------------
(* The lock, and the browser.                                              *)

Acquire(a) == lock = NoOne /\ lock' = a

\* What becomes of the drivers D when nobody waits for them any more: each ends
\* with its browser, or runs on, abandoned, with a browser that runs already or,
\* where one was being launched, comes up.
Abandon(D, launching) ==
  \E D1 \in SUBSET D :
    \E L \in SUBSET (IF launching THEN D1 ELSE {}) :
      /\ Cardinality(abandoned \cup D1) <= MaxAbandoned
      /\ abandoned' = (abandoned \ D) \cup D1
      /\ drivers' = (drivers \ D) \cup D1
      /\ live' = (live \ (D \ D1)) \cup L

\* Mutant: whether a browser runs is not looked at again under the lock.
EnsureLockedUnchecked(p) ==
  /\ at[p] = "lock"
  /\ Acquire(p)
  /\ Goto(p, "starting")
  /\ UNCHANGED <<slots, browserVars, active, ctx, retry, why, lost>>

\* The body of _ensure once the lock is held.
EnsureLocked(p) ==
  /\ at[p] = "lock"
  /\ lock = NoOne
  /\ IF ShouldRecycle
       THEN /\ Acquire(p)
            /\ Goto(p, "closing")
            /\ why' = [why EXCEPT ![p] = "recycle"]
            /\ UNCHANGED <<active, ctx>>
       ELSE IF browser # NoBrowser
         THEN Ensured(p, browser) /\ UNCHANGED <<lock, why>>
         ELSE Acquire(p) /\ Goto(p, "starting") /\ UNCHANGED <<active, ctx, why>>
  /\ UNCHANGED <<slots, browserVars, retry, lost>>

\* The identity of a new process: one that is not in use, and which one does not
\* matter.
Unused == Browsers \ (drivers \cup {driver})
Fresh == {b \in Unused : b = CHOOSE c \in Unused : TRUE}

\* The driver has started.  One that a cancelled launch has left in _playwright
\* is no longer referred to.  A context whose browser has died keeps no name that
\* a new process takes.
Started(p) ==
  /\ at[p] = "starting"
  /\ \E b \in Fresh : /\ driver' = b
                      /\ drivers' = drivers \cup {b}
                      /\ ctx' = [q \in Pages |-> IF ctx[q] = b THEN NoBrowser ELSE ctx[q]]
  /\ Goto(p, "launching")
  /\ UNCHANGED <<slots, lock, browser, live, abandoned, created, aged, active,
                 retry, why, lost>>

\* The browser has started.
Launched(p) ==
  /\ at[p] = "launching"
  /\ driver \in drivers
  /\ browser' = driver
  /\ live' = live \cup {driver}
  /\ Ensured(p, driver)
  /\ created' = 0
  /\ aged' = FALSE
  /\ lock' = NoOne
  /\ UNCHANGED <<slots, driver, drivers, abandoned, retry, why, lost>>

Failed(p) ==
  /\ Goto(p, "closing")
  /\ why' = [why EXCEPT ![p] = "failed"]

\* Starting the driver raises, or times out: then it may run all the same.
StartFailed(p) ==
  /\ at[p] = "starting"
  /\ Failed(p)
  /\ \E b \in Fresh : Abandon({b}, FALSE)
  /\ UNCHANGED <<slots, lock, driver, browser, created, aged, active, ctx,
                 retry, lost>>

\* Launching the browser raises, or times out: then it may come up all the
\* same.  Close what there is, then raise.
LaunchFailed(p) ==
  /\ at[p] = "launching"
  /\ Failed(p)
  /\ live' \in {live, live \cup ({driver} \cap drivers)}
  /\ UNCHANGED <<slots, lock, driver, browser, drivers, abandoned, created,
                 aged, active, ctx, retry, lost>>

\* _close_locked, first half.  Closing the browser raises or times out, which
\* is only logged, or the browser is gone.
CloseBrowser(a) ==
  /\ at[a] = "closing"
  /\ live' \in {live, live \ {browser}}
  /\ Goto(a, "stopping")
  /\ UNCHANGED <<slots, lock, driver, browser, drivers, abandoned, created,
                 aged, active, ctx, retry, why, lost>>

\* _close_locked, second half.  The driver has stopped, and taken its browser
\* along, or stopping it raises or times out.  Both are forgotten either way.
Forget(a) ==
  /\ at[a] = "stopping"
  /\ Abandon({driver} \cap drivers, FALSE)
  /\ driver' = NoBrowser
  /\ browser' = NoBrowser
  /\ aged' = FALSE
  /\ why' = [why EXCEPT ![a] = "none"]
  /\ UNCHANGED created

\* _close_locked in _ensure is followed by the launch, under the same lock.
Recycled(p) ==
  /\ why[p] = "recycle"
  /\ Forget(p)
  /\ Goto(p, "starting")
  /\ UNCHANGED <<slots, lock, active, ctx, retry, lost>>

\* Mutant: ensure is called with the lock held.
EnsureUnderLock(p) ==
  /\ why[p] = "disconnect"
  /\ Forget(p)
  /\ Goto(p, "lock")
  /\ UNCHANGED <<slots, lock, active, ctx, retry, lost>>

\* After a disconnect the lock is released and ensure called again.
ClosedAfterDisconnect(p) ==
  /\ why[p] = "disconnect"
  /\ Forget(p)
  /\ lock' = NoOne
  /\ Goto(p, "lock")
  /\ UNCHANGED <<slots, active, ctx, retry, lost>>

\* The caller leaves page(): its context is closed, its slot given back.
Leave(p) ==
  /\ Goto(p, "idle")
  /\ ctx' = [ctx EXCEPT ![p] = NoBrowser]
  /\ retry' = retry \ {p}
  /\ active' = IF active > 0 THEN active - 1 ELSE 0
  /\ slots' = slots + 1

\* Mutant: only the first attempt gives its slot back.
LaunchRaisedKeepingSlot(p) ==
  /\ why[p] = "failed"
  /\ Forget(p)
  /\ lock' = NoOne
  /\ IF p \in retry THEN Leave(p)
     ELSE Goto(p, "idle") /\ UNCHANGED <<slots, active, ctx, retry>>
  /\ UNCHANGED lost

\* A launch that failed raises: _ensure_for_page releases the slot, or the
\* second attempt leaves page().
LaunchRaised(p) ==
  /\ why[p] = "failed"
  /\ Forget(p)
  /\ lock' = NoOne
  /\ IF p \in retry THEN Leave(p)
     ELSE /\ Goto(p, "idle")
          /\ slots' = slots + 1
          /\ UNCHANGED <<active, ctx, retry>>
  /\ UNCHANGED lost

\* close(), called by the pool.
RequestClose(c) ==
  /\ at[c] = "idle"
  /\ lock = NoOne
  /\ Acquire(c)
  /\ Goto(c, "closing")
  /\ why' = [why EXCEPT ![c] = "close"]
  /\ UNCHANGED <<slots, browserVars, active, ctx, retry, lost>>

Closed(c) ==
  /\ why[c] = "close"
  /\ Forget(c)
  /\ lock' = NoOne
  /\ Goto(c, "idle")
  /\ UNCHANGED <<slots, active, ctx, retry, lost>>

-----------------------------------------------------------------------------
(* A context and its page.                                                 *)

\* new_context is called on what _browser is now.
CallNewContext(p) ==
  /\ at[p] = "context"
  /\ browser # NoBrowser
  /\ Goto(p, "opening")
  /\ ctx' = [ctx EXCEPT ![p] = browser]
  /\ UNCHANGED <<slots, lock, browserVars, active, retry, why, lost>>

\* Browser runtime failed to initialize.
NoBrowserLeft(p) ==
  /\ at[p] = "context"
  /\ browser = NoBrowser
  /\ Leave(p)
  /\ UNCHANGED <<lock, browserVars, why, lost>>

ContextOpened(p) ==
  /\ at[p] = "opening"
  /\ ctx[p] \in live
  /\ created' = IF created < RecycleAfter THEN created + 1 ELSE created
  /\ Goto(p, "bootstrap")
  /\ UNCHANGED <<slots, lock, driver, browser, processVars, aged, active, ctx,
                 retry, why, lost>>

PageOpened(p) ==
  /\ at[p] = "bootstrap"
  /\ ctx[p] \in live
  /\ Goto(p, "paged")
  /\ UNCHANGED <<slots, lock, browserVars, active, ctx, retry, why, lost>>

\* The browser died under a context that was being opened: the first attempt
\* closes the context and recycles the browser.
Disconnected(p) ==
  /\ at[p] \in {"opening", "bootstrap"}
  /\ ctx[p] \notin live
  /\ p \notin retry
  /\ Goto(p, "disconnected")
  /\ ctx' = [ctx EXCEPT ![p] = NoBrowser]
  /\ retry' = retry \cup {p}
  /\ UNCHANGED <<slots, lock, browserVars, active, why, lost>>

\* _recycle_after_driver_disconnect closes whatever browser there is by now.
RecycleAfterDisconnect(p) ==
  /\ at[p] = "disconnected"
  /\ Acquire(p)
  /\ Goto(p, "closing")
  /\ why' = [why EXCEPT ![p] = "disconnect"]
  /\ UNCHANGED <<slots, browserVars, active, ctx, retry, lost>>

\* Opening the page raises or times out, or its use ends.
EndPage(p) ==
  /\ at[p] \in InUse
  /\ Leave(p)
  /\ UNCHANGED <<lock, browserVars, why, lost>>

-----------------------------------------------------------------------------
(* Cancellation.                                                           *)

Unlock(a) == lock' = IF lock = a THEN NoOne ELSE lock

\* CancelledError passes the handler in _ensure and ends _close_locked.  A driver
\* that was being started is not referred to; a browser that was being launched
\* is not, its driver is until the next start; what was being closed stays
\* referred to, also when nothing is launched with it again.
CutShort(a) ==
  \/ /\ at[a] = "starting"
     /\ \E b \in Fresh : Abandon({b}, FALSE)
  \/ /\ at[a] \in Locked \ {"starting"}
     /\ browser = NoBrowser
     /\ Abandon({driver} \cap drivers, at[a] = "launching")
  \/ /\ at[a] = "lock" \/ (at[a] \in {"closing", "stopping"} /\ browser # NoBrowser)
     /\ UNCHANGED processVars

CancelWaiting(p) ==
  /\ at[p] \in {"slot", "reslot"}
  /\ Goto(p, "idle")
  /\ UNCHANGED <<slots, lock, browserVars, active, ctx, retry, why, lost>>

\* Mutant: a caller that is not counted yet leaves like one that is.
CancelEnsuringAsPage(p) ==
  /\ at[p] \in Ensuring
  /\ Unlock(p)
  /\ why' = [why EXCEPT ![p] = "none"]
  /\ Leave(p)
  /\ CutShort(p)
  /\ UNCHANGED <<driver, browser, created, aged, lost>>

\* In _ensure_for_page "except Exception" does not see CancelledError: the
\* lock is released, the slot is not.
CancelEnsuring(p) ==
  /\ at[p] \in Ensuring
  /\ Unlock(p)
  /\ why' = [why EXCEPT ![p] = "none"]
  /\ IF p \in retry
       THEN Leave(p) /\ UNCHANGED lost
       ELSE /\ Goto(p, "idle")
            /\ lost' = lost + 1
            /\ UNCHANGED <<slots, active, ctx, retry>>
  /\ CutShort(p)
  /\ UNCHANGED <<driver, browser, created, aged>>

CancelPage(p) ==
  /\ at[p] \in InUse \cup {"context", "disconnected"}
  /\ Leave(p)
  /\ UNCHANGED <<lock, browserVars, why, lost>>

\* The shutdown of the pool cancels a cleanup that takes too long.
CancelClose(c) ==
  /\ at[c] \in Locked
  /\ Unlock(c)
  /\ Goto(c, "idle")
  /\ why' = [why EXCEPT ![c] = "none"]
  /\ CutShort(c)
  /\ UNCHANGED <<slots, driver, browser, created, aged, active, ctx, retry, lost>>

-----------------------------------------------------------------------------
\* A browser dies, or a driver with its browser.
Die(b) ==
  /\ live' = live \ {b}
  /\ \/ b \in live /\ UNCHANGED <<drivers, abandoned>>
     \/ b \in drivers /\ drivers' = drivers \ {b} /\ abandoned' = abandoned \ {b}
  /\ UNCHANGED <<slots, lock, driver, browser, created, aged, active, at, ctx,
                 retry, why, lost>>

\* The browser reaches its lifetime.
Age ==
  /\ browser # NoBrowser
  /\ ~aged
  /\ aged' = TRUE
  /\ UNCHANGED <<slots, lock, driver, browser, processVars, created, active, at,
                 ctx, retry, why, lost>>

TakesLock(p) == EnsureLocked(p) \/ RecycleAfterDisconnect(p)

PageStep(p) ==
  \/ TakeSlot(p) \/ YieldSlot(p) \/ TakeSlotAgain(p) \/ SlotTimeout(p)
  \/ Started(p) \/ StartFailed(p) \/ Launched(p) \/ LaunchFailed(p)
  \/ CloseBrowser(p) \/ Recycled(p)
  \/ ClosedAfterDisconnect(p) \/ LaunchRaised(p)
  \/ CallNewContext(p) \/ NoBrowserLeft(p) \/ ContextOpened(p)
  \/ PageOpened(p) \/ Disconnected(p) \/ EndPage(p)

CancelStep(p) == CancelWaiting(p) \/ CancelEnsuring(p) \/ CancelPage(p)

CloserStep(c) == CloseBrowser(c) \/ Closed(c)

Next ==
  \/ \E p \in Pages : Request(p) \/ TakesLock(p) \/ PageStep(p) \/ CancelStep(p)
  \/ \E c \in Closers : RequestClose(c) \/ CloserStep(c) \/ CancelClose(c)
  \/ \E b \in Browsers : Die(b)
  \/ Age

Spec == Init /\ [][Next]_vars

\* Starting, opening and closing have timeouts, and so has the use of a page
\* (the URL's).  asyncio.Lock serves its waiters in order, so one that waits
\* while the lock is free again and again obtains it.
Fairness ==
  /\ \A p \in Pages : WF_vars(PageStep(p)) /\ SF_vars(TakesLock(p))
  /\ \A c \in Closers : WF_vars(CloserStep(c))

FairSpec == Spec /\ Fairness

-----------------------------------------------------------------------------
(* What the runtime must guarantee.                                        *)

Holds(p) == at[p] \in Ensuring \cup InUse \cup {"context", "disconnected"}

Counted(p) == Holds(p) /\ (at[p] \in Ensuring => p \in retry)

Holders == {p \in Pages : Holds(p)}

CountedPages == {p \in Pages : Counted(p)}

\* The semaphore loses no slot and gains none, whichever way a caller leaves
\* page(), except those of callers cancelled while they start the browser
\* (_acquire_context_slot, _ensure_for_page and page).
SlotsAccounted == slots + Cardinality(Holders) + lost = MaxContexts

\* _active_contexts, by which _should_recycle_browser decides, is the number of
\* callers between their first _ensure and the end of their context, through
\* second attempts, failures and cancellations.
ActiveCounts == active = Cardinality(CountedPages)

\* A driver or a browser that runs is the one the runtime refers to, unless a
\* cancellation, a timeout or a failed stop has left it behind, and whoever starts
\* or closes one is alone in doing so: however callers meet at the lock, nothing
\* else replaces a running browser (_ensure, _close_locked).
OneBrowser ==
  /\ \A b \in drivers \ abandoned : b = driver /\ (lock = NoOne => b = browser)
  /\ \A a \in Actors : at[a] \in Locked => lock = a

\* A browser is closed for this cause under another caller's context.
ClosesUnderPage(cause) ==
  /\ browser \in live \ live'
  /\ \E a \in Actors :
       /\ at[a] \in {"closing", "stopping"} /\ at'[a] # at[a]
       /\ why[a] = cause
       /\ \E q \in Pages \ {a} : at[q] \in InUse /\ ctx[q] = browser

\* Recycling a browser that is worn or too old never takes it away from a page,
\* although other callers pass _ensure while it is decided and while the
\* browser closes (_should_recycle_browser).
PlannedRecycleSparesPages == [][~ClosesUnderPage("recycle")]_vars

\* Every call of page() ends, and its caller can try again: nobody waits for
\* the lock or a slot for ever (_ensure, _recycle_after_driver_disconnect).
PageRequestsEnd == \A p \in Pages : at[p] # "idle" ~> at[p] = "idle"

\* A browser disconnect is local to the URL that meets it: the recycling it
\* sets off does not close a browser that works for another URL
\* (_recycle_after_driver_disconnect).
DisconnectIsLocal == [][~ClosesUnderPage("disconnect")]_vars
=============================================================================
