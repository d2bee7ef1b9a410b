------------------------ MODULE BrowserRuntimeProofs ------------------------
(***************************************************************************)
(* Machine-checked proofs about BrowserRuntime, for every set of callers,  *)
(* every capacity and every recycling threshold.                           *)
(***************************************************************************)
EXTENDS BrowserRuntime, FiniteSetTheorems, TLAPS

(* The inductive invariant.                                                *)

\* Of TypeOK, what the processes are.
ProcessTypes ==
  /\ drivers \subseteq Browsers
  /\ live \subseteq drivers
  /\ abandoned \subseteq drivers

\* TypeOK without the bound on slots, which follows from SlotsAccounted.
WeakType ==
  /\ slots \in Nat
  /\ lock \in Actors \cup {NoOne}
  /\ driver \in Browsers \cup {NoBrowser}
  /\ browser \in {driver, NoBrowser}
  /\ ProcessTypes
  /\ created \in 0 .. RecycleAfter
  /\ aged \in BOOLEAN
  /\ active \in Nat
  /\ at \in [Actors -> Places]
  /\ ctx \in [Pages -> Browsers \cup {NoBrowser}]
  /\ retry \subseteq Pages
  /\ why \in [Actors -> Causes]
  /\ lost \in Nat

\* A page on its second attempt has been counted and not left since; one that
\* is about to recycle the browser is on its second attempt.
RetryCounted ==
  /\ \A p \in retry : at[p] \in Ensuring \cup InUse \cup {"disconnected"}
  /\ \A p \in Pages : at[p] = "disconnected" => p \in retry

\* What the holder of the lock may rely on: there is no browser while one is
\* started, and no driver but those left behind when one is to be started.
LockedBrowser ==
  \A a \in Actors :
    /\ at[a] \in {"starting", "launching"} => browser = NoBrowser
    /\ at[a] = "starting" => drivers \subseteq abandoned

\* Who holds the lock is at work under it.
LockHeld == \A a \in Actors : lock = a => at[a] \in Locked

\* A connected browser that is closed for recycling has no context, and is
\* still due, which keeps everybody else out of the fast path of _ensure.
RecycleDecided ==
  \A a \in Actors :
    at[a] \in {"closing", "stopping"} /\ why[a] = "recycle" /\ browser \in live
      => active = 0 /\ (ThresholdReached \/ aged)

Inv ==
  /\ WeakType
  /\ SlotsAccounted
  /\ ActiveCounts
  /\ OneBrowser
  /\ RetryCounted
  /\ LockedBrowser
  /\ LockHeld
  /\ RecycleDecided

-----------------------------------------------------------------------------
(* Counting.                                                               *)

Bit(b) == IF b THEN 1 ELSE 0

\* Two sets of pages that agree on every page but one.
LEMMA SetsDifferingAt ==
  ASSUME NEW S \in SUBSET Pages, NEW T \in SUBSET Pages, NEW p \in Pages,
         \A q \in Pages \ {p} : q \in S <=> q \in T
  PROVE  /\ Cardinality(S) \in Nat
         /\ Cardinality(T) \in Nat
         /\ Cardinality(T) + Bit(p \in S) = Cardinality(S) + Bit(p \in T)
         /\ p \in S => Cardinality(S) > 0
<1>1. IsFiniteSet(S) /\ IsFiniteSet(T)
  BY PagesAssumption, FS_Subset
<1>2. Cardinality(S) \in Nat /\ Cardinality(T) \in Nat
  BY <1>1, FS_CardinalityType
<1>3. p \in S => Cardinality(S) > 0
  BY <1>1, <1>2, FS_EmptySet
<1>4. CASE p \in S <=> p \in T
  <2>1. S = T
    BY <1>4
  <2>2. QED
    BY <2>1, <1>2, <1>3
<1>5. CASE p \in S /\ p \notin T
  <2>1. T = S \ {p}
    BY <1>5
  <2>2. Cardinality(T) = Cardinality(S) - 1
    BY <2>1, <1>1, <1>5, FS_RemoveElement
  <2>3. QED
    BY <2>2, <1>2, <1>3, <1>5 DEF Bit
<1>6. CASE p \notin S /\ p \in T
  <2>1. T = S \cup {p}
    BY <1>6
  <2>2. Cardinality(T) = Cardinality(S) + 1
    BY <2>1, <1>1, <1>6, FS_AddElement
  <2>3. QED
    BY <2>2, <1>2, <1>6 DEF Bit
<1>7. QED
  BY <1>4, <1>5, <1>6

\* An active count of zero means that nobody is counted.
LEMMA NobodyCounted ==
  ASSUME ActiveCounts
  PROVE  /\ active = 0 => \A p \in Pages : ~Counted(p)
         /\ \A p \in Pages : Counted(p) => active > 0
<1>1. IsFiniteSet(CountedPages) /\ Cardinality(CountedPages) \in Nat
  BY PagesAssumption, FS_Subset, FS_CardinalityType DEF CountedPages
<1>2. \A p \in Pages : Counted(p) => Cardinality(CountedPages) > 0
  BY <1>1, FS_EmptySet DEF CountedPages
<1>3. QED
  BY <1>1, <1>2 DEF ActiveCounts

\* What a step of page p may do to the counters: a slot, a count or a loss
\* changes exactly as the place of p does, and no other page moves.
Balanced(p) ==
  /\ \A q \in Actors \ {p} : at'[q] = at[q]
  /\ \A q \in Pages \ {p} : q \in retry' <=> q \in retry
  /\ slots' + Bit(Holds(p)') + lost' = slots + Bit(Holds(p)) + lost
  /\ active' + Bit(Counted(p)) = active + Bit(Counted(p)')

\* A balanced step keeps both accounts.
LEMMA BalancedKeepsAccounts ==
  ASSUME Inv, WeakType', NEW p \in Pages, Balanced(p)
  PROVE  SlotsAccounted' /\ ActiveCounts'
<1>1. \A q \in Pages \ {p} : q \in Actors \ {p}
  BY DEF Actors
<1>2. \A q \in Pages \ {p} : (q \in Holders <=> q \in Holders')
                              /\ (q \in CountedPages <=> q \in CountedPages')
  BY <1>1 DEF Balanced, Holders, CountedPages, Holds, Counted
<1>3. /\ Holders \in SUBSET Pages /\ Holders' \in SUBSET Pages
      /\ CountedPages \in SUBSET Pages /\ CountedPages' \in SUBSET Pages
  BY DEF Holders, CountedPages
<1>4. /\ p \in Holders <=> Holds(p)
      /\ p \in Holders' <=> Holds(p)'
      /\ p \in CountedPages <=> Counted(p)
      /\ p \in CountedPages' <=> Counted(p)'
  BY DEF Holders, CountedPages
<1>5. /\ Cardinality(Holders) \in Nat /\ Cardinality(Holders') \in Nat
      /\ Cardinality(Holders') + Bit(p \in Holders)
           = Cardinality(Holders) + Bit(p \in Holders')
  BY <1>2, <1>3, SetsDifferingAt
<1>6. /\ Cardinality(CountedPages) \in Nat /\ Cardinality(CountedPages') \in Nat
      /\ Cardinality(CountedPages') + Bit(p \in CountedPages)
           = Cardinality(CountedPages) + Bit(p \in CountedPages')
  BY <1>2, <1>3, SetsDifferingAt
<1>7. slots' + Cardinality(Holders') + lost' = MaxContexts
  <2>1. /\ slots \in Nat /\ lost \in Nat /\ slots' \in Nat /\ lost' \in Nat
        /\ slots + Cardinality(Holders) + lost = MaxContexts
    BY DEF Inv, WeakType, SlotsAccounted
  <2>2. slots' + Bit(p \in Holders') + lost' = slots + Bit(p \in Holders) + lost
    BY <1>4 DEF Balanced, Bit
  <2>3. Bit(p \in Holders) \in Nat /\ Bit(p \in Holders') \in Nat
    BY DEF Bit
  <2>4. QED
    BY <2>1, <2>2, <2>3, <1>5, CapacityAssumption
<1>8. active' = Cardinality(CountedPages')
  <2>1. active \in Nat /\ active' \in Nat /\ active = Cardinality(CountedPages)
    BY DEF Inv, WeakType, ActiveCounts
  <2>2. active' + Bit(p \in CountedPages) = active + Bit(p \in CountedPages')
    BY <1>4 DEF Balanced, Bit
  <2>3. Bit(p \in CountedPages) \in Nat /\ Bit(p \in CountedPages') \in Nat
    BY DEF Bit
  <2>4. QED
    BY <2>1, <2>2, <2>3, <1>6
<1>9. QED
  BY <1>7, <1>8 DEF SlotsAccounted, ActiveCounts

-----------------------------------------------------------------------------
(* Processes that nobody waits for any more.                               *)

\* Whatever becomes of drivers, none of them runs on without being counted as
\* left behind, and nothing else is.
LEMMA AbandonKeeps ==
  ASSUME ProcessTypes, NEW D \in SUBSET Browsers, NEW launching \in BOOLEAN,
         Abandon(D, launching)
  PROVE  /\ ProcessTypes'
         /\ drivers' \ abandoned' \subseteq (drivers \ abandoned) \ D
<1>1. PICK D1 \in SUBSET D :
        \E L \in SUBSET (IF launching THEN D1 ELSE {}) :
          /\ abandoned' = (abandoned \ D) \cup D1
          /\ drivers' = (drivers \ D) \cup D1
          /\ live' = (live \ (D \ D1)) \cup L
  BY DEF Abandon
<1>2. PICK L \in SUBSET D1 :
        /\ abandoned' = (abandoned \ D) \cup D1
        /\ drivers' = (drivers \ D) \cup D1
        /\ live' = (live \ (D \ D1)) \cup L
  BY <1>1
<1>3. QED
  BY <1>2 DEF ProcessTypes

\* So it is with who forgets driver and browser at the end of _close_locked ...
LEMMA ForgetKeeps ==
  ASSUME WeakType, NEW a \in Actors, Forget(a)
  PROVE  /\ ProcessTypes'
         /\ drivers' \ abandoned' \subseteq (drivers \ abandoned) \ {driver}
<1>1. /\ Abandon({driver} \cap drivers, FALSE) /\ ProcessTypes
      /\ {driver} \cap drivers \in SUBSET Browsers
  BY DEF Forget, WeakType, ProcessTypes
<1>2. /\ ProcessTypes'
      /\ drivers' \ abandoned' \subseteq (drivers \ abandoned) \ ({driver} \cap drivers)
  BY <1>1, AbandonKeeps
<1>3. QED
  BY <1>2

\* ... and with who is cancelled while it starts or closes them.
LEMMA CutShortKeeps ==
  ASSUME WeakType, NEW a \in Actors, CutShort(a)
  PROVE  /\ ProcessTypes'
         /\ drivers' \ abandoned' \subseteq drivers \ abandoned
         /\ at[a] \in Locked \ {"starting"} /\ browser = NoBrowser
              => drivers' \ abandoned' \subseteq (drivers \ abandoned) \ {driver}
<1>0. ProcessTypes /\ {driver} \cap drivers \in SUBSET Browsers
  BY DEF WeakType, ProcessTypes
<1>1. CASE at[a] = "starting" /\ \E b \in Fresh : Abandon({b}, FALSE)
  <2>1. PICK b \in Fresh : Abandon({b}, FALSE)
    BY <1>1
  <2>2. {b} \in SUBSET Browsers
    BY DEF Fresh, Unused
  <2>3. QED
    BY <1>0, <1>1, <2>1, <2>2, AbandonKeeps
<1>2. CASE /\ at[a] \in Locked \ {"starting"} /\ browser = NoBrowser
           /\ Abandon({driver} \cap drivers, at[a] = "launching")
  <2>1. /\ ProcessTypes'
        /\ drivers' \ abandoned' \subseteq (drivers \ abandoned) \ ({driver} \cap drivers)
    BY <1>0, <1>2, AbandonKeeps
  <2>2. QED
    BY <2>1
<1>3. CASE /\ \/ at[a] = "lock"
              \/ at[a] \in {"closing", "stopping"} /\ browser # NoBrowser
           /\ UNCHANGED processVars
  BY <1>0, <1>3 DEF processVars, ProcessTypes, Locked
<1>4. QED
  BY <1>1, <1>2, <1>3 DEF CutShort

-----------------------------------------------------------------------------
(* Type correctness.                                                       *)

\* What one action of a page may be.
PageAction(p) == Request(p) \/ TakesLock(p) \/ PageStep(p) \/ CancelStep(p)

\* What one action of a closer may be.
CloserAction(c) == RequestClose(c) \/ CloserStep(c) \/ CancelClose(c)

\* The steps of pages keep the types.
LEMMA PageTypes ==
  ASSUME WeakType, LockedBrowser, NEW p \in Pages, PageAction(p)
  PROVE  WeakType'
<1>. USE DEF WeakType, Actors, Places, Ensuring, Locked, InUse, Causes, Goto,
             browserVars, processVars, ProcessTypes
<1>. p \in Actors
  OBVIOUS
<1>1. CASE Request(p)
  BY <1>1 DEF Request
<1>2. CASE EnsureLocked(p)
  BY <1>2 DEF EnsureLocked, Ensured, Acquire
<1>3. CASE RecycleAfterDisconnect(p)
  BY <1>3 DEF RecycleAfterDisconnect, Acquire
<1>4. CASE TakeSlot(p)
  BY <1>4 DEF TakeSlot, Enter, Ensured, Ready
<1>5. CASE YieldSlot(p)
  BY <1>5 DEF YieldSlot
<1>6. CASE TakeSlotAgain(p)
  BY <1>6 DEF TakeSlotAgain, Enter, Ensured, Ready
<1>7. CASE SlotTimeout(p)
  BY <1>7 DEF SlotTimeout
<1>8. CASE Launched(p)
  <2>1. driver \in drivers /\ Ensured(p, driver)
    BY <1>8 DEF Launched
  <2>2. /\ slots' = slots /\ lost' = lost /\ retry' = retry /\ why' = why
        /\ created' = 0 /\ aged' = FALSE /\ lock' = NoOne
        /\ driver' = driver /\ browser' = driver /\ ProcessTypes'
    BY <1>8, <2>1 DEF Launched
  <2>3. /\ at' \in [Actors -> Places]
        /\ ctx' \in [Pages -> Browsers \cup {NoBrowser}]
        /\ active' \in Nat
    BY <2>1 DEF Ensured
  <2>4. created' \in 0 .. RecycleAfter
    BY <2>2, RecycleAssumption
  <2>5. QED
    BY <2>1, <2>2, <2>3, <2>4
<1>9. CASE LaunchFailed(p)
  BY <1>9 DEF LaunchFailed, Failed
<1>10. CASE CloseBrowser(p)
  BY <1>10 DEF CloseBrowser
<1>11. CASE Recycled(p)
  <2>1. ProcessTypes'
    BY <1>11, ForgetKeeps DEF Recycled
  <2>2. QED
    BY <1>11, <2>1 DEF Recycled, Forget
<1>12. CASE ClosedAfterDisconnect(p)
  <2>1. ProcessTypes'
    BY <1>12, ForgetKeeps DEF ClosedAfterDisconnect
  <2>2. QED
    BY <1>12, <2>1 DEF ClosedAfterDisconnect, Forget
<1>13. CASE LaunchRaised(p)
  <2>1. /\ driver' = NoBrowser /\ browser' = NoBrowser /\ aged' = FALSE
        /\ lock' = NoOne /\ created' = created /\ lost' = lost
        /\ why' = [why EXCEPT ![p] = "none"] /\ at' = [at EXCEPT ![p] = "idle"]
        /\ ProcessTypes'
    BY <1>13, ForgetKeeps DEF LaunchRaised, Forget, Leave
  <2>2. /\ slots' \in Nat /\ active' \in Nat /\ retry' \subseteq Pages
        /\ ctx' \in [Pages -> Browsers \cup {NoBrowser}]
    BY <1>13 DEF LaunchRaised, Leave
  <2>3. QED
    BY <2>1, <2>2
<1>14. CASE CallNewContext(p)
  BY <1>14 DEF CallNewContext
<1>15. CASE NoBrowserLeft(p)
  BY <1>15 DEF NoBrowserLeft, Leave
<1>16. CASE ContextOpened(p)
  BY <1>16, RecycleAssumption DEF ContextOpened
<1>17. CASE PageOpened(p)
  BY <1>17 DEF PageOpened
<1>18. CASE Disconnected(p)
  BY <1>18 DEF Disconnected
<1>19. CASE EndPage(p)
  BY <1>19 DEF EndPage, Leave
<1>20. CASE CancelWaiting(p)
  BY <1>20 DEF CancelWaiting
<1>21. CASE CancelEnsuring(p)
  <2>1. ProcessTypes'
    BY <1>21, CutShortKeeps DEF CancelEnsuring
  <2>2. QED
    BY <1>21, <2>1 DEF CancelEnsuring, Unlock, Leave
<1>22. CASE CancelPage(p)
  BY <1>22 DEF CancelPage, Leave
<1>23. CASE Started(p)
  <2>1. PICK b \in Fresh :
          /\ driver' = b /\ drivers' = drivers \cup {b}
          /\ ctx' = [q \in Pages |-> IF ctx[q] = b THEN NoBrowser ELSE ctx[q]]
    BY <1>23 DEF Started
  <2>2. b \in Browsers /\ live' = live /\ abandoned' = abandoned
    BY <1>23 DEF Started, Fresh, Unused
  <2>3. ProcessTypes' /\ ctx' \in [Pages -> Browsers \cup {NoBrowser}]
    BY <2>1, <2>2
  <2>4. browser' \in {driver', NoBrowser}
    BY <1>23 DEF Started, LockedBrowser
  <2>5. QED
    BY <1>23, <2>1, <2>2, <2>3, <2>4 DEF Started
<1>24. CASE StartFailed(p)
  <2>1. PICK b \in Fresh : Abandon({b}, FALSE)
    BY <1>24 DEF StartFailed
  <2>2. ProcessTypes'
    BY <2>1, AbandonKeeps DEF Fresh, Unused
  <2>3. QED
    BY <1>24, <2>2 DEF StartFailed, Failed
<1>25. QED
  BY <1>1, <1>2, <1>3, <1>4, <1>5, <1>6, <1>7, <1>8, <1>9, <1>10, <1>11,
     <1>12, <1>13, <1>14, <1>15, <1>16, <1>17, <1>18, <1>19, <1>20, <1>21,
     <1>22, <1>23, <1>24
     DEF PageAction, TakesLock, PageStep, CancelStep

\* The steps of closers and of the browser itself keep the types.
LEMMA OtherTypes ==
  ASSUME WeakType,
         \/ \E c \in Closers : CloserAction(c)
         \/ \E b \in Browsers : Die(b)
         \/ Age
         \/ UNCHANGED vars
  PROVE  WeakType'
<1>. USE DEF WeakType, Actors, Places, Ensuring, Locked, InUse, Causes, Goto,
             browserVars, processVars, ProcessTypes
<1>1. ASSUME NEW c \in Closers, CloserAction(c) PROVE WeakType'
  <2>1. CASE RequestClose(c)
    BY <2>1 DEF RequestClose, Acquire
  <2>2. CASE CloseBrowser(c)
    BY <2>2 DEF CloseBrowser
  <2>3. CASE Closed(c)
    <3>1. ProcessTypes'
      BY <2>3, ForgetKeeps DEF Closed
    <3>2. QED
      BY <2>3, <3>1 DEF Closed, Forget
  <2>4. CASE CancelClose(c)
    <3>1. ProcessTypes'
      BY <2>4, CutShortKeeps DEF CancelClose
    <3>2. QED
      BY <2>4, <3>1 DEF CancelClose, Unlock
  <2>5. QED
    BY <1>1, <2>1, <2>2, <2>3, <2>4 DEF CloserAction, CloserStep
<1>2. ASSUME NEW b \in Browsers, Die(b) PROVE WeakType'
  BY <1>2 DEF Die
<1>3. CASE Age
  BY <1>3 DEF Age
<1>4. CASE UNCHANGED vars
  BY <1>4 DEF vars
<1>5. QED
  BY <1>1, <1>2, <1>3, <1>4

-----------------------------------------------------------------------------
(* The accounts of slots and active contexts.                              *)

\* A page that leaves page() is a holder and counted, and ends as neither.
LEMMA LeaveBalances ==
  ASSUME Inv, NEW p \in Pages, Leave(p), Counted(p), lost' = lost
  PROVE  Balanced(p)
<1>1. at' = [at EXCEPT ![p] = "idle"] /\ at \in [Actors -> Places] /\ p \in Actors
  BY DEF Leave, Goto, Inv, WeakType, Actors
<1>2. Holds(p) /\ ~Holds(p)' /\ ~Counted(p)'
  BY <1>1 DEF Counted, Holds, Ensuring, InUse, Locked
<1>3. active > 0 /\ active \in Nat /\ slots \in Nat /\ lost \in Nat
  BY NobodyCounted DEF Inv, WeakType
<1>4. active' = active - 1 /\ slots' = slots + 1
  BY <1>3 DEF Leave
<1>5. QED
  BY <1>1, <1>2, <1>3, <1>4 DEF Balanced, Bit, Leave

\* _ensure returns: a first attempt is counted from here, a second one was.
LEMMA EnsuredBalances ==
  ASSUME Inv, NEW p \in Pages, NEW b, Ensured(p, b), retry' = retry,
         lost' = lost,
         \/ at[p] \in Ensuring /\ slots' = slots
         \/ at[p] \in {"slot", "reslot"} /\ slots' = slots - 1 /\ slots > 0
  PROVE  Balanced(p)
<1>1. at \in [Actors -> Places] /\ p \in Actors
  BY DEF Inv, WeakType, Actors
<1>2. active \in Nat /\ slots \in Nat /\ lost \in Nat
  BY DEF Inv, WeakType
<1>3. CASE p \in retry
  <2>1. at[p] \in Ensuring /\ slots' = slots
    BY <1>3 DEF Inv, RetryCounted, Ensuring, InUse, Locked
  <2>2. at' = [at EXCEPT ![p] = "opening"] /\ active' = active
    BY <1>3 DEF Ensured, Goto
  <2>3. Holds(p) /\ Counted(p) /\ Holds(p)' /\ Counted(p)'
    BY <1>1, <1>3, <2>1, <2>2 DEF Counted, Holds, Ensuring, InUse, Locked
  <2>4. QED
    BY <1>1, <1>2, <2>1, <2>2, <2>3 DEF Balanced, Bit
<1>4. CASE p \notin retry
  <2>1. at' = [at EXCEPT ![p] = "context"] /\ active' = active + 1
    BY <1>4 DEF Ensured, Goto
  <2>2. ~Counted(p) /\ Holds(p)' /\ Counted(p)'
    BY <1>1, <1>4, <2>1 DEF Counted, Holds, Ensuring, InUse, Locked
  <2>3. CASE at[p] \in Ensuring /\ slots' = slots
    <3>1. Holds(p)
      BY <2>3 DEF Holds
    <3>2. QED
      BY <1>1, <1>2, <2>1, <2>2, <2>3, <3>1 DEF Balanced, Bit
  <2>4. CASE at[p] \in {"slot", "reslot"} /\ slots' = slots - 1 /\ slots > 0
    <3>1. ~Holds(p)
      BY <2>4 DEF Holds, Ensuring, InUse, Locked
    <3>2. QED
      BY <1>1, <1>2, <2>1, <2>2, <2>4, <3>1 DEF Balanced, Bit
  <2>5. QED
    BY <2>3, <2>4
<1>5. QED
  BY <1>3, <1>4

\* A caller that took a slot either passes _ensure or waits for the lock.
LEMMA EnterBalances ==
  ASSUME Inv, NEW p \in Pages, Enter(p), at[p] \in {"slot", "reslot"},
         slots > 0, retry' = retry, lost' = lost
  PROVE  Balanced(p)
<1>1. CASE Ready
  BY <1>1, EnsuredBalances DEF Enter
<1>2. CASE ~Ready
  <2>1. at \in [Actors -> Places] /\ p \in Actors
    BY DEF Inv, WeakType, Actors
  <2>2. at' = [at EXCEPT ![p] = "lock"] /\ active' = active /\ slots' = slots - 1
    BY <1>2 DEF Enter, Goto
  <2>3. p \notin retry
    BY DEF Inv, RetryCounted, Ensuring, InUse, Locked
  <2>4. ~Holds(p) /\ ~Counted(p) /\ Holds(p)' /\ ~Counted(p)'
    BY <2>1, <2>2, <2>3 DEF Counted, Holds, Ensuring, InUse, Locked
  <2>5. QED
    BY <2>1, <2>2, <2>4 DEF Balanced, Bit, Inv, WeakType
<1>3. QED
  BY <1>1, <1>2

\* A step that keeps a page in the same class changes no account.
LEMMA MoveBalances ==
  ASSUME Inv, NEW p \in Pages, NEW place, Goto(p, place),
         slots' = slots, lost' = lost, active' = active,
         \A q \in Pages \ {p} : q \in retry' <=> q \in retry,
         \/ /\ at[p] \in Ensuring /\ place \in Ensuring
            /\ p \in retry' <=> p \in retry
         \/ /\ at[p] \in InUse \cup {"context", "disconnected"}
            /\ place \in InUse \cup {"context", "disconnected"}
         \/ /\ at[p] = "disconnected" /\ p \in retry'
            /\ place \in Ensuring
         \/ /\ at[p] \in {"idle", "slot", "reslot"}
            /\ place \in {"idle", "slot", "reslot"}
  PROVE  Balanced(p)
<1>1. at' = [at EXCEPT ![p] = place] /\ at \in [Actors -> Places] /\ p \in Actors
  BY DEF Goto, Inv, WeakType, Actors
<1>2. (Holds(p) <=> Holds(p)') /\ (Counted(p) <=> Counted(p)')
  BY <1>1 DEF Counted, Holds, Ensuring, InUse, Locked
<1>3. Bit(Holds(p)) = Bit(Holds(p)') /\ Bit(Counted(p)) = Bit(Counted(p)')
  BY <1>2 DEF Bit
<1>4. QED
  BY <1>1, <1>3 DEF Balanced

\* A holder that is not counted ends page(): its slot is released, or lost.
LEMMA AbortBalances ==
  ASSUME Inv, NEW p \in Pages, at[p] \in Ensuring, p \notin retry,
         Goto(p, "idle"), active' = active, retry' = retry,
         \/ slots' = slots + 1 /\ lost' = lost
         \/ slots' = slots /\ lost' = lost + 1
  PROVE  Balanced(p)
<1>1. at' = [at EXCEPT ![p] = "idle"] /\ at \in [Actors -> Places] /\ p \in Actors
  BY DEF Goto, Inv, WeakType, Actors
<1>2. Holds(p) /\ ~Counted(p) /\ ~Holds(p)' /\ ~Counted(p)'
  BY <1>1 DEF Counted, Holds, Ensuring, InUse, Locked
<1>3. QED
  BY <1>1, <1>2 DEF Balanced, Bit, Inv, WeakType

\* Every step of a page is balanced.
LEMMA PageBalances ==
  ASSUME Inv, NEW p \in Pages, PageAction(p)
  PROVE  Balanced(p)
<1>. p \in Actors
  BY DEF Actors
<1>1. CASE Request(p)
  BY <1>1, MoveBalances DEF Request
<1>2. CASE EnsureLocked(p)
  <2>1. CASE ShouldRecycle
    BY <1>2, <2>1, MoveBalances DEF EnsureLocked, Ensuring, Locked
  <2>2. CASE ~ShouldRecycle /\ browser # NoBrowser
    BY <1>2, <2>2, EnsuredBalances DEF EnsureLocked, Ensuring
  <2>3. CASE ~ShouldRecycle /\ browser = NoBrowser
    BY <1>2, <2>3, MoveBalances DEF EnsureLocked, Ensuring, Locked
  <2>4. QED
    BY <2>1, <2>2, <2>3
<1>3. CASE RecycleAfterDisconnect(p)
  <2>1. p \in retry
    BY <1>3 DEF RecycleAfterDisconnect, Inv, RetryCounted
  <2>2. QED
    BY <1>3, <2>1, MoveBalances DEF RecycleAfterDisconnect, Ensuring, Locked
<1>4. CASE TakeSlot(p)
  BY <1>4, EnterBalances DEF TakeSlot
<1>5. CASE YieldSlot(p)
  BY <1>5, MoveBalances DEF YieldSlot
<1>6. CASE TakeSlotAgain(p)
  BY <1>6, EnterBalances DEF TakeSlotAgain
<1>7. CASE SlotTimeout(p)
  BY <1>7, MoveBalances DEF SlotTimeout
<1>8. CASE Launched(p)
  BY <1>8, EnsuredBalances DEF Launched, Ensuring, Locked
<1>9. CASE LaunchFailed(p)
  BY <1>9, MoveBalances DEF LaunchFailed, Failed, Ensuring, Locked
<1>10. CASE CloseBrowser(p)
  BY <1>10, MoveBalances DEF CloseBrowser, Ensuring, Locked
<1>11. CASE Recycled(p)
  BY <1>11, MoveBalances DEF Recycled, Forget, Ensuring, Locked
<1>12. CASE ClosedAfterDisconnect(p)
  BY <1>12, MoveBalances DEF ClosedAfterDisconnect, Forget, Ensuring, Locked
<1>13. CASE LaunchRaised(p)
  <2>1. at[p] \in Ensuring /\ Holds(p)
    BY <1>13 DEF LaunchRaised, Forget, Holds, Ensuring, Locked
  <2>2. CASE p \in retry
    BY <1>13, <2>1, <2>2, LeaveBalances DEF LaunchRaised, Counted
  <2>3. CASE p \notin retry
    BY <1>13, <2>1, <2>3, AbortBalances DEF LaunchRaised
  <2>4. QED
    BY <2>2, <2>3
<1>14. CASE CallNewContext(p)
  BY <1>14, MoveBalances DEF CallNewContext, InUse
<1>15. CASE NoBrowserLeft(p)
  BY <1>15, LeaveBalances
     DEF NoBrowserLeft, Counted, Holds, Ensuring, Locked
<1>16. CASE ContextOpened(p)
  BY <1>16, MoveBalances DEF ContextOpened, InUse
<1>17. CASE PageOpened(p)
  BY <1>17, MoveBalances DEF PageOpened, InUse
<1>18. CASE Disconnected(p)
  BY <1>18, MoveBalances DEF Disconnected, InUse
<1>19. CASE EndPage(p)
  BY <1>19, LeaveBalances
     DEF EndPage, Counted, Holds, Ensuring, Locked, InUse
<1>20. CASE CancelWaiting(p)
  BY <1>20, MoveBalances DEF CancelWaiting
<1>21. CASE CancelEnsuring(p)
  <2>1. at[p] \in Ensuring /\ Holds(p)
    BY <1>21 DEF CancelEnsuring, Holds
  <2>2. CASE p \in retry
    BY <1>21, <2>1, <2>2, LeaveBalances DEF CancelEnsuring, Counted
  <2>3. CASE p \notin retry
    BY <1>21, <2>1, <2>3, AbortBalances DEF CancelEnsuring
  <2>4. QED
    BY <2>2, <2>3
<1>22. CASE CancelPage(p)
  BY <1>22, LeaveBalances
     DEF CancelPage, Counted, Holds, Ensuring, Locked, InUse
<1>23. CASE Started(p)
  BY <1>23, MoveBalances DEF Started, Ensuring, Locked
<1>24. CASE StartFailed(p)
  BY <1>24, MoveBalances DEF StartFailed, Failed, Ensuring, Locked
<1>25. QED
  BY <1>1, <1>2, <1>3, <1>4, <1>5, <1>6, <1>7, <1>8, <1>9, <1>10, <1>11,
     <1>12, <1>13, <1>14, <1>15, <1>16, <1>17, <1>18, <1>19, <1>20, <1>21,
     <1>22, <1>23, <1>24
     DEF PageAction, TakesLock, PageStep, CancelStep

\* The other steps move no page and touch no counter.
LEMMA OthersKeepAccounts ==
  ASSUME Inv,
         \/ \E c \in Closers : CloserAction(c)
         \/ \E b \in Browsers : Die(b)
         \/ Age
         \/ UNCHANGED vars
  PROVE  SlotsAccounted' /\ ActiveCounts'
<1>1. /\ slots' = slots /\ lost' = lost /\ active' = active /\ retry' = retry
      /\ \A p \in Pages : at'[p] = at[p]
  <2>1. ASSUME NEW c \in Closers, CloserAction(c)
        PROVE  /\ slots' = slots /\ lost' = lost /\ active' = active
               /\ retry' = retry /\ \E place : at' = [at EXCEPT ![c] = place]
    BY <2>1 DEF CloserAction, CloserStep, RequestClose, CloseBrowser, Closed,
                CancelClose, Forget, Goto
  <2>2. \A c \in Closers, p \in Pages : c # p /\ p \in Actors
    BY ActorsAssumption DEF Actors
  <2>3. CASE \E c \in Closers : CloserAction(c)
    BY <2>1, <2>2, <2>3 DEF Inv, WeakType
  <2>4. CASE ~ \E c \in Closers : CloserAction(c)
    BY <2>4 DEF Die, Age, vars
  <2>5. QED
    BY <2>3, <2>4
<1>2. Holders' = Holders /\ CountedPages' = CountedPages
  BY <1>1 DEF Holders, CountedPages, Counted, Holds
<1>3. QED
  BY <1>1, <1>2 DEF Inv, SlotsAccounted, ActiveCounts

-----------------------------------------------------------------------------
(* The second attempt, the lock and the decision to recycle.               *)

\* Where a step of page p leads, what it does to retry, and that it moves
\* nobody else.
LEMMA RetryStep ==
  ASSUME Inv, NEW p \in Pages, PageAction(p)
  PROVE  RetryCounted'
<1>1. /\ p \in Actors /\ at \in [Actors -> Places] /\ retry \subseteq Pages
      /\ \A q \in Pages \ {p} : q \in Actors \ {p}
  BY DEF Inv, WeakType, Actors
<1>2. \A q \in Pages \ {p} : at'[q] = at[q] /\ (q \in retry' <=> q \in retry)
  BY <1>1, PageBalances DEF Balanced
<1>3. /\ p \in retry' => at'[p] \in Ensuring \cup InUse \cup {"disconnected"}
      /\ at'[p] = "disconnected" => p \in retry'
  <2>. USE <1>1 DEF Inv, RetryCounted, Ensuring, InUse, Locked, Goto, Leave,
                    Ensured
  <2>1. CASE Request(p) \/ TakesLock(p)
    BY <2>1 DEF Request, TakesLock, EnsureLocked, RecycleAfterDisconnect
  <2>2. CASE TakeSlot(p) \/ YieldSlot(p) \/ TakeSlotAgain(p) \/ SlotTimeout(p)
    BY <2>2 DEF TakeSlot, YieldSlot, TakeSlotAgain, SlotTimeout, Enter
  <2>3. CASE \/ Started(p) \/ StartFailed(p)
             \/ Launched(p) \/ LaunchFailed(p) \/ CloseBrowser(p)
    BY <2>3 DEF Started, StartFailed, Launched, LaunchFailed, Failed, CloseBrowser
  <2>4. CASE Recycled(p) \/ ClosedAfterDisconnect(p) \/ LaunchRaised(p)
    BY <2>4 DEF Recycled, ClosedAfterDisconnect, LaunchRaised, Forget
  <2>5. CASE CallNewContext(p) \/ NoBrowserLeft(p) \/ ContextOpened(p)
    BY <2>5 DEF CallNewContext, NoBrowserLeft, ContextOpened
  <2>6. CASE PageOpened(p) \/ Disconnected(p) \/ EndPage(p)
    BY <2>6 DEF PageOpened, Disconnected, EndPage
  <2>7. CASE CancelStep(p)
    BY <2>7 DEF CancelStep, CancelWaiting, CancelEnsuring, CancelPage
  <2>8. QED
    BY <2>1, <2>2, <2>3, <2>4, <2>5, <2>6, <2>7 DEF PageAction, PageStep
<1>4. retry' \subseteq Pages
  BY PageTypes DEF Inv, WeakType
<1>5. QED
  BY <1>2, <1>3, <1>4 DEF Inv, RetryCounted

LockInv == OneBrowser /\ LockedBrowser /\ LockHeld /\ RecycleDecided

\* A step of an actor that is not at work under the lock before or after, and
\* leaves browser and causes alone, disturbs nobody who is: contexts are
\* only ever counted up, and nobody becomes active on a browser that is due.
LEMMA QuietStep ==
  ASSUME Inv, NEW a \in Actors, NEW place \in Places \ Locked,
         at[a] \notin Locked, Goto(a, place), lock' = lock,
         driver' = driver, browser' = browser, drivers' = drivers,
         live' = live, abandoned' = abandoned, aged' = aged,
         \A q \in Actors \ {a} : why'[q] = why[q],
         created' \in Nat, created' >= created,
         active' = 0 \/ active # 0 \/ Ready
  PROVE  LockInv'
<1>1. /\ at' = [at EXCEPT ![a] = place] /\ at \in [Actors -> Places]
      /\ \A q \in Actors : at'[q] \in Locked => at'[q] = at[q] /\ q # a
      /\ \A q \in Actors : at[q] \in Locked => at'[q] = at[q]
  BY DEF Goto, Inv, WeakType
<1>2. OneBrowser'
  BY <1>1 DEF Inv, OneBrowser
<1>3. LockedBrowser'
  BY <1>1 DEF Inv, LockedBrowser, Locked
<1>4. LockHeld'
  BY <1>1 DEF Inv, LockHeld
<1>5. RecycleDecided'
  <2>1. ThresholdReached => ThresholdReached'
    BY RecycleAssumption DEF ThresholdReached, Inv, WeakType
  <2>2. SUFFICES ASSUME NEW q \in Actors, at'[q] \in {"closing", "stopping"},
                        why[q] = "recycle", browser \in live
                 PROVE  active' = 0 /\ (ThresholdReached' \/ aged)
    BY <1>1 DEF RecycleDecided, Locked
  <2>3. active = 0 /\ (ThresholdReached \/ aged)
    BY <1>1, <2>2 DEF Inv, RecycleDecided, Locked
  <2>4. ~Ready
    BY <2>3 DEF Ready, ShouldRecycle
  <2>5. QED
    BY <2>1, <2>3, <2>4
<1>6. QED
  BY <1>2, <1>3, <1>4, <1>5 DEF LockInv

\* Nobody works under a lock that is free, and nobody but its holder.
LEMMA OnlyHolder ==
  ASSUME Inv
  PROVE  /\ lock = NoOne => \A q \in Actors : at[q] \notin Locked
         /\ \A a, q \in Actors :
              at[a] \in Locked /\ at[q] \in Locked => a = q
BY ActorsAssumption DEF Inv, OneBrowser, Actors

\* The holder of the lock, or who takes it while it is free, moves on: under the
\* lock, or with the lock released.  What it then relies on, and that no driver
\* runs on unnoticed, is all there is to show.
LEMMA HolderStep ==
  ASSUME Inv, NEW a \in Actors, NEW place \in Places, Goto(a, place),
         lock = NoOne \/ at[a] \in Locked,
         lock' = (IF place \in Locked THEN a ELSE NoOne),
         \A b \in drivers' \ abandoned' :
           b = driver' /\ (place \notin Locked => b = browser'),
         place \in {"starting", "launching"} => browser' = NoBrowser,
         place = "starting" => drivers' \subseteq abandoned',
         place \in {"closing", "stopping"} /\ why'[a] = "recycle" /\ browser' \in live'
           => active' = 0 /\ (ThresholdReached' \/ aged')
  PROVE  LockInv'
<1>1. /\ at' = [at EXCEPT ![a] = place] /\ at \in [Actors -> Places]
      /\ \A q \in Actors \ {a} : at'[q] \notin Locked
      /\ a # NoOne
  BY OnlyHolder, ActorsAssumption DEF Goto, Inv, WeakType, Actors
<1>2. OneBrowser'
  BY <1>1 DEF OneBrowser
<1>3. LockedBrowser'
  BY <1>1 DEF LockedBrowser, Locked
<1>4. LockHeld'
  BY <1>1, ActorsAssumption DEF LockHeld, Actors
<1>5. RecycleDecided'
  BY <1>1 DEF RecycleDecided, Locked
<1>6. QED
  BY <1>2, <1>3, <1>4, <1>5 DEF LockInv

\* Who is cancelled at work under the lock releases it, and no driver runs on
\* but those referred to together with their browser, and those left behind.
LEMMA CancelledUnderLock ==
  ASSUME Inv, NEW a \in Actors, at[a] \in Locked, CutShort(a), Unlock(a),
         Goto(a, "idle"), UNCHANGED <<driver, browser>>
  PROVE  LockInv'
<1>1. lock = a /\ lock' = NoOne
  BY DEF Inv, OneBrowser, Unlock
<1>2. /\ drivers' \ abandoned' \subseteq drivers \ abandoned
      /\ at[a] \in Locked \ {"starting"} /\ browser = NoBrowser
           => drivers' \ abandoned' \subseteq (drivers \ abandoned) \ {driver}
  BY CutShortKeeps DEF Inv
<1>3. /\ \A b \in drivers \ abandoned : b = driver
      /\ at[a] = "starting" => drivers \subseteq abandoned
      /\ browser \in {driver, NoBrowser}
  BY DEF Inv, OneBrowser, LockedBrowser, WeakType
<1>4. \A b \in drivers' \ abandoned' : b = driver /\ b = browser
  BY <1>2, <1>3
<1>5. QED
  BY <1>1, <1>4, HolderStep DEF Places, Locked

\* Closing the browser changes nothing that the holder of the lock relies on.
LEMMA ClosingStep ==
  ASSUME Inv, NEW a \in Actors, CloseBrowser(a)
  PROVE  LockInv'
<1>1. /\ at[a] = "closing" /\ lock = a /\ lock' = lock /\ Goto(a, "stopping")
      /\ UNCHANGED <<driver, browser, drivers, abandoned, created, aged, active, why>>
      /\ live' \subseteq live
  BY DEF CloseBrowser, Inv, OneBrowser, Locked
<1>2. \A b \in drivers \ abandoned : b = driver
  BY DEF Inv, OneBrowser
<1>3. why[a] = "recycle" /\ browser \in live
        => active = 0 /\ (ThresholdReached \/ aged)
  BY <1>1 DEF Inv, RecycleDecided
<1>4. why'[a] = "recycle" /\ browser' \in live'
        => active' = 0 /\ (ThresholdReached' \/ aged')
  BY <1>1, <1>3 DEF ThresholdReached
<1>5. QED
  BY <1>1, <1>2, <1>4, HolderStep DEF Places, Ensuring, Locked

\* Leaving page() is quiet: it only ever lowers the count of active contexts.
LEMMA LeaveActive ==
  ASSUME Inv, NEW p \in Pages, Leave(p)
  PROVE  active' = 0 \/ active # 0
BY DEF Leave, Inv, WeakType

\* The steps of pages keep LockInv.
LEMMA PageLock ==
  ASSUME Inv, WeakType', NEW p \in Pages, PageAction(p)
  PROVE  LockInv'
<1>. p \in Actors
  BY DEF Actors
<1>0. /\ created \in Nat /\ created' \in Nat /\ active \in Nat
      /\ driver \in Browsers \cup {NoBrowser} /\ browser \in {driver, NoBrowser}
      /\ drivers \subseteq Browsers
      /\ \A b \in drivers \ abandoned : b = driver /\ (lock = NoOne => b = browser)
      /\ at[p] \in Locked <=> lock = p
      /\ at[p] \in {"starting", "launching"} => browser = NoBrowser
      /\ at[p] = "starting" => drivers \subseteq abandoned
      /\ why \in [Actors -> Causes] /\ at \in [Actors -> Places]
  BY RecycleAssumption
     DEF Inv, WeakType, ProcessTypes, OneBrowser, LockedBrowser, LockHeld
<1>. USE DEF Places, Ensuring, Locked, InUse, browserVars, processVars
<1>1. CASE Request(p)
  BY <1>0, <1>1, QuietStep DEF Request
<1>2. CASE EnsureLocked(p)
  <2>1. CASE ShouldRecycle
    <3>1. why'[p] = "recycle" /\ Goto(p, "closing") /\ lock' = p /\ lock = NoOne
      BY <1>0, <1>2, <2>1 DEF EnsureLocked, Acquire
    <3>2. UNCHANGED <<browserVars, active>>
      BY <1>2, <2>1 DEF EnsureLocked
    <3>3. browser' \in live' => active' = 0 /\ (ThresholdReached' \/ aged')
      BY <2>1, <3>2 DEF ShouldRecycle, ThresholdReached
    <3>4. QED
      BY <1>0, <3>1, <3>2, <3>3, HolderStep
  <2>2. CASE ~ShouldRecycle /\ browser # NoBrowser
    <3>1. PICK place \in {"opening", "context"} : Goto(p, place)
      BY <1>2, <2>2 DEF EnsureLocked, Ensured
    <3>2. UNCHANGED <<lock, browserVars>> /\ lock = NoOne
      BY <1>2, <2>2 DEF EnsureLocked
    <3>3. QED
      BY <1>0, <3>1, <3>2, HolderStep
  <2>3. CASE ~ShouldRecycle /\ browser = NoBrowser
    <3>1. lock = NoOne /\ lock' = p /\ Goto(p, "starting") /\ UNCHANGED browserVars
      BY <1>2, <2>3 DEF EnsureLocked, Acquire
    <3>2. drivers \subseteq abandoned
      BY <1>0, <2>3, <3>1, BrowserAssumption
    <3>3. QED
      BY <1>0, <2>3, <3>1, <3>2, HolderStep
  <2>4. QED
    BY <2>1, <2>2, <2>3
<1>3. CASE RecycleAfterDisconnect(p)
  <2>1. why'[p] = "disconnect"
    BY <1>0, <1>3 DEF RecycleAfterDisconnect
  <2>2. QED
    BY <1>0, <1>3, <2>1, HolderStep DEF RecycleAfterDisconnect, Acquire
<1>4. CASE TakeSlot(p) \/ TakeSlotAgain(p)
  <2>1. at[p] \in {"slot", "reslot"} /\ Enter(p) /\ UNCHANGED <<lock, browserVars, why>>
    BY <1>4 DEF TakeSlot, TakeSlotAgain
  <2>2. CASE Ready
    <3>1. PICK place \in {"opening", "context"} : Goto(p, place)
      BY <2>1, <2>2 DEF Enter, Ensured
    <3>2. QED
      BY <1>0, <2>1, <2>2, <3>1, QuietStep
  <2>3. CASE ~Ready
    BY <1>0, <2>1, <2>3, QuietStep DEF Enter
  <2>4. QED
    BY <2>2, <2>3
<1>5. CASE YieldSlot(p)
  BY <1>0, <1>5, QuietStep DEF YieldSlot
<1>6. CASE SlotTimeout(p)
  BY <1>0, <1>6, QuietStep DEF SlotTimeout
<1>7. CASE Started(p)
  <2>1. PICK b \in Fresh : driver' = b /\ drivers' = drivers \cup {b}
    BY <1>7 DEF Started
  <2>2. drivers' \ abandoned' \subseteq {driver'}
    BY <1>0, <1>7, <2>1 DEF Started
  <2>3. Goto(p, "launching") /\ at[p] \in Locked /\ lock' = p /\ browser' = NoBrowser
    BY <1>0, <1>7 DEF Started
  <2>4. QED
    BY <2>2, <2>3, HolderStep
<1>8. CASE StartFailed(p)
  <2>1. PICK b \in Fresh : Abandon({b}, FALSE)
    BY <1>8 DEF StartFailed
  <2>2. drivers' \subseteq abandoned'
    <3>1. {b} \in SUBSET Browsers /\ ProcessTypes
      BY DEF Fresh, Unused, Inv, WeakType
    <3>2. drivers' \ abandoned' \subseteq (drivers \ abandoned) \ {b}
      BY <2>1, <3>1, AbandonKeeps
    <3>3. QED
      BY <1>0, <1>8, <3>2 DEF StartFailed
  <2>3. /\ why'[p] = "failed" /\ Goto(p, "closing") /\ lock' = p
        /\ at[p] \in Locked
    BY <1>0, <1>8 DEF StartFailed, Failed
  <2>4. QED
    BY <2>2, <2>3, HolderStep
<1>9. CASE Launched(p)
  <2>1. PICK place \in {"opening", "context"} : Goto(p, place)
    BY <1>9 DEF Launched, Ensured
  <2>2. QED
    BY <1>0, <1>9, <2>1, HolderStep DEF Launched
<1>10. CASE LaunchFailed(p)
  <2>1. why'[p] = "failed" /\ Goto(p, "closing")
    BY <1>0, <1>10 DEF LaunchFailed, Failed
  <2>2. /\ at[p] \in Locked /\ lock' = p
        /\ UNCHANGED <<driver, drivers, abandoned>>
    BY <1>0, <1>10 DEF LaunchFailed
  <2>3. QED
    BY <1>0, <2>1, <2>2, HolderStep
<1>11. CASE CloseBrowser(p)
  BY <1>11, ClosingStep DEF Actors
<1>12. CASE Recycled(p)
  <2>1. drivers' \ abandoned' \subseteq (drivers \ abandoned) \ {driver}
    BY <1>12, ForgetKeeps DEF Recycled, Inv
  <2>2. /\ at[p] \in Locked /\ lock' = p /\ Goto(p, "starting")
        /\ browser' = NoBrowser
    BY <1>0, <1>12 DEF Recycled, Forget
  <2>3. QED
    BY <1>0, <2>1, <2>2, HolderStep
<1>13. CASE ClosedAfterDisconnect(p) \/ LaunchRaised(p)
  <2>1. drivers' \ abandoned' \subseteq (drivers \ abandoned) \ {driver}
    BY <1>13, ForgetKeeps DEF ClosedAfterDisconnect, LaunchRaised, Inv
  <2>2. /\ at[p] \in Locked /\ lock' = NoOne
        /\ Goto(p, "lock") \/ Goto(p, "idle")
    BY <1>13 DEF ClosedAfterDisconnect, LaunchRaised, Leave, Forget
  <2>3. \A b \in drivers' \ abandoned' : b = driver' /\ b = browser'
    BY <1>0, <2>1
  <2>4. QED
    BY <2>2, <2>3, HolderStep
<1>14. CASE CallNewContext(p)
  BY <1>0, <1>14, QuietStep DEF CallNewContext
<1>15. CASE NoBrowserLeft(p) \/ EndPage(p) \/ CancelPage(p)
  <2>1. /\ Leave(p) /\ UNCHANGED <<lock, browserVars, why>>
        /\ at[p] \notin Locked
    BY <1>15 DEF NoBrowserLeft, EndPage, CancelPage
  <2>2. QED
    BY <1>0, <2>1, LeaveActive, QuietStep DEF Leave
<1>16. CASE ContextOpened(p)
  BY <1>0, <1>16, QuietStep DEF ContextOpened
<1>17. CASE PageOpened(p)
  BY <1>0, <1>17, QuietStep DEF PageOpened
<1>18. CASE Disconnected(p)
  BY <1>0, <1>18, QuietStep DEF Disconnected
<1>19. CASE CancelWaiting(p)
  BY <1>0, <1>19, QuietStep DEF CancelWaiting
<1>20. CASE CancelEnsuring(p)
  <2>1. Goto(p, "idle") /\ Unlock(p) /\ CutShort(p) /\ UNCHANGED <<driver, browser>>
    BY <1>20 DEF CancelEnsuring, Leave
  <2>2. CASE at[p] \in Locked
    BY <2>1, <2>2, CancelledUnderLock
  <2>3. CASE at[p] \notin Locked
    <3>1. lock' = lock /\ \A q \in Actors \ {p} : why'[q] = why[q]
      BY <1>0, <1>20, <2>3 DEF CancelEnsuring, Unlock
    <3>2. UNCHANGED processVars
      BY <2>1, <2>3 DEF CutShort
    <3>3. active' = 0 \/ active # 0
      BY <1>20, LeaveActive DEF CancelEnsuring
    <3>4. aged' = aged /\ created' = created
      BY <1>20 DEF CancelEnsuring
    <3>5. QED
      BY <1>0, <2>1, <2>3, <3>1, <3>2, <3>3, <3>4, QuietStep
  <2>4. QED
    BY <2>2, <2>3
<1>21. QED
  BY <1>1, <1>2, <1>3, <1>4, <1>5, <1>6, <1>7, <1>8, <1>9, <1>10, <1>11,
     <1>12, <1>13, <1>14, <1>15, <1>16, <1>17, <1>18, <1>19, <1>20
     DEF PageAction, TakesLock, PageStep, CancelStep

\* The steps of closers, and what happens to the browser, keep LockInv.
LEMMA OtherLock ==
  ASSUME Inv, WeakType',
         \/ \E c \in Closers : CloserAction(c)
         \/ \E b \in Browsers : Die(b)
         \/ Age
         \/ UNCHANGED vars
  PROVE  LockInv'
<1>0. /\ why \in [Actors -> Causes] /\ at \in [Actors -> Places]
      /\ \A b \in drivers \ abandoned : b = driver /\ (lock = NoOne => b = browser)
  BY DEF Inv, WeakType, OneBrowser
<1>. USE DEF Places, Ensuring, Locked, InUse, browserVars, processVars
<1>1. ASSUME NEW c \in Closers, CloserAction(c) PROVE LockInv'
  <2>0. c \in Actors /\ (at[c] \in Locked => lock = c)
    BY DEF Actors, Inv, OneBrowser
  <2>1. CASE RequestClose(c)
    <3>1. why'[c] = "close"
      BY <1>0, <2>0, <2>1 DEF RequestClose
    <3>2. QED
      BY <1>0, <2>0, <2>1, <3>1, HolderStep DEF RequestClose, Acquire
  <2>2. CASE CloseBrowser(c)
    BY <2>0, <2>2, ClosingStep
  <2>3. CASE Closed(c)
    <3>1. drivers' \ abandoned' \subseteq (drivers \ abandoned) \ {driver}
      BY <2>0, <2>3, ForgetKeeps DEF Closed, Inv
    <3>2. at[c] \in Locked /\ lock' = NoOne /\ Goto(c, "idle")
      BY <2>3 DEF Closed, Forget
    <3>3. \A b \in drivers' \ abandoned' : b = driver' /\ b = browser'
      BY <1>0, <3>1
    <3>4. QED
      BY <2>0, <3>2, <3>3, HolderStep
  <2>4. CASE CancelClose(c)
    BY <2>0, <2>4, CancelledUnderLock DEF CancelClose
  <2>5. QED
    BY <1>1, <2>1, <2>2, <2>3, <2>4 DEF CloserAction, CloserStep
<1>2. CASE (\E b \in Browsers : Die(b)) \/ Age \/ UNCHANGED vars
  <2>1. /\ UNCHANGED <<lock, driver, browser, created, active, at, why>>
        /\ live' \subseteq live /\ (aged => aged')
    BY <1>2 DEF Die, Age, vars
  <2>2. /\ drivers' \ abandoned' \subseteq drivers \ abandoned
        /\ drivers \subseteq abandoned => drivers' \subseteq abandoned'
    BY <1>2 DEF Die, Age, vars
  <2>3. OneBrowser'
    BY <2>1, <2>2 DEF Inv, OneBrowser
  <2>4. LockedBrowser'
    BY <2>1, <2>2 DEF Inv, LockedBrowser
  <2>5. LockHeld'
    BY <2>1 DEF Inv, LockHeld
  <2>6. RecycleDecided'
    BY <2>1 DEF Inv, RecycleDecided, ThresholdReached
  <2>7. QED
    BY <2>3, <2>4, <2>5, <2>6 DEF LockInv
<1>3. QED
  BY <1>1, <1>2

\* Nor do they touch second attempts.
LEMMA OtherRetry ==
  ASSUME Inv,
         \/ \E c \in Closers : CloserAction(c)
         \/ \E b \in Browsers : Die(b)
         \/ Age
         \/ UNCHANGED vars
  PROVE  RetryCounted'
<1>1. /\ retry' = retry /\ \A p \in Pages : at'[p] = at[p]
  <2>1. ASSUME NEW c \in Closers, CloserAction(c)
        PROVE  retry' = retry /\ \E place : at' = [at EXCEPT ![c] = place]
    BY <2>1 DEF CloserAction, CloserStep, RequestClose, CloseBrowser, Closed,
                CancelClose, Forget, Goto
  <2>2. \A c \in Closers, p \in Pages : c # p /\ p \in Actors
    BY ActorsAssumption DEF Actors
  <2>3. CASE \E c \in Closers : CloserAction(c)
    BY <2>1, <2>2, <2>3 DEF Inv, WeakType
  <2>4. CASE ~ \E c \in Closers : CloserAction(c)
    BY <2>4 DEF Die, Age, vars
  <2>5. QED
    BY <2>3, <2>4
<1>2. QED
  BY <1>1 DEF Inv, WeakType, RetryCounted

-----------------------------------------------------------------------------
(* The theorems.                                                           *)

LEMMA InitInv == Init => Inv
<1>. SUFFICES ASSUME Init PROVE Inv
  OBVIOUS
<1>1. WeakType
  <2>1. slots \in Nat /\ active \in Nat /\ lost \in Nat /\ created \in 0 .. RecycleAfter
    BY CapacityAssumption, RecycleAssumption DEF Init
  <2>2. at \in [Actors -> Places] /\ why \in [Actors -> Causes]
    BY DEF Init, Places, Causes
  <2>3. /\ ctx \in [Pages -> Browsers \cup {NoBrowser}]
        /\ driver \in Browsers \cup {NoBrowser} /\ browser \in {driver, NoBrowser}
        /\ ProcessTypes
        /\ lock \in Actors \cup {NoOne} /\ retry \subseteq Pages
        /\ aged \in BOOLEAN
    BY DEF Init, ProcessTypes
  <2>4. QED
    BY <2>1, <2>2, <2>3 DEF WeakType
<1>2. \A p \in Pages : ~Holds(p) /\ ~Counted(p)
  BY DEF Init, Holds, Counted, Ensuring, Locked, InUse, Actors
<1>3. Holders = {} /\ CountedPages = {}
  BY <1>2 DEF Holders, CountedPages
<1>4. SlotsAccounted /\ ActiveCounts
  BY <1>3, FS_EmptySet, CapacityAssumption DEF Init, SlotsAccounted, ActiveCounts
<1>5. OneBrowser /\ RetryCounted /\ LockedBrowser /\ LockHeld /\ RecycleDecided
  BY ActorsAssumption
     DEF Init, OneBrowser, RetryCounted, LockedBrowser, LockHeld, RecycleDecided,
         Locked, Actors
<1>6. QED
  BY <1>1, <1>4, <1>5 DEF Inv

LEMMA NextInv == Inv /\ [Next]_vars => Inv'
<1>. SUFFICES ASSUME Inv, [Next]_vars PROVE Inv'
  OBVIOUS
<1>1. ASSUME NEW p \in Pages, PageAction(p) PROVE Inv'
  <2>1. WeakType'
    BY <1>1, PageTypes DEF Inv
  <2>2. SlotsAccounted' /\ ActiveCounts'
    BY <1>1, <2>1, PageBalances, BalancedKeepsAccounts
  <2>3. RetryCounted'
    BY <1>1, RetryStep
  <2>4. LockInv'
    BY <1>1, <2>1, PageLock
  <2>5. QED
    BY <2>1, <2>2, <2>3, <2>4 DEF Inv, LockInv
<1>2. ASSUME \/ \E c \in Closers : CloserAction(c)
             \/ \E b \in Browsers : Die(b)
             \/ Age
             \/ UNCHANGED vars
      PROVE  Inv'
  <2>1. WeakType'
    BY <1>2, OtherTypes DEF Inv
  <2>2. SlotsAccounted' /\ ActiveCounts'
    BY <1>2, OthersKeepAccounts
  <2>3. RetryCounted'
    BY <1>2, OtherRetry
  <2>4. LockInv'
    BY <1>2, <2>1, OtherLock
  <2>5. QED
    BY <2>1, <2>2, <2>3, <2>4 DEF Inv, LockInv
<1>3. QED
  BY <1>1, <1>2 DEF Next, PageAction, CloserAction

\* The slots that are left never exceed the capacity, and all variables keep
\* their types.
LEMMA InvTypes == Inv => TypeOK
<1>. SUFFICES ASSUME Inv PROVE TypeOK
  OBVIOUS
<1>1. Cardinality(Holders) \in Nat
  BY PagesAssumption, FS_Subset, FS_CardinalityType DEF Holders
<1>2. slots \in 0 .. MaxContexts
  BY <1>1, CapacityAssumption DEF Inv, WeakType, SlotsAccounted
<1>3. QED
  BY <1>2 DEF Inv, WeakType, ProcessTypes, TypeOK

\* A step that closes a connected browser for recycling closes it under nobody.
LEMMA RecycleSpares ==
  ASSUME Inv PROVE ~ClosesUnderPage("recycle")
<1>. SUFFICES ASSUME NEW a \in Actors, at[a] \in {"closing", "stopping"},
                     why[a] = "recycle",
                     browser \in live,
                     NEW q \in Pages \ {a}, at[q] \in InUse
              PROVE  FALSE
  BY DEF ClosesUnderPage
<1>1. active = 0
  BY DEF Inv, RecycleDecided
<1>2. Counted(q)
  BY DEF Counted, Holds, Ensuring, InUse, Locked
<1>3. QED
  BY <1>1, <1>2, NobodyCounted DEF Inv

\* The inductive invariant holds in every reachable state.
THEOREM InvHolds == Spec => []Inv
<1>1. QED
  BY InitInv, NextInv, PTL DEF Spec

\* The runtime's variables keep their types, and the semaphore never rises
\* above max_contexts.
THEOREM TypeCorrect == Spec => []TypeOK
<1>1. QED
  BY InvHolds, InvTypes, PTL

\* No slot is lost or gained, for every number of callers and every capacity.
THEOREM SlotsBalance == Spec => []SlotsAccounted
<1>1. Inv => SlotsAccounted
  BY DEF Inv
<1>2. QED
  BY <1>1, InvHolds, PTL

\* _active_contexts is the number of callers at work on a context.
THEOREM ActiveIsExact == Spec => []ActiveCounts
<1>1. Inv => ActiveCounts
  BY DEF Inv
<1>2. QED
  BY <1>1, InvHolds, PTL

\* A driver or browser that runs is the one the runtime refers to, unless a
\* start, a launch or a stop of it was cut short by a cancellation, a timeout or
\* a failure: for every number of callers, and of processes left behind.
THEOREM NoStrayBrowser == Spec => []OneBrowser
<1>1. Inv => OneBrowser
  BY DEF Inv
<1>2. QED
  BY <1>1, InvHolds, PTL

\* Planned recycling never closes a browser under a page.
THEOREM RecycleIsSafe == Spec => PlannedRecycleSparesPages
<1>1. Inv => [~ClosesUnderPage("recycle")]_vars
  BY RecycleSpares
<1>2. QED
  BY <1>1, InvHolds, PTL DEF PlannedRecycleSparesPages
=============================================================================
