------------------------ MODULE ParallelBatchProofs -------------------------
(***************************************************************************)
(* Machine-checked proofs about ParallelBatch, for every pool, URL list,   *)
(* record budget and set of requests.  They begin with lemmas about        *)
(* SumFunctionOnSet, the sum of a function's values over a finite set,     *)
(* which the proofs about counted records and budgets need.  The community *)
(* modules define it by a recursive function, so the first lemmas show     *)
(* that this function exists; every induction is the choice of a minimal   *)
(* counterexample.                                                         *)
(***************************************************************************)
EXTENDS ParallelBatch, FiniteSetTheorems, WellFoundedInduction, TLAPS

-----------------------------------------------------------------------------
(* Sums over finite sets: the recursion.                                   *)

\* Some member of a nonempty family of subsets of a finite set has no proper
\* subset in the family.
LEMMA MinimalSubset ==
  ASSUME NEW S, IsFiniteSet(S), NEW X, X \subseteq SUBSET S, X # {}
  PROVE  \E s \in X : \A t \in X : t \subseteq s => t = s
<1>1. X \subseteq FiniteSubsetsOf(S)
  BY FS_Subset DEF FiniteSubsetsOf
<1>2. PICK s \in X : \A t \in X : <<t, s>> \notin StrictSubsetOrdering(S)
  BY <1>1, WFMin, FS_StrictSubsetOrderingWellFounded
<1>3. \A t \in X : t \subseteq s => t = s
  BY <1>2 DEF StrictSubsetOrdering
<1>4. QED
  BY <1>3

\* The recursive function SumFunctionOnSet is defined by.
IsSummation(f, S, sum) ==
  sum = [s \in SUBSET S |->
           IF s = {} THEN 0
           ELSE LET x == CHOOSE x \in s : TRUE IN f[x] + sum[s \ {x}]]

\* Two such functions agree on the sets that both are defined on.
LEMMA SummationUnique ==
  ASSUME NEW f, NEW S, IsFiniteSet(S), NEW T, NEW sumS, NEW sumT,
         IsSummation(f, S, sumS), IsSummation(f, T, sumT)
  PROVE  \A s \in SUBSET S : s \in SUBSET T => sumS[s] = sumT[s]
<1>. DEFINE X == {s \in SUBSET S : s \in SUBSET T /\ sumS[s] # sumT[s]}
<1>1. SUFFICES ASSUME X # {} PROVE FALSE
  OBVIOUS
<1>2. PICK s \in X : \A t \in X : t \subseteq s => t = s
  <2>1. X \subseteq SUBSET S
    OBVIOUS
  <2>. HIDE DEF X
  <2>2. QED
    BY <1>1, <2>1, MinimalSubset
<1>. DEFINE x == CHOOSE x \in s : TRUE
<1>3. s # {}
  BY DEF IsSummation
<1>4. x \in s
  BY <1>3
<1>5. sumS[s \ {x}] = sumT[s \ {x}]
  BY <1>2, <1>4
<1>6. sumS[s] = f[x] + sumS[s \ {x}] /\ sumT[s] = f[x] + sumT[s \ {x}]
  BY <1>3 DEF IsSummation
<1>7. QED
  BY <1>5, <1>6

\* Over a finite set there is such a function.
LEMMA SummationExists ==
  ASSUME NEW f, NEW S, IsFiniteSet(S)
  PROVE  \E sum : IsSummation(f, S, sum)
<1>. DEFINE X == {s \in SUBSET S : ~ \E sum : IsSummation(f, s, sum)}
            Sum(s) == CHOOSE sum : IsSummation(f, s, sum)
<1>1. SUFFICES ASSUME X # {} PROVE FALSE
  OBVIOUS
<1>2. PICK s \in X : \A t \in X : t \subseteq s => t = s
  <2>1. X \subseteq SUBSET S
    OBVIOUS
  <2>. HIDE DEF X
  <2>2. QED
    BY <1>1, <2>1, MinimalSubset
<1>3. \A t \in SUBSET s : t # s => IsSummation(f, t, Sum(t))
  BY <1>2
<1>. DEFINE Pick(t) == CHOOSE x \in t : TRUE
            sum == [t \in SUBSET s |->
                      IF t = {} THEN 0
                      ELSE f[Pick(t)] + Sum(t \ {Pick(t)})[t \ {Pick(t)}]]
<1>4. ASSUME NEW t \in SUBSET s, t # {}
      PROVE  sum[t \ {Pick(t)}] = Sum(t \ {Pick(t)})[t \ {Pick(t)}]
  <2>. DEFINE u == t \ {Pick(t)}
  <2>1. Pick(t) \in t
    BY <1>4
  <2>2. u \in SUBSET s /\ u # s
    BY <2>1
  <2>3. IsSummation(f, u, Sum(u)) /\ IsFiniteSet(u)
    BY <1>3, <2>2, FS_Subset
  <2>4. CASE u = {}
    BY <2>2, <2>3, <2>4 DEF IsSummation
  <2>5. CASE u # {}
    <3>. DEFINE v == u \ {Pick(u)}
    <3>1. Pick(u) \in u
      BY <2>5
    <3>2. v \in SUBSET u /\ v # s
      BY <2>2, <3>1
    <3>3. IsSummation(f, v, Sum(v)) /\ IsFiniteSet(v)
      BY <1>3, <2>2, <2>3, <3>2, FS_Subset
    <3>4. Sum(v)[v] = Sum(u)[v]
      <4>. HIDE DEF Sum, u, v
      <4>1. QED
        BY <2>3, <3>2, <3>3, SummationUnique
    <3>5. Sum(u)[u] = f[Pick(u)] + Sum(u)[v]
      BY <2>3, <2>5 DEF IsSummation
    <3>6. sum[u] = f[Pick(u)] + Sum(v)[v]
      BY <2>2, <2>5
    <3>7. QED
      BY <3>4, <3>5, <3>6
  <2>6. QED
    BY <2>4, <2>5
<1>5. IsSummation(f, s, sum)
  <2>1. ASSUME NEW t \in SUBSET s
        PROVE  sum[t] = IF t = {} THEN 0 ELSE f[Pick(t)] + sum[t \ {Pick(t)}]
    <3>1. CASE t = {}
      BY <3>1
    <3>2. CASE t # {}
      <4>1. sum[t] = f[Pick(t)] + Sum(t \ {Pick(t)})[t \ {Pick(t)}]
        BY <3>2
      <4>. HIDE DEF sum, Sum, Pick
      <4>2. QED
        BY <1>4, <3>2, <4>1
    <3>3. QED
      BY <3>1, <3>2
  <2>2. sum = [t \in SUBSET s |-> sum[t]]
    OBVIOUS
  <2>. HIDE DEF sum
  <2>3. QED
    BY <2>1, <2>2 DEF IsSummation
<1>6. QED
  BY <1>2, <1>5

\* The equations of the recursion.
LEMMA SumRecursion ==
  ASSUME NEW f, NEW S, IsFiniteSet(S)
  PROVE  /\ S = {} => SumFunctionOnSet(f, S) = 0
         /\ S # {} => \E x \in S :
              SumFunctionOnSet(f, S) = f[x] + SumFunctionOnSet(f, S \ {x})
<1>. DEFINE Sum(s) == CHOOSE sum : IsSummation(f, s, sum)
<1>1. \A s : SumFunctionOnSet(f, s) = Sum(s)[s]
  BY DEF SumFunctionOnSet, FoldFunctionOnSet, MapThenFoldSet, IsSummation
<1>2. IsSummation(f, S, Sum(S))
  BY SummationExists
<1>3. CASE S = {}
  <2>. HIDE DEF Sum
  <2>1. Sum(S)[S] = 0
    BY <1>2, <1>3 DEF IsSummation
  <2>2. QED
    BY <1>1, <1>3, <2>1
<1>4. CASE S # {}
  <2>. DEFINE x == CHOOSE x \in S : TRUE
  <2>1. x \in S
    BY <1>4
  <2>2. IsFiniteSet(S \ {x}) /\ IsSummation(f, S \ {x}, Sum(S \ {x}))
    BY FS_RemoveElement, SummationExists
  <2>3. Sum(S)[S \ {x}] = Sum(S \ {x})[S \ {x}]
    BY <1>2, <2>2, SummationUnique
  <2>4. Sum(S)[S] = f[x] + Sum(S)[S \ {x}]
    BY <1>2, <1>4 DEF IsSummation
  <2>5. QED
    BY <1>1, <2>1, <2>3, <2>4
<1>5. QED
  BY <1>3, <1>4

-----------------------------------------------------------------------------
(* What sums of natural numbers are.                                       *)

\* The sum over the empty set is zero.
LEMMA SumEmpty == \A f : SumFunctionOnSet(f, {}) = 0
BY SumRecursion, FS_EmptySet

\* A sum of natural numbers is one.
LEMMA SumType ==
  ASSUME NEW f, NEW S, IsFiniteSet(S), \A x \in S : f[x] \in Nat
  PROVE  SumFunctionOnSet(f, S) \in Nat
<1>. DEFINE X == {s \in SUBSET S : SumFunctionOnSet(f, s) \notin Nat}
<1>1. SUFFICES ASSUME X # {} PROVE FALSE
  OBVIOUS
<1>2. PICK s \in X : \A t \in X : t \subseteq s => t = s
  <2>1. X \subseteq SUBSET S
    OBVIOUS
  <2>. HIDE DEF X
  <2>2. QED
    BY <1>1, <2>1, MinimalSubset
<1>3. IsFiniteSet(s)
  BY FS_Subset
<1>4. s # {}
  BY SumEmpty
<1>5. PICK x \in s :
        SumFunctionOnSet(f, s) = f[x] + SumFunctionOnSet(f, s \ {x})
  BY <1>3, <1>4, SumRecursion
<1>6. SumFunctionOnSet(f, s \ {x}) \in Nat
  BY <1>2
<1>7. QED
  BY <1>5, <1>6

\* A sum of zeros is zero.
LEMMA SumZero ==
  ASSUME NEW f, NEW S, IsFiniteSet(S), \A x \in S : f[x] = 0
  PROVE  SumFunctionOnSet(f, S) = 0
<1>. DEFINE X == {s \in SUBSET S : SumFunctionOnSet(f, s) # 0}
<1>1. SUFFICES ASSUME X # {} PROVE FALSE
  OBVIOUS
<1>2. PICK s \in X : \A t \in X : t \subseteq s => t = s
  <2>1. X \subseteq SUBSET S
    OBVIOUS
  <2>. HIDE DEF X
  <2>2. QED
    BY <1>1, <2>1, MinimalSubset
<1>3. IsFiniteSet(s)
  BY FS_Subset
<1>4. s # {}
  BY SumEmpty
<1>5. PICK x \in s :
        SumFunctionOnSet(f, s) = f[x] + SumFunctionOnSet(f, s \ {x})
  BY <1>3, <1>4, SumRecursion
<1>6. SumFunctionOnSet(f, s \ {x}) = 0 /\ f[x] = 0
  BY <1>2
<1>7. QED
  BY <1>5, <1>6

\* Any member may be taken out of a sum first.
LEMMA SumRemove ==
  ASSUME NEW f, NEW S, IsFiniteSet(S), \A x \in S : f[x] \in Nat, NEW y \in S
  PROVE  SumFunctionOnSet(f, S) = f[y] + SumFunctionOnSet(f, S \ {y})
<1>. DEFINE Good(s) == \A z \in s :
              SumFunctionOnSet(f, s) = f[z] + SumFunctionOnSet(f, s \ {z})
            X == {s \in SUBSET S : ~ Good(s)}
<1>1. SUFFICES ASSUME X # {} PROVE FALSE
  OBVIOUS
<1>2. PICK s \in X : \A t \in X : t \subseteq s => t = s
  <2>1. X \subseteq SUBSET S
    OBVIOUS
  <2>. HIDE DEF X
  <2>2. QED
    BY <1>1, <2>1, MinimalSubset
<1>3. IsFiniteSet(s)
  BY FS_Subset
<1>4. PICK z \in s :
        SumFunctionOnSet(f, s) # f[z] + SumFunctionOnSet(f, s \ {z})
  OBVIOUS
<1>5. PICK x \in s :
        SumFunctionOnSet(f, s) = f[x] + SumFunctionOnSet(f, s \ {x})
  BY <1>3, <1>4, SumRecursion
<1>6. x # z
  BY <1>4, <1>5
<1>7. Good(s \ {x}) /\ Good(s \ {z})
  BY <1>2
<1>8. /\ SumFunctionOnSet(f, s \ {x})
           = f[z] + SumFunctionOnSet(f, (s \ {x}) \ {z})
      /\ SumFunctionOnSet(f, s \ {z})
           = f[x] + SumFunctionOnSet(f, (s \ {z}) \ {x})
  BY <1>6, <1>7
<1>9. (s \ {x}) \ {z} = (s \ {z}) \ {x}
  OBVIOUS
<1>10. SumFunctionOnSet(f, (s \ {x}) \ {z}) \in Nat
  BY <1>3, FS_Subset, SumType
<1>11. f[x] \in Nat /\ f[z] \in Nat
  OBVIOUS
<1>. HIDE DEF Good, X
<1>12. QED
  BY <1>4, <1>5, <1>8, <1>9, <1>10, <1>11

\* Sums are monotone in the function.
LEMMA SumMonotone ==
  ASSUME NEW f, NEW g, NEW S, IsFiniteSet(S),
         \A x \in S : f[x] \in Nat /\ g[x] \in Nat /\ f[x] <= g[x]
  PROVE  SumFunctionOnSet(f, S) <= SumFunctionOnSet(g, S)
<1>. DEFINE X == {s \in SUBSET S :
                   ~ (SumFunctionOnSet(f, s) <= SumFunctionOnSet(g, s))}
<1>1. SUFFICES ASSUME X # {} PROVE FALSE
  OBVIOUS
<1>2. PICK s \in X : \A t \in X : t \subseteq s => t = s
  <2>1. X \subseteq SUBSET S
    OBVIOUS
  <2>. HIDE DEF X
  <2>2. QED
    BY <1>1, <2>1, MinimalSubset
<1>3. IsFiniteSet(s)
  BY FS_Subset
<1>4. PICK x \in s : TRUE
  BY SumEmpty
<1>5. /\ SumFunctionOnSet(f, s) = f[x] + SumFunctionOnSet(f, s \ {x})
      /\ SumFunctionOnSet(g, s) = g[x] + SumFunctionOnSet(g, s \ {x})
  BY <1>3, SumRemove
<1>6. SumFunctionOnSet(f, s \ {x}) <= SumFunctionOnSet(g, s \ {x})
  BY <1>2
<1>7. /\ SumFunctionOnSet(f, s \ {x}) \in Nat
      /\ SumFunctionOnSet(g, s \ {x}) \in Nat
  BY <1>3, FS_RemoveElement, SumType
<1>8. f[x] \in Nat /\ g[x] \in Nat /\ f[x] <= g[x]
  OBVIOUS
<1>9. QED
  BY <1>5, <1>6, <1>7, <1>8

\* Functions that agree on a set have the same sum over it.
LEMMA SumEqual ==
  ASSUME NEW f, NEW g, NEW S, IsFiniteSet(S),
         \A x \in S : f[x] \in Nat /\ g[x] = f[x]
  PROVE  SumFunctionOnSet(g, S) = SumFunctionOnSet(f, S)
<1>1. SumFunctionOnSet(f, S) \in Nat /\ SumFunctionOnSet(g, S) \in Nat
  BY SumType
<1>2. /\ SumFunctionOnSet(f, S) <= SumFunctionOnSet(g, S)
      /\ SumFunctionOnSet(g, S) <= SumFunctionOnSet(f, S)
  BY SumMonotone
<1>3. QED
  BY <1>1, <1>2

\* A sum changes by as much as the function changes at one point.
LEMMA SumChange ==
  ASSUME NEW f, NEW g, NEW S, IsFiniteSet(S), NEW y \in S,
         \A x \in S : f[x] \in Nat /\ g[x] \in Nat,
         \A x \in S \ {y} : g[x] = f[x]
  PROVE  SumFunctionOnSet(g, S) = SumFunctionOnSet(f, S) + (g[y] - f[y])
<1>1. /\ SumFunctionOnSet(f, S) = f[y] + SumFunctionOnSet(f, S \ {y})
      /\ SumFunctionOnSet(g, S) = g[y] + SumFunctionOnSet(g, S \ {y})
  BY SumRemove
<1>2. IsFiniteSet(S \ {y})
  BY FS_RemoveElement
<1>3. SumFunctionOnSet(g, S \ {y}) = SumFunctionOnSet(f, S \ {y})
  BY <1>2, SumEqual
<1>4. SumFunctionOnSet(f, S \ {y}) \in Nat
  BY <1>2, SumType
<1>5. QED
  BY <1>1, <1>3, <1>4

-----------------------------------------------------------------------------
(* Sums along a sequence.                                                  *)

\* A sum over an interval grows at its end.
LEMMA SumAppend ==
  ASSUME NEW n \in Nat, NEW f, \A i \in 1 .. n + 1 : f[i] \in Nat
  PROVE  SumFunctionOnSet(f, 1 .. n + 1)
           = SumFunctionOnSet(f, 1 .. n) + f[n + 1]
<1>1. IsFiniteSet(1 .. n + 1) /\ n + 1 \in 1 .. n + 1
  BY FS_Interval
<1>2. (1 .. n + 1) \ {n + 1} = 1 .. n
  OBVIOUS
<1>3. SumFunctionOnSet(f, 1 .. n + 1)
        = f[n + 1] + SumFunctionOnSet(f, 1 .. n)
  BY <1>1, <1>2, SumRemove
<1>4. IsFiniteSet(1 .. n) /\ \A i \in 1 .. n : f[i] \in Nat
  BY FS_Interval
<1>5. SumFunctionOnSet(f, 1 .. n) \in Nat
  BY <1>4, SumType
<1>6. QED
  BY <1>3, <1>5

\* The sum of a sequence is its head and the sum of its tail.
LEMMA SumTail ==
  ASSUME NEW n \in Nat, NEW f, \A i \in 1 .. n + 1 : f[i] \in Nat,
         NEW g, \A i \in 1 .. n : g[i] = f[i + 1]
  PROVE  SumFunctionOnSet(f, 1 .. n + 1)
           = f[1] + SumFunctionOnSet(g, 1 .. n)
<1>. DEFINE X == {m \in 0 .. n :
              SumFunctionOnSet(f, 1 .. m + 1)
                # f[1] + SumFunctionOnSet(g, 1 .. m)}
<1>1. SUFFICES ASSUME X # {} PROVE FALSE
  OBVIOUS
<1>2. PICK m \in X : \A k \in X : ~ (k < m)
  <2>1. X \subseteq Nat
    OBVIOUS
  <2>. HIDE DEF X
  <2>2. PICK m \in X : \A k \in X : <<k, m>> \notin OpToRel(<, Nat)
    BY <1>1, <2>1, WFMin, NatLessThanWellFounded
  <2>3. QED
    BY <2>1, <2>2 DEF OpToRel
<1>3. m \in Nat /\ m <= n /\ \A i \in 1 .. m + 1 : f[i] \in Nat
  OBVIOUS
<1>4. SumFunctionOnSet(f, 1 .. m + 1) = SumFunctionOnSet(f, 1 .. m) + f[m + 1]
  BY <1>3, SumAppend
<1>5. CASE m = 0
  <2>1. 1 .. m = {}
    BY <1>5
  <2>2. f[1] \in Nat
    BY <1>3
  <2>3. QED
    BY <1>4, <1>5, <2>1, <2>2, SumEmpty
<1>6. CASE m # 0
  <2>1. m - 1 \in 0 .. n /\ m - 1 \in Nat /\ m - 1 < m
    BY <1>3, <1>6
  <2>2. (m - 1) + 1 = m
    BY <1>3
  <2>3. SumFunctionOnSet(f, 1 .. m) = f[1] + SumFunctionOnSet(g, 1 .. m - 1)
    BY <1>2, <2>1, <2>2
  <2>4. \A i \in 1 .. (m - 1) + 1 : g[i] \in Nat
    BY <1>3, <2>2
  <2>5. SumFunctionOnSet(g, 1 .. m) = SumFunctionOnSet(g, 1 .. m - 1) + g[m]
    BY <2>1, <2>2, <2>4, SumAppend
  <2>6. \A i \in 1 .. m - 1 : g[i] \in Nat
    BY <1>3, <2>4, <2>2
  <2>7. SumFunctionOnSet(g, 1 .. m - 1) \in Nat
    <3>1. IsFiniteSet(1 .. m - 1)
      BY <2>1, FS_Interval
    <3>2. QED
      BY <2>6, <3>1, SumType
  <2>8. g[m] = f[m + 1] /\ g[m] \in Nat /\ f[1] \in Nat
    BY <1>3, <1>6
  <2>9. QED
    BY <1>4, <2>3, <2>5, <2>7, <2>8
<1>7. QED
  BY <1>5, <1>6

-----------------------------------------------------------------------------
(* Constants.                                                              *)

\* A worker's share of the budget is at least one record
\* (parallel_worker_record_limit), so a claim is never empty.
LEMMA WorkerLimitType == WorkerLimit \in Nat \ {0}
<1>1. Concurrency \in Nat \ {0}
  BY WorkersAssumption, FS_CardinalityType, FS_EmptySet DEF Concurrency
<1>2. MaxRecords + Concurrency - 1 >= Concurrency
  BY <1>1, RecordsAssumption
<1>3. QED
  BY <1>1, <1>2, RecordsAssumption DEF WorkerLimit

\* Every status reached by an allowed transition is a status.
LEMMA StatusTypes ==
  /\ {"paused", "killed", "failed", "completed", "running"} \subseteq Statuses
  /\ {"pause", "kill"} = ControlRequests
BY DEF Statuses, ActiveStatuses, TerminalStatuses, ControlRequests

-----------------------------------------------------------------------------
(* Type correctness.                                                       *)

\* A worker that is busy with a URL holds one of url_list: what it puts on
\* the result queue is the outcome of a URL.
HoldersHaveUrl == \A w \in Workers : Holding(w) => url[w] \in Urls

TypeInv == TypeOK /\ HoldersHaveUrl

\* The initial state is well typed, whatever the summary already counts.
LEMMA InitTypes == Init => TypeInv
<1>. SUFFICES ASSUME Init PROVE TypeInv
  OBVIOUS
<1>1. records \in Nat /\ available \in Nat
  BY StartAssumption, RecordsAssumption DEF Init
<1>2. row \in Row /\ run \in Row /\ reqCopy \in [Requests -> Row]
  BY <1>1 DEF Init, Row, Statuses, ActiveStatuses
<1>3. workNext \in 1 .. NumUrls + 1
  BY NumUrlsAssumption DEF Init
<1>4. results \in Seq(Outcome)
  BY DEF Init
<1>5. TypeOK
  BY <1>1, <1>2, <1>3, <1>4
     DEF Init, TypeOK, NoUrl, WorkerPlaces, CoordPlaces
<1>6. HoldersHaveUrl
  BY DEF Init, HoldersHaveUrl, Holding
<1>7. QED
  BY <1>5, <1>6 DEF TypeInv

\* The worker actions keep the types of what they change.
LEMMA WorkerTypes ==
  ASSUME TypeInv, NEW w \in Workers, WorkerStep(w)
  PROVE  TypeInv'
<1>. USE DEF TypeInv, TypeOK, HoldersHaveUrl, Holding, Urls, NoUrl,
             WorkerPlaces, coordVars, requestVars
<1>1. CASE Fetch(w)
  <2>1. CASE workNext > NumUrls
    BY <1>1, <2>1 DEF Fetch
  <2>2. CASE ~ (workNext > NumUrls)
    <3>1. workNext \in 1 .. NumUrls /\ workNext + 1 \in 1 .. NumUrls + 1
      BY <2>2, NumUrlsAssumption
    <3>2. /\ workNext' = workNext + 1
          /\ at' = [at EXCEPT ![w] = "claim"]
          /\ url' = [url EXCEPT ![w] = workNext]
      BY <1>1, <2>2 DEF Fetch
    <3>3. /\ workNext' \in 1 .. NumUrls + 1
          /\ at' \in [Workers -> WorkerPlaces]
          /\ url' \in [Workers -> Urls \cup {NoUrl}]
      BY <3>1, <3>2
    <3>4. TypeOK'
      BY <1>1, <3>3 DEF Fetch
    <3>5. HoldersHaveUrl'
      <4>. SUFFICES ASSUME NEW v \in Workers, Holding(v)'
                    PROVE  url'[v] \in Urls
        OBVIOUS
      <4>1. CASE v = w
        BY <3>1, <3>2, <4>1
      <4>2. CASE v # w
        BY <3>2, <4>2
      <4>3. QED
        BY <4>1, <4>2
    <3>6. QED
      BY <3>4, <3>5
  <2>3. QED
    BY <2>1, <2>2
<1>2. CASE Claim(w)
  BY <1>2, WorkerLimitType DEF Claim
<1>3. ASSUME NEW n \in 0 .. WorkerLimit + Overshoot, Commit(w, n)
      PROVE  TypeInv'
  <2>1. n \in Nat
    BY <1>3, WorkerLimitType, OvershootAssumption
  <2>2. QED
    BY <1>3, <2>1 DEF Commit
<1>4. CASE Return(w)
  BY <1>4 DEF Return
<1>5. CASE FailUrl(w)
  BY <1>5 DEF FailUrl
<1>6. CASE Raise(w)
  BY <1>6 DEF Raise
<1>7. CASE Deliver(w)
  <2>1. [ok |-> at[w] = "deliver", url |-> url[w], count |-> count[w]]
          \in Outcome
    BY <1>7 DEF Deliver, Outcome
  <2>2. results' \in Seq(Outcome)
    BY <1>7, <2>1 DEF Deliver
  <2>3. QED
    BY <1>7, <2>2 DEF Deliver
<1>8. CASE WorkerCancelled(w)
  BY <1>8 DEF WorkerCancelled
<1>9. QED
  BY <1>1, <1>2, <1>3, <1>4, <1>5, <1>6, <1>7, <1>8 DEF WorkerStep

\* The copies of the run that sessions write back are rows.
LEMMA RowTypes ==
  ASSUME row \in Row, NEW copy \in Row
  PROVE  /\ \A assigned \in BOOLEAN : Flushed(copy, assigned) \in Row
         /\ \A status \in Statuses, control \in ControlRequests \cup {NoControl} :
              WithStatus(copy, status, control) \in Row
         /\ \A n \in Nat : WithRecords(copy, n) \in Row
BY DEF Row, Flushed, WithStatus, WithRecords

\* Recording a result keeps the counters and the row well typed.
LEMMA RecordTypes ==
  ASSUME TypeOK, NEW item \in Outcome, Record(item)
  PROVE  /\ records' \in Nat
         /\ recorded' \subseteq Urls
         /\ run' \in Row
         /\ row' \in Row
<1>1. records + item.count \in Nat /\ item.url \in Urls
  BY DEF TypeOK, Outcome
<1>2. WithRecords(run, records + item.count) \in Row
  BY <1>1, RowTypes DEF TypeOK
<1>3. Flushed(WithRecords(run, records + item.count), FALSE) \in Row
  BY <1>2, RowTypes DEF TypeOK
<1>4. QED
  BY <1>1, <1>2, <1>3 DEF Record, TypeOK

\* What the coordinator takes from the result queue is an outcome.
LEMMA QueueTypes ==
  ASSUME results \in Seq(Outcome), results # <<>>
  PROVE  Head(results) \in Outcome /\ Tail(results) \in Seq(Outcome)
OBVIOUS

\* The coordinator's actions keep the types of what they change.
LEMMA CoordTypes ==
  ASSUME TypeInv, CoordStep
  PROVE  TypeInv'
<1>. USE DEF TypeInv, TypeOK, HoldersHaveUrl, Holding, NoUrl, WorkerPlaces,
             CoordPlaces, workerVars, poolVars, requestVars, Coordinating,
             Goto, CancelWorkers
<1>1. CASE StartBatch
  BY <1>1 DEF StartBatch
<1>2. CASE ConsumeResult
  BY <1>2, QueueTypes, RecordTypes DEF ConsumeResult
<1>3. CASE ConsumeError
  BY <1>3, QueueTypes DEF ConsumeError
<1>4. CASE RefreshAfterResult
  BY <1>4 DEF RefreshAfterResult, ControlRequests
<1>5. CASE DrainResult
  <2>1. Head(results) \in Outcome /\ Tail(results) \in Seq(Outcome)
    BY <1>5, QueueTypes DEF DrainResult
  <2>2. CASE Head(results).ok
    BY <1>5, <2>1, <2>2, RecordTypes DEF DrainResult
  <2>3. CASE ~ Head(results).ok
    BY <1>5, <2>1, <2>3 DEF DrainResult
  <2>4. QED
    BY <2>2, <2>3
<1>6. CASE DrainEmpty
  BY <1>6 DEF DrainEmpty
<1>7. CASE PoolCancelled
  BY <1>7 DEF PoolCancelled
<1>8. CASE LeftoverEmpty
  BY <1>8 DEF LeftoverEmpty
<1>9. CASE ConsumedAll
  BY <1>9 DEF ConsumedAll
<1>10. CASE PoolFinished
  BY <1>10 DEF PoolFinished
<1>11. CASE PersistControl
  <2>1. /\ run' \in Row
        /\ row' \in Row
    BY <1>11, RowTypes, StatusTypes DEF PersistControl
  <2>2. QED
    BY <1>11, <2>1 DEF PersistControl
<1>12. CASE Finalise
  BY <1>12 DEF Finalise
<1>13. CASE Complete
  <2>1. run' \in Row /\ row' \in Row
    <3>1. WithRecords(run, records) \in Row /\ run.control \in ControlRequests \cup {NoControl}
      BY RowTypes DEF Row
    <3>2. WithStatus(WithRecords(run, records), "completed", run.control) \in Row
      BY <3>1, RowTypes, StatusTypes
    <3>3. QED
      BY <1>13, <3>2, RowTypes DEF Complete
  <2>2. QED
    BY <1>13, <2>1 DEF Complete
<1>14. CASE Fail
  BY <1>14 DEF Fail
<1>15. CASE MarkFailed
  <2>1. run' \in Row /\ row' \in Row
    <3>1. WithStatus(run, "failed", run.control) \in Row
      BY RowTypes, StatusTypes DEF Row
    <3>2. QED
      BY <1>15, <3>1, RowTypes DEF MarkFailed
  <2>2. QED
    BY <1>15, <2>1 DEF MarkFailed
<1>16. CASE CoordCancelled
  BY <1>16 DEF CoordCancelled
<1>17. CASE Aborted
  BY <1>17 DEF Aborted
<1>18. QED
  BY <1>1, <1>2, <1>3, <1>4, <1>5, <1>6, <1>7, <1>8, <1>9, <1>10, <1>11,
     <1>12, <1>13, <1>14, <1>15, <1>16, <1>17 DEF CoordStep

\* The requests' actions keep the types of what they change.
LEMMA RequestTypes ==
  ASSUME TypeInv, NEW r \in Requests, RequestStep(r)
  PROVE  TypeInv'
<1>. USE DEF TypeInv, TypeOK, HoldersHaveUrl, Holding, workerVars, poolVars,
             coordVars
<1>1. CASE AdmitPause(r)
  BY <1>1 DEF AdmitPause, Admit
<1>2. CASE AdmitKill(r)
  BY <1>2 DEF AdmitKill, Admit
<1>3. CASE CommitPause(r)
  <2>1. reqCopy[r] \in Row
    OBVIOUS
  <2>2. row' \in Row
    <3>1. /\ WithStatus(reqCopy[r], reqCopy[r].status, "pause") \in Row
          /\ WithStatus(reqCopy[r], "paused", reqCopy[r].control) \in Row
      BY <2>1, RowTypes, StatusTypes DEF Row
    <3>2. QED
      BY <1>3, <3>1, RowTypes DEF CommitPause
  <2>3. QED
    BY <1>3, <2>2 DEF CommitPause
<1>4. CASE CancelTask(r)
  <2>1. reqCopy[r] \in Row
    OBVIOUS
  <2>2. WithStatus(reqCopy[r], reqCopy[r].status, "kill") \in Row
    BY <2>1, RowTypes, StatusTypes DEF Row
  <2>3. reqCopy' \in [Requests -> Row]
    BY <1>4, <2>2 DEF CancelTask
  <2>4. taskCancelled' \in BOOLEAN
    BY <1>4 DEF CancelTask, TaskLive
  <2>5. QED
    BY <1>4, <2>3, <2>4 DEF CancelTask
<1>5. CASE CommitKill(r)
  <2>1. reqCopy[r] \in Row
    OBVIOUS
  <2>2. WithStatus(reqCopy[r], "killed", reqCopy[r].control) \in Row
    BY <2>1, RowTypes, StatusTypes DEF Row
  <2>3. row' \in Row
    BY <1>5, <2>2, RowTypes DEF CommitKill
  <2>4. QED
    BY <1>5, <2>3 DEF CommitKill
<1>6. QED
  BY <1>1, <1>2, <1>3, <1>4, <1>5 DEF RequestStep

LEMMA TypeStep == TypeInv /\ [Next]_vars => TypeInv'
<1>. SUFFICES ASSUME TypeInv, [Next]_vars PROVE TypeInv'
  OBVIOUS
<1>1. CASE \E w \in Workers : WorkerStep(w)
  BY <1>1, WorkerTypes
<1>2. CASE CoordStep
  BY <1>2, CoordTypes
<1>3. CASE \E r \in Requests : RequestStep(r)
  BY <1>3, RequestTypes
<1>4. CASE UNCHANGED vars
  BY <1>4 DEF TypeInv, TypeOK, HoldersHaveUrl, Holding, vars, poolVars,
              workerVars, coordVars, requestVars
<1>5. QED
  BY <1>1, <1>2, <1>3, <1>4 DEF Next

LEMMA TypesHold == Spec => []TypeInv
BY InitTypes, TypeStep, PTL DEF Spec

\* Every variable keeps its type in every state of every instance.
THEOREM TypeCorrect == Spec => []TypeOK
<1>1. TypeInv => TypeOK
  BY DEF TypeInv
<1>2. QED
  BY <1>1, TypesHold, PTL

-----------------------------------------------------------------------------
(* The pool and the coordinator.                                           *)

\* Outside the loop that consumes results the pool is not running.
QuietPlaces == {"start", "leftover", "persist", "finalise", "complete", "fail",
                "failing", "done"}

QuietInv == place \in QuietPlaces => AllStopped

LEMMA QuietStep == QuietInv /\ [Next]_vars => QuietInv'
<1>. SUFFICES ASSUME QuietInv, [Next]_vars PROVE QuietInv'
  OBVIOUS
<1>. USE DEF QuietInv, QuietPlaces, AllStopped
<1>1. ASSUME NEW w \in Workers, WorkerStep(w)
      PROVE  QuietInv'
  <2>1. at[w] # "stopped" /\ place' = place
    BY <1>1 DEF WorkerStep, Fetch, Claim, Commit, Return, FailUrl, Raise,
                Deliver, WorkerCancelled, coordVars
  <2>2. QED
    BY <2>1
<1>2. CASE CoordStep
  <2>. USE DEF Coordinating, Goto, poolVars, workerVars
  <2>1. CASE StartBatch
    BY <2>1 DEF StartBatch
  <2>2. CASE PoolCancelled \/ PoolFinished \/ Aborted
    BY <2>2 DEF PoolCancelled, PoolFinished, Aborted
  <2>3. CASE ConsumeResult \/ ConsumeError \/ RefreshAfterResult \/ DrainEmpty
             \/ ConsumedAll \/ CoordCancelled
    BY <2>3 DEF ConsumeResult, ConsumeError, RefreshAfterResult, DrainEmpty,
                ConsumedAll, CoordCancelled
  <2>4. CASE DrainResult \/ LeftoverEmpty \/ PersistControl \/ Finalise
             \/ Complete \/ Fail \/ MarkFailed
    BY <2>4 DEF DrainResult, LeftoverEmpty, PersistControl, Finalise, Complete,
                Fail, MarkFailed
  <2>5. QED
    BY <1>2, <2>1, <2>2, <2>3, <2>4 DEF CoordStep
<1>3. ASSUME NEW r \in Requests, RequestStep(r)
      PROVE  QuietInv'
  BY <1>3 DEF RequestStep, AdmitPause, AdmitKill, Admit, CommitPause,
              CancelTask, CommitKill, coordVars, poolVars, workerVars
<1>4. CASE UNCHANGED vars
  BY <1>4 DEF vars, coordVars, poolVars, workerVars
<1>5. QED
  BY <1>1, <1>2, <1>3, <1>4 DEF Next

\* No worker is alive once the coordinator checkpoints, completes, fails or
\* ends the run, whatever the size of the pool and the order of the steps.
THEOREM NoWorkerOutlives == Spec => []NoWorkerOutlivesCoordinator
<1>1. Init => QuietInv
  BY DEF Init, QuietInv, AllStopped
<1>2. QuietInv => NoWorkerOutlivesCoordinator
  BY DEF QuietInv, QuietPlaces, NoWorkerOutlivesCoordinator
<1>3. QED
  BY <1>1, <1>2, QuietStep, PTL DEF Spec

-----------------------------------------------------------------------------
(* A URL is in one place.                                                  *)

\* What is recorded was taken from the work queue before.
RecordedTaken == \A u \in recorded : u < workNext

OnePlaceInv == UrlInOnePlace /\ RecordedTaken

\* Steps that hand no URL on keep every URL where it is.
LEMMA OnePlaceKept ==
  ASSUME OnePlaceInv, \A v \in Workers : Holding(v)' => Holding(v),
         UNCHANGED <<url, workNext, results, recorded>>
  PROVE  OnePlaceInv'
BY DEF OnePlaceInv, UrlInOnePlace, RecordedTaken, Holding

\* A worker takes the next URL, which nobody else has seen yet.
LEMMA OnePlaceFetch ==
  ASSUME TypeInv, OnePlaceInv, NEW w \in Workers, Fetch(w)
  PROVE  OnePlaceInv'
<1>. USE DEF TypeInv, TypeOK, Urls, coordVars
<1>1. CASE workNext > NumUrls
  <2>1. \A v \in Workers : Holding(v)' => Holding(v)
    BY <1>1 DEF Fetch, Holding
  <2>2. UNCHANGED <<url, workNext, results, recorded>>
    BY <1>1 DEF Fetch
  <2>3. QED
    BY <2>1, <2>2, OnePlaceKept
<1>2. CASE ~ (workNext > NumUrls)
  <2>1. /\ at' = [at EXCEPT ![w] = "claim"]
        /\ url' = [url EXCEPT ![w] = workNext]
        /\ workNext' = workNext + 1
        /\ UNCHANGED <<results, recorded>>
    BY <1>2 DEF Fetch
  <2>2. workNext \in Nat
    BY NumUrlsAssumption
  <2>3. /\ \A v \in Workers \ {w} : url'[v] = url[v] /\ (Holding(v)' => Holding(v))
        /\ url'[w] = workNext
    BY <2>1 DEF Holding
  <2>4. /\ \A v \in Workers : Holding(v) => url[v] \in Nat /\ url[v] < workNext
        /\ \A i \in DOMAIN results :
             results[i].url \in Nat /\ results[i].url < workNext
        /\ \A u \in recorded : u \in Nat /\ u < workNext
    <3>1. \A v \in Workers : Holding(v) => url[v] \in Nat /\ url[v] < workNext
      BY DEF OnePlaceInv, UrlInOnePlace, HoldersHaveUrl
    <3>2. \A i \in DOMAIN results : results[i] \in Outcome
      OBVIOUS
    <3>3. QED
      BY <3>1, <3>2 DEF OnePlaceInv, UrlInOnePlace, RecordedTaken, Outcome
  <2>5. RecordedTaken'
    BY <2>1, <2>2, <2>4 DEF RecordedTaken
  <2>6. UrlInOnePlace'
    <3>1. ASSUME NEW v \in Workers, Holding(v)'
          PROVE  /\ url'[v] < workNext'
                 /\ url'[v] \notin recorded'
                 /\ \A i \in DOMAIN results' : results'[i].url # url'[v]
                 /\ \A x \in Workers :
                      Holding(x)' /\ url'[x] = url'[v] => x = v
      <4>1. CASE v = w
        BY <2>1, <2>2, <2>3, <2>4, <3>1, <4>1
      <4>2. CASE v # w
        BY <2>1, <2>2, <2>3, <2>4, <3>1, <4>2 DEF OnePlaceInv, UrlInOnePlace
      <4>3. QED
        BY <4>1, <4>2
    <3>2. ASSUME NEW i \in DOMAIN results'
          PROVE  /\ results'[i].url < workNext'
                 /\ results'[i].url \notin recorded'
                 /\ \A j \in DOMAIN results' :
                      results'[j].url = results'[i].url => i = j
      BY <2>1, <2>2, <2>4 DEF OnePlaceInv, UrlInOnePlace
    <3>3. QED
      BY <3>1, <3>2 DEF UrlInOnePlace
  <2>7. QED
    BY <2>5, <2>6 DEF OnePlaceInv
<1>3. QED
  BY <1>1, <1>2

\* A worker hands its URL to the coordinator and forgets it.
LEMMA OnePlaceDeliver ==
  ASSUME TypeInv, OnePlaceInv, NEW w \in Workers, Deliver(w)
  PROVE  OnePlaceInv'
<1>. DEFINE item == [ok |-> at[w] = "deliver", url |-> url[w], count |-> count[w]]
<1>1. /\ UNCHANGED <<workNext, recorded>>
      /\ results' = Append(results, item)
      /\ url' = [url EXCEPT ![w] = NoUrl]
      /\ at' = [at EXCEPT ![w] = IF at[w] = "deliver" THEN "idle" ELSE "stopped"]
      /\ Holding(w)
  BY DEF Deliver, coordVars, Holding
<1>2. /\ \A v \in Workers \ {w} : url'[v] = url[v] /\ (Holding(v)' => Holding(v))
      /\ ~ Holding(w)'
  BY <1>1 DEF TypeInv, TypeOK, Holding
<1>3. results \in Seq(Outcome)
  BY DEF TypeInv, TypeOK
<1>4. /\ DOMAIN results' = 1 .. Len(results) + 1
      /\ DOMAIN results = 1 .. Len(results)
      /\ Len(results) \in Nat
      /\ \A i \in 1 .. Len(results) : results'[i] = results[i]
      /\ results'[Len(results) + 1] = item
  <2>. HIDE DEF item
  <2>. QED
    BY <1>1, <1>3
<1>5. \A i \in DOMAIN results' :
        \/ i \in DOMAIN results /\ results'[i].url = results[i].url
        \/ i = Len(results) + 1 /\ results'[i].url = url[w]
  BY <1>4
<1>6. /\ url[w] < workNext
      /\ url[w] \notin recorded
      /\ \A i \in DOMAIN results : results[i].url # url[w]
      /\ \A v \in Workers : Holding(v) /\ url[v] = url[w] => v = w
  BY <1>1 DEF OnePlaceInv, UrlInOnePlace
<1>. HIDE DEF item
<1>7. RecordedTaken'
  BY <1>1 DEF OnePlaceInv, RecordedTaken
<1>8. UrlInOnePlace'
  <2>1. ASSUME NEW v \in Workers, Holding(v)'
        PROVE  /\ url'[v] < workNext'
               /\ url'[v] \notin recorded'
               /\ \A i \in DOMAIN results' : results'[i].url # url'[v]
               /\ \A x \in Workers :
                    Holding(x)' /\ url'[x] = url'[v] => x = v
    <3>1. v # w /\ Holding(v) /\ url'[v] = url[v]
      BY <1>2, <2>1
    <3>2. url[v] # url[w]
      BY <1>6, <3>1
    <3>3. \A i \in DOMAIN results' : results'[i].url # url[v]
      BY <1>5, <3>1, <3>2 DEF OnePlaceInv, UrlInOnePlace
    <3>4. \A x \in Workers : Holding(x)' => x # w /\ Holding(x) /\ url'[x] = url[x]
      BY <1>2
    <3>5. QED
      BY <1>1, <3>1, <3>3, <3>4 DEF OnePlaceInv, UrlInOnePlace
  <2>2. ASSUME NEW i \in DOMAIN results'
        PROVE  /\ results'[i].url < workNext'
               /\ results'[i].url \notin recorded'
               /\ \A j \in DOMAIN results' :
                    results'[j].url = results'[i].url => i = j
    <3>1. /\ results'[i].url < workNext'
          /\ results'[i].url \notin recorded'
      BY <1>1, <1>5, <1>6, <2>2 DEF OnePlaceInv, UrlInOnePlace
    <3>2. ASSUME NEW j \in DOMAIN results', results'[j].url = results'[i].url
          PROVE  i = j
      BY <1>5, <1>6, <2>2, <3>2 DEF OnePlaceInv, UrlInOnePlace
    <3>3. QED
      BY <3>1, <3>2
  <2>3. QED
    BY <2>1, <2>2 DEF UrlInOnePlace
<1>9. QED
  BY <1>7, <1>8 DEF OnePlaceInv

LEMMA OnePlaceWorker ==
  ASSUME TypeInv, OnePlaceInv, NEW w \in Workers, WorkerStep(w)
  PROVE  OnePlaceInv'
<1>1. CASE Fetch(w)
  BY <1>1, OnePlaceFetch
<1>2. CASE Deliver(w)
  BY <1>2, OnePlaceDeliver
<1>3. CASE ~ Fetch(w) /\ ~ Deliver(w)
  <2>1. /\ UNCHANGED <<url, workNext, results, recorded>>
        /\ \E place_ \in WorkerPlaces : at' = [at EXCEPT ![w] = place_]
        /\ Holding(w)' => Holding(w)
    BY <1>3 DEF WorkerStep, Claim, Commit, Return, FailUrl, Raise,
                WorkerCancelled, coordVars, WorkerPlaces, Holding, TypeInv, TypeOK
  <2>2. \A v \in Workers : Holding(v)' => Holding(v)
    BY <2>1 DEF Holding, TypeInv, TypeOK
  <2>3. QED
    BY <2>1, <2>2, OnePlaceKept
<1>4. QED
  BY <1>1, <1>2, <1>3

\* The coordinator takes the first result off the queue, and records it or
\* drops it.
LEMMA OnePlaceTake ==
  ASSUME TypeInv, OnePlaceInv, results # <<>>, results' = Tail(results),
         UNCHANGED workerVars,
         \/ recorded' = recorded
         \/ recorded' = recorded \cup {Head(results).url}
  PROVE  OnePlaceInv' /\ Head(results).url \notin recorded
<1>1. results \in Seq(Outcome)
  BY DEF TypeInv, TypeOK
<1>2. /\ Len(results) \in Nat /\ Len(results) >= 1
      /\ DOMAIN results = 1 .. Len(results)
      /\ DOMAIN results' = 1 .. Len(results) - 1
      /\ \A i \in DOMAIN results' : i + 1 \in DOMAIN results
                                  /\ results'[i] = results[i + 1]
      /\ 1 \in DOMAIN results /\ Head(results) = results[1]
  BY <1>1
<1>3. UNCHANGED <<workNext, at, url>>
  BY DEF workerVars
<1>4. \A i \in DOMAIN results' : results'[i].url # Head(results).url
  BY <1>2 DEF OnePlaceInv, UrlInOnePlace
<1>5. /\ Head(results).url < workNext
      /\ Head(results).url \notin recorded
      /\ \A v \in Workers : Holding(v) => url[v] # Head(results).url
  BY <1>2 DEF OnePlaceInv, UrlInOnePlace
<1>6. RecordedTaken'
  BY <1>3, <1>5 DEF OnePlaceInv, RecordedTaken
<1>7. UrlInOnePlace'
  <2>1. ASSUME NEW v \in Workers, Holding(v)'
        PROVE  /\ url'[v] < workNext'
               /\ url'[v] \notin recorded'
               /\ \A i \in DOMAIN results' : results'[i].url # url'[v]
               /\ \A x \in Workers :
                    Holding(x)' /\ url'[x] = url'[v] => x = v
    BY <1>2, <1>3, <1>5, <2>1 DEF OnePlaceInv, UrlInOnePlace, Holding
  <2>2. ASSUME NEW i \in DOMAIN results'
        PROVE  /\ results'[i].url < workNext'
               /\ results'[i].url \notin recorded'
               /\ \A j \in DOMAIN results' :
                    results'[j].url = results'[i].url => i = j
    BY <1>2, <1>3, <1>4, <2>2 DEF OnePlaceInv, UrlInOnePlace
  <2>3. QED
    BY <2>1, <2>2 DEF UrlInOnePlace
<1>8. QED
  BY <1>5, <1>6, <1>7 DEF OnePlaceInv

LEMMA OnePlaceCoord ==
  ASSUME TypeInv, OnePlaceInv, CoordStep
  PROVE  OnePlaceInv'
<1>1. CASE StartBatch
  <2>1. \A v \in Workers : Holding(v)' => Holding(v)
    BY <1>1 DEF StartBatch, Holding
  <2>2. QED
    BY <1>1, <2>1, OnePlaceKept DEF StartBatch
<1>2. CASE ConsumeResult \/ ConsumeError \/ DrainResult
  <2>1. /\ results # <<>>
        /\ results' = Tail(results)
        /\ UNCHANGED workerVars
        /\ \/ recorded' = recorded
           \/ recorded' = recorded \cup {Head(results).url}
    BY <1>2 DEF ConsumeResult, ConsumeError, DrainResult, Record, poolVars
  <2>2. QED
    BY <2>1, OnePlaceTake
<1>3. CASE ~ StartBatch /\ ~ ConsumeResult /\ ~ ConsumeError /\ ~ DrainResult
  <2>1. UNCHANGED <<workerVars, results, recorded>>
    BY <1>3 DEF CoordStep, RefreshAfterResult, DrainEmpty, PoolCancelled,
                LeftoverEmpty, ConsumedAll, PoolFinished, PersistControl,
                Finalise, Complete, Fail, MarkFailed, CoordCancelled, Aborted,
                poolVars
  <2>2. QED
    BY <2>1, OnePlaceKept DEF workerVars, Holding
<1>4. QED
  BY <1>1, <1>2, <1>3

LEMMA OnePlaceStep == TypeInv /\ OnePlaceInv /\ [Next]_vars => OnePlaceInv'
<1>. SUFFICES ASSUME TypeInv, OnePlaceInv, [Next]_vars PROVE OnePlaceInv'
  OBVIOUS
<1>1. CASE \E w \in Workers : WorkerStep(w)
  BY <1>1, OnePlaceWorker
<1>2. CASE CoordStep
  BY <1>2, OnePlaceCoord
<1>3. CASE (\E r \in Requests : RequestStep(r)) \/ UNCHANGED vars
  <2>1. UNCHANGED <<workerVars, results, recorded>>
    BY <1>3 DEF RequestStep, AdmitPause, AdmitKill, Admit, CommitPause,
                CancelTask, CommitKill, vars, poolVars, coordVars
  <2>2. QED
    BY <2>1, OnePlaceKept DEF workerVars, Holding
<1>4. QED
  BY <1>1, <1>2, <1>3 DEF Next

LEMMA OnePlaceHolds == Spec => []OnePlaceInv
<1>1. Init => OnePlaceInv
  BY DEF Init, OnePlaceInv, UrlInOnePlace, RecordedTaken, Holding
<1>2. QED
  BY <1>1, OnePlaceStep, TypesHold, PTL DEF Spec

\* A URL is in at most one of the work queue, a worker's hands, the result
\* queue and the run's progress, for every pool and URL list.
THEOREM OnePlace == Spec => []UrlInOnePlace
<1>1. OnePlaceInv => UrlInOnePlace
  BY DEF OnePlaceInv
<1>2. QED
  BY <1>1, OnePlaceHolds, PTL

-----------------------------------------------------------------------------
(* A batch that completes by itself is complete.                           *)

\* While the loop runs, consume has counted exactly the recorded URLs; it
\* leaves the loop early only with a reason to stop.
ProgressInv ==
  /\ place \in {"start", "get", "refresh"} => completed = Cardinality(recorded)
  /\ place \in {"drain", "await", "leftover", "persist"} => stop # "none"
  /\ place = "leftover" => stop = "error"

CompletionInv == ProgressInv /\ CompletionIsTotal

\* As many recorded URLs as url_list has are all of them.
LEMMA RecordedAll ==
  ASSUME TypeOK
  PROVE  /\ IsFiniteSet(recorded)
         /\ Cardinality(recorded) = NumUrls => recorded = Urls
<1>1. IsFiniteSet(Urls) /\ Cardinality(Urls) = NumUrls
  BY NumUrlsAssumption, FS_Interval DEF Urls
<1>2. recorded \in SUBSET Urls
  BY DEF TypeOK
<1>3. QED
  BY <1>1, <1>2, FS_Subset

LEMMA CompletionCoord ==
  ASSUME TypeInv, OnePlaceInv, CompletionInv, CoordStep
  PROVE  CompletionInv'
<1>. USE DEF CompletionInv, ProgressInv, CompletionIsTotal, Coordinating, Goto
<1>1. CASE StartBatch
  BY <1>1 DEF StartBatch
<1>2. CASE ConsumeResult
  <2>1. Head(results).url \notin recorded
    BY <1>2, OnePlaceTake DEF ConsumeResult, Record, poolVars
  <2>2. recorded' = recorded \cup {Head(results).url}
    BY <1>2 DEF ConsumeResult, Record
  <2>3. Cardinality(recorded') = Cardinality(recorded) + 1
    BY <2>1, <2>2, RecordedAll, FS_AddElement DEF TypeInv
  <2>4. QED
    BY <1>2, <2>3 DEF ConsumeResult
<1>3. CASE ConsumeError
  BY <1>3 DEF ConsumeError
<1>4. CASE RefreshAfterResult
  BY <1>4 DEF RefreshAfterResult, ControlRequests
<1>5. CASE DrainResult
  BY <1>5 DEF DrainResult
<1>6. CASE PoolCancelled
  BY <1>6 DEF PoolCancelled
<1>7. CASE ConsumedAll
  <2>1. recorded = Urls
    BY <1>7, RecordedAll DEF ConsumedAll, TypeInv
  <2>2. QED
    BY <1>7, <2>1 DEF ConsumedAll
<1>8. CASE DrainEmpty \/ LeftoverEmpty \/ PoolFinished
  BY <1>8 DEF DrainEmpty, LeftoverEmpty, PoolFinished
<1>9. CASE PersistControl \/ Finalise \/ Complete \/ Fail \/ MarkFailed
  BY <1>9 DEF PersistControl, Finalise, Complete, Fail, MarkFailed
<1>10. CASE CoordCancelled \/ Aborted
  BY <1>10 DEF CoordCancelled, Aborted
<1>11. QED
  BY <1>1, <1>2, <1>3, <1>4, <1>5, <1>6, <1>7, <1>8, <1>9, <1>10 DEF CoordStep

LEMMA CompletionStep ==
  TypeInv /\ OnePlaceInv /\ CompletionInv /\ [Next]_vars => CompletionInv'
<1>. SUFFICES ASSUME TypeInv, OnePlaceInv, CompletionInv, [Next]_vars
              PROVE  CompletionInv'
  OBVIOUS
<1>1. CASE CoordStep
  BY <1>1, CompletionCoord
<1>2. CASE ~ CoordStep
  <2>1. UNCHANGED <<place, completed, recorded, stop>>
    BY <1>2 DEF Next, WorkerStep, Fetch, Claim, Commit, Return, FailUrl, Raise,
                Deliver, WorkerCancelled, RequestStep, AdmitPause, AdmitKill,
                Admit, CommitPause, CancelTask, CommitKill, vars, coordVars
  <2>2. QED
    BY <2>1 DEF CompletionInv, ProgressInv, CompletionIsTotal
<1>3. QED
  BY <1>1, <1>2

LEMMA CompletionHolds == Spec => []CompletionInv
<1>1. Init => CompletionInv
  BY FS_EmptySet DEF Init, CompletionInv, ProgressInv, CompletionIsTotal
<1>2. QED
  BY <1>1, CompletionStep, TypesHold, OnePlaceHolds, PTL DEF Spec

\* A batch nobody stopped completes only when every URL of url_list is
\* recorded: counting results is the same as counting URLs.
THEOREM CompletesInFull == Spec => []CompletionIsTotal
<1>1. CompletionInv => CompletionIsTotal
  BY DEF CompletionInv
<1>2. QED
  BY <1>1, CompletionHolds, PTL

-----------------------------------------------------------------------------
(* The batch implements BatchDelivery.                                     *)

DeliveryStep == [Delivery!Next]_<<recorded, BatchPhase>>

\* A URL is recorded for the first time, by a coordinator that goes on.
LEMMA RecordsOnce ==
  ASSUME TypeInv, OnePlaceInv, NEW item \in Outcome, item.url \notin recorded,
         recorded' = recorded \cup {item.url}, BatchPhase # "ended",
         BatchPhase' = BatchPhase
  PROVE  DeliveryStep
<1>1. item.url \in Urls
  BY DEF Outcome
<1>2. Delivery!RecordUrl(item.url)
  BY DEF Delivery!RecordUrl
<1>3. QED
  BY <1>1, <1>2 DEF DeliveryStep, Delivery!Next

LEMMA CoordDelivers ==
  ASSUME TypeInv, OnePlaceInv, CompletionInv, CoordStep
  PROVE  DeliveryStep
<1>. USE DEF Coordinating, Goto, BatchPhase
<1>1. CASE ConsumeResult
  <2>1. /\ recorded' = recorded \cup {Head(results).url}
        /\ Head(results).url \notin recorded
        /\ Head(results) \in Outcome
    BY <1>1, OnePlaceTake, QueueTypes DEF ConsumeResult, Record, poolVars, TypeInv, TypeOK
  <2>2. BatchPhase # "ended" /\ BatchPhase' = BatchPhase
    BY <1>1 DEF ConsumeResult
  <2>3. QED
    BY <2>1, <2>2, RecordsOnce
<1>2. CASE DrainResult
  <2>1. BatchPhase # "ended" /\ BatchPhase' = BatchPhase
    BY <1>2 DEF DrainResult, CompletionInv, ProgressInv
  <2>2. CASE Head(results).ok
    <3>1. /\ recorded' = recorded \cup {Head(results).url}
          /\ Head(results).url \notin recorded
          /\ Head(results) \in Outcome
      BY <1>2, <2>2, OnePlaceTake, QueueTypes
         DEF DrainResult, Record, poolVars, TypeInv, TypeOK
    <3>2. QED
      BY <2>1, <3>1, RecordsOnce
  <2>3. CASE ~ Head(results).ok
    BY <1>2, <2>1, <2>3 DEF DrainResult, DeliveryStep
  <2>4. QED
    BY <2>2, <2>3
<1>3. CASE ConsumedAll
  <2>1. recorded = Urls
    BY <1>3, RecordedAll DEF ConsumedAll, CompletionInv, ProgressInv, TypeInv
  <2>2. BatchPhase \in {"open", "stopping"} /\ BatchPhase' = "ended" /\ recorded' = recorded
    BY <1>3 DEF ConsumedAll
  <2>3. QED
    BY <2>1, <2>2 DEF DeliveryStep, Delivery!Next, Delivery!End
<1>4. CASE StartBatch \/ ConsumeError \/ RefreshAfterResult \/ DrainEmpty
           \/ PoolCancelled \/ LeftoverEmpty \/ CoordCancelled
  <2>1. recorded' = recorded
    BY <1>4 DEF StartBatch, ConsumeError, RefreshAfterResult, DrainEmpty,
                PoolCancelled, LeftoverEmpty, CoordCancelled
  <2>2. \/ BatchPhase' = BatchPhase
        \/ BatchPhase = "open" /\ BatchPhase' = "stopping"
        \/ BatchPhase = "stopping" /\ BatchPhase' = "ended"
    BY <1>4 DEF StartBatch, ConsumeError, RefreshAfterResult, DrainEmpty,
                PoolCancelled, LeftoverEmpty, CoordCancelled, CompletionInv,
                ProgressInv, ControlRequests, TypeInv, TypeOK, CoordPlaces
  <2>3. QED
    BY <2>1, <2>2 DEF DeliveryStep, Delivery!Next, Delivery!Stop, Delivery!End
<1>5. CASE PoolFinished \/ PersistControl \/ Finalise \/ Complete \/ Fail
           \/ MarkFailed \/ Aborted
  <2>1. recorded' = recorded
    BY <1>5 DEF PoolFinished, PersistControl, Finalise, Complete, Fail,
                MarkFailed, Aborted
  <2>2. \/ BatchPhase' = BatchPhase
        \/ BatchPhase = "stopping" /\ BatchPhase' = "ended"
    BY <1>5 DEF PoolFinished, PersistControl, Finalise, Complete, Fail,
                MarkFailed, Aborted, CompletionInv, ProgressInv
  <2>3. QED
    BY <2>1, <2>2 DEF DeliveryStep, Delivery!Next, Delivery!End
<1>6. QED
  BY <1>1, <1>2, <1>3, <1>4, <1>5 DEF CoordStep

LEMMA StepDelivers ==
  TypeInv /\ OnePlaceInv /\ CompletionInv /\ [Next]_vars => DeliveryStep
<1>. SUFFICES ASSUME TypeInv, OnePlaceInv, CompletionInv, [Next]_vars
              PROVE  DeliveryStep
  OBVIOUS
<1>1. CASE CoordStep
  BY <1>1, CoordDelivers
<1>2. CASE ~ CoordStep
  <2>1. UNCHANGED <<place, recorded, stop, records>>
    BY <1>2 DEF Next, WorkerStep, Fetch, Claim, Commit, Return, FailUrl, Raise,
                Deliver, WorkerCancelled, RequestStep, AdmitPause, AdmitKill,
                Admit, CommitPause, CancelTask, CommitKill, vars, coordVars
  <2>2. taskCancelled => taskCancelled'
    BY <1>2 DEF Next, WorkerStep, Fetch, Claim, Commit, Return, FailUrl, Raise,
                Deliver, WorkerCancelled, RequestStep, AdmitPause, AdmitKill,
                Admit, CommitPause, CancelTask, CommitKill, vars, coordVars
  <2>3. \/ BatchPhase' = BatchPhase
        \/ BatchPhase = "open" /\ BatchPhase' = "stopping"
    BY <2>1, <2>2 DEF BatchPhase
  <2>4. QED
    BY <2>1, <2>3 DEF DeliveryStep, Delivery!Next, Delivery!Stop
<1>3. QED
  BY <1>1, <1>2

\* The batch implements BatchDelivery: pool, queues, budget and control
\* requests never record a URL twice, nor one after the batch has ended, nor
\* let an undisturbed batch end early.
THEOREM DeliversOnce == Spec => DeliversEveryUrlOnce
<1>1. Init => Delivery!Init
  BY DEF Init, Delivery!Init, BatchPhase
<1>2. QED
  BY <1>1, StepDelivers, TypesHold, OnePlaceHolds, CompletionHolds, PTL
     DEF Spec, DeliversEveryUrlOnce, Delivery!Spec, DeliveryStep

-----------------------------------------------------------------------------
(* A run that has ended stays as it ended.                                 *)

\* A kill commits only after the run's task was cancelled, and a coordinator
\* that goes on holds a terminal run at most between its own checkpoint and
\* the refresh that follows it.
TerminalInv ==
  /\ \A r \in Requests :
       reqAt[r] = "killing" => taskCancelled \/ place = "done"
  /\ row.status \in TerminalStatuses
       => taskCancelled \/ place \in {"finalise", "done"}

\* What the crawl's own steps do to a terminal run: they keep its status.
TerminalStep ==
  row.status \in TerminalStatuses /\ row'.status # row.status
    => \E r \in Requests : reqAt[r] # "done" /\ reqAt'[r] = "done"

LEMMA TerminalCoord ==
  ASSUME TypeInv, TerminalInv, CoordStep
  PROVE  TerminalInv' /\ (row.status \in TerminalStatuses => row' = row)
<1>. USE DEF TerminalInv, Coordinating, Goto
<1>1. CASE StartBatch \/ ConsumeError \/ RefreshAfterResult \/ DrainEmpty
           \/ PoolCancelled \/ LeftoverEmpty \/ ConsumedAll \/ PoolFinished
  <2>1. ~ taskCancelled /\ place \notin {"finalise", "done"}
    BY <1>1 DEF StartBatch, ConsumeError, RefreshAfterResult, DrainEmpty,
                PoolCancelled, LeftoverEmpty, ConsumedAll, PoolFinished
  <2>2. UNCHANGED <<row, reqAt>>
    BY <1>1 DEF StartBatch, ConsumeError, RefreshAfterResult, DrainEmpty,
                PoolCancelled, LeftoverEmpty, ConsumedAll, PoolFinished,
                requestVars
  <2>3. QED
    BY <2>1, <2>2
<1>2. CASE ConsumeResult \/ DrainResult
  <2>1. /\ ~ taskCancelled /\ place \notin {"finalise", "done"}
        /\ UNCHANGED reqAt
        /\ Record(Head(results)) \/ row' = row
    BY <1>2 DEF ConsumeResult, DrainResult, requestVars
  <2>2. row'.status = row.status
    BY <2>1 DEF Record, Flushed
  <2>3. QED
    BY <2>1, <2>2
<1>3. CASE PersistControl
  <2>1. ~ taskCancelled /\ place \notin {"finalise", "done"} /\ UNCHANGED reqAt
    BY <1>3 DEF PersistControl, requestVars
  <2>2. row' = row \/ place' = "finalise"
    BY <1>3 DEF PersistControl
  <2>3. QED
    BY <2>1, <2>2
<1>4. CASE Finalise
  BY <1>4 DEF Finalise, requestVars
<1>5. CASE Complete \/ MarkFailed
  <2>1. /\ ~ taskCancelled /\ place \notin {"finalise", "done"}
        /\ place' = "done" /\ UNCHANGED reqAt
    BY <1>5 DEF Complete, MarkFailed, requestVars
  <2>2. QED
    BY <2>1
<1>6. CASE Fail \/ CoordCancelled \/ Aborted
  BY <1>6 DEF Fail, CoordCancelled, Aborted, requestVars
<1>7. QED
  BY <1>1, <1>2, <1>3, <1>4, <1>5, <1>6 DEF CoordStep

LEMMA TerminalRequest ==
  ASSUME TypeInv, TerminalInv, NEW r \in Requests, RequestStep(r)
  PROVE  TerminalInv' /\ TerminalStep
<1>. USE DEF TerminalInv, TerminalStep
<1>1. reqAt \in [Requests -> {"none", "pause", "kill", "killing", "done"}]
  BY DEF TypeInv, TypeOK
<1>2. CASE AdmitPause(r) \/ AdmitKill(r)
  <2>1. /\ UNCHANGED <<row, place, taskCancelled>>
        /\ \E operation \in {"pause", "kill"} :
             reqAt' = [reqAt EXCEPT ![r] = operation]
    BY <1>2 DEF AdmitPause, AdmitKill, Admit, coordVars
  <2>2. QED
    BY <1>1, <2>1
<1>3. CASE CommitPause(r)
  <2>1. /\ reqAt[r] = "pause" /\ reqAt' = [reqAt EXCEPT ![r] = "done"]
        /\ UNCHANGED <<place, taskCancelled>>
    BY <1>3 DEF CommitPause, coordVars
  <2>2. row'.status \in {row.status, "paused"}
    <3>1. \/ row' = row
          \/ row' = Flushed(WithStatus(reqCopy[r], reqCopy[r].status, "pause"), FALSE)
          \/ row' = Flushed(WithStatus(reqCopy[r], "paused", reqCopy[r].control), TRUE)
      BY <1>3 DEF CommitPause
    <3>2. QED
      BY <3>1 DEF Flushed, WithStatus
  <2>3. "paused" \notin TerminalStatuses
    BY DEF TerminalStatuses
  <2>4. QED
    BY <1>1, <2>1, <2>2, <2>3
<1>4. CASE CancelTask(r)
  <2>1. /\ reqAt' = [reqAt EXCEPT ![r] = "killing"]
        /\ UNCHANGED <<row, place>>
        /\ taskCancelled' = (taskCancelled \/ place # "done")
    BY <1>4 DEF CancelTask, TaskLive, TypeInv, TypeOK
  <2>2. QED
    BY <1>1, <2>1
<1>5. CASE CommitKill(r)
  <2>1. /\ reqAt[r] = "killing" /\ reqAt' = [reqAt EXCEPT ![r] = "done"]
        /\ UNCHANGED <<place, taskCancelled>>
    BY <1>5 DEF CommitKill, coordVars
  <2>2. QED
    BY <1>1, <2>1
<1>6. QED
  BY <1>2, <1>3, <1>4, <1>5 DEF RequestStep

LEMMA TerminalNext ==
  TypeInv /\ TerminalInv /\ [Next]_vars => TerminalInv' /\ TerminalStep
<1>. SUFFICES ASSUME TypeInv, TerminalInv, [Next]_vars
              PROVE  TerminalInv' /\ TerminalStep
  OBVIOUS
<1>1. CASE CoordStep
  BY <1>1, TerminalCoord DEF TerminalStep
<1>2. CASE \E r \in Requests : RequestStep(r)
  BY <1>2, TerminalRequest
<1>3. CASE (\E w \in Workers : WorkerStep(w)) \/ UNCHANGED vars
  <2>1. UNCHANGED <<row, reqAt, place, taskCancelled>>
    BY <1>3 DEF WorkerStep, Fetch, Claim, Commit, Return, FailUrl, Raise,
                Deliver, WorkerCancelled, vars, coordVars, requestVars
  <2>2. QED
    BY <2>1 DEF TerminalInv, TerminalStep
<1>4. QED
  BY <1>1, <1>2, <1>3 DEF Next

\* Only a request that was admitted while the run was active changes the
\* status of a run that has ended; neither a worker nor the coordinator does,
\* whatever the pool, the URLs and the number of requests.
THEOREM TerminalSurvives == Spec => TerminalSurvivesCrawl
<1>1. Init => TerminalInv
  BY DEF Init, TerminalInv, TerminalStatuses
<1>2. TypeInv /\ TerminalInv /\ [Next]_vars
        => [row.status \in TerminalStatuses /\ row'.status # row.status
              => \E r \in Requests : reqAt[r] # "done" /\ reqAt'[r] = "done"]_vars
  BY TerminalNext DEF TerminalStep
<1>3. QED
  BY <1>1, <1>2, TerminalNext, TypesHold, PTL DEF Spec, TerminalSurvivesCrawl

-----------------------------------------------------------------------------
(* A control request that was seen ends the run.                           *)

\* Until the batch is decided, the coordinator and the row agree that the run is
\* running; once it has seen a request it can only checkpoint or fail.
StopPlaces == {"drain", "await", "persist", "finalise", "fail", "failing", "done"}

StopInv ==
  /\ taskCancelled =>
       row.status \in {"paused", "killed"} \/ \E r \in Requests : reqAt[r] = "killing"
  /\ ~taskCancelled
     /\ place \in {"start", "get", "refresh", "drain", "await", "leftover", "persist", "gather"}
       => run.status = "running" /\ row.status = "running"
  /\ ~taskCancelled /\ stop \in ControlRequests =>
       /\ place \in StopPlaces
       /\ place = "finalise" => row.status \in {"paused", "killed"}
       /\ place = "fail" => row.status \in {"running", "paused"}
       /\ place = "failing" => run.status = row.status /\ row.status \in {"running", "paused"}
       /\ place = "done" => row.status \in {"paused", "killed", "failed"}

LEMMA StopCoord ==
  ASSUME TypeInv, StopInv, CoordStep
  PROVE  StopInv'
<1>. USE DEF StopInv, StopPlaces, Coordinating, Goto
<1>1. ControlRequests = {"pause", "kill"} /\ UNCHANGED requestVars
  BY DEF ControlRequests, CoordStep, StartBatch, ConsumeResult, ConsumeError, RefreshAfterResult,
         DrainResult, DrainEmpty, PoolCancelled, LeftoverEmpty, ConsumedAll, PoolFinished,
         PersistControl, Finalise, Complete, Fail, MarkFailed, CoordCancelled, Aborted
<1>2. CASE StartBatch \/ ConsumeError \/ DrainEmpty \/ PoolCancelled \/ LeftoverEmpty
           \/ ConsumedAll \/ PoolFinished
  BY <1>1, <1>2 DEF StartBatch, ConsumeError, DrainEmpty, PoolCancelled, LeftoverEmpty,
                    ConsumedAll, PoolFinished, requestVars
<1>3. CASE RefreshAfterResult
  BY <1>1, <1>3 DEF RefreshAfterResult, requestVars
<1>4. CASE ConsumeResult \/ DrainResult
  <2>1. /\ ~ taskCancelled /\ UNCHANGED <<stop, taskCancelled>>
        /\ Record(Head(results)) \/ UNCHANGED <<run, row>>
        /\ \/ place = "get" /\ place' = "refresh"
           \/ place \in {"drain", "leftover"} /\ place' = place
    BY <1>4 DEF ConsumeResult, DrainResult
  <2>2. row'.status = row.status /\ run'.status = run.status
    BY <2>1 DEF Record, Flushed, WithRecords
  <2>3. QED
    BY <2>1, <2>2
<1>5. CASE PersistControl
  <2>. DEFINE target == IF stop = "pause" THEN "paused" ELSE "killed"
              new == WithStatus(run, target, NoControl)
  <2>1. /\ ~ taskCancelled /\ place = "persist" /\ UNCHANGED <<stop, taskCancelled>>
        /\ run.status = "running" /\ row.status = "running" /\ target \in {"paused", "killed"}
    BY <1>5 DEF PersistControl
  <2>2. \/ row' = Flushed(new, run.status # target) /\ place' = "finalise"
        \/ row' = row /\ place' = "fail"
    BY <1>5 DEF PersistControl
  <2>3. Flushed(new, run.status # target).status = target
    BY <2>1 DEF Flushed, WithStatus
  <2>4. QED
    BY <2>1, <2>2, <2>3
<1>6. CASE Finalise
  <2>1. stop \in ControlRequests => ~ CanTransition(row.status, "completed") \/ row.status \in TerminalStatuses
    BY <1>6 DEF Finalise, CanTransition, AllowedTransitions, Statuses, ActiveStatuses, TerminalStatuses
  <2>2. QED
    BY <1>6, <2>1 DEF Finalise, TerminalStatuses
<1>7. CASE Complete
  BY <1>7 DEF Complete
<1>8. CASE Fail
  BY <1>8 DEF Fail
<1>9. CASE MarkFailed
  <2>1. /\ ~ taskCancelled /\ place' = "done" /\ UNCHANGED <<stop, taskCancelled>>
        /\ stop \in ControlRequests => run.status = row.status /\ run.status \in {"running", "paused"}
    BY <1>9 DEF MarkFailed
  <2>2. \/ run.status \in TerminalStatuses
        \/ row'.status = "failed" /\ CanTransition(run.status, "failed")
        \/ row' = row /\ ~ CanTransition(run.status, "failed")
    BY <1>9 DEF MarkFailed, Flushed, WithStatus
  <2>3. CanTransition("running", "failed") /\ {"running", "paused"} \cap TerminalStatuses = {}
    BY DEF CanTransition, AllowedTransitions, Statuses, ActiveStatuses, TerminalStatuses
  <2>4. QED
    BY <2>1, <2>2, <2>3
<1>10. CASE CoordCancelled \/ Aborted
  BY <1>1, <1>10 DEF CoordCancelled, Aborted, requestVars
<1>11. QED
  BY <1>2, <1>3, <1>4, <1>5, <1>6, <1>7, <1>8, <1>9, <1>10 DEF CoordStep

LEMMA StopRequest ==
  ASSUME TypeInv, TerminalInv, StopInv, NEW r \in Requests, RequestStep(r)
  PROVE  StopInv'
<1>. USE DEF StopInv, StopPlaces
<1>1. reqAt \in [Requests -> {"none", "pause", "kill", "killing", "done"}] /\ taskCancelled \in BOOLEAN
  BY DEF TypeInv, TypeOK
<1>2. CASE AdmitPause(r) \/ AdmitKill(r)
  <2>1. /\ UNCHANGED <<row, coordVars>>
        /\ \A s \in Requests : reqAt[s] = "killing" => reqAt'[s] = "killing"
    BY <1>1, <1>2 DEF AdmitPause, AdmitKill, Admit
  <2>2. QED
    BY <2>1 DEF coordVars
<1>3. CASE CommitPause(r)
  <2>1. /\ UNCHANGED coordVars
        /\ \A s \in Requests : reqAt[s] = "killing" => reqAt'[s] = "killing"
    BY <1>1, <1>3 DEF CommitPause
  <2>2. \/ row'.status = row.status
        \/ row'.status = "paused" /\ (taskCancelled \/ place = "done")
    <3>1. \/ row' = row
          \/ row' = Flushed(WithStatus(reqCopy[r], reqCopy[r].status, "pause"), FALSE)
          \/ /\ row' = Flushed(WithStatus(reqCopy[r], "paused", reqCopy[r].control), TRUE)
             /\ taskCancelled \/ place = "done"
      BY <1>3, Zenon DEF CommitPause, TaskLive
    <3>2. QED
      BY <3>1 DEF Flushed, WithStatus
  <2>3. QED
    BY <2>1, <2>2 DEF coordVars
<1>4. CASE CancelTask(r)
  <2>1. /\ reqAt'[r] = "killing" /\ UNCHANGED <<row, run, place, stop>>
        /\ taskCancelled' => taskCancelled \/ reqAt'[r] = "killing"
        /\ ~ taskCancelled' => ~ taskCancelled
    BY <1>1, <1>4 DEF CancelTask
  <2>2. QED
    BY <1>1, <1>4, <2>1
<1>5. CASE CommitKill(r)
  <2>1. row'.status = "killed" /\ UNCHANGED coordVars /\ (taskCancelled \/ place = "done")
    BY <1>5 DEF CommitKill, TerminalInv, Flushed, WithStatus
  <2>2. QED
    BY <2>1 DEF coordVars
<1>6. QED
  BY <1>2, <1>3, <1>4, <1>5 DEF RequestStep

LEMMA StopStep == TypeInv /\ TerminalInv /\ StopInv /\ [Next]_vars => StopInv'
<1>. SUFFICES ASSUME TypeInv, TerminalInv, StopInv, [Next]_vars PROVE StopInv'
  OBVIOUS
<1>1. CASE (\E w \in Workers : WorkerStep(w)) \/ UNCHANGED vars
  <2>1. UNCHANGED <<row, reqAt, coordVars>>
    BY <1>1 DEF WorkerStep, Fetch, Claim, Commit, Return, FailUrl, Raise,
                Deliver, WorkerCancelled, vars, requestVars
  <2>2. QED
    BY <2>1 DEF StopInv, coordVars
<1>2. QED
  BY <1>1, StopCoord, StopRequest DEF Next

\* What SeenControlStopsRun says of a batch that has ended, whatever the number of
\* requests: a control request the coordinator has seen leaves the run paused,
\* killed or, when a worker's exception was queued, failed, and never completed; a
\* kill that cancelled the task may still have to commit.
THEOREM SeenControlHolds ==
  Spec => [](place = "done" /\ stop \in ControlRequests
               => \/ row.status \in {"paused", "killed", "failed"}
                  \/ \E r \in Requests : reqAt[r] = "killing")
<1>1. Init => StopInv
  BY DEF Init, StopInv, ControlRequests
<1>2. StopInv => (place = "done" /\ stop \in ControlRequests
                    => \/ row.status \in {"paused", "killed", "failed"}
                       \/ \E r \in Requests : reqAt[r] = "killing")
  BY DEF StopInv
<1>3. Spec => []TerminalInv
  <2>1. Init => TerminalInv
    BY DEF Init, TerminalInv, TerminalStatuses
  <2>2. QED
    BY <2>1, TerminalNext, TypesHold, PTL DEF Spec
<1>4. QED
  BY <1>1, <1>2, <1>3, StopStep, TypesHold, PTL DEF Spec

-----------------------------------------------------------------------------
(* Counted records exist.                                                  *)

\* Until its result is recorded, what a URL is reported with was committed.
ReportedExist ==
  /\ \A w \in Workers : at[w] \in {"committed", "deliver"}
                          => count[w] <= persisted[url[w]]
  /\ \A i \in DOMAIN results : results[i].ok
                          => results[i].count <= persisted[results[i].url]

CountedInv == CountedRecordsExist /\ ReportedExist

\* Commits only add records.
LEMMA CountedGrows ==
  ASSUME TypeInv, TypeOK', CountedRecordsExist, UNCHANGED <<records, recorded>>,
         \A u \in Urls : persisted[u] <= persisted'[u]
  PROVE  CountedRecordsExist'
<1>1. IsFiniteSet(recorded) /\ recorded \subseteq Urls
  BY RecordedAll DEF TypeInv, TypeOK
<1>2. \A u \in recorded : /\ persisted[u] \in Nat /\ persisted'[u] \in Nat
                          /\ persisted[u] <= persisted'[u]
  BY <1>1 DEF TypeInv, TypeOK
<1>3. SumFunctionOnSet(persisted, recorded) <= SumFunctionOnSet(persisted', recorded)
  BY <1>1, <1>2, SumMonotone
<1>4. /\ SumFunctionOnSet(persisted, recorded) \in Nat
      /\ SumFunctionOnSet(persisted', recorded) \in Nat
  BY <1>1, <1>2, SumType
<1>5. PICK n \in StartRecords :
        records <= n + SumFunctionOnSet(persisted, recorded)
  BY DEF CountedRecordsExist
<1>6. n \in Nat /\ records \in Nat
  BY StartAssumption DEF TypeInv, TypeOK
<1>7. records' <= n + SumFunctionOnSet(persisted', recorded')
  BY <1>3, <1>4, <1>5, <1>6
<1>8. QED
  BY <1>7 DEF CountedRecordsExist

LEMMA CountedWorker ==
  ASSUME TypeInv, TypeInv', CountedInv, NEW w \in Workers, WorkerStep(w)
  PROVE  CountedInv'
<1>. USE DEF CountedInv, ReportedExist
<1>1. UNCHANGED <<records, recorded>>
  BY DEF WorkerStep, Fetch, Claim, Commit, Return, FailUrl, Raise, Deliver,
         WorkerCancelled, coordVars
<1>2. ASSUME NEW n \in 0 .. WorkerLimit + Overshoot, Commit(w, n)
      PROVE  CountedInv'
  <2>1. n \in Nat
    BY WorkerLimitType, OvershootAssumption
  <2>2. /\ at[w] = "processing"
        /\ at' = [at EXCEPT ![w] = "committed"]
        /\ count' = [count EXCEPT ![w] = n]
        /\ persisted' = [persisted EXCEPT ![url[w]] = persisted[url[w]] + n]
        /\ UNCHANGED <<url, results>>
    BY <1>2 DEF Commit
  <2>3. url[w] \in Urls
    BY <2>2 DEF TypeInv, HoldersHaveUrl, Holding
  <2>4. /\ \A u \in Urls : persisted[u] \in Nat /\ persisted'[u] \in Nat
                           /\ persisted[u] <= persisted'[u]
        /\ n <= persisted'[url[w]]
    BY <2>1, <2>2, <2>3 DEF TypeInv, TypeOK
  <2>5. ASSUME NEW v \in Workers, at'[v] \in {"committed", "deliver"}
        PROVE  count'[v] <= persisted'[url'[v]]
    <3>1. CASE v = w
      BY <2>2, <2>4, <3>1 DEF TypeInv, TypeOK
    <3>2. CASE v # w
      <4>1. at[v] \in {"committed", "deliver"} /\ count'[v] = count[v]
        BY <2>2, <2>5, <3>2 DEF TypeInv, TypeOK
      <4>2. url[v] \in Urls /\ count[v] \in Nat
        BY <4>1 DEF TypeInv, TypeOK, HoldersHaveUrl, Holding
      <4>3. QED
        BY <2>2, <2>4, <4>1, <4>2
    <3>3. QED
      BY <3>1, <3>2
  <2>6. ASSUME NEW i \in DOMAIN results', results'[i].ok
        PROVE  results'[i].count <= persisted'[results'[i].url]
    <3>1. results[i] \in Outcome /\ results[i].count <= persisted[results[i].url]
      BY <2>2, <2>6 DEF TypeInv, TypeOK
    <3>2. results[i].url \in Urls /\ results[i].count \in Nat
      BY <3>1 DEF Outcome
    <3>3. QED
      BY <2>2, <2>4, <3>1, <3>2
  <2>7. QED
    BY <1>1, <2>4, <2>5, <2>6, CountedGrows DEF TypeInv
<1>3. CASE Deliver(w)
  <2>1. /\ at[w] \in {"deliver", "raise"}
        /\ results' = Append(results, [ok |-> at[w] = "deliver", url |-> url[w],
                                       count |-> count[w]])
        /\ at'[w] \notin {"committed", "deliver"}
        /\ \A v \in Workers \ {w} :
             at'[v] = at[v] /\ url'[v] = url[v] /\ count'[v] = count[v]
        /\ UNCHANGED persisted
    BY <1>3 DEF Deliver, TypeInv, TypeOK
  <2>2. results \in Seq(Outcome)
    BY DEF TypeInv, TypeOK
  <2>3. ASSUME NEW i \in DOMAIN results', results'[i].ok
        PROVE  results'[i].count <= persisted'[results'[i].url]
    <3>1. \/ i \in DOMAIN results /\ results'[i] = results[i]
          \/ results'[i] = [ok |-> at[w] = "deliver", url |-> url[w],
                            count |-> count[w]]
      BY <2>1, <2>2
    <3>2. CASE i \in DOMAIN results /\ results'[i] = results[i]
      BY <2>1, <2>3, <3>2
    <3>3. CASE results'[i] = [ok |-> at[w] = "deliver", url |-> url[w],
                              count |-> count[w]]
      <4>1. results'[i].ok = (at[w] = "deliver")
        BY <3>3
      <4>2. at[w] = "deliver"
        BY <2>3, <4>1, Zenon
      <4>3. QED
        BY <2>1, <3>3, <4>2
    <3>4. QED
      BY <3>1, <3>2, <3>3
  <2>4. CountedRecordsExist'
    BY <1>1, <2>1 DEF CountedRecordsExist
  <2>5. QED
    BY <2>1, <2>3, <2>4
<1>4. CASE ~ Deliver(w) /\ ~ \E n \in 0 .. WorkerLimit + Overshoot : Commit(w, n)
  <2>1. /\ UNCHANGED <<persisted, results>>
        /\ \A v \in Workers : at'[v] \in {"committed", "deliver"} =>
             \/ count'[v] = 0
             \/ /\ at[v] \in {"committed", "deliver"}
                /\ count'[v] = count[v] /\ url'[v] = url[v]
    BY <1>4 DEF WorkerStep, Fetch, Claim, Return, FailUrl, Raise,
                WorkerCancelled, TypeInv, TypeOK
  <2>2. \A v \in Workers : at'[v] \in {"committed", "deliver"}
                             => 0 <= persisted'[url'[v]]
    BY DEF TypeInv, TypeOK, HoldersHaveUrl, Holding
  <2>3. QED
    BY <1>1, <2>1, <2>2 DEF CountedRecordsExist
<1>5. QED
  BY <1>2, <1>3, <1>4

\* Recording a result adds a URL whose records were committed.
LEMMA CountedRecord ==
  ASSUME TypeInv, OnePlaceInv, CountedInv, results # <<>>, Head(results).ok,
         Record(Head(results)), results' = Tail(results), UNCHANGED workerVars
  PROVE  CountedRecordsExist'
<1>. DEFINE item == Head(results)
<1>1. item \in Outcome /\ item.url \in Urls /\ item.count \in Nat
  BY QueueTypes DEF TypeInv, TypeOK, Outcome
<1>2. item.count <= persisted[item.url]
  <2>1. 1 \in DOMAIN results /\ item = results[1]
    BY DEF TypeInv, TypeOK
  <2>2. QED
    BY <2>1 DEF CountedInv, ReportedExist
<1>3. recorded' = recorded \cup {item.url} /\ records' = records + item.count
  BY DEF Record
<1>4. item.url \notin recorded
  BY <1>3, OnePlaceTake
<1>5. /\ IsFiniteSet(recorded) /\ IsFiniteSet(recorded')
      /\ \A u \in recorded' : persisted[u] \in Nat
  BY <1>1, <1>3, RecordedAll, FS_AddElement DEF TypeInv, TypeOK
<1>6. SumFunctionOnSet(persisted, recorded')
        = persisted[item.url] + SumFunctionOnSet(persisted, recorded)
  <2>1. item.url \in recorded' /\ recorded' \ {item.url} = recorded
    BY <1>3, <1>4
  <2>. HIDE DEF item
  <2>2. QED
    BY <1>5, <2>1, SumRemove
<1>7. SumFunctionOnSet(persisted, recorded) \in Nat /\ persisted[item.url] \in Nat
  BY <1>1, <1>3, <1>5, SumType
<1>8. PICK n \in StartRecords :
        records <= n + SumFunctionOnSet(persisted, recorded)
  BY DEF CountedInv, CountedRecordsExist
<1>9. n \in Nat /\ records \in Nat
  BY StartAssumption DEF TypeInv, TypeOK
<1>10. records' <= n + SumFunctionOnSet(persisted, recorded')
  <2>. HIDE DEF item
  <2>1. QED
    BY <1>1, <1>2, <1>3, <1>6, <1>7, <1>8, <1>9
<1>11. persisted' = persisted
  BY DEF workerVars
<1>12. QED
  BY <1>10, <1>11 DEF CountedRecordsExist

LEMMA CountedCoord ==
  ASSUME TypeInv, OnePlaceInv, CountedInv, CoordStep
  PROVE  CountedInv'
<1>. USE DEF CountedInv
<1>1. CASE StartBatch
  BY <1>1 DEF StartBatch, CountedRecordsExist, ReportedExist
<1>2. CASE ConsumeResult \/ ConsumeError \/ DrainResult
  <2>1. /\ results # <<>>
        /\ results' = Tail(results)
        /\ UNCHANGED workerVars
        /\ \/ UNCHANGED <<records, recorded>>
           \/ Head(results).ok /\ Record(Head(results))
    BY <1>2 DEF ConsumeResult, ConsumeError, DrainResult, poolVars
  <2>2. CountedRecordsExist'
    <3>1. CASE UNCHANGED <<records, recorded>>
      BY <2>1, <3>1 DEF CountedRecordsExist, workerVars
    <3>2. QED
      BY <2>1, <3>1, CountedRecord
  <2>3. ReportedExist'
    <3>1. \A i \in DOMAIN results' : i + 1 \in DOMAIN results
                                   /\ results'[i] = results[i + 1]
      BY <2>1 DEF TypeInv, TypeOK
    <3>2. QED
      BY <2>1, <3>1 DEF ReportedExist, workerVars
  <2>4. QED
    BY <2>2, <2>3
<1>3. CASE ~ StartBatch /\ ~ ConsumeResult /\ ~ ConsumeError /\ ~ DrainResult
  <2>1. UNCHANGED <<workerVars, results, recorded, records>>
    BY <1>3 DEF CoordStep, RefreshAfterResult, DrainEmpty, PoolCancelled,
                LeftoverEmpty, ConsumedAll, PoolFinished, PersistControl,
                Finalise, Complete, Fail, MarkFailed, CoordCancelled, Aborted,
                poolVars
  <2>2. QED
    BY <2>1 DEF CountedRecordsExist, ReportedExist, workerVars
<1>4. QED
  BY <1>1, <1>2, <1>3

LEMMA CountedStep ==
  TypeInv /\ TypeInv' /\ OnePlaceInv /\ CountedInv /\ [Next]_vars => CountedInv'
<1>. SUFFICES ASSUME TypeInv, TypeInv', OnePlaceInv, CountedInv, [Next]_vars
              PROVE  CountedInv'
  OBVIOUS
<1>1. CASE \E w \in Workers : WorkerStep(w)
  BY <1>1, CountedWorker
<1>2. CASE CoordStep
  BY <1>2, CountedCoord
<1>3. CASE (\E r \in Requests : RequestStep(r)) \/ UNCHANGED vars
  <2>1. UNCHANGED <<workerVars, results, recorded, records>>
    BY <1>3 DEF RequestStep, AdmitPause, AdmitKill, Admit, CommitPause,
                CancelTask, CommitKill, vars, poolVars, coordVars
  <2>2. QED
    BY <2>1 DEF CountedInv, CountedRecordsExist, ReportedExist, workerVars
<1>4. QED
  BY <1>1, <1>2, <1>3 DEF Next

\* The record count never exceeds what it started from and the records that
\* recorded URLs committed, each URL counted once, for every pool, URL list
\* and number of records per URL.
THEOREM CountsWhatExists == Spec => []CountedRecordsExist
<1>1. Init => CountedInv
  <2>. SUFFICES ASSUME Init PROVE CountedInv
    OBVIOUS
  <2>1. records \in StartRecords /\ recorded = {} /\ records \in Nat
    BY StartAssumption DEF Init
  <2>2. records <= records + SumFunctionOnSet(persisted, recorded)
    BY <2>1, SumEmpty
  <2>3. ReportedExist
    BY DEF Init, ReportedExist
  <2>4. QED
    BY <2>1, <2>2, <2>3 DEF CountedInv, CountedRecordsExist
<1>2. CountedInv => CountedRecordsExist
  BY DEF CountedInv
<1>3. QED
  BY <1>1, <1>2, CountedStep, TypesHold, OnePlaceHolds, PTL DEF Spec

-----------------------------------------------------------------------------
(* The record budget is conserved.                                         *)

\* The places in which the pool has not been cancelled.
BudgetPlaces == {"get", "refresh", "drain", "gather"}

\* The budget wherever it is: unclaimed, claimed, reported, or counted.
Total == available + SumFunction(Claims) + SumFunction(Held)
           + SumFunction(Queued) + records

\* The URLs that were processed to an end.  Each may have persisted Overshoot
\* records more than its worker claimed; a worker's exception reports none.
Delivered == {url[w] : w \in {v \in Workers : at[v] = "deliver"}}
             \cup {results[i].url : i \in {j \in DOMAIN results : results[j].ok}}
             \cup recorded

Accounted == /\ MaxRecords <= Total
             /\ Total <= MaxRecords + Overshoot * Cardinality(Delivered)

\* A worker counts records only between the commit and the report of its URL,
\* and no more than its claim and what exceeds it.
CountsBounded ==
  /\ \A w \in Workers : at[w] \notin {"committed", "deliver"} => count[w] = 0
  /\ \A w \in Workers :
       at[w] = "committed" => count[w] <= claimed[w] + Overshoot
  /\ \A i \in DOMAIN results : ~ results[i].ok => results[i].count = 0

BudgetInv ==
  /\ place = "start" =>
       /\ cancelled = {} /\ results = <<>> /\ recorded = {}
       /\ \A w \in Workers : at[w] = "stopped" /\ count[w] = 0
       /\ records < MaxRecords => available + records = MaxRecords
  /\ place \in BudgetPlaces => cancelled = {} /\ CountsBounded /\ Accounted

\* The parts of the total are natural numbers.
BudgetTyped ==
  /\ Claims \in [Workers -> Nat] /\ Held \in [Workers -> Nat]
  /\ Queued \in [DOMAIN results -> Nat]
  /\ DOMAIN results = 1 .. Len(results) /\ Len(results) \in Nat
  /\ SumFunction(Claims) = SumFunctionOnSet(Claims, Workers)
  /\ SumFunction(Held) = SumFunctionOnSet(Held, Workers)
  /\ SumFunction(Queued) = SumFunctionOnSet(Queued, 1 .. Len(results))
  /\ SumFunction(Claims) \in Nat /\ SumFunction(Held) \in Nat
  /\ SumFunction(Queued) \in Nat
  /\ available \in Nat /\ records \in Nat /\ Total \in Nat

LEMMA BudgetTypes == TypeInv => BudgetTyped
<1>. SUFFICES ASSUME TypeInv PROVE BudgetTyped
  OBVIOUS
<1>1. /\ Claims \in [Workers -> Nat] /\ Held \in [Workers -> Nat]
  BY DEF TypeInv, TypeOK, Claims, Held
<1>2. \A i \in DOMAIN results : results[i] \in Outcome
  BY DEF TypeInv, TypeOK
<1>3. Queued \in [DOMAIN results -> Nat]
  BY <1>2 DEF Queued, Outcome
<1>4. DOMAIN results = 1 .. Len(results) /\ Len(results) \in Nat
  BY DEF TypeInv, TypeOK
<1>5. IsFiniteSet(1 .. Len(results))
  BY <1>4, FS_Interval
<1>6. /\ SumFunction(Claims) = SumFunctionOnSet(Claims, Workers)
      /\ SumFunction(Held) = SumFunctionOnSet(Held, Workers)
      /\ SumFunction(Queued) = SumFunctionOnSet(Queued, 1 .. Len(results))
  BY <1>4 DEF SumFunction, Claims, Held, Queued
<1>7. /\ SumFunctionOnSet(Claims, Workers) \in Nat
      /\ SumFunctionOnSet(Held, Workers) \in Nat
      /\ SumFunctionOnSet(Queued, 1 .. Len(results)) \in Nat
  BY <1>1, <1>3, <1>4, <1>5, SumType, WorkersAssumption
<1>8. available \in Nat /\ records \in Nat
  BY DEF TypeInv, TypeOK
<1>9. QED
  BY <1>1, <1>3, <1>4, <1>6, <1>7, <1>8 DEF BudgetTyped, Total

\* The URLs processed to an end are some of url_list.
DeliveredTyped ==
  /\ Delivered \subseteq Urls
  /\ IsFiniteSet(Delivered) /\ Cardinality(Delivered) \in Nat

LEMMA DeliveredTypes == TypeInv => DeliveredTyped
<1>. SUFFICES ASSUME TypeInv PROVE DeliveredTyped
  OBVIOUS
<1>1. \A w \in Workers : at[w] = "deliver" => url[w] \in Urls
  BY DEF TypeInv, HoldersHaveUrl, Holding
<1>2. \A i \in DOMAIN results : results[i].url \in Urls
  <2>1. \A i \in DOMAIN results : results[i] \in Outcome
    BY DEF TypeInv, TypeOK
  <2>2. QED
    BY <2>1 DEF Outcome
<1>3. recorded \subseteq Urls
  BY DEF TypeInv, TypeOK
<1>4. Delivered \subseteq Urls
  BY <1>1, <1>2, <1>3 DEF Delivered
<1>5. IsFiniteSet(Urls)
  BY NumUrlsAssumption, FS_Interval DEF Urls
<1>6. QED
  BY <1>4, <1>5, FS_Subset, FS_CardinalityType DEF DeliveredTyped

LEMMA BudgetTypesNext == TypeInv' => BudgetTyped' /\ DeliveredTyped'
BY BudgetTypes, DeliveredTypes, PTL

\* A step of one worker changes its own part of the sums only.
LEMMA WorkerSums ==
  ASSUME TypeInv, TypeInv', NEW w \in Workers,
         \A v \in Workers \ {w} :
           at'[v] = at[v] /\ claimed'[v] = claimed[v] /\ count'[v] = count[v]
  PROVE  /\ SumFunction(Claims)'
              = SumFunction(Claims) + (Claims'[w] - Claims[w])
         /\ SumFunction(Held)' = SumFunction(Held) + (Held'[w] - Held[w])
<1>1. \A v \in Workers \ {w} : Claims'[v] = Claims[v] /\ Held'[v] = Held[v]
  BY DEF Claims, Held
<1>2. /\ Claims \in [Workers -> Nat] /\ Held \in [Workers -> Nat]
      /\ Claims' \in [Workers -> Nat] /\ Held' \in [Workers -> Nat]
  BY BudgetTypes, BudgetTypesNext DEF BudgetTyped
<1>3. /\ SumFunctionOnSet(Claims', Workers)
           = SumFunctionOnSet(Claims, Workers) + (Claims'[w] - Claims[w])
      /\ SumFunctionOnSet(Held', Workers)
           = SumFunctionOnSet(Held, Workers) + (Held'[w] - Held[w])
  BY <1>1, <1>2, SumChange, WorkersAssumption
<1>4. QED
  BY <1>3, BudgetTypes, BudgetTypesNext DEF BudgetTyped

\* How the total changes in a step of one worker.
LEMMA WorkerTotal ==
  ASSUME TypeInv, TypeInv', NEW w \in Workers, UNCHANGED records,
         \A v \in Workers \ {w} :
           at'[v] = at[v] /\ claimed'[v] = claimed[v] /\ count'[v] = count[v]
  PROVE  Total' - Total
           = (available' - available) + (Claims'[w] - Claims[w])
               + (Held'[w] - Held[w]) + (SumFunction(Queued)' - SumFunction(Queued))
<1>1. /\ SumFunction(Claims)'
           = SumFunction(Claims) + (Claims'[w] - Claims[w])
      /\ SumFunction(Held)' = SumFunction(Held) + (Held'[w] - Held[w])
  BY WorkerSums
<1>2. /\ SumFunction(Claims) \in Nat /\ SumFunction(Claims)' \in Nat
      /\ SumFunction(Held) \in Nat /\ SumFunction(Held)' \in Nat
      /\ SumFunction(Queued) \in Nat /\ SumFunction(Queued)' \in Nat
      /\ available \in Nat /\ available' \in Nat /\ records \in Nat
      /\ Claims[w] \in Nat /\ Claims'[w] \in Nat
      /\ Held[w] \in Nat /\ Held'[w] \in Nat
  BY BudgetTypes, BudgetTypesNext DEF BudgetTyped
<1>3. QED
  BY <1>1, <1>2 DEF Total

\* Budget that only moves, while no processed URL is forgotten, is accounted.
LEMMA AccountedMoved ==
  ASSUME TypeInv, TypeInv', Accounted, Total' = Total, Delivered \subseteq Delivered'
  PROVE  Accounted'
<1>1. /\ Cardinality(Delivered) \in Nat /\ Cardinality(Delivered') \in Nat
      /\ Cardinality(Delivered) <= Cardinality(Delivered')
  BY DeliveredTypes, BudgetTypesNext, FS_Subset DEF DeliveredTyped
<1>2. Overshoot * Cardinality(Delivered) <= Overshoot * Cardinality(Delivered')
  BY <1>1, OvershootAssumption
<1>3. /\ Overshoot * Cardinality(Delivered) \in Nat
      /\ Overshoot * Cardinality(Delivered') \in Nat
  BY <1>1, OvershootAssumption
<1>4. Total \in Nat /\ MaxRecords \in Nat
  BY BudgetTypes, RecordsAssumption DEF BudgetTyped
<1>5. QED
  BY <1>2, <1>3, <1>4 DEF Accounted

\* So is what one more URL persisted beyond the claim of its worker.
LEMMA AccountedExcess ==
  ASSUME TypeInv, TypeInv', Accounted, NEW u, u \notin Delivered,
         Delivered' = Delivered \cup {u},
         Total <= Total', Total' <= Total + Overshoot
  PROVE  Accounted'
<1>1. /\ Cardinality(Delivered) \in Nat
      /\ Cardinality(Delivered') = Cardinality(Delivered) + 1
  BY DeliveredTypes, FS_AddElement DEF DeliveredTyped
<1>2. Overshoot * Cardinality(Delivered')
        = Overshoot * Cardinality(Delivered) + Overshoot
  BY <1>1, OvershootAssumption
<1>3. Overshoot * Cardinality(Delivered) \in Nat
  BY <1>1, OvershootAssumption
<1>4. Total \in Nat /\ Total' \in Nat /\ MaxRecords \in Nat /\ Overshoot \in Nat
  BY BudgetTypes, BudgetTypesNext, RecordsAssumption, OvershootAssumption
     DEF BudgetTyped
<1>5. QED
  BY <1>2, <1>3, <1>4 DEF Accounted

\* A worker's report is one more result at the end of the queue, and the
\* coordinator takes the first one.
LEMMA QueuedAppend ==
  ASSUME TypeInv, TypeInv', NEW item \in Outcome, results' = Append(results, item)
  PROVE  SumFunction(Queued)' = SumFunction(Queued) + item.count
<1>. DEFINE n == Len(results)
<1>1. results \in Seq(Outcome) /\ n \in Nat
  BY DEF TypeInv, TypeOK
<1>2. /\ Len(results') = n + 1 /\ DOMAIN results = 1 .. n
      /\ DOMAIN results' = 1 .. n + 1
      /\ \A i \in 1 .. n : results'[i] = results[i]
      /\ results'[n + 1] = item
  BY <1>1
<1>. HIDE DEF n
<1>3. /\ Queued \in [1 .. n -> Nat] /\ Queued' \in [1 .. n + 1 -> Nat]
      /\ SumFunction(Queued) = SumFunctionOnSet(Queued, 1 .. n)
      /\ SumFunction(Queued)' = SumFunctionOnSet(Queued', 1 .. n + 1)
  BY <1>2, BudgetTypes, BudgetTypesNext DEF BudgetTyped, n
<1>4. /\ \A i \in 1 .. n : Queued'[i] = Queued[i]
      /\ Queued'[n + 1] = item.count
  BY <1>1, <1>2 DEF Queued
<1>5. \A i \in 1 .. n + 1 : Queued'[i] \in Nat
  BY <1>3
<1>6. SumFunctionOnSet(Queued', 1 .. n + 1)
        = SumFunctionOnSet(Queued', 1 .. n) + Queued'[n + 1]
  BY <1>1, <1>5, SumAppend
<1>7. IsFiniteSet(1 .. n)
  BY <1>1, FS_Interval
<1>8. SumFunctionOnSet(Queued', 1 .. n) = SumFunctionOnSet(Queued, 1 .. n)
  <2>1. \A i \in 1 .. n : Queued[i] \in Nat /\ Queued'[i] = Queued[i]
    BY <1>3, <1>4
  <2>2. QED
    BY <1>7, <2>1, SumEqual
<1>9. QED
  BY <1>3, <1>4, <1>6, <1>8

LEMMA QueuedTake ==
  ASSUME TypeInv, TypeInv', results # <<>>, results' = Tail(results)
  PROVE  SumFunction(Queued) = Head(results).count + SumFunction(Queued)'
<1>. DEFINE n == Len(results')
<1>1. results \in Seq(Outcome) /\ n \in Nat
  BY DEF TypeInv, TypeOK
<1>2. /\ Len(results) = n + 1 /\ DOMAIN results = 1 .. n + 1
      /\ DOMAIN results' = 1 .. n
      /\ \A i \in 1 .. n : results'[i] = results[i + 1]
      /\ results[1] = Head(results)
  BY <1>1
<1>. HIDE DEF n
<1>3. /\ Queued \in [1 .. n + 1 -> Nat]
      /\ SumFunction(Queued) = SumFunctionOnSet(Queued, 1 .. n + 1)
      /\ SumFunction(Queued)' = SumFunctionOnSet(Queued', 1 .. n)
  BY <1>2, BudgetTypes, BudgetTypesNext DEF BudgetTyped, n
<1>4. /\ \A i \in 1 .. n : Queued'[i] = Queued[i + 1]
      /\ Queued[1] = Head(results).count
  BY <1>1, <1>2 DEF Queued
<1>5. \A i \in 1 .. n + 1 : Queued[i] \in Nat
  BY <1>3
<1>6. SumFunctionOnSet(Queued, 1 .. n + 1)
        = Queued[1] + SumFunctionOnSet(Queued', 1 .. n)
  BY <1>1, <1>4, <1>5, SumTail
<1>7. QED
  BY <1>3, <1>4, <1>6

\* Taking a URL, claiming budget, committing records and raising move budget.
LEMMA BudgetMoves ==
  ASSUME TypeInv, TypeInv', CountsBounded, Accounted, NEW w \in Workers,
         \/ Fetch(w) \/ Claim(w) \/ Raise(w)
         \/ \E n \in 0 .. WorkerLimit + Overshoot : Commit(w, n)
  PROVE  CountsBounded' /\ Accounted'
<1>1. /\ \A v \in Workers \ {w} : /\ at'[v] = at[v] /\ claimed'[v] = claimed[v]
                                  /\ count'[v] = count[v] /\ url'[v] = url[v]
      /\ at[w] # "deliver" /\ at'[w] # "deliver"
      /\ UNCHANGED <<results, recorded, records>>
  BY DEF Fetch, Claim, Raise, Commit, TypeInv, TypeOK, coordVars
<1>2. /\ available' + Claims'[w] = available + Claims[w]
      /\ Held'[w] = Held[w]
      /\ at'[w] \notin {"committed", "deliver"} => count'[w] = 0
      /\ at'[w] = "committed" => count'[w] <= claimed'[w] + Overshoot
  <2>0. /\ at \in [Workers -> WorkerPlaces] /\ claimed \in [Workers -> Nat]
        /\ count \in [Workers -> Nat] /\ available \in Nat
        /\ at[w] \notin {"committed", "deliver"} => count[w] = 0
    BY DEF TypeInv, TypeOK, CountsBounded
  <2>. USE DEF Claims, Held
  <2>1. CASE Fetch(w)
    BY <2>0, <2>1 DEF Fetch
  <2>2. CASE Claim(w)
    <3>1. /\ claimed'[w] + available' = available
          /\ at[w] = "claim" /\ at'[w] = "processing" /\ count' = count
      BY <2>0, <2>2, WorkerLimitType DEF Claim
    <3>2. /\ Claims[w] = 0 /\ Claims'[w] = claimed'[w]
          /\ Held[w] = 0 /\ Held'[w] = 0
      BY <3>1
    <3>3. claimed'[w] \in Nat /\ available' \in Nat
      BY DEF TypeInv, TypeOK
    <3>. HIDE DEF Claims, Held
    <3>4. QED
      BY <2>0, <3>1, <3>2, <3>3
  <2>3. CASE Raise(w)
    <3>1. /\ available' = available + claimed[w]
          /\ at[w] = "processing" /\ at'[w] = "raise" /\ count' = count
      BY <2>0, <2>3 DEF Raise
    <3>2. /\ Claims[w] = claimed[w] /\ Claims'[w] = 0
          /\ Held[w] = 0 /\ Held'[w] = 0
      BY <3>1
    <3>. HIDE DEF Claims, Held
    <3>3. QED
      BY <2>0, <3>1, <3>2
  <2>4. CASE \E n \in 0 .. WorkerLimit + Overshoot : Commit(w, n)
    BY <2>0, <2>4 DEF Commit
  <2>5. QED
    BY <2>1, <2>2, <2>3, <2>4
<1>3. CountsBounded'
  BY <1>1, <1>2 DEF CountsBounded
<1>4. Total' = Total
  <2>1. SumFunction(Queued)' = SumFunction(Queued)
    BY <1>1 DEF Queued
  <2>2. /\ Claims[w] \in Nat /\ Claims'[w] \in Nat /\ Held[w] \in Nat
        /\ available \in Nat /\ available' \in Nat
        /\ SumFunction(Queued) \in Nat /\ Total \in Nat /\ Total' \in Nat
    BY BudgetTypes, BudgetTypesNext DEF BudgetTyped
  <2>3. Total' - Total
          = (available' - available) + (Claims'[w] - Claims[w])
              + (Held'[w] - Held[w]) + (SumFunction(Queued)' - SumFunction(Queued))
    BY <1>1, WorkerTotal
  <2>4. QED
    BY <1>2, <2>1, <2>2, <2>3
<1>5. Delivered' = Delivered
  BY <1>1 DEF Delivered
<1>6. QED
  BY <1>3, <1>4, <1>5, AccountedMoved

\* A URL that ends, returns its records or fails, gives back what is left of
\* the claim, and its records may exceed the claim by Overshoot.
LEMMA BudgetReturns ==
  ASSUME TypeInv, TypeInv', OnePlaceInv, CountsBounded, Accounted,
         NEW w \in Workers, Return(w) \/ FailUrl(w)
  PROVE  CountsBounded' /\ Accounted'
<1>1. /\ at[w] \in {"processing", "committed"} /\ at' = [at EXCEPT ![w] = "deliver"]
      /\ \A v \in Workers \ {w} : /\ at'[v] = at[v] /\ claimed'[v] = claimed[v]
                                  /\ count'[v] = count[v]
      /\ UNCHANGED <<url, results, recorded, records>>
  BY DEF Return, FailUrl, TypeInv, TypeOK, coordVars
<1>2. CountsBounded'
  BY <1>1 DEF CountsBounded, TypeInv, TypeOK
<1>3. /\ Claims[w] = claimed[w] /\ Claims'[w] = 0
      /\ Held[w] = 0 /\ Held'[w] = count'[w]
      /\ claimed[w] \in Nat /\ count'[w] \in Nat
  BY <1>1 DEF Claims, Held, TypeInv, TypeOK
<1>4. /\ available + claimed[w] <= available' + count'[w]
      /\ available' + count'[w] <= available + claimed[w] + Overshoot
  BY OvershootAssumption
     DEF Return, FailUrl, CountsBounded, TypeInv, TypeOK
<1>5. Total <= Total' /\ Total' <= Total + Overshoot
  <2>1. SumFunction(Queued)' = SumFunction(Queued)
    BY <1>1 DEF Queued
  <2>2. /\ available \in Nat /\ available' \in Nat
        /\ SumFunction(Queued) \in Nat /\ Total \in Nat /\ Total' \in Nat
    BY BudgetTypes, BudgetTypesNext DEF BudgetTyped
  <2>3. Total' - Total
          = (available' - available) + (Claims'[w] - Claims[w])
              + (Held'[w] - Held[w]) + (SumFunction(Queued)' - SumFunction(Queued))
    BY <1>1, WorkerTotal
  <2>4. QED
    BY <1>3, <1>4, <2>1, <2>2, <2>3, OvershootAssumption
<1>6. url[w] \notin Delivered /\ Delivered' = Delivered \cup {url[w]}
  <2>1. Holding(w)
    BY <1>1 DEF Holding
  <2>2. url[w] \notin Delivered
    BY <1>1, <2>1 DEF OnePlaceInv, UrlInOnePlace, Delivered, Holding
  <2>3. {v \in Workers : at'[v] = "deliver"} = {v \in Workers : at[v] = "deliver"} \cup {w}
    BY <1>1 DEF TypeInv, TypeOK
  <2>4. QED
    BY <1>1, <2>2, <2>3 DEF Delivered
<1>7. QED
  BY <1>2, <1>5, <1>6, AccountedExcess

\* A report moves from the worker to the result queue.
LEMMA BudgetReports ==
  ASSUME TypeInv, TypeInv', CountsBounded, Accounted, NEW w \in Workers, Deliver(w)
  PROVE  CountsBounded' /\ Accounted'
<1>. DEFINE item == [ok |-> at[w] = "deliver", url |-> url[w], count |-> count[w]]
<1>1. /\ at[w] \in {"deliver", "raise"} /\ at'[w] \in {"idle", "stopped"}
      /\ count'[w] = 0
      /\ \A v \in Workers \ {w} : /\ at'[v] = at[v] /\ claimed'[v] = claimed[v]
                                  /\ count'[v] = count[v] /\ url'[v] = url[v]
      /\ UNCHANGED <<recorded, records, available>>
      /\ results' = Append(results, item)
  BY DEF Deliver, TypeInv, TypeOK, coordVars
<1>2. item \in Outcome /\ item.count = count[w] /\ count[w] \in Nat
  BY <1>1 DEF TypeInv, TypeOK, HoldersHaveUrl, Holding, Outcome
<1>3. /\ item.ok = (at[w] = "deliver") /\ item.url = url[w]
      /\ at[w] # "deliver" => count[w] = 0
  BY <1>1 DEF CountsBounded
<1>4. /\ DOMAIN results' = DOMAIN results \cup {Len(results) + 1}
      /\ \A i \in DOMAIN results : results'[i] = results[i]
      /\ results'[Len(results) + 1] = item
  BY <1>1, <1>2 DEF TypeInv, TypeOK
<1>. HIDE DEF item
<1>5. CountsBounded'
  BY <1>1, <1>2, <1>3, <1>4 DEF CountsBounded
<1>6. /\ Claims[w] = 0 /\ Claims'[w] = 0
      /\ Held[w] = count[w] /\ Held'[w] = 0
  BY <1>1, <1>3 DEF Claims, Held
<1>7. Total' = Total
  <2>1. /\ available \in Nat /\ SumFunction(Queued) \in Nat
        /\ Total \in Nat /\ Total' \in Nat
    BY BudgetTypes, BudgetTypesNext DEF BudgetTyped
  <2>2. SumFunction(Queued)' = SumFunction(Queued) + count[w]
    BY <1>1, <1>2, QueuedAppend
  <2>3. Total' - Total
          = (available' - available) + (Claims'[w] - Claims[w])
              + (Held'[w] - Held[w]) + (SumFunction(Queued)' - SumFunction(Queued))
    BY <1>1, WorkerTotal
  <2>4. QED
    BY <1>1, <1>2, <1>6, <2>1, <2>2, <2>3
<1>8. Delivered \subseteq Delivered'
  <2>. SUFFICES ASSUME NEW u \in Delivered PROVE u \in Delivered'
    OBVIOUS
  <2>1. CASE u \in recorded
    BY <1>1, <2>1 DEF Delivered
  <2>2. CASE u \in {results[i].url : i \in {j \in DOMAIN results : results[j].ok}}
    BY <1>4, <2>2 DEF Delivered
  <2>3. ASSUME NEW v \in Workers, at[v] = "deliver", u = url[v]
        PROVE  u \in Delivered'
    <3>1. CASE v = w
      BY <1>3, <1>4, <2>3, <3>1 DEF Delivered
    <3>2. CASE v # w
      BY <1>1, <2>3, <3>2 DEF Delivered
    <3>3. QED
      BY <3>1, <3>2
  <2>4. QED
    BY <2>1, <2>2, <2>3 DEF Delivered
<1>9. QED
  BY <1>5, <1>7, <1>8, AccountedMoved

\* The batch starts with the whole budget unclaimed.
LEMMA BudgetStarts ==
  ASSUME TypeInv, TypeInv', BudgetInv, StartBatch, place' = "get"
  PROVE  cancelled' = {} /\ CountsBounded' /\ Accounted'
<1>1. /\ place = "start" /\ records < MaxRecords
      /\ at' = [w \in Workers |-> "idle"]
      /\ UNCHANGED <<count, cancelled, available, results, recorded, records>>
  <2>1. records \in Nat
    BY DEF TypeInv, TypeOK
  <2>2. QED
    BY <2>1, RecordsAssumption DEF StartBatch, Coordinating, Goto
<1>2. /\ cancelled = {} /\ results = <<>> /\ recorded = {}
      /\ \A w \in Workers : count[w] = 0
      /\ available + records = MaxRecords
  BY <1>1 DEF BudgetInv
<1>3. CountsBounded'
  BY <1>1, <1>2 DEF CountsBounded
<1>4. /\ SumFunction(Claims)' = 0 /\ SumFunction(Held)' = 0
      /\ SumFunction(Queued)' = 0
  <2>1. \A w \in Workers : Claims'[w] = 0 /\ Held'[w] = 0
    BY <1>1 DEF Claims, Held
  <2>2. /\ SumFunctionOnSet(Claims', Workers) = 0
        /\ SumFunctionOnSet(Held', Workers) = 0
    BY <2>1, SumZero, WorkersAssumption
  <2>3. 1 .. Len(results') = {}
    BY <1>1, <1>2
  <2>4. QED
    BY <2>2, <2>3, SumEmpty, BudgetTypesNext DEF BudgetTyped
<1>5. Total' = MaxRecords
  BY <1>1, <1>2, <1>4, RecordsAssumption DEF Total, TypeInv, TypeOK
<1>6. Cardinality(Delivered') = 0
  <2>1. Delivered' = {}
    BY <1>1, <1>2 DEF Delivered
  <2>2. QED
    BY <2>1, FS_EmptySet
<1>7. Accounted'
  BY <1>5, <1>6, RecordsAssumption, OvershootAssumption DEF Accounted
<1>8. QED
  BY <1>1, <1>2, <1>3, <1>7

\* Recording a result moves its records from the queue to the count.
LEMMA BudgetConsumes ==
  ASSUME TypeInv, TypeInv', CountsBounded, Accounted, results # <<>>,
         results' = Tail(results), UNCHANGED workerVars,
         \/ Head(results).ok /\ Record(Head(results))
         \/ ~ Head(results).ok /\ UNCHANGED <<records, recorded>>
  PROVE  CountsBounded' /\ Accounted'
<1>. DEFINE item == Head(results)
<1>1. /\ DOMAIN results' = 1 .. Len(results) - 1
      /\ DOMAIN results = 1 .. Len(results) /\ Len(results) \in Nat
      /\ \A i \in DOMAIN results' : i + 1 \in DOMAIN results
                                  /\ results'[i] = results[i + 1]
      /\ 1 \in DOMAIN results /\ item = results[1]
  BY DEF TypeInv, TypeOK
<1>2. UNCHANGED <<at, url, claimed, count, available>>
  BY DEF workerVars
<1>3. CountsBounded'
  BY <1>1, <1>2 DEF CountsBounded
<1>4. item.count \in Nat
  BY QueueTypes DEF TypeInv, TypeOK, Outcome
<1>5. /\ records' = records + item.count
      /\ item.ok => recorded' = recorded \cup {item.url}
      /\ ~ item.ok => recorded' = recorded
  <2>1. CASE item.ok
    BY <2>1 DEF Record
  <2>2. CASE ~ item.ok
    <3>1. item.count = 0
      BY <1>1, <2>2 DEF CountsBounded
    <3>2. records \in Nat
      BY DEF TypeInv, TypeOK
    <3>3. QED
      BY <2>2, <3>1, <3>2
  <2>3. QED
    BY <2>1, <2>2
<1>6. Total' = Total
  <2>1. SumFunction(Queued) = item.count + SumFunction(Queued)'
    BY QueuedTake
  <2>2. /\ SumFunction(Claims)' = SumFunction(Claims)
        /\ SumFunction(Held)' = SumFunction(Held)
    BY <1>2 DEF Claims, Held
  <2>3. /\ SumFunction(Claims) \in Nat /\ SumFunction(Held) \in Nat
        /\ SumFunction(Queued) \in Nat /\ SumFunction(Queued)' \in Nat
        /\ available \in Nat /\ records \in Nat
    BY BudgetTypes, BudgetTypesNext DEF BudgetTyped
  <2>. HIDE DEF item
  <2>4. QED
    BY <1>2, <1>4, <1>5, <2>1, <2>2, <2>3 DEF Total
<1>7. Delivered \subseteq Delivered'
  <2>. SUFFICES ASSUME NEW u \in Delivered PROVE u \in Delivered'
    OBVIOUS
  <2>1. CASE u \in recorded
    BY <1>5, <2>1 DEF Delivered
  <2>2. CASE \E v \in Workers : at[v] = "deliver" /\ u = url[v]
    BY <1>2, <2>2 DEF Delivered
  <2>3. ASSUME NEW i \in DOMAIN results, results[i].ok, u = results[i].url
        PROVE  u \in Delivered'
    <3>1. CASE i = 1
      BY <1>1, <1>5, <2>3, <3>1 DEF Delivered
    <3>2. CASE i # 1
      <4>1. i - 1 \in DOMAIN results' /\ (i - 1) + 1 = i
        BY <1>1, <3>2
      <4>2. results'[i - 1] = results[i]
        BY <1>1, <4>1
      <4>3. QED
        BY <2>3, <4>1, <4>2 DEF Delivered
    <3>3. QED
      BY <3>1, <3>2
  <2>4. QED
    BY <2>1, <2>2, <2>3 DEF Delivered
<1>8. QED
  BY <1>3, <1>6, <1>7, AccountedMoved

LEMMA BudgetWorker ==
  ASSUME TypeInv, TypeInv', OnePlaceInv, QuietInv, BudgetInv,
         NEW w \in Workers, WorkerStep(w)
  PROVE  BudgetInv'
<1>1. UNCHANGED <<place, cancelled>>
  BY DEF WorkerStep, Fetch, Claim, Commit, Return, FailUrl, Raise, Deliver,
         WorkerCancelled, coordVars
<1>2. at[w] # "stopped"
  BY DEF WorkerStep, Fetch, Claim, Commit, Return, FailUrl, Raise, Deliver,
         WorkerCancelled
<1>3. place # "start"
  BY <1>2 DEF QuietInv, QuietPlaces, AllStopped
<1>4. CASE place \notin BudgetPlaces
  BY <1>1, <1>3, <1>4 DEF BudgetInv
<1>5. CASE place \in BudgetPlaces
  <2>1. cancelled = {} /\ CountsBounded /\ Accounted
    BY <1>5 DEF BudgetInv
  <2>2. ~ WorkerCancelled(w)
    BY <2>1 DEF WorkerCancelled
  <2>3. CountsBounded' /\ Accounted'
    BY <2>1, <2>2, BudgetMoves, BudgetReturns, BudgetReports DEF WorkerStep
  <2>4. QED
    BY <1>1, <1>3, <2>1, <2>3 DEF BudgetInv
<1>6. QED
  BY <1>4, <1>5

LEMMA BudgetCoord ==
  ASSUME TypeInv, TypeInv', BudgetInv, CoordStep
  PROVE  BudgetInv'
<1>. USE DEF BudgetPlaces, Coordinating, Goto
<1>1. CASE StartBatch
  <2>1. place' = "get" \/ place' = "finalise"
    BY <1>1 DEF StartBatch
  <2>2. QED
    BY <1>1, <2>1, BudgetStarts DEF BudgetInv
<1>2. CASE ConsumeResult \/ DrainResult
  <2>1. /\ results # <<>> /\ results' = Tail(results)
        /\ UNCHANGED <<workerVars, cancelled>>
        /\ \/ Head(results).ok /\ Record(Head(results))
           \/ ~ Head(results).ok /\ UNCHANGED <<records, recorded>>
    BY <1>2 DEF ConsumeResult, DrainResult, poolVars
  <2>2. /\ place # "start" /\ place' # "start"
        /\ place' \in BudgetPlaces => place \in BudgetPlaces
    BY <1>2 DEF ConsumeResult, DrainResult
  <2>3. CASE place \in BudgetPlaces
    <3>1. cancelled = {} /\ CountsBounded /\ Accounted
      BY <2>3 DEF BudgetInv
    <3>2. CountsBounded' /\ Accounted'
      BY <2>1, <3>1, BudgetConsumes
    <3>3. QED
      BY <2>1, <2>2, <3>1, <3>2 DEF BudgetInv
  <2>4. CASE place \notin BudgetPlaces
    BY <2>2, <2>4 DEF BudgetInv
  <2>5. QED
    BY <2>3, <2>4
<1>3. CASE RefreshAfterResult \/ ConsumedAll
  <2>1. /\ place \in BudgetPlaces /\ place' \in BudgetPlaces
        /\ UNCHANGED <<workerVars, cancelled, results, recorded, records>>
    BY <1>3 DEF RefreshAfterResult, ConsumedAll, poolVars
  <2>2. QED
    BY <2>1 DEF BudgetInv, CountsBounded, Accounted, Total, Claims, Held,
                Queued, Delivered, workerVars
<1>4. CASE ConsumeError \/ DrainEmpty \/ PoolCancelled \/ LeftoverEmpty
           \/ PoolFinished \/ PersistControl \/ Finalise
  <2>1. place' \notin BudgetPlaces \cup {"start"}
    BY <1>4 DEF ConsumeError, DrainEmpty, PoolCancelled, LeftoverEmpty,
                PoolFinished, PersistControl, Finalise
  <2>2. QED
    BY <2>1 DEF BudgetInv
<1>5. CASE Complete \/ Fail \/ MarkFailed \/ CoordCancelled \/ Aborted
  <2>1. place' \notin BudgetPlaces \cup {"start"}
    BY <1>5 DEF Complete, Fail, MarkFailed, CoordCancelled, Aborted
  <2>2. QED
    BY <2>1 DEF BudgetInv
<1>6. QED
  BY <1>1, <1>2, <1>3, <1>4, <1>5 DEF CoordStep

LEMMA BudgetStep ==
  TypeInv /\ TypeInv' /\ OnePlaceInv /\ QuietInv /\ BudgetInv /\ [Next]_vars
    => BudgetInv'
<1>. SUFFICES ASSUME TypeInv, TypeInv', OnePlaceInv, QuietInv, BudgetInv,
                     [Next]_vars
              PROVE  BudgetInv'
  OBVIOUS
<1>1. CASE \E w \in Workers : WorkerStep(w)
  BY <1>1, BudgetWorker
<1>2. CASE CoordStep
  BY <1>2, BudgetCoord
<1>3. CASE (\E r \in Requests : RequestStep(r)) \/ UNCHANGED vars
  <2>1. UNCHANGED <<workerVars, cancelled, results, place, recorded, records>>
    BY <1>3 DEF RequestStep, AdmitPause, AdmitKill, Admit, CommitPause,
                CancelTask, CommitKill, vars, poolVars, coordVars
  <2>2. QED
    BY <2>1 DEF BudgetInv, CountsBounded, Accounted, Total, Claims, Held,
                Queued, Delivered, workerVars
<1>4. QED
  BY <1>1, <1>2, <1>3 DEF Next

\* The budget of records is never lost and never given out twice while the
\* pool runs, for every pool, URL list, budget and excess: what is left, what
\* workers claimed and what was reported add up to max_records and at most
\* Overshoot more for each URL that was processed to an end.
THEOREM BudgetIsConserved == Spec => []BudgetConserved
<1>1. Init => QuietInv /\ BudgetInv
  <2>. SUFFICES ASSUME Init PROVE QuietInv /\ BudgetInv
    OBVIOUS
  <2>1. records \in Nat
    BY StartAssumption DEF Init
  <2>2. records < MaxRecords => available + records = MaxRecords
    BY <2>1, RecordsAssumption DEF Init
  <2>3. QED
    BY <2>2 DEF Init, QuietInv, AllStopped, BudgetInv, BudgetPlaces
<1>2. TypeInv /\ BudgetInv => BudgetConserved
  <2>. SUFFICES ASSUME TypeInv, BudgetInv,
                       place \in {"get", "refresh", "drain", "gather"}
                PROVE  Total \in MaxRecords .. MaxRecords + Overshoot * Cardinality(Reported)
    BY DEF BudgetConserved, Total
  <2>1. Accounted /\ Total \in Nat
    BY BudgetTypes DEF BudgetInv, BudgetPlaces, BudgetTyped
  <2>2. Delivered \subseteq Reported
    BY DEF Delivered, Reported, QueuedUrls
  <2>3. Reported \subseteq Urls /\ IsFiniteSet(Urls)
    <3>1. \A w \in Workers : at[w] = "deliver" => url[w] \in Urls
      BY DEF TypeInv, HoldersHaveUrl, Holding
    <3>2. \A i \in DOMAIN results : results[i] \in Outcome
      BY DEF TypeInv, TypeOK
    <3>3. IsFiniteSet(Urls)
      BY NumUrlsAssumption, FS_Interval DEF Urls
    <3>4. QED
      BY <3>1, <3>2, <3>3 DEF Reported, QueuedUrls, Outcome, TypeInv, TypeOK
  <2>4. /\ Cardinality(Delivered) \in Nat /\ Cardinality(Reported) \in Nat
        /\ Cardinality(Delivered) <= Cardinality(Reported)
    BY <2>2, <2>3, FS_Subset, FS_CardinalityType
  <2>5. /\ Overshoot * Cardinality(Delivered) <= Overshoot * Cardinality(Reported)
        /\ Overshoot * Cardinality(Delivered) \in Nat
        /\ Overshoot * Cardinality(Reported) \in Nat
    BY <2>4, OvershootAssumption
  <2>6. QED
    BY <2>1, <2>5, RecordsAssumption DEF Accounted
<1>3. QED
  BY <1>1, <1>2, BudgetStep, QuietStep, TypesHold, OnePlaceHolds, PTL DEF Spec
=============================================================================
