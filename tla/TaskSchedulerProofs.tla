------------------------ MODULE TaskSchedulerProofs ------------------------
(***************************************************************************)
(* Proofs about TaskDag and TaskScheduler, for every finite set of tasks,  *)
(* every dependency graph, every pool size and every choice of skipped,    *)
(* throwing and cancelled tasks: which graphs are accepted and how they    *)
(* are ordered, what the scheduler does with them of itself, by the        *)
(* invariant SchedulerInv, then that it implements TaskGraph, by EndInv.   *)
(***************************************************************************)
EXTENDS TaskScheduler, TLAPS, FiniteSetTheorems, SequenceTheorems

-----------------------------------------------------------------------------
(* Numbers and sets of tasks.                                               *)

\* Every set of tasks has a cardinality.
LEMMA Finite ==
    ASSUME NEW S, S \subseteq Tasks
    PROVE  IsFiniteSet(S) /\ Cardinality(S) \in Nat
BY DagAssumption, FS_Subset, FS_CardinalityType

\* A set of naturals that is not empty has a least member.
LEMMA LeastNatural ==
    ASSUME NEW S, S \subseteq Nat, S # {}
    PROVE  \E m \in S : \A n \in S : m <= n
<1> DEFINE R == OpToRel(<, Nat)
<1>1. IsWellFoundedOn(R, Nat)
  BY NatLessThanWellFounded
<1>2. \A m, n \in Nat : <<m, n>> \in R <=> m < n
  <2> SUFFICES ASSUME NEW m \in Nat, NEW n \in Nat
               PROVE  <<m, n>> \in R <=> m < n
    OBVIOUS
  <2> DEFINE p == <<m, n>>
  <2>1. p \in Nat \X Nat /\ p[1] = m /\ p[2] = n
    OBVIOUS
  <2>2. ASSUME NEW q PROVE q \in R <=> q \in Nat \X Nat /\ q[1] < q[2]
    BY Zenon DEF OpToRel
  <2>3. p \in R <=> p \in Nat \X Nat /\ p[1] < p[2]
    BY <2>2
  <2> HIDE DEF p, R
  <2>4. p \in R <=> m < n
    BY <2>1, <2>3
  <2> QED
    BY <2>4, Zenon DEF p
<1>3. \E m \in S : \A n \in S : m <= n
  <2> HIDE DEF R
  <2>1. PICK m \in S : \A n \in S : ~(<<n, m>> \in R)
    BY <1>1, WFMin
  <2>2. \A n \in S : ~(n < m)
    BY <1>2, <2>1
  <2> QED
    BY <2>2
<1> QED
  BY <1>3

\* What holds at 0 and at the successor of each number below n holds up to n.
LEMMA UpTo ==
    ASSUME NEW n \in Nat, NEW S, 0 \in S, \A k \in 1 .. n : k - 1 \in S => k \in S
    PROVE  0 .. n \subseteq S
<1> SUFFICES ASSUME ~(0 .. n \subseteq S) PROVE FALSE
  OBVIOUS
<1> DEFINE T == (0 .. n) \ S
<1>1. T \subseteq Nat /\ T # {}
  OBVIOUS
<1>2. PICK m \in T : \A k \in T : m <= k
  <2> HIDE DEF T
  <2> QED
    BY <1>1, LeastNatural
<1>3. m \in 1 .. n /\ m - 1 \in 0 .. n /\ ~(m <= m - 1)
  OBVIOUS
<1>4. m - 1 \in S
  BY <1>2, <1>3
<1> QED
  BY <1>3, <1>4

-----------------------------------------------------------------------------
(* The passes of Kahn's algorithm.                                          *)

\* The first n passes over the graph g, one after the other.
Passes(g, f, n) ==
    f[0] = Unordered(g) /\ \A k \in 1 .. n : f[k] = PlaceNext(g, f[k - 1])

\* The recursion that defines the order has a solution.
LEMMA OrderDefined ==
    ASSUME NEW g
    PROVE  \E f : Passes(g, f, Cardinality(Tasks)) /\ Ordering(g) = f[Cardinality(Tasks)]
<1> DEFINE N == Cardinality(Tasks)
           Is(f) == f = [n \in 0 .. N |->
                           IF n = 0 THEN Unordered(g) ELSE PlaceNext(g, f[n - 1])]
           after == CHOOSE f : Is(f)
           S == {k \in 0 .. N : \E f : DOMAIN f = 0 .. k /\ Passes(g, f, k)}
<1>0. N \in Nat
  BY Finite
<1>1. 0 \in S
  <2> DEFINE f == [j \in 0 .. 0 |-> Unordered(g)]
  <2>1. DOMAIN f = 0 .. 0 /\ Passes(g, f, 0)
    BY DEF Passes
  <2> HIDE DEF f, N
  <2> QED
    BY <1>0, <2>1
<1>2. ASSUME NEW k \in 1 .. N, k - 1 \in S PROVE k \in S
  <2> HIDE DEF N
  <2>1. PICK f : DOMAIN f = 0 .. k - 1 /\ Passes(g, f, k - 1)
    BY <1>2
  <2> DEFINE h == [j \in 0 .. k |-> IF j = k THEN PlaceNext(g, f[k - 1]) ELSE f[j]]
  <2>2. DOMAIN h = 0 .. k
    OBVIOUS
  <2>3. h[0] = f[0] /\ \A j \in 1 .. k - 1 : h[j] = f[j] /\ h[j - 1] = f[j - 1]
    BY <1>0
  <2>4. h[k] = PlaceNext(g, f[k - 1]) /\ h[k - 1] = f[k - 1]
    BY <1>0
  <2> HIDE DEF h
  <2>5. h[0] = Unordered(g) /\ \A j \in 1 .. k - 1 : h[j] = PlaceNext(g, h[j - 1])
    BY <2>1, <2>3 DEF Passes
  <2>6. \A j \in 1 .. k : j \in 1 .. k - 1 \/ j = k
    BY <1>0
  <2>7. Passes(g, h, k)
    BY <2>4, <2>5, <2>6 DEF Passes
  <2> QED
    BY <1>0, <2>2, <2>7
<1>3. 0 .. N \subseteq S
  <2> HIDE DEF S, N
  <2> QED
    BY <1>0, <1>1, <1>2, UpTo
<1> HIDE DEF N
<1>4. PICK h : DOMAIN h = 0 .. N /\ Passes(g, h, N)
  BY <1>0, <1>3
<1> DEFINE f == [n \in 0 .. N |-> h[n]]
<1>5. f[0] = Unordered(g) /\ \A k \in 1 .. N : f[k] = PlaceNext(g, f[k - 1])
  BY <1>0, <1>4 DEF Passes
<1>6. f = [n \in 0 .. N |-> f[n]]
  OBVIOUS
<1> HIDE DEF f
<1>7. Is(f)
  <2>1. \A n \in 0 .. N : f[n] = IF n = 0 THEN Unordered(g) ELSE PlaceNext(g, f[n - 1])
    BY <1>0, <1>5
  <2> QED
    BY <1>6, <2>1, Zenon
<1>8. Is(after)
  BY <1>7
<1>9. Ordering(g) = after[N]
  BY DEF Ordering, N
<1> HIDE DEF after
<1>10. Passes(g, after, N)
  BY <1>0, <1>8 DEF Passes
<1> QED
  BY <1>9, <1>10 DEF N

Placed(r) == {r.order[i] : i \in 1 .. Len(r.order)}

\* After k passes: no task is placed twice, none before one it depends on, those
\* that could come next are the ones whose dependencies are all placed, and
\* there has been a task to place in each pass, or there is none any more.
InOrder(g, order) ==
    /\ \A i, j \in 1 .. Len(order) : order[i] = order[j] => i = j
    /\ \A i \in 1 .. Len(order) : \A d \in g[order[i]] : \E j \in 1 .. i - 1 : order[j] = d

Tracks(g, r) ==
    /\ r.order \in Seq(Tasks) /\ Len(r.order) = Cardinality(Placed(r))
    /\ r.ready = {t \in Tasks \ Placed(r) : g[t] \subseteq Placed(r)}
    /\ r.indegree = [t \in Tasks |-> Cardinality(g[t] \ Placed(r))]

Kahn(g, r, k) ==
    /\ Tracks(g, r)
    /\ InOrder(g, r.order)
    /\ Len(r.order) = k \/ (r.ready = {} /\ Len(r.order) <= k)

LEMMA NothingPlaced ==
    ASSUME NEW g \in [Tasks -> SUBSET Tasks]
    PROVE  Kahn(g, Unordered(g), 0)
<1> DEFINE r == Unordered(g)
<1>1. r.order = <<>> /\ Len(r.order) = 0
  BY DEF Unordered
<1>2. Placed(r) = {}
  BY <1>1 DEF Placed
<1>3. \A t \in Tasks : IsFiniteSet(g[t]) /\ (Cardinality(g[t]) = 0 <=> g[t] = {})
  BY Finite, FS_EmptySet
<1>4. r.ready = {t \in Tasks \ {} : g[t] \subseteq {}}
  BY <1>3 DEF Unordered
<1>5. \A t \in Tasks : g[t] \ {} = g[t]
  OBVIOUS
<1>6. r.indegree = [t \in Tasks |-> Cardinality(g[t] \ {})]
  BY <1>5 DEF Unordered
<1>7. Cardinality({}) = 0
  BY FS_EmptySet
<1>8. r.order \in Seq(Tasks)
  BY <1>1
<1> HIDE DEF r
<1>9. Tracks(g, r)
  BY <1>1, <1>2, <1>4, <1>6, <1>7, <1>8 DEF Tracks
<1>10. InOrder(g, r.order)
  BY <1>1 DEF InOrder
<1> QED
  BY <1>1, <1>9, <1>10 DEF Kahn, r

\* The task placed last counts for the dependents it was missing from.
CountsOnce(D, P, x) ==
    /\ Cardinality(D \ (P \cup {x})) =
         IF x \in D /\ Cardinality(D \ P) > 0
         THEN Cardinality(D \ P) - 1 ELSE Cardinality(D \ P)
    /\ (x \in D /\ Cardinality(D \ P) = 1)
         <=> ~(D \subseteq P) /\ D \subseteq P \cup {x}

LEMMA LastCountsOnce ==
    ASSUME NEW D, D \subseteq Tasks, NEW P, NEW x \in Tasks, x \notin P
    PROVE  CountsOnce(D, P, x)
<1> DEFINE E == D \ P
<1>1. IsFiniteSet(E) /\ Cardinality(E) \in Nat /\ D \ (P \cup {x}) = E \ {x}
  BY Finite
<1>2. CASE x \in D
  <2>1. x \in E
    BY <1>2
  <2>2. IsFiniteSet(E \ {x}) /\ Cardinality(E \ {x}) = Cardinality(E) - 1
        /\ Cardinality(E \ {x}) \in Nat
    BY <1>1, <2>1, FS_RemoveElement, FS_CardinalityType
  <2>3. Cardinality(E \ {x}) = 0 <=> E \ {x} = {}
    BY <2>2, FS_EmptySet
  <2>4. E \ {x} = {} <=> D \subseteq P \cup {x}
    OBVIOUS
  <2>5. ~(D \subseteq P)
    BY <2>1
  <2> HIDE DEF E
  <2>6. Cardinality(E) > 0 /\ (Cardinality(E) = 1 <=> E \ {x} = {})
    BY <1>1, <2>2, <2>3
  <2> QED
    BY <1>1, <1>2, <2>2, <2>4, <2>5, <2>6 DEF E, CountsOnce
<1>3. CASE x \notin D
  <2>1. E \ {x} = E /\ (D \subseteq P \cup {x} => D \subseteq P)
    BY <1>3
  <2> HIDE DEF E
  <2> QED
    BY <1>1, <1>3, <2>1 DEF E, CountsOnce
<1> QED
  BY <1>2, <1>3

LEMMA OneMorePlaced ==
    ASSUME NEW g \in [Tasks -> SUBSET Tasks], NEW r, NEW k \in Nat, Kahn(g, r, k)
    PROVE  Kahn(g, PlaceNext(g, r), k + 1)
<1>1. r.order \in Seq(Tasks) /\ Len(r.order) \in Nat /\ r.ready \subseteq Tasks
  BY LenProperties DEF Kahn, Tracks
<1>2. CASE r.ready = {}
  BY <1>1, <1>2 DEF PlaceNext, Kahn
<1>3. CASE r.ready # {}
  <2> DEFINE x == LeastReady(r)
             s == Place(g, r, x)
             n == Len(r.order)
  <2>1. PlaceNext(g, r) = s
    BY <1>3 DEF PlaceNext
  <2>2. x \in r.ready
    <3>1. r.ready \subseteq Nat
      BY <1>1, DagAssumption
    <3> QED
      BY <1>3, <3>1, LeastNatural DEF LeastReady
  <2> HIDE DEF x
  <2>3. x \in Tasks /\ x \notin Placed(r) /\ g[x] \subseteq Placed(r)
    BY <2>2 DEF Kahn, Tracks
  <2>4. /\ s.order = Append(r.order, x)
        /\ s.ready = (r.ready \ {x}) \cup ReleasedBy(g, r, x)
        /\ s.indegree = [t \in Tasks |-> IF x \in g[t] /\ r.indegree[t] > 0
                                         THEN r.indegree[t] - 1 ELSE r.indegree[t]]
    BY DEF Place
  <2> HIDE DEF s
  <2>5. /\ s.order \in Seq(Tasks) /\ Len(s.order) = n + 1 /\ s.order[n + 1] = x
        /\ \A i \in 1 .. n : s.order[i] = r.order[i]
    BY <1>1, <2>3, <2>4, AppendProperties
  <2>6. \A i \in 1 .. n + 1 : i \in 1 .. n \/ i = n + 1
    BY <1>1
  <2>7. Placed(s) = Placed(r) \cup {x}
    <3>1. \A i \in 1 .. n : i \in 1 .. n + 1
      BY <1>1
    <3>2. n + 1 \in 1 .. n + 1
      BY <1>1
    <3> QED
      BY <2>5, <2>6, <3>1, <3>2 DEF Placed
  <2>8. Placed(r) \subseteq Tasks
    BY <1>1 DEF Placed
  <2>9. \A t \in Tasks :
          /\ Cardinality(g[t] \ Placed(s)) =
               IF x \in g[t] /\ r.indegree[t] > 0
               THEN r.indegree[t] - 1 ELSE r.indegree[t]
          /\ t \in ReleasedBy(g, r, x) <=>
               ~(g[t] \subseteq Placed(r)) /\ g[t] \subseteq Placed(s)
    <3> SUFFICES ASSUME NEW t \in Tasks
                 PROVE  /\ Cardinality(g[t] \ Placed(s)) =
                             IF x \in g[t] /\ r.indegree[t] > 0
                             THEN r.indegree[t] - 1 ELSE r.indegree[t]
                        /\ t \in ReleasedBy(g, r, x) <=>
                             ~(g[t] \subseteq Placed(r)) /\ g[t] \subseteq Placed(s)
      OBVIOUS
    <3>1. r.indegree[t] = Cardinality(g[t] \ Placed(r)) /\ g[t] \subseteq Tasks
      BY DEF Kahn, Tracks
    <3>2. t \in ReleasedBy(g, r, x) <=> x \in g[t] /\ r.indegree[t] = 1
      BY DEF ReleasedBy
    <3>3. CountsOnce(g[t], Placed(r), x)
      BY <2>3, <3>1, LastCountsOnce
    <3> QED
      BY <2>7, <3>1, <3>2, <3>3 DEF CountsOnce
  <2>10. s.indegree = [t \in Tasks |-> Cardinality(g[t] \ Placed(s))]
    BY <2>4, <2>9
  <2>11. s.ready = {t \in Tasks \ Placed(s) : g[t] \subseteq Placed(s)}
    <3>1. \A t : t \in r.ready <=> t \in Tasks /\ t \notin Placed(r) /\ g[t] \subseteq Placed(r)
      BY DEF Kahn, Tracks
    <3>2. \A t : t \in ReleasedBy(g, r, x) => t \in Tasks
      BY DEF ReleasedBy
    <3>3. ASSUME NEW t \in Placed(s) PROVE g[t] \subseteq Placed(r)
      <4>1. ASSUME t \in Placed(r) PROVE g[t] \subseteq Placed(r)
        <5>1. PICK i \in 1 .. n : r.order[i] = t
          BY <4>1 DEF Placed
        <5>2. \A d \in g[t] : \E j \in 1 .. i - 1 : r.order[j] = d
          BY <5>1 DEF Kahn, InOrder
        <5>3. \A j \in 1 .. i - 1 : j \in 1 .. n
          BY <1>1, <5>1
        <5> QED
          BY <5>2, <5>3 DEF Placed
      <4> QED
        BY <2>3, <2>7, <3>3, <4>1
    <3>4. \A t : t \in s.ready <=> t \in Tasks \ Placed(s) /\ g[t] \subseteq Placed(s)
      BY <2>2, <2>4, <2>7, <2>9, <3>1, <3>2, <3>3
    <3> QED
      BY <3>4
  <2>12. Len(s.order) = Cardinality(Placed(s))
    <3>1. IsFiniteSet(Placed(r))
      BY <2>8, Finite
    <3>2. Cardinality(Placed(r) \cup {x}) = Cardinality(Placed(r)) + 1
      BY <2>3, <3>1, FS_AddElement
    <3> QED
      BY <2>5, <2>7, <3>2 DEF Kahn, Tracks
  <2>13. InOrder(g, s.order)
    <3>1. \A i \in 1 .. n : r.order[i] # x
      BY <2>3 DEF Placed
    <3>2. \A i, j \in 1 .. n + 1 : s.order[i] = s.order[j] => i = j
      BY <2>5, <2>6, <3>1 DEF Kahn, InOrder
    <3>3. ASSUME NEW i \in 1 .. n + 1, NEW d \in g[s.order[i]]
          PROVE  \E j \in 1 .. i - 1 : s.order[j] = d
      <4>1. CASE i \in 1 .. n
        <5>1. PICK j \in 1 .. i - 1 : r.order[j] = d
          BY <2>5, <3>3, <4>1 DEF Kahn, InOrder
        <5>2. j \in 1 .. n
          BY <1>1, <4>1
        <5> QED
          BY <2>5, <5>1, <5>2
      <4>2. CASE i = n + 1
        <5>1. d \in Placed(r)
          BY <2>3, <2>5, <3>3, <4>2
        <5>2. PICK j \in 1 .. n : r.order[j] = d
          BY <5>1 DEF Placed
        <5>3. j \in 1 .. i - 1
          BY <1>1, <4>2
        <5> QED
          BY <2>5, <5>2, <5>3
      <4> QED
        BY <2>6, <4>1, <4>2
    <3> QED
      BY <2>5, <3>2, <3>3 DEF InOrder
  <2>14. n = k
    BY <1>3 DEF Kahn
  <2> QED
    BY <2>1, <2>5, <2>10, <2>11, <2>12, <2>13, <2>14 DEF Kahn, Tracks
<1> QED
  BY <1>2, <1>3

\* What the algorithm ends with.
LEMMA OrderingEnds ==
    ASSUME NEW g \in [Tasks -> SUBSET Tasks]
    PROVE  Kahn(g, Ordering(g), Cardinality(Tasks))
<1> DEFINE N == Cardinality(Tasks)
<1>0. N \in Nat
  BY Finite
<1>1. PICK f : Passes(g, f, N) /\ Ordering(g) = f[N]
  BY OrderDefined
<1> HIDE DEF N
<1> DEFINE S == {k \in 0 .. N : Kahn(g, f[k], k)}
<1>2. 0 \in S
  BY <1>0, <1>1, NothingPlaced DEF Passes
<1>3. ASSUME NEW k \in 1 .. N, k - 1 \in S PROVE k \in S
  <2>1. k - 1 \in Nat /\ (k - 1) + 1 = k /\ k \in 0 .. N
    BY <1>0
  <2>2. f[k] = PlaceNext(g, f[k - 1]) /\ Kahn(g, f[k - 1], k - 1)
    BY <1>1, <1>3 DEF Passes
  <2>3. Kahn(g, f[k], k)
    BY <2>1, <2>2, OneMorePlaced
  <2> QED
    BY <2>1, <2>3
<1>4. 0 .. N \subseteq S
  <2> HIDE DEF S
  <2> QED
    BY <1>0, <1>2, <1>3, UpTo
<1>5. Kahn(g, f[N], N)
  BY <1>0, <1>4
<1> QED
  BY <1>1, <1>5 DEF N

\* Tasks are left over exactly if some of them wait for one another.
LEMMA CycleIsFound ==
    ASSUME NEW g \in [Tasks -> SUBSET Tasks]
    PROVE  Len(ExecutionOrder(g)) = Cardinality(Tasks) <=> ~IsCyclic(g)
<1> DEFINE r == Ordering(g)
           P == Placed(r)
<1>1. Kahn(g, r, Cardinality(Tasks)) /\ Cardinality(Tasks) \in Nat /\ IsFiniteSet(Tasks)
  BY Finite, OrderingEnds
<1>2. ExecutionOrder(g) = r.order
  BY DEF ExecutionOrder
<1> HIDE DEF r
<1>3. P \subseteq Tasks /\ Len(r.order) = Cardinality(P) /\ Len(r.order) \in Nat
  BY <1>1, LenProperties DEF Kahn, Tracks, Placed
<1>4. ASSUME Len(r.order) = Cardinality(Tasks), IsCyclic(g) PROVE FALSE
  <2>1. P = Tasks
    BY <1>1, <1>3, <1>4, FS_Subset
  <2>2. PICK W \in SUBSET Tasks : W # {} /\ \A t \in W : g[t] \cap W # {}
    BY <1>4 DEF IsCyclic
  <2> DEFINE I == {i \in 1 .. Len(r.order) : r.order[i] \in W}
  <2>3. I \subseteq Nat /\ I # {}
    BY <2>1, <2>2 DEF Placed
  <2>4. PICK i \in I : \A j \in I : i <= j
    <3> HIDE DEF I
    <3> QED
      BY <2>3, LeastNatural
  <2>5. PICK d \in g[r.order[i]] : d \in W
    BY <2>2, <2>4
  <2>6. PICK j \in 1 .. i - 1 : r.order[j] = d
    BY <1>1, <2>4, <2>5 DEF Kahn, InOrder
  <2>7. j \in I /\ ~(i <= j)
    BY <1>3, <2>4, <2>5, <2>6
  <2> QED
    BY <2>4, <2>7
<1>5. ASSUME Len(r.order) # Cardinality(Tasks) PROVE IsCyclic(g)
  <2>1. r.ready = {}
    BY <1>1, <1>5 DEF Kahn
  <2> DEFINE W == Tasks \ P
  <2>2. W # {}
    BY <1>3, <1>5
  <2>3. ASSUME NEW t \in W PROVE g[t] \cap W # {}
    BY <1>1, <2>1, <2>3 DEF Kahn, Tracks
  <2> QED
    BY <2>2, <2>3 DEF IsCyclic
<1> QED
  BY <1>2, <1>4, <1>5

\* The places of the tasks in an order that has them all.
LEMMA RankIsOrdered ==
    ASSUME NEW g \in [Tasks -> SUBSET Tasks], Len(ExecutionOrder(g)) = Cardinality(Tasks)
    PROVE  IsOrdered(g, ExecutionRank(g))
<1> DEFINE order == ExecutionOrder(g)
           place == ExecutionRank(g)
           N == Len(order)
<1>1. Kahn(g, Ordering(g), Cardinality(Tasks)) /\ Cardinality(Tasks) \in Nat /\ IsFiniteSet(Tasks)
  BY Finite, OrderingEnds
<1>2. order \in Seq(Tasks) /\ InOrder(g, order) /\ Cardinality(Placed(Ordering(g))) = N
      /\ Placed(Ordering(g)) = {order[i] : i \in 1 .. N}
  BY <1>1 DEF ExecutionOrder, Kahn, Tracks, Placed
<1>3. place = [t \in Tasks |-> CHOOSE i \in DOMAIN order : order[i] = t]
  BY DEF ExecutionRank
<1> HIDE DEF order, place
<1>4. DOMAIN order = 1 .. N /\ N \in Nat
  BY <1>2, LenProperties
<1>5. Tasks = {order[i] : i \in 1 .. N}
  <2>1. {order[i] : i \in 1 .. N} \subseteq Tasks
    <3>1. \A i \in 1 .. N : order[i] \in Tasks
      BY <1>2, <1>4, ElementOfSeq
    <3> QED
      BY <3>1
  <2>2. Cardinality({order[i] : i \in 1 .. N}) = Cardinality(Tasks)
    BY <1>2 DEF order
  <2> QED
    BY <1>1, <2>1, <2>2, FS_Subset
<1>6. \A t \in Tasks : place[t] \in 1 .. N /\ order[place[t]] = t
  <2> SUFFICES ASSUME NEW t \in Tasks PROVE place[t] \in 1 .. N /\ order[place[t]] = t
    OBVIOUS
  <2>1. \E i \in DOMAIN order : order[i] = t
    BY <1>4, <1>5
  <2> QED
    BY <1>3, <1>4, <2>1
<1>7. place \in [Tasks -> Nat]
  <2>1. \A t \in Tasks : place[t] \in Nat
    BY <1>4, <1>6
  <2> QED
    BY <1>3, <2>1
<1>8. \A t, u \in Tasks : place[t] = place[u] => t = u
  BY <1>6
<1>9. ASSUME NEW t \in Tasks, NEW d \in g[t] PROVE place[d] < place[t]
  <2>1. PICK j \in 1 .. place[t] - 1 : order[j] = d
    BY <1>2, <1>6, <1>9 DEF InOrder
  <2>2. d \in Tasks /\ j \in 1 .. N
    BY <1>4, <1>6, <1>9, <2>1
  <2>3. place[d] = j
    BY <1>2, <1>6, <2>1, <2>2 DEF InOrder
  <2> QED
    BY <1>6, <2>1, <2>3
<1> QED
  BY <1>7, <1>8, <1>9 DEF IsOrdered, place

\* submit_task_specs accepts exactly the graphs whose indices are in range and
\* that have no circle (build_task_execution_order).
THEOREM CirclesAreRefused == RefusesCircles
<1> SUFFICES ASSUME NEW g \in Graphs
             PROVE  g \in Accepted <=> (\A t \in Tasks : g[t] \subseteq Tasks) /\ ~IsCyclic(g)
  BY DEF RefusesCircles
<1>1. g \in [Tasks -> SUBSET Nat]
  BY DagAssumption
<1>2. ASSUME \A t \in Tasks : g[t] \subseteq Tasks
      PROVE  g \in [Tasks -> SUBSET Tasks]
  BY <1>1, <1>2
<1>3. ASSUME ~IsCyclic(g), NEW t \in Tasks PROVE t \notin g[t]
  <2>1. {t} \in SUBSET Tasks /\ {t} # {}
    OBVIOUS
  <2> QED
    BY <1>3, <2>1 DEF IsCyclic
<1>4. g \in Accepted <=> IsWellFormed(g) /\ Len(ExecutionOrder(g)) = Cardinality(Tasks)
  BY DEF Accepted
<1> QED
  BY <1>2, <1>3, <1>4, CycleIsFound DEF IsWellFormed

\* What is known of a submission that was accepted.
LEMMA Submitted ==
    ASSUME NEW g \in Accepted
    PROVE  g \in [Tasks -> SUBSET Tasks] /\ IsOrdered(g, ExecutionRank(g))
<1>1. g \in Graphs /\ IsWellFormed(g) /\ Len(ExecutionOrder(g)) = Cardinality(Tasks)
  BY DEF Accepted
<1>2. g \in [Tasks -> SUBSET Tasks]
  BY <1>1, DagAssumption DEF IsWellFormed
<1> QED
  BY <1>1, <1>2, RankIsOrdered

-----------------------------------------------------------------------------
(* The scheduler's operators.                                               *)

\* A nonempty set of tasks has a member of least rank.
LEMMA LeastRank ==
    ASSUME deps \in Accepted, rank = ExecutionRank(deps),
           NEW S, S \subseteq Tasks, S # {}
    PROVE  \E t \in S : \A u \in S : rank[t] <= rank[u]
<1> DEFINE T == {rank[t] : t \in S}
<1>1. \A t \in Tasks : rank[t] \in Nat
  BY Submitted DEF IsOrdered
<1>2. T \subseteq Nat /\ T # {}
  BY <1>1
<1>3. \E n \in T : \A m \in T : n <= m
  <2> HIDE DEF T
  <2> QED
    BY <1>2, LeastNatural
<1> QED
  BY <1>3

\* ready.back() is a member of `ready'.
LEMMA NextReadyIsReady ==
    ASSUME deps \in Accepted, rank = ExecutionRank(deps), ready \subseteq Tasks, ready # {}
    PROVE  NextReady \in ready
BY LeastRank DEF NextReady

\* What the steps of the scheduler's bookkeeping compute, in terms of the set A
\* of tasks accounted for before and the set F of tasks that are added to it.
LEMMA Released ==
    ASSUME NEW F \in SUBSET Tasks, NEW A \in SUBSET Tasks, F \cap A = {},
           deps \in Accepted,
           \A t \in Tasks : indegree[t] = Cardinality(deps[t] \ A),
           completed = Cardinality(A)
    PROVE  /\ \A t \in Tasks : Decremented(t, F) = Cardinality(deps[t] \ (A \cup F))
           /\ Counted(F) = Cardinality(A \cup F)
           /\ \A t \in Tasks :
                (indegree[t] > 0 /\ Decremented(t, F) = 0)
                  <=> ~(deps[t] \subseteq A) /\ deps[t] \subseteq A \cup F
<1>1. deps \in [Tasks -> SUBSET Tasks]
  BY Submitted
<1>2. ASSUME NEW t \in Tasks
      PROVE  Decremented(t, F) = Cardinality(deps[t] \ (A \cup F))
  <2> DEFINE D == deps[t] \ A
             C == deps[t] \cap F
  <2>1. D \subseteq Tasks /\ C = D \cap F /\ deps[t] \ (A \cup F) = D \ F
    BY <1>1
  <2>2. IsFiniteSet(D) /\ Cardinality(D) \in Nat
    BY <2>1, Finite
  <2>3. Cardinality(D \ F) = Cardinality(D) - Cardinality(C)
    BY <2>1, <2>2, FS_Difference
  <2>4. Cardinality(C) \in Nat /\ Cardinality(D \ F) \in Nat
    BY <2>1, Finite
  <2>5. indegree[t] = Cardinality(D)
    OBVIOUS
  <2>6. CASE Cardinality(C) < Cardinality(D)
    BY <2>1, <2>3, <2>5, <2>6 DEF Decremented
  <2>7. CASE ~(Cardinality(C) < Cardinality(D))
    <3>1. Cardinality(D \ F) = 0
      BY <2>2, <2>3, <2>4, <2>7
    <3> QED
      BY <2>1, <2>5, <2>7, <3>1 DEF Decremented
  <2> QED
    BY <2>6, <2>7
<1>3. Counted(F) = Cardinality(A \cup F)
  <2>1. IsFiniteSet(A) /\ IsFiniteSet(F) /\ Cardinality(A) \in Nat /\ Cardinality(F) \in Nat
    BY Finite
  <2>2. Cardinality(A \cap F) = 0
    BY FS_EmptySet
  <2>3. Cardinality(A \cup F) = Cardinality(A) + Cardinality(F) - Cardinality(A \cap F)
    BY <2>1, FS_Union
  <2> QED
    BY <2>1, <2>2, <2>3 DEF Counted
<1>4. \A t \in Tasks : indegree[t] > 0 <=> ~(deps[t] \subseteq A)
  <2> SUFFICES ASSUME NEW t \in Tasks
               PROVE  indegree[t] > 0 <=> ~(deps[t] \subseteq A)
    OBVIOUS
  <2> DEFINE D == deps[t] \ A
  <2>1. IsFiniteSet(D) /\ Cardinality(D) \in Nat /\ indegree[t] = Cardinality(D)
    BY <1>1, Finite
  <2>2. Cardinality(D) = 0 <=> D = {}
    BY <2>1, FS_EmptySet
  <2> QED
    BY <2>1, <2>2
<1>5. \A t \in Tasks : Decremented(t, F) = 0 <=> deps[t] \subseteq A \cup F
  <2> SUFFICES ASSUME NEW t \in Tasks
               PROVE  Decremented(t, F) = 0 <=> deps[t] \subseteq A \cup F
    OBVIOUS
  <2> DEFINE D == deps[t] \ (A \cup F)
  <2>1. IsFiniteSet(D)
    BY <1>1, Finite
  <2>2. Cardinality(D) = 0 <=> D = {}
    BY <2>1, FS_EmptySet
  <2> QED
    BY <1>2, <2>2
<1> QED
  BY <1>2, <1>3, <1>4, <1>5

-----------------------------------------------------------------------------
(* Types. *)

\* std::clamp and update() keep a progress value within bounds.
LEMMA ProgressInRange ==
    ASSUME NEW old \in 0..FullProgress, NEW p \in Nat
    PROVE  Clamped(p) \in 0..FullProgress /\ Raised(old, p) \in 0..FullProgress
BY TaskAssumption DEF Raised, Clamped

\* Every variable keeps its type.
LEMMA TypeStep ==
    ASSUME TypeOK, WorkersConsistent, [Next]_vars
    PROVE  TypeOK'
<1> USE DEF TypeOK, schedVars, workerVars, sharedVars, snapVars, handleVars,
            TaskStates, Outcome
<1>1. CASE UNCHANGED vars
  BY <1>1 DEF vars
<1>2. CASE StartScheduler \/ SchedulerLoop \/ DispatchEnd
  BY <1>2 DEF StartScheduler, SchedulerLoop, DispatchEnd
<1>3. CASE DispatchSkip
  <2>1. NextReady \in Tasks
    BY <1>3, NextReadyIsReady DEF DispatchSkip, CanDispatch
  <2>2. completed' \in Nat
    <3>1. Cardinality({NextReady}) \in Nat
      BY <2>1, Finite
    <3>2. completed' = completed + Cardinality({NextReady})
      BY <1>3 DEF DispatchSkip, ReleaseDependents, Counted
    <3> QED
      BY <3>1, <3>2
  <2>3. indegree' \in [Tasks -> Nat]
    <3>1. \A t \in Tasks : Cardinality(deps[t] \cap {NextReady}) \in Nat
      BY <2>1, Finite, TaskAssumption
    <3> QED
      BY <1>3, <3>1 DEF DispatchSkip, ReleaseDependents, Decremented
  <2>4. progress' \in [Tasks -> 0..FullProgress]
    <3>1. Clamped(FullProgress) \in 0..FullProgress
      BY TaskAssumption DEF Clamped
    <3> QED
      BY <1>3, <3>1 DEF DispatchSkip, SetTaskState
  <2>5. ready' \subseteq Tasks
    BY <1>3 DEF DispatchSkip, ReleaseDependents
  <2>6. state' \in [Tasks -> TaskStates]
    BY <1>3 DEF DispatchSkip, SetTaskState
  <2> QED
    BY <1>3, <2>2, <2>3, <2>4, <2>5, <2>6 DEF DispatchSkip
<1>4. CASE DispatchThrow
  BY <1>4, NextReadyIsReady DEF DispatchThrow, CanDispatch
<1>5. CASE DispatchClaim
  BY <1>5, NextReadyIsReady DEF DispatchClaim, CanDispatch
<1>6. CASE DispatchMark
  <2>1. Clamped(0) \in 0..FullProgress
    BY TaskAssumption DEF Clamped
  <2>2. progress' \in [Tasks -> 0..FullProgress]
    BY <1>6, <2>1 DEF DispatchMark, SetTaskState
  <2>3. state' \in [Tasks -> TaskStates]
    BY <1>6 DEF DispatchMark, SetTaskState, TaskStates
  <2> QED
    BY <1>6, <2>2, <2>3 DEF DispatchMark
<1>7. CASE DispatchPush
  BY <1>7 DEF DispatchPush
<1>8. CASE SchedulerProgress
  <2>1. CASE firstError # NoTask
    BY <1>8, <2>1 DEF SchedulerProgress, WorkersConsistent
  <2>2. CASE firstError = NoTask
    <3>1. completed' \in Nat
      BY <1>8, <2>2, Finite DEF SchedulerProgress, ReleaseDependents, Counted
    <3>2. indegree' \in [Tasks -> Nat]
      <4>1. \A t \in Tasks : Cardinality(deps[t] \cap finishedQ) \in Nat
        BY Finite, TaskAssumption
      <4>2. indegree' = [t \in Tasks |-> Decremented(t, finishedQ)]
        BY <1>8, <2>2 DEF SchedulerProgress, ReleaseDependents
      <4>3. \A t \in Tasks : Decremented(t, finishedQ) \in Nat
        BY <4>1 DEF Decremented
      <4> QED
        BY <4>2, <4>3
    <3>3. ready' \subseteq Tasks
      BY <1>8, <2>2 DEF SchedulerProgress, ReleaseDependents
    <3> QED
      BY <1>8, <2>2, <3>1, <3>2, <3>3 DEF SchedulerProgress
  <2> QED
    BY <2>1, <2>2
<1>9. CASE SchedulerIdle
  BY <1>9 DEF SchedulerIdle, WorkersConsistent, Value
<1>10. CASE SchedulerCatch
  BY <1>10 DEF SchedulerCatch, CancelUnfinished
<1>11. CASE SchedulerReject \/ SchedulerFinish
  BY <1>11 DEF SchedulerReject, SchedulerFinish
<1>12. ASSUME NEW t \in Tasks, WorkerStart(t)
       PROVE  TypeOK'
  <2>1. Raised(progress[t], 0) \in 0..FullProgress
    BY ProgressInRange
  <2> QED
    BY <1>12, <2>1 DEF WorkerStart, Update
<1>13. ASSUME NEW t \in Tasks, NEW p \in 0..FullProgress + 1, WorkerUpdate(t, p)
       PROVE  TypeOK'
  <2>1. p \in Nat
    BY TaskAssumption
  <2>2. Raised(progress[t], p) \in 0..FullProgress
    BY <2>1, ProgressInRange
  <2> QED
    BY <1>13, <2>2 DEF WorkerUpdate, Update
<1>14. ASSUME NEW t \in Tasks,
              WorkerReturn(t) \/ (\E why \in {"error", "cancelled"} : WorkerThrow(t, why))
                \/ WorkerCheck(t)
       PROVE  TypeOK'
  BY <1>14 DEF WorkerReturn, WorkerThrow, WorkerCheck
<1>15. ASSUME NEW t \in Tasks, WorkerComplete(t)
       PROVE  TypeOK'
  BY <1>15, TaskAssumption DEF WorkerComplete, SetTaskState, Clamped
<1>16. ASSUME NEW t \in Tasks, WorkerFail(t) \/ WorkerRecord(t)
       PROVE  TypeOK'
  BY <1>16 DEF WorkerFail, WorkerRecord, FirstError
<1>17. ASSUME NEW t \in Tasks, WorkerReport(t)
       PROVE  TypeOK'
  <2>1. running' \in Nat
    BY <1>17 DEF WorkerReport, OneLess
  <2> QED
    BY <1>17, <2>1 DEF WorkerReport
<1>18. CASE ClientCancel
  BY <1>18 DEF ClientCancel
<1> QED
  BY <1>1, <1>2, <1>3, <1>4, <1>5, <1>6, <1>7, <1>8, <1>9, <1>10, <1>11, <1>12,
     <1>13, <1>14, <1>15, <1>16, <1>17, <1>18
  DEF Next, Scheduler, Worker

-----------------------------------------------------------------------------
(* What the workers have thrown, and the task between two steps of its      *)
(* dispatch.                                                                *)

\* What a worker has thrown stays consistent with where it is, in every step.
LEMMA WorkersStep ==
    ASSUME TypeOK, Bookkeeping, WorkersConsistent, CurrentIdle, [Next]_vars
    PROVE  WorkersConsistent'
<1> USE DEF TypeOK, WorkersConsistent, schedVars, workerVars, sharedVars, snapVars,
            handleVars, TaskStates, Terminal
<1>1. CASE UNCHANGED vars
  BY <1>1 DEF vars
<1>2. CASE \/ StartScheduler \/ SchedulerLoop \/ DispatchEnd \/ DispatchThrow
           \/ DispatchClaim \/ SchedulerIdle \/ SchedulerReject \/ SchedulerFinish
  BY <1>2 DEF StartScheduler, SchedulerLoop, DispatchEnd, DispatchThrow,
     DispatchClaim, SchedulerIdle, SchedulerReject, SchedulerFinish
<1>3. CASE DispatchSkip
  <2>1. NextReady \in ready /\ at[NextReady] = "idle"
    BY <1>3, NextReadyIsReady DEF DispatchSkip, CanDispatch, Bookkeeping, Scheduling
  <2> QED
    BY <1>3, <2>1 DEF DispatchSkip, SetTaskState
<1>4. CASE DispatchMark
  BY <1>4 DEF DispatchMark, SetTaskState, CurrentIdle
<1>5. CASE DispatchPush
  BY <1>5 DEF DispatchPush, CurrentIdle
<1>6. CASE SchedulerProgress
  BY <1>6 DEF SchedulerProgress
<1>7. CASE SchedulerCatch
  BY <1>7 DEF SchedulerCatch, CancelUnfinished
<1>8. ASSUME NEW t \in Tasks, WorkerStart(t)
      PROVE  WorkersConsistent'
  BY <1>8 DEF WorkerStart, Update
<1>9. ASSUME NEW t \in Tasks, NEW p \in 0..FullProgress + 1, WorkerUpdate(t, p)
      PROVE  WorkersConsistent'
  BY <1>9 DEF WorkerUpdate, Update
<1>10. ASSUME NEW t \in Tasks,
              WorkerReturn(t) \/ (\E why \in {"error", "cancelled"} : WorkerThrow(t, why))
                \/ WorkerCheck(t)
       PROVE  WorkersConsistent'
  BY <1>10 DEF WorkerReturn, WorkerThrow, WorkerCheck
<1>11. ASSUME NEW t \in Tasks, WorkerComplete(t) \/ WorkerFail(t)
       PROVE  WorkersConsistent'
  BY <1>11 DEF WorkerComplete, WorkerFail, SetTaskState
<1>12. ASSUME NEW t \in Tasks, WorkerRecord(t)
       PROVE  WorkersConsistent'
  BY <1>12, TaskAssumption DEF WorkerRecord, FirstError
<1>13. ASSUME NEW t \in Tasks, WorkerReport(t)
       PROVE  WorkersConsistent'
  BY <1>13 DEF WorkerReport
<1>14. CASE ClientCancel
  BY <1>14 DEF ClientCancel
<1> QED
  BY <1>1, <1>2, <1>3, <1>4, <1>5, <1>6, <1>7, <1>8, <1>9, <1>10, <1>11, <1>12,
     <1>13, <1>14
  DEF Next, Scheduler, Worker

\* A worker step only concerns its own task, which is neither skipped nor idle,
\* and leaves the scheduler's variables alone.
LEMMA WorkerFrame ==
    ASSUME TypeOK, WorkersConsistent, NEW t \in Tasks, Worker(t)
    PROVE  /\ UNCHANGED <<deps, schedVars, result, finished>>
           /\ at[t] \notin {"idle", "done"} /\ at'[t] # "idle"
           /\ state[t] # "Skipped" /\ state'[t] # "Skipped"
           /\ t \notin finishedQ /\ (at'[t] = "done" => t \in finishedQ')
           /\ \A u \in Tasks \ {t} :
                /\ at'[u] = at[u] /\ state'[u] = state[u] /\ thrown'[u] = thrown[u]
                /\ u \in finishedQ' <=> u \in finishedQ
<1> USE DEF TypeOK, WorkersConsistent, schedVars, workerVars, sharedVars, snapVars,
            handleVars
<1>1. ASSUME WorkerStart(t) \/ (\E p \in 0..FullProgress + 1 : WorkerUpdate(t, p))
      PROVE  state'[t] # "Skipped" /\ \A u \in Tasks \ {t} : state'[u] = state[u]
  BY <1>1 DEF WorkerStart, WorkerUpdate, Update
<1>2. ASSUME WorkerComplete(t) \/ WorkerFail(t)
      PROVE  state'[t] # "Skipped" /\ \A u \in Tasks \ {t} : state'[u] = state[u]
  BY <1>2 DEF WorkerComplete, WorkerFail, SetTaskState
<1>3. CASE WorkerStart(t)
  BY <1>1, <1>3 DEF WorkerStart
<1>4. CASE \E p \in 0..FullProgress + 1 : WorkerUpdate(t, p)
  BY <1>1, <1>4 DEF WorkerUpdate
<1>5. CASE WorkerReturn(t) \/ (\E why \in {"error", "cancelled"} : WorkerThrow(t, why))
             \/ WorkerCheck(t)
  BY <1>5 DEF WorkerReturn, WorkerThrow, WorkerCheck
<1>6. CASE WorkerComplete(t) \/ WorkerFail(t)
  BY <1>2, <1>6 DEF WorkerComplete, WorkerFail
<1>7. CASE WorkerRecord(t)
  BY <1>7 DEF WorkerRecord
<1>8. CASE WorkerReport(t)
  BY <1>8 DEF WorkerReport
<1> QED
  BY <1>3, <1>4, <1>5, <1>6, <1>7, <1>8 DEF Worker

\* No step disturbs the task between its removal from `ready' and its push.
LEMMA CurrentStep ==
    ASSUME TypeOK, Bookkeeping, WorkersConsistent, CurrentIdle, [Next]_vars
    PROVE  CurrentIdle'
<1> USE DEF TypeOK, CurrentIdle, schedVars, workerVars, sharedVars, snapVars,
            handleVars
<1>1. CASE UNCHANGED vars
  BY <1>1 DEF vars
<1>2. CASE DispatchClaim
  BY <1>2, NextReadyIsReady DEF DispatchClaim, CanDispatch, Bookkeeping, Scheduling
<1>3. CASE DispatchMark
  BY <1>3 DEF DispatchMark, SetTaskState, TaskStates
<1>4. CASE Scheduler /\ ~DispatchClaim /\ ~DispatchMark
  <2>1. pc' \notin {"mark", "push"}
    BY <1>4 DEF Scheduler, StartScheduler, SchedulerLoop, DispatchEnd, DispatchSkip,
       CanDispatch, DispatchThrow, DispatchPush, SchedulerProgress, SchedulerIdle,
       SchedulerCatch, SchedulerReject, SchedulerFinish
  <2> QED
    BY <2>1
<1>5. ASSUME NEW t \in Tasks, Worker(t)
      PROVE  CurrentIdle'
  BY <1>5, WorkerFrame DEF schedVars
<1>6. CASE ClientCancel
  BY <1>6 DEF ClientCancel
<1> QED
  BY <1>1, <1>2, <1>3, <1>4, <1>5, <1>6 DEF Next

-----------------------------------------------------------------------------
(* The scheduler's bookkeeping. *)

\* A worker step accounts for no task.
LEMMA WorkerAccounting ==
    ASSUME TypeOK, WorkersConsistent, NEW t \in Tasks, Worker(t)
    PROVE  /\ Accounted' = Accounted
           /\ \A u \in Accounted : thrown'[u] = thrown[u]
           /\ \A u \in Tasks : Dispatched(u)' <=> Dispatched(u)
           /\ \A u \in Tasks : Taken(u)' <=> Taken(u)
BY WorkerFrame DEF Accounted, Dispatched, Taken, schedVars

\* A task that was not released before and is released by accounting for F.
LEMMA NewlyReleased ==
    ASSUME NEW F \in SUBSET Tasks, F \cap Accounted = {}, deps \in Accepted,
           Scheduling, Bookkeeping, NEW rest, ReleaseDependents(F, rest)
    PROVE  /\ \A t \in Tasks : indegree'[t] = Cardinality(deps[t] \ (Accounted \cup F))
           /\ completed' = Cardinality(Accounted \cup F)
           /\ \A t \in Tasks :
                t \in ready' <=>
                  t \in rest \/ (~Taken(t) /\ deps[t] \subseteq Accounted \cup F)
<1>1. Accounted \in SUBSET Tasks
  BY DEF Accounted
<1>2. /\ \A t \in Tasks : indegree[t] = Cardinality(deps[t] \ Accounted)
      /\ completed = Cardinality(Accounted)
      /\ \A t \in Tasks : Taken(t) <=> deps[t] \subseteq Accounted
  BY DEF Bookkeeping
<1>3. /\ \A t \in Tasks : Decremented(t, F) = Cardinality(deps[t] \ (Accounted \cup F))
      /\ Counted(F) = Cardinality(Accounted \cup F)
      /\ \A t \in Tasks :
           (indegree[t] > 0 /\ Decremented(t, F) = 0)
             <=> ~(deps[t] \subseteq Accounted) /\ deps[t] \subseteq Accounted \cup F
  <2> HIDE DEF Accounted
  <2> QED
    BY <1>1, <1>2, Released
<1> QED
  BY <1>2, <1>3 DEF ReleaseDependents

\* The bookkeeping after the scheduler has read the finished tasks.
LEMMA ProgressBookkeeping ==
    ASSUME TypeOK, Bookkeeping, WorkersConsistent, SchedulerProgress,
           firstError = NoTask
    PROVE  /\ \A t \in Tasks : indegree'[t] = Cardinality(deps'[t] \ Accounted')
           /\ completed' = Cardinality(Accounted')
           /\ \A t \in Tasks : Taken(t)' <=> deps'[t] \subseteq Accounted'
           /\ \A t \in ready' : at'[t] = "idle" /\ state'[t] # "Skipped"
           /\ \A t \in Accounted' : thrown'[t] = "nothing"
<1>1. /\ pc = "wait" /\ pc' \in {"loop", "catch"} /\ finishedQ' = {}
      /\ UNCHANGED <<deps, at, thrown, state>>
      /\ ReleaseDependents(finishedQ, ready)
  BY DEF SchedulerProgress, workerVars, snapVars
<1>2. Accounted' = Accounted \cup finishedQ
  BY <1>1 DEF Accounted, WorkersConsistent, TypeOK
<1>3. finishedQ \cap Accounted = {} /\ finishedQ \in SUBSET Tasks
  BY DEF Accounted, WorkersConsistent, TypeOK
<1>4. /\ \A t \in Tasks : indegree'[t] = Cardinality(deps[t] \ Accounted')
      /\ completed' = Cardinality(Accounted')
      /\ \A t \in Tasks :
           t \in ready' <=>
             t \in ready \/ (~Taken(t) /\ deps[t] \subseteq Accounted')
  BY <1>1, <1>2, <1>3, NewlyReleased DEF TypeOK, Scheduling
<1>5. \A t \in Tasks : Dispatched(t)' <=> Dispatched(t)
  BY <1>1 DEF Dispatched
<1>6. /\ \A t \in Tasks : Taken(t) <=> deps[t] \subseteq Accounted
      /\ \A t \in ready : at[t] = "idle" /\ state[t] # "Skipped"
      /\ \A t \in Accounted : thrown[t] = "nothing"
  BY <1>1 DEF Bookkeeping, Scheduling
<1>7. \A t \in Tasks : Taken(t)' <=> deps[t] \subseteq Accounted'
  BY <1>1, <1>2, <1>4, <1>5, <1>6 DEF Taken
<1>8. \A t \in ready' : at[t] = "idle" /\ state[t] # "Skipped"
  <2>1. ready' \subseteq Tasks
    BY <1>1 DEF ReleaseDependents, TypeOK
  <2> QED
    BY <1>4, <1>6, <2>1 DEF Taken, Dispatched
<1>9. \A t \in finishedQ : thrown[t] = "nothing"
  BY DEF WorkersConsistent, TypeOK
<1> QED
  BY <1>1, <1>2, <1>4, <1>6, <1>7, <1>8, <1>9

\* indegree, completed_tasks and `ready' agree with the workers after every step.
LEMMA BookkeepingStep ==
    ASSUME TypeOK, Bookkeeping, WorkersConsistent, CurrentIdle, [Next]_vars
    PROVE  Bookkeeping'
<1> USE DEF TypeOK, schedVars, workerVars, sharedVars, snapVars, handleVars
<1>1. CASE UNCHANGED vars
  BY <1>1 DEF vars, Bookkeeping, Scheduling, Accounted, Taken, Dispatched
<1>2. CASE StartScheduler \/ SchedulerLoop \/ DispatchEnd \/ ClientCancel
  <2>1. /\ UNCHANGED <<deps, ready, indegree, completed, at, thrown, finishedQ, state>>
        /\ Scheduling' => Scheduling
        /\ \A t \in Tasks : Dispatched(t)' <=> Dispatched(t)
    BY <1>2 DEF StartScheduler, SchedulerLoop, DispatchEnd, ClientCancel, Scheduling,
       Dispatched
  <2>2. Accounted' = Accounted /\ \A t \in Tasks : Taken(t)' <=> Taken(t)
    BY <2>1 DEF Accounted, Taken
  <2> QED
    BY <2>1, <2>2 DEF Bookkeeping
<1>3. CASE DispatchSkip
  <2> DEFINE n == NextReady
  <2>1. /\ n \in ready /\ at[n] = "idle" /\ state[n] # "Skipped"
        /\ pc = "dispatch" /\ Scheduling
    BY <1>3, NextReadyIsReady DEF DispatchSkip, CanDispatch, Bookkeeping, Scheduling
  <2>2. /\ UNCHANGED <<deps, pc, cur, at, thrown, finishedQ>>
        /\ state' = [state EXCEPT ![n] = "Skipped"]
        /\ ReleaseDependents({n}, ready \ {n})
    BY <1>3 DEF DispatchSkip, SetTaskState
  <2> HIDE DEF n
  <2>3. Accounted' = Accounted \cup {n} /\ {n} \cap Accounted = {}
    BY <2>1, <2>2 DEF Accounted
  <2>4. /\ \A t \in Tasks : indegree'[t] = Cardinality(deps[t] \ Accounted')
        /\ completed' = Cardinality(Accounted')
        /\ \A t \in Tasks :
             t \in ready' <=>
               t \in ready \ {n} \/ (~Taken(t) /\ deps[t] \subseteq Accounted')
    <3>1. {n} \in SUBSET Tasks /\ deps \in Accepted
      BY <2>1
    <3>2. \A t \in Tasks :
            t \in ready' <=>
              t \in ready \ {n} \/ (~Taken(t) /\ deps[t] \subseteq Accounted \cup {n})
      BY <2>1, <2>2, <2>3, <3>1, NewlyReleased, Zenon
    <3>3. /\ \A t \in Tasks : indegree'[t] = Cardinality(deps[t] \ (Accounted \cup {n}))
          /\ completed' = Cardinality(Accounted \cup {n})
      BY <2>1, <2>2, <2>3, <3>1, NewlyReleased, Zenon
    <3> QED
      BY <2>3, <3>2, <3>3
  <2>5. \A t \in Tasks : Dispatched(t)' <=> Dispatched(t)
    BY <2>2 DEF Dispatched
  <2>6. /\ \A t \in Tasks : Taken(t) <=> deps[t] \subseteq Accounted
        /\ \A t \in ready : at[t] = "idle" /\ state[t] # "Skipped"
        /\ \A t \in Accounted : thrown[t] = "nothing"
    BY <2>1 DEF Bookkeeping
  <2>7. \A t \in Tasks : Taken(t)' <=> deps[t] \subseteq Accounted'
    BY <2>1, <2>2, <2>3, <2>4, <2>5, <2>6 DEF Taken
  <2>8. ready' \subseteq Tasks
    BY <2>2 DEF ReleaseDependents
  <2>9. \A t \in ready' : at[t] = "idle" /\ state'[t] # "Skipped"
    BY <2>1, <2>2, <2>4, <2>6, <2>8 DEF Taken, Dispatched
  <2>10. \A t \in Accounted' : thrown[t] = "nothing"
    BY <2>1, <2>3, <2>6 DEF WorkersConsistent
  <2> QED
    BY <2>2, <2>4, <2>7, <2>9, <2>10 DEF Bookkeeping
<1>4. CASE DispatchClaim
  <2>1. NextReady \in ready
    BY <1>4, NextReadyIsReady DEF DispatchClaim, CanDispatch
  <2>2. Accounted' = Accounted
    BY <1>4 DEF DispatchClaim, Accounted
  <2>3. \A t \in Tasks : Taken(t)' <=> Taken(t)
    BY <1>4, <2>1 DEF DispatchClaim, CanDispatch, Taken, Dispatched
  <2> QED
    BY <1>4, <2>1, <2>2, <2>3 DEF DispatchClaim, CanDispatch, Bookkeeping, Scheduling
<1>5. CASE DispatchMark
  <2>1. Accounted' = Accounted /\ \A t \in Tasks : Taken(t)' <=> Taken(t)
    BY <1>5 DEF DispatchMark, SetTaskState, CurrentIdle, Accounted, Taken, Dispatched
  <2>2. cur \notin ready /\ \A t \in Tasks \ {cur} : state'[t] = state[t]
    BY <1>5 DEF DispatchMark, SetTaskState, CurrentIdle
  <2> QED
    BY <1>5, <2>1, <2>2 DEF DispatchMark, Bookkeeping, Scheduling
<1>6. CASE DispatchPush
  <2>1. Accounted' = Accounted /\ \A t \in Tasks : Taken(t)' <=> Taken(t)
    BY <1>6 DEF DispatchPush, CurrentIdle, Accounted, Taken, Dispatched
  <2>2. cur \notin ready /\ \A t \in Tasks \ {cur} : at'[t] = at[t]
    BY <1>6 DEF DispatchPush, CurrentIdle
  <2> QED
    BY <1>6, <2>1, <2>2 DEF DispatchPush, Bookkeeping, Scheduling
<1>7. CASE SchedulerProgress
  <2>1. CASE firstError # NoTask
    BY <1>7, <2>1 DEF SchedulerProgress, Bookkeeping, Scheduling
  <2>2. CASE firstError = NoTask
    BY <1>7, <2>2, ProgressBookkeeping DEF Bookkeeping
  <2> QED
    BY <2>1, <2>2
<1>8. CASE DispatchThrow \/ SchedulerIdle \/ SchedulerCatch \/ SchedulerReject
             \/ SchedulerFinish
  <2>1. ~Scheduling'
    BY <1>8 DEF DispatchThrow, SchedulerIdle, SchedulerCatch, SchedulerReject,
       SchedulerFinish, Scheduling
  <2> QED
    BY <2>1 DEF Bookkeeping
<1>9. ASSUME NEW t \in Tasks, Worker(t)
      PROVE  Bookkeeping'
  <2>1. /\ UNCHANGED <<deps, pc, cur, ready, indegree, completed>>
        /\ Accounted' = Accounted
        /\ \A u \in Accounted : thrown'[u] = thrown[u]
        /\ \A u \in Tasks : Taken(u)' <=> Taken(u)
        /\ at[t] # "idle"
        /\ \A u \in Tasks \ {t} : at'[u] = at[u] /\ state'[u] = state[u]
    BY <1>9, WorkerFrame, WorkerAccounting
  <2> QED
    BY <2>1 DEF Bookkeeping, Scheduling
<1> QED
  BY <1>1, <1>2, <1>3, <1>4, <1>5, <1>6, <1>7, <1>8, <1>9 DEF Next, Scheduler

-----------------------------------------------------------------------------
(* Dependencies first. *)

\* Once a task is over for its dependents it stays so.
LEMMA SettledStays ==
    ASSUME TypeOK, Bookkeeping, WorkersConsistent, CurrentIdle, [Next]_vars,
           NEW t \in Tasks, Settled(t)
    PROVE  Settled(t)'
<1> USE DEF TypeOK, Settled, schedVars, workerVars, sharedVars, snapVars, handleVars
<1>1. CASE UNCHANGED vars
  BY <1>1 DEF vars
<1>2. CASE \/ StartScheduler \/ SchedulerLoop \/ DispatchEnd \/ DispatchThrow
           \/ DispatchClaim \/ SchedulerProgress \/ SchedulerIdle
           \/ SchedulerReject \/ SchedulerFinish \/ ClientCancel
  BY <1>2 DEF StartScheduler, SchedulerLoop, DispatchEnd, DispatchThrow, DispatchClaim,
     SchedulerProgress, SchedulerIdle, SchedulerReject, SchedulerFinish, ClientCancel
<1>3. CASE DispatchSkip
  <2>1. NextReady \in Tasks /\ at' = at /\ thrown' = thrown
    BY <1>3, NextReadyIsReady DEF DispatchSkip, CanDispatch
  <2>2. state[t] = "Skipped" => state'[t] = "Skipped"
    BY <1>3, <2>1 DEF DispatchSkip, SetTaskState
  <2> QED
    BY <2>1, <2>2
<1>4. CASE DispatchMark
  BY <1>4 DEF DispatchMark, SetTaskState, CurrentIdle
<1>5. CASE DispatchPush
  BY <1>5 DEF DispatchPush, CurrentIdle
<1>6. CASE SchedulerCatch
  BY <1>6 DEF SchedulerCatch, CancelUnfinished, Terminal, TaskStates
<1>7. ASSUME NEW u \in Tasks, Worker(u)
      PROVE  Settled(t)'
  BY <1>7, WorkerFrame
<1> QED
  BY <1>1, <1>2, <1>3, <1>4, <1>5, <1>6, <1>7 DEF Next, Scheduler

\* A task in `ready' has only settled dependencies.
LEMMA ReadyMeansSettled ==
    ASSUME TypeOK, Bookkeeping, CanDispatch
    PROVE  NextReady \in Tasks /\ \A d \in deps[NextReady] : Settled(d)
<1>1. NextReady \in ready /\ Scheduling
  BY NextReadyIsReady DEF CanDispatch, Scheduling, TypeOK
<1>2. deps[NextReady] \subseteq Accounted
  BY <1>1 DEF Bookkeeping, Taken, TypeOK
<1>3. \A d \in Accounted : Settled(d)
  BY <1>1 DEF Bookkeeping, Accounted, Settled
<1> QED
  BY <1>1, <1>2, <1>3 DEF TypeOK

\* No step lets a task start before its dependencies are over.
LEMMA DependenciesStep ==
    ASSUME TypeOK, Bookkeeping, WorkersConsistent, CurrentIdle, DependenciesFirst,
           [Next]_vars
    PROVE  DependenciesFirst'
<1> DEFINE Begun(t) == Dispatched(t) \/ state[t] = "Skipped"
<1>1. deps' = deps
  <2>1. ASSUME NEW t \in Tasks, Worker(t) PROVE deps' = deps
    BY <2>1, WorkerFrame
  <2> QED
    BY <2>1 DEF Next, Scheduler, vars, StartScheduler, SchedulerLoop, DispatchEnd,
       DispatchSkip, DispatchThrow, DispatchClaim, DispatchMark, DispatchPush,
       SchedulerProgress, SchedulerIdle, SchedulerCatch, SchedulerReject,
       SchedulerFinish, ClientCancel
<1>2. deps \in [Tasks -> SUBSET Tasks]
  BY Submitted DEF TypeOK
<1>3. \A t \in Tasks : \A d \in deps[t] : Settled(d) => Settled(d)'
  BY <1>2, SettledStays
<1>4. ASSUME NEW t \in Tasks, Begun(t)', ~Begun(t)
      PROVE  CanDispatch /\ t = NextReady
  <2> USE DEF TypeOK, schedVars, workerVars, sharedVars, snapVars, handleVars
  <2>1. CASE UNCHANGED vars
    BY <1>4, <2>1 DEF vars, Dispatched
  <2>2. CASE \/ StartScheduler \/ SchedulerLoop \/ DispatchEnd \/ DispatchThrow
             \/ SchedulerProgress \/ SchedulerIdle \/ SchedulerReject
             \/ SchedulerFinish \/ ClientCancel
    BY <1>4, <2>2 DEF StartScheduler, SchedulerLoop, DispatchEnd, DispatchThrow,
       CanDispatch, SchedulerProgress, SchedulerIdle, SchedulerReject, SchedulerFinish,
       ClientCancel, Dispatched
  <2>3. CASE DispatchSkip
    <3>1. CanDispatch /\ UNCHANGED <<at, pc, cur>>
      BY <2>3 DEF DispatchSkip
    <3>2. t # NextReady => state'[t] = state[t]
      BY <2>3 DEF DispatchSkip, SetTaskState
    <3> QED
      BY <1>4, <3>1, <3>2 DEF Dispatched
  <2>4. CASE DispatchClaim
    BY <1>4, <2>4 DEF DispatchClaim, CanDispatch, Dispatched
  <2>5. CASE DispatchMark
    BY <1>4, <2>5 DEF DispatchMark, SetTaskState, Dispatched
  <2>6. CASE DispatchPush
    BY <1>4, <2>6 DEF DispatchPush, Dispatched
  <2>7. CASE SchedulerCatch
    BY <1>4, <2>7 DEF SchedulerCatch, CancelUnfinished, Terminal, TaskStates, Dispatched
  <2>8. ASSUME NEW u \in Tasks, Worker(u) PROVE FALSE
    BY <1>4, <2>8, WorkerFrame, WorkerAccounting DEF Dispatched
  <2> QED
    BY <2>1, <2>2, <2>3, <2>4, <2>5, <2>6, <2>7, <2>8 DEF Next, Scheduler
<1>5. ASSUME NEW t \in Tasks, Begun(t)'
      PROVE  \A d \in deps'[t] : Settled(d)'
  <2>1. CASE Begun(t)
    BY <1>1, <1>3, <2>1 DEF DependenciesFirst
  <2>2. CASE ~Begun(t)
    BY <1>1, <1>3, <1>4, <1>5, <2>2, ReadyMeansSettled
  <2> QED
    BY <2>1, <2>2
<1> QED
  BY <1>5 DEF DependenciesFirst

-----------------------------------------------------------------------------
(* running_tasks. *)

\* The tasks that running_tasks should count.
Claimed == {t \in Tasks : Dispatched(t) /\ at[t] # "done"}

\* Every step keeps running_tasks equal to the number of claimed tasks.
LEMMA RunningStep ==
    ASSUME TypeOK, Bookkeeping, WorkersConsistent, CurrentIdle, RunningCounted,
           [Next]_vars
    PROVE  RunningCounted'
<1> USE DEF TypeOK, schedVars, workerVars, sharedVars, snapVars, handleVars
<1>0. /\ RunningCounted <=> running = Cardinality(Claimed)
      /\ RunningCounted' <=> running' = Cardinality(Claimed')
      /\ IsFiniteSet(Claimed) /\ Cardinality(Claimed) \in Nat
  BY Finite DEF RunningCounted, Claimed
<1>1. CASE UNCHANGED vars
  BY <1>0, <1>1 DEF vars, Claimed, Dispatched
<1>2. CASE \/ StartScheduler \/ SchedulerLoop \/ DispatchEnd \/ DispatchSkip
           \/ DispatchThrow \/ DispatchMark \/ SchedulerProgress \/ SchedulerIdle
           \/ SchedulerCatch \/ SchedulerReject \/ SchedulerFinish \/ ClientCancel
  <2>1. UNCHANGED <<running, at, cur>> /\ (pc \in {"mark", "push"} <=> pc' \in {"mark", "push"})
    BY <1>2 DEF StartScheduler, SchedulerLoop, DispatchEnd, DispatchSkip, CanDispatch,
       DispatchThrow, DispatchMark, SchedulerProgress, SchedulerIdle, SchedulerCatch,
       SchedulerReject, SchedulerFinish, ClientCancel
  <2>2. Claimed' = Claimed
    BY <2>1 DEF Claimed, Dispatched
  <2> QED
    BY <1>0, <2>1, <2>2
<1>3. CASE DispatchClaim
  <2> DEFINE n == NextReady
  <2>1. n \in Tasks /\ at[n] = "idle" /\ pc = "dispatch"
    BY <1>3, NextReadyIsReady DEF DispatchClaim, CanDispatch, Bookkeeping, Scheduling
  <2>2. cur' = n /\ pc' = "mark" /\ at' = at /\ running' = running + 1
    BY <1>3 DEF DispatchClaim
  <2> HIDE DEF n
  <2>3. Claimed' = Claimed \cup {n} /\ n \notin Claimed
    BY <2>1, <2>2 DEF Claimed, Dispatched
  <2>4. Cardinality(Claimed') = Cardinality(Claimed) + 1
    BY <1>0, <2>3, FS_AddElement
  <2> QED
    BY <1>0, <2>2, <2>4
<1>4. CASE DispatchPush
  <2>1. Claimed' = Claimed /\ running' = running
    BY <1>4 DEF DispatchPush, CurrentIdle, Claimed, Dispatched
  <2> QED
    BY <1>0, <2>1
<1>5. ASSUME NEW t \in Tasks, Worker(t), ~WorkerReport(t)
      PROVE  RunningCounted'
  <2>1. running' = running
    BY <1>5 DEF Worker, WorkerStart, WorkerUpdate, WorkerReturn, WorkerThrow,
       WorkerCheck, WorkerComplete, WorkerFail, WorkerRecord
  <2>2. at'[t] # "done"
    BY <1>5 DEF Worker, WorkerStart, WorkerUpdate, WorkerReturn, WorkerThrow,
       WorkerCheck, WorkerComplete, WorkerFail, WorkerRecord
  <2>3. Claimed' = Claimed
    BY <1>5, <2>2, WorkerFrame, WorkerAccounting DEF Claimed
  <2> QED
    BY <1>0, <2>1, <2>3
<1>6. ASSUME NEW t \in Tasks, WorkerReport(t)
      PROVE  RunningCounted'
  <2>1. t \in Claimed /\ Claimed' = Claimed \ {t}
    BY <1>6 DEF WorkerReport, Claimed, Dispatched
  <2>2. Cardinality(Claimed') = Cardinality(Claimed) - 1
    BY <1>0, <2>1, FS_RemoveElement
  <2>3. Cardinality(Claimed) # 0
    BY <1>0, <2>1, FS_EmptySet
  <2>4. running' = OneLess(running)
    BY <1>6 DEF WorkerReport
  <2> QED
    BY <1>0, <2>2, <2>3, <2>4 DEF OneLess
<1> QED
  BY <1>1, <1>2, <1>3, <1>4, <1>5, <1>6 DEF Next, Scheduler

-----------------------------------------------------------------------------
(* The end of the loop. *)

\* When nothing runs and nothing is ready, everything is accounted for: among
\* the tasks that are not, one of least rank would have been released.
LEMMA NoDeadEnd ==
    ASSUME TypeOK, Bookkeeping, WorkersConsistent, RunningCounted,
           SchedulerProgress, firstError = NoTask, ready' = {}, running = 0
    PROVE  completed' = Cardinality(Tasks)
<1>1. /\ pc = "wait" /\ pc' \in {"loop", "catch"} /\ finishedQ' = {}
      /\ UNCHANGED <<deps, at, thrown, state>>
  BY DEF SchedulerProgress, workerVars, snapVars
<1>2. /\ completed' = Cardinality(Accounted')
      /\ \A t \in Tasks : Taken(t)' <=> deps[t] \subseteq Accounted'
  BY <1>1, ProgressBookkeeping
<1>3. \A t \in Tasks : Dispatched(t) => at[t] = "done"
  <2>1. {t \in Tasks : Dispatched(t) /\ at[t] # "done"} = {}
    BY Finite, FS_EmptySet DEF RunningCounted
  <2> QED
    BY <2>1
<1>4. ASSUME NEW t \in Tasks \ Accounted'
      PROVE  ~Taken(t)'
  BY <1>1, <1>3 DEF Accounted, Taken, Dispatched
<1>5. Tasks \ Accounted' = {}
  <2> SUFFICES ASSUME Tasks \ Accounted' # {}
               PROVE  FALSE
    OBVIOUS
  <2>1. PICK t \in Tasks \ Accounted' : \A u \in Tasks \ Accounted' : rank[t] <= rank[u]
    BY LeastRank DEF TypeOK
  <2>2. rank \in [Tasks -> Nat]
        /\ \A d \in deps[t] : d \in Tasks /\ rank[d] < rank[t]
    BY Submitted DEF TypeOK, IsOrdered
  <2>3. deps[t] \subseteq Accounted'
    BY <2>1, <2>2
  <2> QED
    BY <1>2, <1>4, <2>3
<1>6. Accounted' \subseteq Tasks
  BY DEF Accounted
<1> QED
  BY <1>2, <1>5, <1>6

\* No step leads the scheduler to a graph it cannot resolve.
LEMMA ResolvableStep ==
    ASSUME TypeOK, Bookkeeping, WorkersConsistent, RunningCounted, AlwaysResolvable,
           [Next]_vars
    PROVE  AlwaysResolvable'
<1> USE DEF TypeOK, AlwaysResolvable, schedVars, workerVars, sharedVars, snapVars,
            handleVars, Outcome
<1>1. CASE SchedulerProgress
  <2>1. CASE firstError # NoTask
    BY <1>1, <2>1 DEF SchedulerProgress
  <2>2. CASE firstError = NoTask
    <3>1. ready' = {} /\ running = 0 => ~(completed' < Cardinality(Tasks))
      BY <1>1, <2>2, NoDeadEnd, FS_CardinalityType, DagAssumption
    <3> QED
      BY <1>1, <2>2, <3>1 DEF SchedulerProgress
  <2> QED
    BY <2>1, <2>2
<1>2. CASE \/ UNCHANGED vars \/ ClientCancel \/ (Scheduler /\ ~SchedulerProgress)
  BY <1>2 DEF vars, ClientCancel, Scheduler, StartScheduler, SchedulerLoop, DispatchEnd,
     DispatchSkip, DispatchThrow, DispatchClaim, DispatchMark, DispatchPush,
     SchedulerIdle, SchedulerCatch, SchedulerReject, SchedulerFinish
<1>3. ASSUME NEW t \in Tasks, Worker(t)
      PROVE  AlwaysResolvable'
  BY <1>3, WorkerFrame
<1> QED
  BY <1>1, <1>2, <1>3 DEF Next

\* The scheduler's loop ends, and its promise is fulfilled, at the end only.
LEMMA EndsStep ==
    ASSUME TypeOK, Bookkeeping, WorkersConsistent, CurrentIdle, EndsComplete,
           [Next]_vars
    PROVE  EndsComplete'
<1> USE DEF TypeOK, schedVars, workerVars, sharedVars, snapVars, handleVars
<1>1. ASSUME pc' = "idle"
      PROVE  Accounted' = Tasks
  <2>1. Bookkeeping'
    BY BookkeepingStep
  <2>2. completed' = Cardinality(Accounted') /\ Accounted' \subseteq Tasks
    BY <1>1, <2>1 DEF Bookkeeping, Scheduling, Accounted
  <2>3. CASE completed' >= Cardinality(Tasks)
    <3>1. IsFiniteSet(Tasks) /\ Cardinality(Tasks) \in Nat
      BY Finite
    <3>2. Cardinality(Accounted') <= Cardinality(Tasks)
      BY <2>2, <3>1, FS_Subset
    <3>3. Cardinality(Accounted') = Cardinality(Tasks)
      BY <2>2, <2>3, <3>1, <3>2, Finite
    <3> QED
      BY <2>2, <3>1, <3>3, FS_Subset
  <2>4. CASE UNCHANGED <<pc, at, state, finishedQ>>
    BY <1>1, <2>4 DEF EndsComplete, Accounted
  <2>5. CASE \E t \in Tasks : Worker(t)
    BY <1>1, <2>5, WorkerFrame, WorkerAccounting DEF EndsComplete
  <2>6. CASE Scheduler
    BY <1>1, <2>3, <2>6 DEF Scheduler, StartScheduler, SchedulerLoop, DispatchEnd,
       DispatchSkip, CanDispatch, DispatchThrow, DispatchClaim, DispatchMark,
       DispatchPush, SchedulerProgress, SchedulerIdle, SchedulerCatch, SchedulerReject,
       SchedulerFinish
  <2>7. CASE ClientCancel \/ UNCHANGED vars
    BY <2>4, <2>7 DEF ClientCancel, vars
  <2> QED
    BY <2>5, <2>6, <2>7 DEF Next
<1>2. ASSUME result' = Value
      PROVE  pc' \in {"finish", "done"} /\ \A t \in Tasks : Settled(t)
  <2>1. CASE result = Value
    <3>1. pc \in {"finish", "done"} /\ \A t \in Tasks : Settled(t)
      BY <2>1 DEF EndsComplete
    <3>2. ASSUME NEW t \in Tasks, Worker(t) PROVE pc' = pc
      BY <3>2, WorkerFrame
    <3> QED
      BY <3>1, <3>2 DEF Next, vars, Scheduler, StartScheduler, SchedulerLoop, DispatchEnd,
         DispatchSkip, CanDispatch, DispatchThrow, DispatchClaim, DispatchMark,
         DispatchPush, SchedulerProgress, SchedulerIdle, SchedulerCatch, SchedulerReject,
         SchedulerFinish, ClientCancel
  <2>2. CASE SchedulerIdle /\ result # Value
    <3>1. pc = "idle" /\ pc' = "finish"
      BY <1>2, <2>2 DEF SchedulerIdle
    <3>2. Accounted = Tasks /\ \A t \in Accounted : thrown[t] = "nothing"
      BY <3>1 DEF EndsComplete, Bookkeeping, Scheduling
    <3> QED
      BY <3>1, <3>2 DEF Accounted, Settled
  <2>3. CASE result # Value /\ ~SchedulerIdle
    <3>1. ASSUME NEW t \in Tasks, Worker(t) PROVE result' = result
      BY <3>1, WorkerFrame
    <3>2. SchedulerReject => result' # Value
      BY DEF SchedulerReject, Value, Outcome
    <3> QED
      BY <1>2, <2>3, <3>1, <3>2 DEF Next, vars, Scheduler, StartScheduler, SchedulerLoop,
         DispatchEnd, DispatchSkip, DispatchThrow, DispatchClaim, DispatchMark,
         DispatchPush, SchedulerProgress, SchedulerCatch, SchedulerFinish, ClientCancel
  <2> QED
    BY <2>1, <2>2, <2>3
<1>3. result' = Value => \A t \in Tasks : Settled(t)'
  BY <1>2, SettledStays
<1> QED
  BY <1>1, <1>2, <1>3 DEF EndsComplete

-----------------------------------------------------------------------------
(* The theorems. *)

\* A submission starts with the invariant.
LEMMA InitInv ==
    ASSUME Init
    PROVE  SchedulerInv
<1>1. deps \in [Tasks -> SUBSET Tasks]
  BY Submitted DEF Init
<1>2. \A t \in Tasks : Cardinality(deps[t]) \in Nat /\ (Cardinality(deps[t]) = 0 <=> deps[t] = {})
  BY <1>1, Finite, FS_EmptySet
<1>3. Cardinality({}) = 0
  BY FS_EmptySet
<1>4. TypeOK
  <2>1. /\ ready \subseteq Tasks /\ indegree \in [Tasks -> Nat]
        /\ at \in [Tasks -> {"idle"}] /\ thrown \in [Tasks -> {"nothing"}]
        /\ state \in [Tasks -> {"Queued"}]
    BY <1>2 DEF Init, InitialReady
  <2>2. progress \in [Tasks -> 0..FullProgress]
    BY TaskAssumption DEF Init
  <2>3. /\ exc \in [why : {"pending"}, task : {NoTask}]
        /\ result \in [why : {"pending"}, task : {NoTask}]
    BY DEF Init, Pending, Outcome
  <2>4. state \in [Tasks -> TaskStates]
    BY <2>1 DEF TaskStates
  <2>5. /\ thrown \in [Tasks -> {"nothing", "error", "cancelled"}]
        /\ at \in [Tasks -> {"idle", "pushed", "body", "check", "complete",
                            "fail", "record", "report", "done"}]
    BY <2>1
  <2> QED
    BY <2>1, <2>2, <2>3, <2>4, <2>5 DEF Init, TypeOK
<1>5. Accounted = {}
  BY DEF Init, Accounted
<1>6. \A t \in Tasks : ~Dispatched(t)
  BY DEF Init, Dispatched
<1>7. Bookkeeping
  <2>1. \A t \in Tasks : Taken(t) <=> deps[t] = {}
    BY <1>2, <1>6 DEF Init, InitialReady, Taken
  <2>2. \A t \in Tasks : indegree[t] = Cardinality(deps[t] \ {})
    BY <1>1 DEF Init
  <2>3. /\ completed = 0
        /\ \A t \in ready : at[t] = "idle" /\ state[t] # "Skipped"
    BY DEF Init, InitialReady
  <2> QED
    BY <1>3, <1>5, <2>1, <2>2, <2>3 DEF Bookkeeping
<1>8. RunningCounted
  <2>1. {t \in Tasks : Dispatched(t) /\ at[t] # "done"} = {}
    BY <1>6
  <2> QED
    BY <1>3, <2>1 DEF Init, RunningCounted
<1>9. CurrentIdle /\ WorkersConsistent /\ EndsComplete /\ DependenciesFirst /\ AlwaysResolvable
  BY <1>6 DEF Init, CurrentIdle, WorkersConsistent, EndsComplete, DependenciesFirst,
     AlwaysResolvable, Pending, Value, Outcome
<1> QED
  BY <1>4, <1>7, <1>8, <1>9 DEF SchedulerInv

\* The inductive invariant holds: what the scheduler believes of its tasks is
\* what the workers have done.
THEOREM Invariant == Spec => []SchedulerInv
<1>1. Init => SchedulerInv
  BY InitInv
<1>2. SchedulerInv /\ [Next]_vars => SchedulerInv'
  BY TypeStep, WorkersStep, CurrentStep, BookkeepingStep, DependenciesStep, RunningStep,
     ResolvableStep, EndsStep
  DEF SchedulerInv
<1> QED
  BY <1>1, <1>2, PTL DEF Spec

\* Every variable keeps its type, whatever the graph and the pool.
THEOREM TypeCorrect == Spec => []TypeOK
<1>1. SchedulerInv => TypeOK
  BY DEF SchedulerInv
<1> QED
  BY <1>1, Invariant, PTL

\* Exactly the graphs with an index out of range or a circle are refused, and the
\* others are run in an order of their dependencies, whatever their size
\* (build_task_execution_order, build_task_scheduling_data).
THEOREM SubmissionsAreOrdered == Spec => []SubmissionIsOrdered
<1>1. SchedulerInv => SubmissionIsOrdered
  BY CirclesAreRefused, Submitted DEF SchedulerInv, TypeOK, SubmissionIsOrdered
<1> QED
  BY <1>1, Invariant, PTL

\* dispatch_ready_tasks hands no task to the pool, and skips none, before all
\* its dependencies are over.
THEOREM DependenciesComeFirst == Spec => []DependenciesFirst
<1>1. SchedulerInv => DependenciesFirst
  BY DEF SchedulerInv
<1> QED
  BY <1>1, Invariant, PTL

\* running_tasks is the number of claimed tasks that have not reported.
THEOREM RunningIsCounted == Spec => []RunningCounted
<1>1. SchedulerInv => RunningCounted
  BY DEF SchedulerInv
<1> QED
  BY <1>1, Invariant, PTL

\* "Task dependency graph could not be resolved." is never thrown.
THEOREM GraphIsResolved == Spec => []AlwaysResolvable
<1>1. SchedulerInv => AlwaysResolvable
  BY DEF SchedulerInv
<1> QED
  BY <1>1, Invariant, PTL

LEMMA ValueMeansDone == SchedulerInv => ValueMeansAllDone
BY DEF SchedulerInv, EndsComplete, WorkersConsistent, ValueMeansAllDone, Settled

\* A future that holds a value stands for a graph that is done, worker by worker.
THEOREM ValueIsEarned == Spec => []ValueMeansAllDone
BY ValueMeansDone, Invariant, PTL

\* Once a task is over for its dependents, no step undoes it.
THEOREM SettledForEver ==
    Spec => [][\A t \in Tasks : Settled(t) => Settled(t)']_vars
<1>1. SchedulerInv /\ [Next]_vars => [\A t \in Tasks : Settled(t) => Settled(t)']_vars
  BY SettledStays DEF SchedulerInv
<1> QED
  BY <1>1, Invariant, PTL DEF Spec

-----------------------------------------------------------------------------
(* The progress of the group.                                               *)

\* No step takes progress back: what sets it to nothing is done to a task that has made
\* none, and what a body reports is never below what is there.
LEMMA ProgressStep ==
    ASSUME SchedulerInv, NotBegun, [Next]_vars
    PROVE  NotBegun' /\ \A t \in Tasks : progress'[t] >= progress[t]
<1> USE TaskAssumption
    DEF SchedulerInv, TypeOK, WorkersConsistent, CurrentIdle, NotBegun, schedVars, workerVars,
        sharedVars, snapVars, handleVars
<1>1. CASE UNCHANGED vars
  BY <1>1 DEF vars
<1>2. CASE \/ StartScheduler \/ SchedulerLoop \/ DispatchEnd \/ DispatchThrow \/ DispatchClaim
           \/ SchedulerProgress \/ SchedulerIdle \/ SchedulerReject \/ SchedulerFinish
  BY <1>2 DEF StartScheduler, SchedulerLoop, DispatchEnd, DispatchThrow, DispatchClaim,
     SchedulerProgress, SchedulerIdle, SchedulerReject, SchedulerFinish
<1>3. CASE DispatchSkip
  BY <1>3, NextReadyIsReady DEF DispatchSkip, CanDispatch, SetTaskState, Clamped
<1>4. CASE DispatchMark
  <2>1. Clamped(0) = 0 /\ progress[cur] = 0 /\ cur \in Tasks
    BY <1>4 DEF DispatchMark, Clamped
  <2> QED
    BY <1>4, <2>1 DEF DispatchMark, SetTaskState
<1>5. CASE DispatchPush
  BY <1>5 DEF DispatchPush
<1>6. CASE SchedulerCatch
  BY <1>6 DEF SchedulerCatch, CancelUnfinished, Terminal
<1>7. ASSUME NEW t \in Tasks, NEW p \in 0 .. FullProgress + 1,
             WorkerStart(t) \/ WorkerUpdate(t, p)
      PROVE  NotBegun' /\ \A u \in Tasks : progress'[u] >= progress[u]
  <2>1. \A q \in Nat : Raised(progress[t], q) >= progress[t]
    BY DEF Raised, Clamped
  <2> QED
    BY <1>7, <2>1 DEF WorkerStart, WorkerUpdate, Update
<1>8. ASSUME NEW t \in Tasks, WorkerComplete(t)
      PROVE  NotBegun' /\ \A u \in Tasks : progress'[u] >= progress[u]
  BY <1>8 DEF WorkerComplete, SetTaskState, Clamped
<1>9. ASSUME NEW t \in Tasks,
             \/ WorkerReturn(t) \/ (\E why \in {"error", "cancelled"} : WorkerThrow(t, why))
             \/ WorkerCheck(t) \/ WorkerFail(t) \/ WorkerRecord(t) \/ WorkerReport(t)
      PROVE  NotBegun' /\ \A u \in Tasks : progress'[u] >= progress[u]
  BY <1>9 DEF WorkerReturn, WorkerThrow, WorkerCheck, WorkerFail, WorkerRecord, WorkerReport
<1>10. CASE ClientCancel
  BY <1>10 DEF ClientCancel
<1> QED
  BY <1>1, <1>2, <1>3, <1>4, <1>5, <1>6, <1>7, <1>8, <1>9, <1>10 DEF Next, Scheduler, Worker

\* The shares of a task that has made no less progress include those it had.
LEMMA SharesGrow ==
    ASSUME TypeOK, TypeOK', \A t \in Tasks : progress'[t] >= progress[t]
    PROVE  GroupProgress' >= GroupProgress
<1> USE TaskAssumption DEF TypeOK
<1>1. \A t \in Tasks : progress[t] \in Nat /\ progress'[t] \in Nat /\ Weight[t] \in Nat
  OBVIOUS
<1>2. ASSUME NEW t \in Tasks
      PROVE  progress[t] * Weight[t] \in Nat /\ progress'[t] * Weight[t] \in Nat
  BY <1>1
<1>3. ASSUME NEW t \in Tasks
      PROVE  progress[t] * Weight[t] <= progress'[t] * Weight[t]
  <2>1. \A a, b, w \in Nat : a <= b => a * w <= b * w
    OBVIOUS
  <2> QED
    BY <1>1, <2>1
<1>4. Shares \subseteq Shares'
  <2>1. ASSUME NEW t \in Tasks
        PROVE  1 .. progress[t] * Weight[t] \subseteq 1 .. progress'[t] * Weight[t]
    BY <1>2, <1>3
  <2> QED
    BY <2>1 DEF Shares
<1>5. IsFiniteSet(Shares')
  <2> DEFINE n(t) == progress'[t] * Weight[t]
             of(t) == {t} \X (1 .. n(t))
             all == {of(t) : t \in Tasks}
  <2>1. \A t \in Tasks : IsFiniteSet(of(t))
    <3>1. ASSUME NEW t \in Tasks
          PROVE  IsFiniteSet(of(t))
      <4>1. n(t) \in Int
        BY <1>2
      <4> HIDE DEF n
      <4>2. IsFiniteSet(1 .. n(t))
        <5>1. 1 \in Int
          OBVIOUS
        <5> QED
          BY ONLY <4>1, <5>1, FS_Interval
      <4>3. IsFiniteSet({t})
        BY FS_Singleton
      <4> QED
        BY <4>2, <4>3, FS_Product
    <3> QED
      BY <3>1
  <2>2. IsFiniteSet(all)
    <3> DEFINE f == [t \in Tasks |-> of(t)]
    <3>1. f \in Surjection(Tasks, all)
      BY DEF Surjection
    <3> QED
      BY <3>1, FS_Surjection, DagAssumption
  <2>3. \A T \in all : IsFiniteSet(T)
    <3> HIDE DEF of
    <3> QED
      BY <2>1
  <2>4. IsFiniteSet(UNION all)
    <3> HIDE DEF all
    <3> QED
      BY <2>2, <2>3, FS_UNION
  <2> QED
    BY <2>4 DEF Shares
<1> QED
  BY <1>4, <1>5, FS_Subset, FS_CardinalityType DEF GroupProgress

\* The progress that a handle shows of the whole group never goes backwards: neither a
\* late update of a worker nor the scheduler's own marks take away what was shown.
THEOREM ProgressNeverLost == Spec => GroupProgressGrows
<1>1. Init => NotBegun
  BY DEF Init, NotBegun
<1>2. SchedulerInv /\ NotBegun /\ [Next]_vars => NotBegun'
  BY ProgressStep
<1>3. SchedulerInv /\ SchedulerInv' /\ NotBegun /\ [Next]_vars => [GroupProgress' >= GroupProgress]_vars
  BY ProgressStep, SharesGrow DEF SchedulerInv
<1> QED
  BY <1>1, <1>2, <1>3, Invariant, PTL DEF Spec, GroupProgressGrows

-----------------------------------------------------------------------------
(* TaskScheduler implements TaskGraph, and the end of a submission has a    *)
(* cause and is shown in its snapshot.                                      *)

EndInv == SchedulerInv /\ Ending /\ Shown

-----------------------------------------------------------------------------
(* Why a submission ends.                                                   *)

LEMMA EndingStep ==
    ASSUME SchedulerInv, Ending, Shown, [Next]_vars
    PROVE  Ending'
<1> USE TaskAssumption
    DEF SchedulerInv, TypeOK, Ending, schedVars, workerVars, sharedVars, snapVars, handleVars,
        Outcome, Pending, Value
<1>1. CASE UNCHANGED vars
  BY <1>1 DEF vars
<1>2. CASE StartScheduler \/ DispatchEnd \/ SchedulerFinish
  BY <1>2 DEF StartScheduler, DispatchEnd, SchedulerFinish
<1>3. CASE SchedulerLoop
  BY <1>3 DEF SchedulerLoop
<1>4. CASE DispatchSkip \/ DispatchClaim
  BY <1>4 DEF DispatchSkip, DispatchClaim, CanDispatch
<1>5. CASE DispatchThrow
  <2>1. NextReady \in Tasks /\ at[NextReady] = "idle"
    BY <1>5, NextReadyIsReady DEF DispatchThrow, CanDispatch, Bookkeeping, Scheduling
  <2> QED
    BY <1>5, <2>1 DEF DispatchThrow, CanDispatch
<1>6. CASE DispatchMark
  BY <1>6 DEF DispatchMark
<1>7. CASE DispatchPush
  BY <1>7 DEF DispatchPush
<1>8. CASE SchedulerProgress
  <2>1. CASE firstError # NoTask
    <3>1. thrown[firstError] \in {"error", "cancelled"}
      BY <2>1 DEF WorkersConsistent
    <3> QED
      BY <1>8, <2>1, <3>1 DEF SchedulerProgress
  <2>2. CASE firstError = NoTask
    BY <1>8, <2>2 DEF SchedulerProgress
  <2> QED
    BY <2>1, <2>2
<1>9. CASE SchedulerIdle
  <2>1. CASE firstError # NoTask
    <3>1. thrown[firstError] \in {"error", "cancelled"}
      BY <2>1 DEF WorkersConsistent
    <3> QED
      BY <1>9, <2>1, <3>1 DEF SchedulerIdle
  <2>2. CASE firstError = NoTask
    BY <1>9, <2>2 DEF SchedulerIdle
  <2> QED
    BY <2>1, <2>2
<1>10. CASE SchedulerCatch
  BY <1>10 DEF SchedulerCatch
<1>11. CASE SchedulerReject
  BY <1>11 DEF SchedulerReject
<1>12. ASSUME NEW t \in Tasks, WorkerRecord(t)
       PROVE  Ending'
  BY <1>12 DEF WorkerRecord, FirstError
<1>13. ASSUME NEW t \in Tasks, Worker(t), ~WorkerRecord(t)
       PROVE  Ending'
  <2>1. /\ UNCHANGED <<schedVars, result, finished>>
        /\ \A u \in Tasks \ {t} : at'[u] = at[u] /\ thrown'[u] = thrown[u]
        /\ at[t] # "idle"
    BY <1>13, WorkerFrame
  <2>2. UNCHANGED <<cancelled, firstError>>
    BY <1>13
    DEF Worker, WorkerStart, WorkerUpdate, WorkerReturn, WorkerThrow, WorkerCheck,
        WorkerComplete, WorkerFail, WorkerReport
  <2>3. firstError = t => thrown'[t] = thrown[t]
    BY <1>13
    DEF Shown, Worker, WorkerStart, WorkerUpdate, WorkerReturn, WorkerThrow, WorkerCheck,
        WorkerComplete, WorkerFail, WorkerReport
  <2>4. firstError # NoTask => thrown'[firstError] = thrown[firstError]
    BY <2>1, <2>3
  <2>5. ASSUME exc.why = "condition" PROVE at'[exc.task] = "idle"
    <3>1. exc.task \in Tasks /\ at[exc.task] = "idle"
      BY <2>5
    <3> QED
      BY <2>1, <3>1
  <2>6. UNCHANGED <<pc, exc, result, finished, cancelled, firstError>>
    BY <2>1, <2>2
  <2> QED
    BY <2>4, <2>5, <2>6
<1>14. CASE ClientCancel
  BY <1>14 DEF ClientCancel
<1> QED
  BY <1>1, <1>2, <1>3, <1>4, <1>5, <1>6, <1>7, <1>8, <1>9, <1>10, <1>11, <1>12, <1>13, <1>14
  DEF Next, Scheduler

-----------------------------------------------------------------------------
(* What the snapshot shows at the end.                                      *)

LEMMA ShownStep ==
    ASSUME SchedulerInv, Ending, Shown, [Next]_vars
    PROVE  Shown'
<1> USE TaskAssumption
    DEF SchedulerInv, TypeOK, Shown, Dispatched, schedVars, workerVars, sharedVars, snapVars,
        handleVars
<1>1. CASE UNCHANGED vars
  BY <1>1 DEF vars
<1>2. CASE \/ StartScheduler \/ SchedulerLoop \/ DispatchEnd \/ DispatchThrow
           \/ SchedulerProgress
  <2>1. /\ pc \notin {"mark", "push"} /\ pc' \notin {"mark", "push"}
        /\ pc' \notin {"reject", "finish", "done"}
        /\ UNCHANGED <<at, thrown, state, firstError>>
    BY <1>2
    DEF StartScheduler, SchedulerLoop, DispatchEnd, DispatchThrow, CanDispatch,
        SchedulerProgress
  <2> QED
    BY <2>1
<1>11. CASE SchedulerIdle
  <2>1. /\ pc \notin {"mark", "push"} /\ pc' \notin {"mark", "push"}
        /\ UNCHANGED <<at, thrown, state, firstError>>
    BY <1>11 DEF SchedulerIdle
  <2>2. pc' = "finish" => exc'.why = "pending"
    BY <1>11 DEF SchedulerIdle, Ending, Pending, Outcome
  <2>3. pc' \in {"finish", "catch"}
    BY <1>11 DEF SchedulerIdle
  <2> QED
    BY <2>1, <2>2, <2>3
<1>3. CASE SchedulerReject \/ SchedulerFinish
  BY <1>3 DEF SchedulerReject, SchedulerFinish
<1>4. CASE DispatchSkip
  <2>1. NextReady \in Tasks /\ at[NextReady] = "idle"
    BY <1>4, NextReadyIsReady DEF DispatchSkip, CanDispatch, Bookkeeping, Scheduling
  <2> QED
    BY <1>4, <2>1 DEF DispatchSkip, CanDispatch, SetTaskState, WorkersConsistent
<1>5. CASE DispatchClaim
  BY <1>5, NextReadyIsReady DEF DispatchClaim, CanDispatch, Ending, Pending, Value, Outcome
<1>6. CASE DispatchMark
  BY <1>6 DEF DispatchMark, SetTaskState, CurrentIdle, WorkersConsistent
<1>7. CASE DispatchPush
  BY <1>7 DEF DispatchPush, CurrentIdle, WorkersConsistent
<1>8. CASE SchedulerCatch
  BY <1>8 DEF SchedulerCatch, CancelUnfinished, Terminal, TaskStates, Ending
<1>9. ASSUME NEW t \in Tasks, Worker(t)
      PROVE  Shown'
  <2>1. /\ UNCHANGED schedVars
        /\ \A u \in Tasks \ {t} :
             at'[u] = at[u] /\ thrown'[u] = thrown[u] /\ state'[u] = state[u]
        /\ at[t] # "idle" /\ at'[t] # "idle"
    BY <1>9, WorkerFrame
  <2>2. \/ firstError' = firstError
        \/ firstError' = t /\ at'[t] = "report"
    BY <1>9
    DEF Worker, WorkerStart, WorkerUpdate, WorkerReturn, WorkerThrow, WorkerCheck,
        WorkerComplete, WorkerFail, WorkerRecord, FirstError, WorkerReport
  <2>3. at[t] \in {"report", "done"} => at'[t] \in {"report", "done"}
    BY <1>9
    DEF Worker, WorkerStart, WorkerUpdate, WorkerReturn, WorkerThrow, WorkerCheck,
        WorkerComplete, WorkerFail, WorkerRecord, WorkerReport
  <2>4. at'[t] = "record" \/ (at'[t] \in {"report", "done"} /\ thrown'[t] # "nothing") =>
          state'[t] = IF thrown'[t] = "cancelled" THEN "Cancelled" ELSE "Failed"
    <3>1. CASE WorkerFail(t)
      BY <3>1 DEF WorkerFail
    <3>2. CASE WorkerRecord(t)
      BY <3>2 DEF WorkerRecord
    <3>3. CASE WorkerReport(t)
      BY <3>3 DEF WorkerReport
    <3>4. CASE WorkerComplete(t)
      BY <3>4 DEF WorkerComplete, WorkersConsistent
    <3>5. CASE ~WorkerFail(t) /\ ~WorkerRecord(t) /\ ~WorkerReport(t) /\ ~WorkerComplete(t)
      BY <1>9, <3>5
      DEF Worker, WorkerStart, WorkerUpdate, WorkerReturn, WorkerThrow, WorkerCheck
    <3> QED
      BY <3>1, <3>2, <3>3, <3>4, <3>5
  <2> QED
    BY <2>1, <2>2, <2>3, <2>4
<1>10. CASE ClientCancel
  BY <1>10 DEF ClientCancel
<1> QED
  BY <1>1, <1>2, <1>3, <1>4, <1>5, <1>6, <1>7, <1>8, <1>9, <1>10, <1>11 DEF Next, Scheduler

LEMMA InitEnd == Init => EndInv
<1> SUFFICES ASSUME Init PROVE EndInv
  OBVIOUS
<1>1. SchedulerInv
  BY InitInv
<1>2. Ending
  BY DEF Init, Ending, Pending, Value, Outcome
<1>3. Shown
  BY TaskAssumption DEF Init, Shown, Dispatched
<1> QED
  BY <1>1, <1>2, <1>3 DEF EndInv

LEMMA SchedulerInvStep == SchedulerInv /\ [Next]_vars => SchedulerInv'
BY TypeStep, WorkersStep, CurrentStep, BookkeepingStep, DependenciesStep, RunningStep,
   ResolvableStep, EndsStep
DEF SchedulerInv

\* A submission's end is consistent in every state (run_task_specs_scheduler's
\* catch clauses, fail_task_and_cancel and cancel_unfinished_tasks together).
THEOREM EndIsConsistent == Spec => []EndInv
<1>1. EndInv /\ [Next]_vars => EndInv'
  BY SchedulerInvStep, EndingStep, ShownStep DEF EndInv
<1> QED
  BY <1>1, InitEnd, PTL DEF Spec

LEMMA EndExplains == ASSUME EndInv PROVE EndIsExplained
<1> USE DEF EndInv, SchedulerInv, TypeOK
<1>1. result \in {Pending, Value, exc} /\ exc.why # "unresolved"
  BY DEF Ending, AlwaysResolvable
<1>2. RejectionHasCause
  <2>1. CASE result = exc
    <3>1. exc.why = "error" => exc.task = firstError /\ state[exc.task] = "Failed"
      BY DEF Ending, Shown
    <3>2. exc.why = "condition" => ~Dispatched(exc.task)
      BY DEF Ending, Dispatched, Pending, Outcome
    <3> QED
      BY <2>1, <3>1, <3>2 DEF RejectionHasCause, Ending
  <2>2. CASE result \in {Pending, Value}
    BY <2>2 DEF RejectionHasCause, Pending, Value, Outcome
  <2> QED
    BY <1>1, <2>1, <2>2
<1>3. NothingLeftOpen
  <2> SUFFICES ASSUME finished, result.why # "condition" PROVE
         /\ \A t \in Tasks : \A d \in deps[t] :
              state[d] \in {"Failed", "Cancelled"} => state[t] = "Cancelled"
         /\ (\A t \in Tasks : at[t] \in {"idle", "done"})
              => \A t \in Tasks : state[t] \in Terminal
    BY DEF NothingLeftOpen
  <2>1. pc = "done" /\ result # Pending
    BY DEF Ending
  <2>2. \A t \in Tasks : Settled(t) => state[t] \in {"Completed", "Skipped"}
    BY DEF Settled, WorkersConsistent
  <2>3. \A t \in Tasks : at[t] = "idle" => state[t] \in {"Skipped", "Cancelled"}
    <3>1. CASE result = Value
      BY <2>2, <3>1 DEF EndsComplete, Settled
    <3>2. CASE result = exc /\ result # Value
      <4>1. exc.why \in {"cancelled", "error"}
        BY <1>1, <2>1, <3>2 DEF Ending
      <4> QED
        BY <2>1, <4>1 DEF Shown
    <3> QED
      BY <1>1, <2>1, <3>1, <3>2
  <2>4. ASSUME NEW t \in Tasks, NEW d \in deps[t], state[d] \in {"Failed", "Cancelled"}
        PROVE  state[t] = "Cancelled"
    <3>1. d \in Tasks /\ ~Settled(d)
      BY <2>2, <2>4, Submitted DEF EndInv, SchedulerInv, TypeOK
    <3>2. at[t] = "idle" /\ state[t] # "Skipped"
      BY <3>1 DEF DependenciesFirst, Dispatched
    <3> QED
      BY <2>3, <3>2
  <2>5. ASSUME NEW t \in Tasks, at[t] = "done"
        PROVE  state[t] \in Terminal
    BY <2>5 DEF Shown, WorkersConsistent, Terminal, TaskStates
  <2> QED
    BY <2>3, <2>4, <2>5 DEF Terminal, TaskStates
<1> QED
  BY <1>2, <1>3, ValueMeansDone DEF EndIsExplained, EndInv

\* A future that holds a value stands for a graph that is done, a rejected one
\* names a cause that exists, and the snapshot of a submission that is over shows
\* every task that depends on a failed one as cancelled, and none as open
\* (cancel_unfinished_tasks, the catch clauses of run_task_specs_scheduler).
THEOREM SubmissionEndExplained == Spec => []EndIsExplained
<1>1. EndInv => EndIsExplained
  BY EndExplains
<1> QED
  BY <1>1, EndIsConsistent, PTL

-----------------------------------------------------------------------------
(* Every step of the scheduler is a step that TaskGraph allows.             *)

\* The abstract view of a task moves on in one direction only.
LEMMA PhaseIs ==
    ASSUME EndInv, NEW t \in Tasks
    PROVE  /\ at[t] \in {"idle", "pushed"} /\ state[t] # "Skipped" => PhaseOf(t) = "waiting"
           /\ state[t] = "Skipped" => PhaseOf(t) = "settled"
           /\ at[t] \in {"body", "check", "complete"} => PhaseOf(t) = "running"
           /\ at[t] \in {"fail", "record"} => PhaseOf(t) = "failed"
           /\ at[t] = "report" =>
                PhaseOf(t) = IF thrown[t] = "nothing" THEN "running" ELSE "failed"
           /\ at[t] = "done" =>
                PhaseOf(t) = IF thrown[t] = "nothing" THEN "settled" ELSE "failed"
BY DEF EndInv, SchedulerInv, TypeOK, WorkersConsistent, PhaseOf, Settled

\* The same after a step.
LEMMA PhaseIsNext ==
    ASSUME EndInv', NEW t \in Tasks
    PROVE  /\ at'[t] \in {"idle", "pushed"} /\ state'[t] # "Skipped" =>
                PhaseOf(t)' = "waiting"
           /\ state'[t] = "Skipped" => PhaseOf(t)' = "settled"
           /\ at'[t] \in {"body", "check", "complete"} => PhaseOf(t)' = "running"
           /\ at'[t] \in {"fail", "record"} => PhaseOf(t)' = "failed"
           /\ at'[t] = "report" =>
                PhaseOf(t)' = IF thrown'[t] = "nothing" THEN "running" ELSE "failed"
           /\ at'[t] = "done" =>
                PhaseOf(t)' = IF thrown'[t] = "nothing" THEN "settled" ELSE "failed"
BY DEF EndInv, SchedulerInv, TypeOK, WorkersConsistent, PhaseOf, Settled

\* What is neither skipped, moved nor thrown stays what it was.
LEMMA PhaseStays ==
    ASSUME NEW t \in Tasks, at'[t] = at[t], thrown'[t] = thrown[t],
           state'[t] = "Skipped" <=> state[t] = "Skipped"
    PROVE  PhaseOf(t)' = PhaseOf(t)
BY DEF PhaseOf, Settled

\* Before its end a submission's future is pending.
LEMMA FutureIs ==
    ASSUME EndInv
    PROVE  /\ pc \notin {"finish", "done"} => result = Pending /\ FutureShown = "pending"
           /\ result.why = "condition" => FutureShown = "abandoned"
           /\ ~cancelled => FutureShown \in {"pending", "value", "abandoned"}
<1> USE DEF EndInv, SchedulerInv, TypeOK, Ending
<1>1. pc \notin {"finish", "done"} => result = Pending /\ FutureShown = "pending"
  BY DEF FutureShown, Pending, Value, Outcome
<1>2. result.why = "condition" => FutureShown = "abandoned"
  BY DEF FutureShown, Pending, Value, Outcome
<1>3. ASSUME ~cancelled PROVE FutureShown \in {"pending", "value", "abandoned"}
  <2>1. CASE result = Pending \/ result = Value
    BY <2>1 DEF FutureShown, Pending, Value, Outcome
  <2>2. CASE result = exc /\ result # Pending
    <3>1. exc.why = "condition"
      BY <1>3, <2>2 DEF AlwaysResolvable
    <3> QED
      BY <1>2, <2>2, <3>1
  <2> QED
    BY <2>1, <2>2
<1> QED
  BY <1>1, <1>2, <1>3

Phase == [t \in Tasks |-> PhaseOf(t)]

\* A step of the scheduler closure moves no task but the one it skips.
LEMMA SchedulerRefines ==
    ASSUME EndInv, EndInv', Scheduler
    PROVE  Promise!Next \/ UNCHANGED <<deps, Phase, FutureShown>>
<1> USE DEF schedVars, workerVars, sharedVars, snapVars, handleVars
<1>1. deps' = deps
  BY DEF Scheduler, StartScheduler, SchedulerLoop, DispatchEnd, DispatchSkip, DispatchThrow,
     DispatchClaim, DispatchMark, DispatchPush, SchedulerProgress, SchedulerIdle,
     SchedulerCatch, SchedulerReject, SchedulerFinish
<1>2. ASSUME ~DispatchSkip
      PROVE  UNCHANGED Phase
  <2>1. \A t \in Tasks : PhaseOf(t)' = PhaseOf(t)
    <3>1. CASE DispatchPush
      <4>1. \A t \in Tasks \ {cur} :
              at'[t] = at[t] /\ thrown'[t] = thrown[t] /\ state'[t] = state[t]
        BY <3>1 DEF DispatchPush, EndInv, SchedulerInv, TypeOK
      <4>2. cur \in Tasks => /\ at[cur] = "idle" /\ at'[cur] = "pushed"
                             /\ state[cur] # "Skipped" /\ state'[cur] # "Skipped"
        BY <3>1 DEF DispatchPush, EndInv, SchedulerInv, CurrentIdle, TypeOK
      <4> QED
        BY <4>1, <4>2, PhaseStays, PhaseIs, PhaseIsNext
    <3>2. CASE DispatchMark
      BY <3>2, PhaseStays
      DEF DispatchMark, SetTaskState, EndInv, SchedulerInv, CurrentIdle, TypeOK
    <3>3. CASE SchedulerCatch
      BY <3>3, PhaseStays
      DEF SchedulerCatch, CancelUnfinished, Terminal, TaskStates, EndInv, SchedulerInv, TypeOK
    <3>4. CASE ~DispatchPush /\ ~DispatchMark /\ ~SchedulerCatch
      <4>1. UNCHANGED <<at, thrown, state>>
        BY <1>2, <3>4
        DEF Scheduler, StartScheduler, SchedulerLoop, DispatchEnd, DispatchThrow,
            DispatchClaim, SchedulerProgress, SchedulerIdle, SchedulerReject, SchedulerFinish
      <4> QED
        BY <4>1, PhaseStays
    <3> QED
      BY <3>1, <3>2, <3>3, <3>4
  <2> QED
    BY <2>1 DEF Phase
<1>3. ASSUME result' = result
      PROVE  UNCHANGED FutureShown
  BY <1>3 DEF FutureShown
<1>4. CASE DispatchSkip
  <2>1. NextReady \in ready /\ NextReady \in Tasks /\ \A d \in deps[NextReady] : Settled(d)
    BY <1>4, NextReadyIsReady, ReadyMeansSettled
    DEF DispatchSkip, CanDispatch, EndInv, SchedulerInv, TypeOK
  <2>2. PICK t \in Tasks : t = NextReady
    BY <2>1
  <2>3. at[t] = "idle" /\ state[t] # "Skipped"
    BY <1>4, <2>1, <2>2
    DEF DispatchSkip, CanDispatch, Bookkeeping, Scheduling, EndInv, SchedulerInv
  <2>4. /\ UNCHANGED <<at, thrown, result>>
        /\ state'[t] = "Skipped"
        /\ \A u \in Tasks \ {t} : state'[u] = state[u]
    BY <1>4, <2>2 DEF DispatchSkip, SetTaskState, EndInv, SchedulerInv, TypeOK
  <2>5. FutureShown = "pending"
    BY <1>4, FutureIs DEF DispatchSkip, CanDispatch
  <2>6. PhaseOf(t) = "waiting"
    BY <2>3, PhaseIs
  <2>7. PhaseOf(t)' = "settled"
    BY <2>4, PhaseIsNext
  <2>8. \A u \in Tasks \ {t} : PhaseOf(u)' = PhaseOf(u)
    BY <2>4, PhaseStays
  <2>9. \A d \in deps[t] : d \in Tasks /\ PhaseOf(d) = "settled"
    BY <2>1, <2>2, Submitted DEF EndInv, SchedulerInv, TypeOK, PhaseOf
  <2>10. Phase' = [Phase EXCEPT ![t] = "settled"]
    BY <2>7, <2>8 DEF Phase
  <2>11. UNCHANGED FutureShown
    BY <1>3, <2>4
  <2>12. Phase[t] = "waiting" /\ \A d \in deps[t] : Phase[d] = "settled"
    BY <2>6, <2>9 DEF Phase
  <2>13. Promise!Settle(t)
    BY <1>1, <2>5, <2>10, <2>11, <2>12
    DEF Promise!Settle, Promise!Released, Promise!Become, Phase
  <2> QED
    BY <2>13 DEF Promise!Next
<1>5. CASE SchedulerIdle /\ result' # result
  <2>1. pc = "idle" /\ result' = Value
    BY <1>5 DEF SchedulerIdle
  <2>2. FutureShown = "pending" /\ FutureShown' = "value"
    BY <2>1, FutureIs DEF FutureShown, Pending, Value, Outcome
  <2>3. \A t \in Tasks : PhaseOf(t) = "settled"
    BY <2>1 DEF EndInv, SchedulerInv, EndsComplete, Bookkeeping, Scheduling, Accounted,
       PhaseOf, Settled
  <2>4. UNCHANGED Phase
    BY <1>2, <1>5 DEF SchedulerIdle, DispatchSkip, CanDispatch
  <2> QED
    BY <1>1, <2>2, <2>3, <2>4 DEF Promise!Next, Promise!Fulfil, Phase
<1>6. CASE SchedulerReject
  <2>1. pc = "reject" /\ result' = exc /\ exc' = exc
    BY <1>6 DEF SchedulerReject
  <2>2. FutureShown = "pending"
    BY <2>1, FutureIs
  <2>3. result' \notin {Pending, Value}
    BY <2>1 DEF EndInv, SchedulerInv, TypeOK, Ending, Value, Pending, Outcome
  <2>4. FutureShown' \in {"exception", "abandoned"}
    BY <2>3 DEF FutureShown
  <2>5. UNCHANGED Phase
    BY <1>2, <1>6 DEF SchedulerReject, DispatchSkip, CanDispatch
  <2> QED
    BY <1>1, <2>2, <2>4, <2>5 DEF Promise!Next, Promise!Reject, Phase
<1>7. CASE ~DispatchSkip /\ ~(SchedulerIdle /\ result' # result) /\ ~SchedulerReject
  <2>1. result' = result
    BY <1>7 DEF Scheduler, StartScheduler, SchedulerLoop, DispatchEnd, DispatchThrow,
       DispatchClaim, DispatchMark, DispatchPush, SchedulerProgress, SchedulerCatch,
       SchedulerFinish
  <2> QED
    BY <1>1, <1>2, <1>3, <1>7, <2>1
<1> QED
  BY <1>4, <1>5, <1>6, <1>7

\* A step of a worker starts, settles or fails its own task, or moves nothing; a body
\* begins only where the future is pending or the graph was abandoned.
LEMMA WorkerRefines ==
    ASSUME EndInv, EndInv', NEW t \in Tasks, Worker(t)
    PROVE  Promise!Next \/ UNCHANGED <<deps, Phase, FutureShown>>
<1>1. /\ UNCHANGED <<deps, schedVars, result>>
      /\ \A u \in Tasks \ {t} :
           at'[u] = at[u] /\ thrown'[u] = thrown[u] /\ state'[u] = state[u]
      /\ state[t] # "Skipped" /\ state'[t] # "Skipped"
  BY WorkerFrame DEF EndInv, SchedulerInv
<1>2. UNCHANGED FutureShown
  BY <1>1 DEF FutureShown
<1>3. \A u \in Tasks \ {t} : PhaseOf(u)' = PhaseOf(u)
  BY <1>1, PhaseStays
<1>4. Phase' = [Phase EXCEPT ![t] = PhaseOf(t)']
  BY <1>3 DEF Phase
<1>5. at[t] = "pushed" => /\ Phase[t] = "waiting"
                          /\ \A d \in deps[t] : Phase[d] = "settled"
  <2> SUFFICES ASSUME at[t] = "pushed"
               PROVE  /\ Phase[t] = "waiting"
                      /\ \A d \in deps[t] : Phase[d] = "settled"
    OBVIOUS
  <2>1. \A d \in deps[t] : Settled(d) /\ d \in Tasks
    BY Submitted DEF EndInv, SchedulerInv, TypeOK, DependenciesFirst, Dispatched
  <2> QED
    BY <1>1, <2>1, PhaseIs DEF Phase, PhaseOf
<1>6. ASSUME PhaseOf(t)' = PhaseOf(t)
      PROVE  UNCHANGED <<deps, Phase, FutureShown>>
  BY <1>1, <1>2, <1>3, <1>6 DEF Phase
<1>7. ASSUME Phase[t] = "running", PhaseOf(t)' = "failed"
      PROVE  Promise!Next
  BY <1>1, <1>2, <1>4, <1>7 DEF Promise!Next, Promise!Fail, Promise!Become, Phase
<1>8. CASE WorkerStart(t) /\ cancelled
  <2>1. at[t] = "pushed" /\ at'[t] = "fail"
    BY <1>8 DEF WorkerStart, IsCancelRequested, EndInv, SchedulerInv, TypeOK
  <2>2. PhaseOf(t)' = "failed"
    BY <2>1, PhaseIsNext
  <2>3. Promise!Fail(t)
    BY <1>1, <1>2, <1>4, <1>5, <2>1, <2>2
    DEF Promise!Fail, Promise!Released, Promise!Become, Phase
  <2> QED
    BY <2>3 DEF Promise!Next
<1>9. CASE WorkerStart(t) /\ ~cancelled
  <2>1. at[t] = "pushed" /\ at'[t] = "body"
    BY <1>9 DEF WorkerStart, IsCancelRequested, EndInv, SchedulerInv, TypeOK
  <2>2. PhaseOf(t)' = "running"
    BY <2>1, PhaseIsNext
  <2>3. FutureShown # "value"
    <3>1. ~Settled(t)
      BY <1>1, <2>1 DEF Settled
    <3>2. result # Value
      BY <3>1 DEF EndInv, SchedulerInv, EndsComplete
    <3> QED
      BY <3>2 DEF FutureShown
  <2>4. FutureShown \in {"pending", "abandoned"}
    BY <1>9, <2>3, FutureIs
  <2>5. Promise!Start(t)
    BY <1>1, <1>2, <1>4, <1>5, <2>1, <2>2, <2>4
    DEF Promise!Start, Promise!Released, Promise!Become, Promise!Open, Phase
  <2> QED
    BY <2>5 DEF Promise!Next
<1>10. CASE \/ \E p \in 0..FullProgress + 1 : WorkerUpdate(t, p)
            \/ WorkerReturn(t) \/ WorkerFail(t) \/ WorkerRecord(t)
  <2>1. \/ at[t] \in {"body", "check"} /\ at'[t] \in {"body", "check"}
        \/ at[t] = "fail" /\ at'[t] = "record"
        \/ /\ at[t] = "record" /\ at'[t] = "report"
           /\ thrown[t] # "nothing" /\ thrown'[t] # "nothing"
    BY <1>10
    DEF WorkerUpdate, WorkerReturn, WorkerFail, WorkerRecord, workerVars, EndInv, SchedulerInv,
        TypeOK, WorkersConsistent
  <2> QED
    BY <1>1, <1>6, <2>1, PhaseIs, PhaseIsNext
<1>11. CASE WorkerThrow(t, "error") \/ WorkerThrow(t, "cancelled")
  <2>1. at[t] = "body" /\ at'[t] = "fail"
    BY <1>11 DEF WorkerThrow, EndInv, SchedulerInv, TypeOK
  <2> QED
    BY <1>7, <2>1, PhaseIs, PhaseIsNext DEF Phase
<1>12. CASE WorkerCheck(t)
  <2>1. at[t] = "check" /\ at'[t] \in {"fail", "complete"}
    BY <1>12 DEF WorkerCheck, EndInv, SchedulerInv, TypeOK
  <2> QED
    BY <1>6, <1>7, <2>1, PhaseIs, PhaseIsNext DEF Phase
<1>13. CASE WorkerComplete(t)
  <2>1. /\ at[t] = "complete" /\ at'[t] = "report"
        /\ thrown'[t] = "nothing"
    BY <1>13 DEF WorkerComplete, EndInv, SchedulerInv, TypeOK, WorkersConsistent
  <2> QED
    BY <1>6, <2>1, PhaseIs, PhaseIsNext
<1>14. CASE WorkerReport(t)
  <2>1. at[t] = "report" /\ at'[t] = "done" /\ thrown' = thrown
    BY <1>14 DEF WorkerReport, EndInv, SchedulerInv, TypeOK
  <2>2. CASE thrown[t] = "nothing"
    <3>1. Phase[t] = "running" /\ PhaseOf(t)' = "settled"
      BY <2>1, <2>2, PhaseIs, PhaseIsNext DEF Phase
    <3>2. Promise!Settle(t)
      BY <1>1, <1>2, <1>4, <3>1 DEF Promise!Settle, Promise!Become, Phase
    <3> QED
      BY <3>2 DEF Promise!Next
  <2>3. CASE thrown[t] # "nothing"
    BY <1>6, <2>1, <2>3, PhaseIs, PhaseIsNext
  <2> QED
    BY <2>2, <2>3
<1> QED
  BY <1>8, <1>9, <1>10, <1>11, <1>12, <1>13, <1>14 DEF Worker

LEMMA StepRefines ==
    ASSUME EndInv, EndInv', [Next]_vars
    PROVE  [Promise!Next]_<<deps, Phase, FutureShown>>
<1>1. CASE UNCHANGED vars
  BY <1>1
  DEF vars, workerVars, snapVars, handleVars, Phase, PhaseOf, Settled, FutureShown
<1>2. CASE ClientCancel
  BY <1>2
  DEF ClientCancel, workerVars, snapVars, Phase, PhaseOf, Settled, FutureShown
<1> QED
  BY <1>1, <1>2, SchedulerRefines, WorkerRefines DEF Next

\* submit_task_specs keeps its promise: whatever the graph, the pool and the moment of
\* a cancellation, each behaviour of the scheduler and its workers is one of TaskGraph.
THEOREM SchedulerImplementsTaskGraph == Spec => ImplementsTaskGraph
<1>1. Init => Promise!Init
  <2> SUFFICES ASSUME Init PROVE Promise!Init
    OBVIOUS
  <2>1. \A t \in Tasks : PhaseOf(t) = "waiting"
    BY DEF Init, PhaseOf, Settled
  <2>2. FutureShown = "pending"
    BY DEF Init, FutureShown, Pending, Value, Outcome
  <2> QED
    BY <2>1, <2>2 DEF Init, Promise!Init
<1>2. EndInv /\ EndInv' /\ [Next]_vars =>
        [Promise!Next]_<<deps, [t \in Tasks |-> PhaseOf(t)], FutureShown>>
  BY StepRefines DEF Phase
<1> QED
  BY <1>1, <1>2, EndIsConsistent, PTL DEF Spec, ImplementsTaskGraph, Promise!Spec
=============================================================================
