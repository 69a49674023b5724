-------------------------- MODULE WorkflowPlanProofs --------------------------
(***************************************************************************)
(* Proofs about the operators of WorkflowPlan, for plans of any length.    *)
(* Induction over numbers is by the least counterexample, which exists     *)
(* because < is well founded on Nat.                                       *)
(***************************************************************************)
EXTENDS WorkflowPlan, WellFoundedInduction, FiniteSetTheorems, TLAPS

Smaller == {p \in Nat \X Nat : p[1] < p[2]}

\* The natural numbers are well founded under <.
LEMMA SmallerIsWellFounded == IsWellFoundedOn(Smaller, Nat)
<1>1. OpToRel(<, Nat) = Smaller
  BY DEF OpToRel, Smaller
<1>2. QED
  BY <1>1, NatLessThanWellFounded

\* A set of natural numbers that is not empty has a least one,
LEMMA Least ==
  ASSUME NEW T \in SUBSET Nat, T # {}
  PROVE  \E x \in T : \A y \in T : x <= y
<1>1. PICK x \in T : \A y \in T : ~(<<y, x>> \in Smaller)
  BY ONLY T \in SUBSET Nat, T # {}, SmallerIsWellFounded, WFMin
<1>2. ASSUME NEW y \in T PROVE x <= y
  <2>1. y \in Nat /\ x \in Nat
    OBVIOUS
  <2>2. y < x => <<y, x>> \in Smaller
    BY <2>1 DEF Smaller
  <2>3. QED
    BY ONLY <1>1, <2>1, <2>2, y \in T
<1>3. QED
  BY <1>2

\* and, if it is bounded, a greatest.
LEMMA Greatest ==
  ASSUME NEW n \in Nat, NEW S \in SUBSET (0..n), S # {}
  PROVE  \E x \in S : \A y \in S : y <= x
<1> DEFINE T == {n - x : x \in S}
<1>0. \A x \in S : x \in Int /\ 0 <= x /\ x <= n
  OBVIOUS
<1>1. T \in SUBSET Nat
  <2>1. \A x \in S : n - x \in Nat
    BY <1>0
  <2>2. QED
    BY <2>1
<1>2. T # {}
  OBVIOUS
<1>3. \A y \in S : n - y \in T
  OBVIOUS
<1> HIDE DEF T
<1>4. PICK t \in T : \A u \in T : t <= u
  BY ONLY <1>1, <1>2, Least
<1>5. PICK x \in S : t = n - x
  BY DEF T
<1>6. ASSUME NEW y \in S PROVE y <= x
  <2>1. n - x <= n - y
    BY <1>3, <1>4, <1>5
  <2>2. x \in Int /\ y \in Int /\ n \in Int
    BY <1>0
  <2>3. QED
    BY ONLY <2>1, <2>2
<1>7. QED
  BY <1>6
-----------------------------------------------------------------------------
(* topoOrder.  On a runnable plan whose ids differ, each round finds a step *)
(* that is ready, so the order is complete; each round takes the first.     *)

Distinct(plan) ==
  \A i, j \in DOMAIN plan : plan[i].id = plan[j].id => i = j

\* What is in front of place k.
Before(order, k) == {order[m] : m \in 1..(k - 1)}

\* At place k stands the first step that was ready when it was picked.
Picked(plan, order, k) ==
  \E i \in DOMAIN plan :
    /\ order[k] = plan[i].id
    /\ plan[i].id \notin Before(order, k)
    /\ plan[i].dependsOn \subseteq Before(order, k)
    /\ \A j \in DOMAIN plan :
         j < i /\ plan[j].id \notin Before(order, k)
           => ~(plan[j].dependsOn \subseteq Before(order, k))

Steady(plan, order, n) ==
  /\ order \in Seq(Ids(plan)) /\ Len(order) = n
  /\ \A k \in 1..n : Picked(plan, order, k)

\* The recursion of topoOrder, on the numbers up to n.
Orders(plan, f, n) ==
  \A k \in 0..n :
    f[k] = IF k = 0 THEN << >> ELSE Extended(plan, f[k - 1])

\* The recursion has a solution as far as one looks ...
LEMMA OrdersExist ==
  ASSUME NEW plan, NEW n \in Nat
  PROVE  \E f : Orders(plan, f, n)
<1> DEFINE T == {m \in Nat : \A f : ~Orders(plan, f, m)}
<1> SUFFICES ASSUME T # {} PROVE FALSE
  OBVIOUS
<1>1. PICK m \in T : \A x \in T : m <= x
  BY Least
<1>2. m \in Nat /\ \A f : ~Orders(plan, f, m)
  OBVIOUS
<1>3. CASE m = 0
  <2>1. Orders(plan, [k \in {0} |-> << >>], 0)
    BY DEF Orders
  <2> QED
    BY <1>2, <1>3, <2>1
<1>4. CASE m # 0
  <2>1. m - 1 \in Nat /\ m - 1 \notin T
    BY <1>1, <1>2, <1>4
  <2>2. PICK g : Orders(plan, g, m - 1)
    BY <2>1
  <2> DEFINE f == [k \in 0..m |-> IF k = m THEN Extended(plan, g[m - 1]) ELSE g[k]]
  <2>3. ASSUME NEW k \in 0..m
        PROVE  f[k] = IF k = 0 THEN << >> ELSE Extended(plan, f[k - 1])
    <3>1. CASE k = m
      <4>1. f[k] = Extended(plan, g[m - 1]) /\ f[k - 1] = g[m - 1]
        BY <3>1, <2>1
      <4> QED
        BY <4>1, <3>1, <1>4
    <3>2. CASE k = 0
      BY <3>2, <2>1, <2>2, <1>4 DEF Orders
    <3>3. CASE k # m /\ k # 0
      <4>1. k \in 0..(m - 1) /\ k - 1 \in 0..m /\ k - 1 # m
        BY <3>3, <2>1
      <4>2. f[k] = g[k] /\ f[k - 1] = g[k - 1]
        BY <4>1, <3>3
      <4>3. g[k] = Extended(plan, g[k - 1])
        BY <4>1, <3>3, <2>2 DEF Orders
      <4> QED
        BY <4>2, <4>3, <3>3
    <3> QED
      BY <3>1, <3>2, <3>3
  <2>4. Orders(plan, f, m)
    BY <2>3 DEF Orders
  <2> QED
    BY <2>4, <1>2
<1> QED
  BY <1>3, <1>4

\* ... and topoOrder is its last value.
LEMMA TopoUnfolds ==
  ASSUME NEW plan, Len(plan) \in Nat
  PROVE  \E f : Orders(plan, f, Len(plan)) /\ topoOrder(plan) = f[Len(plan)]
<1> DEFINE N == Len(plan)
           Is(f) == f = [n \in 0..N |-> IF n = 0 THEN << >>
                                        ELSE Extended(plan, f[n - 1])]
           order == CHOOSE f : Is(f)
<1>1. \E f : Is(f)
  <2>1. PICK g : Orders(plan, g, N)
    BY OrdersExist
  <2> DEFINE f == [n \in 0..N |-> g[n]]
  <2>2. ASSUME NEW n \in 0..N
        PROVE  f[n] = IF n = 0 THEN << >> ELSE Extended(plan, f[n - 1])
    <3>1. n # 0 => n - 1 \in 0..N
      OBVIOUS
    <3>2. n # 0 => f[n - 1] = g[n - 1]
      BY <3>1
    <3>3. f[n] = IF n = 0 THEN << >> ELSE Extended(plan, g[n - 1])
      BY <2>1 DEF Orders
    <3> QED
      BY <3>2, <3>3
  <2>3. Is(f)
    BY <2>2
  <2> QED
    BY <2>3
<1>2. Is(order)
  BY <1>1
<1>3. topoOrder(plan) = order[N]
  BY DEF topoOrder
<1> HIDE DEF order, N
<1>4. Orders(plan, order, N)
  BY <1>2 DEF Orders
<1> QED
  BY <1>3, <1>4 DEF N

\* As long as a step is missing, one is missing that is ready: the ids in the
\* order are fewer than those of the plan, and a runnable plan has a step among
\* the missing that waits for none of them.
LEMMA SomethingIsReady ==
  ASSUME NEW Descriptions, NEW plan \in Seq(Descriptions),
         Distinct(plan), Runnable(plan), NEW n \in Nat, n < Len(plan),
         NEW order, Len(order) = n, DOMAIN order = 1..n
  PROVE  Ready(plan, order) # {}
<1> DEFINE N == Len(plan)
           done == {order[k] : k \in DOMAIN order}
           S == {i \in DOMAIN plan : plan[i].id \notin done}
<1>0. DOMAIN plan = 1..N /\ N \in Nat
  OBVIOUS
<1>1. S # {}
  <2> SUFFICES ASSUME S = {} PROVE FALSE
    OBVIOUS
  <2>1. \A i \in 1..N : \E k \in 1..n : order[k] = plan[i].id
    BY <1>0
  <2> DEFINE f == [i \in 1..N |-> CHOOSE k \in 1..n : order[k] = plan[i].id]
  <2>2. \A i \in 1..N : f[i] \in 1..n /\ order[f[i]] = plan[i].id
    BY <2>1
  <2>3. f \in [1..N -> 1..n]
    BY <2>2
  <2>4. /\ IsFiniteSet(1..N) /\ Cardinality(1..N) = N
        /\ IsFiniteSet(1..n) /\ Cardinality(1..n) = n
    <3>1. 1 \in Int /\ N \in Int /\ n \in Int /\ 0 <= N /\ 0 <= n
      BY <1>0
    <3> HIDE DEF N
    <3>2. IsFiniteSet(1..N) /\ Cardinality(1..N) = IF 1 > N THEN 0 ELSE N - 1 + 1
      BY ONLY <3>1, FS_Interval
    <3>3. IsFiniteSet(1..n) /\ Cardinality(1..n) = IF 1 > n THEN 0 ELSE n - 1 + 1
      BY ONLY <3>1, FS_Interval
    <3> QED
      BY ONLY <3>1, <3>2, <3>3
  <2> HIDE DEF f
  <2>5. \E x, y \in 1..N : x # y /\ f[x] = f[y]
    BY ONLY <2>3, <2>4, n < N, FS_PigeonHole
  <2>6. PICK x \in 1..N, y \in 1..N : x # y /\ f[x] = f[y]
    BY <2>5
  <2>7. plan[x].id = plan[y].id
    BY <2>2, <2>6
  <2> QED
    BY <2>6, <2>7, <1>0 DEF Distinct
<1>2. S \in SUBSET DOMAIN plan
  OBVIOUS
<1>3. PICK i \in S : plan[i].dependsOn \subseteq Ids(plan) \ {plan[j].id : j \in S}
  BY <1>1, <1>2 DEF Runnable
<1>4. \A x \in Ids(plan) \ {plan[j].id : j \in S} : x \in done
  BY DEF Ids
<1>5. i \in Ready(plan, order)
  BY <1>3, <1>4 DEF Ready
<1> QED
  BY <1>5

\* A round puts the first ready step at the end and moves nothing.
LEMMA ExtendedSteady ==
  ASSUME NEW Descriptions, NEW plan \in Seq(Descriptions),
         Distinct(plan), Runnable(plan), NEW n \in Nat, n < Len(plan),
         NEW order, Steady(plan, order, n)
  PROVE  Steady(plan, Extended(plan, order), n + 1)
<1> DEFINE ready == Ready(plan, order)
           i == First(ready)
           longer == Append(order, plan[i].id)
<1>0. order \in Seq(Ids(plan)) /\ Len(order) = n /\ DOMAIN order = 1..n
  BY DEF Steady
<1>1. ready # {}
  BY <1>0, SomethingIsReady
<1>2. ready \subseteq DOMAIN plan /\ DOMAIN plan \in SUBSET Nat
  BY DEF Ready
<1>3. i \in ready /\ \A j \in ready : i <= j
  <2>1. \E x \in ready : \A y \in ready : x <= y
    BY <1>1, <1>2, Least
  <2> QED
    BY <2>1 DEF First
<1>4. Extended(plan, order) = longer
  BY <1>1 DEF Extended
<1> HIDE DEF i
<1>5. /\ longer \in Seq(Ids(plan)) /\ Len(longer) = n + 1
      /\ \A k \in 1..n : longer[k] = order[k]
      /\ longer[n + 1] = plan[i].id
  <2>1. plan[i].id \in Ids(plan)
    BY <1>2, <1>3 DEF Ids
  <2> QED
    BY <1>0, <2>1
<1> HIDE DEF longer
<1>6. \A k \in 1..(n + 1) : Before(longer, k) = Before(order, k)
  <2> SUFFICES ASSUME NEW k \in 1..(n + 1)
               PROVE  \A m \in 1..(k - 1) : longer[m] = order[m]
    BY DEF Before
  <2> QED
    BY <1>5
<1>7. ASSUME NEW k \in 1..n PROVE Picked(plan, longer, k)
  <2>1. Picked(plan, order, k)
    BY DEF Steady
  <2>2. longer[k] = order[k] /\ Before(longer, k) = Before(order, k)
    BY <1>5, <1>6
  <2> QED
    BY <2>1, <2>2 DEF Picked
<1>8. Picked(plan, longer, n + 1)
  <2>1. Before(order, n + 1) = {order[k] : k \in DOMAIN order}
    BY <1>0 DEF Before
  <2>2. Before(longer, n + 1) = {order[k] : k \in DOMAIN order}
    BY <2>1, <1>6
  <2>3. \A j \in DOMAIN plan :
          j \in ready <=> /\ plan[j].id \notin Before(longer, n + 1)
                          /\ plan[j].dependsOn \subseteq Before(longer, n + 1)
    BY <2>2 DEF Ready
  <2>4. i \in DOMAIN plan /\ i \in Nat /\ \A j \in DOMAIN plan : j \in Nat
    BY <1>2, <1>3
  <2> HIDE DEF ready
  <2>5. \A j \in DOMAIN plan : j < i => j \notin ready
    BY <1>3, <2>4
  <2> QED
    BY <1>3, <1>5, <2>3, <2>4, <2>5 DEF Picked
<1>9. \A k \in 1..(n + 1) : Picked(plan, longer, k)
  <2>1. \A k \in 1..(n + 1) : k \in 1..n \/ k = n + 1
    OBVIOUS
  <2> QED
    BY <1>7, <1>8, <2>1
<1> QED
  BY <1>4, <1>5, <1>9 DEF Steady

\* After as many rounds as there are steps every step has its place.
LEMMA TopoIsSteady ==
  ASSUME NEW Descriptions, NEW plan \in Seq(Descriptions),
         Distinct(plan), Runnable(plan)
  PROVE  Steady(plan, topoOrder(plan), Len(plan))
<1> DEFINE N == Len(plan)
<1>0. N \in Nat
  OBVIOUS
<1>1. PICK f : Orders(plan, f, N) /\ topoOrder(plan) = f[N]
  BY <1>0, TopoUnfolds
<1> DEFINE T == {n \in 0..N : ~Steady(plan, f[n], n)}
<1>2. T = {}
  <2> SUFFICES ASSUME T # {} PROVE FALSE
    OBVIOUS
  <2>1. T \in SUBSET Nat
    OBVIOUS
  <2>2. PICK n \in T : \A x \in T : n <= x
    BY <2>1, Least
  <2>3. n \in 0..N /\ ~Steady(plan, f[n], n)
    OBVIOUS
  <2>4. CASE n = 0
    <3>1. f[0] = << >>
      BY <1>0, <1>1 DEF Orders
    <3>2. Steady(plan, << >>, 0)
      BY DEF Steady
    <3> QED
      BY <2>3, <2>4, <3>1, <3>2
  <2>5. CASE n # 0
    <3>1. n - 1 \in Nat /\ n - 1 \in 0..N /\ n - 1 < N /\ n - 1 \notin T
      BY <2>2, <2>3, <2>5, <1>0
    <3>2. Steady(plan, f[n - 1], n - 1)
      BY <3>1
    <3>3. f[n] = Extended(plan, f[n - 1])
      BY <1>1, <2>3, <2>5 DEF Orders
    <3> HIDE DEF T
    <3>4. Steady(plan, Extended(plan, f[n - 1]), (n - 1) + 1)
      BY <3>1, <3>2, ExtendedSteady
    <3>5. (n - 1) + 1 = n
      BY <2>3
    <3> QED
      BY <2>3, <3>3, <3>4, <3>5
  <2> QED
    BY <2>4, <2>5
<1> QED
  BY <1>0, <1>1, <1>2

\* No step has two places: who is picked has not been picked before.
LEMMA PlacesDiffer ==
  ASSUME NEW plan, NEW n \in Nat, NEW order, Steady(plan, order, n),
         NEW j \in 1..n, NEW k \in 1..n, order[j] = order[k]
  PROVE  j = k
<1>1. ASSUME NEW x \in 1..n, NEW y \in 1..n, x < y PROVE order[x] # order[y]
  <2>1. order[x] \in Before(order, y)
    BY <1>1 DEF Before
  <2>2. order[y] \notin Before(order, y)
    BY DEF Steady, Picked
  <2> QED
    BY <2>1, <2>2
<1> QED
  BY <1>1

\* The places are as many as the steps, so no step is left out.
LEMMA EveryStepPlaced ==
  ASSUME NEW Descriptions, NEW plan \in Seq(Descriptions), NEW order,
         Steady(plan, order, Len(plan)), NEW i \in DOMAIN plan
  PROVE  \E k \in 1..Len(plan) : order[k] = plan[i].id
<1> DEFINE N == Len(plan)
<1>0. DOMAIN plan = 1..N /\ N \in Nat
  OBVIOUS
<1> SUFFICES ASSUME \A k \in 1..N : order[k] # plan[i].id PROVE FALSE
  OBVIOUS
<1>1. \A k \in 1..N : \E x \in 1..N : plan[x].id = order[k] /\ x # i
  BY <1>0 DEF Steady, Picked
<1> DEFINE f == [k \in 1..N |-> CHOOSE x \in 1..N : plan[x].id = order[k] /\ x # i]
<1>2. \A k \in 1..N : f[k] \in (1..N) \ {i} /\ plan[f[k]].id = order[k]
  BY <1>1
<1>3. f \in [1..N -> (1..N) \ {i}]
  BY <1>2
<1>4. IsFiniteSet(1..N) /\ Cardinality(1..N) = N
  <2>1. 1 \in Int /\ N \in Int /\ 0 <= N
    BY <1>0
  <2> HIDE DEF N
  <2>2. IsFiniteSet(1..N) /\ Cardinality(1..N) = IF 1 > N THEN 0 ELSE N - 1 + 1
    BY ONLY <2>1, FS_Interval
  <2> QED
    BY ONLY <2>1, <2>2
<1>p. \A x, y \in 1..N : order[x] = order[y] => x = y
  BY <1>0, PlacesDiffer
<1> HIDE DEF f, N
<1>5. IsFiniteSet((1..N) \ {i}) /\ Cardinality((1..N) \ {i}) = N - 1
  BY <1>0, <1>4, FS_RemoveElement
<1>6. \E x, y \in 1..N : x # y /\ f[x] = f[y]
  <2>1. N - 1 < N
    BY <1>0
  <2> QED
    BY ONLY <1>3, <1>4, <1>5, <2>1, FS_PigeonHole
<1>7. PICK x \in 1..N, y \in 1..N : x # y /\ f[x] = f[y]
  BY <1>6
<1>8. order[x] = order[y]
  BY <1>2, <1>7
<1> QED
  BY <1>7, <1>8, <1>p

\* What the executions rely on: for every plan that can be run to its end, of
\* any length, topoOrder puts each step once, after what it depends on, and the
\* step defined earlier first where both could go.
THEOREM TopoOrderIsCanonical ==
  ASSUME NEW Descriptions, NEW plan \in Seq(Descriptions),
         Distinct(plan), Runnable(plan)
  PROVE  Canonical(plan, topoOrder(plan))
<1> DEFINE N == Len(plan)
           order == topoOrder(plan)
           index(id) == CHOOSE i \in DOMAIN plan : plan[i].id = id
<1>0. DOMAIN plan = 1..N /\ N \in Nat
  OBVIOUS
<1>1. Steady(plan, order, N)
  BY TopoIsSteady
<1> HIDE DEF order
<1>2. order \in Seq(Ids(plan)) /\ Len(order) = N /\ DOMAIN order = 1..N
  BY <1>1 DEF Steady
<1>3. {order[k] : k \in DOMAIN order} = Ids(plan)
  <2>1. \A k \in DOMAIN order : order[k] \in Ids(plan)
    BY <1>2
  <2>2. \A i \in DOMAIN plan : \E k \in DOMAIN order : order[k] = plan[i].id
    BY SMTT(30), <1>1, <1>2, EveryStepPlaced
  <2> QED
    BY <2>1, <2>2 DEF Ids
<1>4. ASSUME NEW i \in DOMAIN plan PROVE index(plan[i].id) = i
  BY DEF Distinct
<1>5. ASSUME NEW k \in DOMAIN order
      PROVE  /\ plan[index(order[k])].dependsOn \subseteq Before(order, k)
             /\ \A m \in (k + 1)..Len(order) :
                  index(order[m]) < index(order[k]) =>
                    ~(plan[index(order[m])].dependsOn \subseteq Before(order, k))
  <2>0. k \in 1..N
    BY <1>2
  <2>1. PICK i \in DOMAIN plan :
          /\ order[k] = plan[i].id
          /\ plan[i].dependsOn \subseteq Before(order, k)
          /\ \A j \in DOMAIN plan :
               j < i /\ plan[j].id \notin Before(order, k)
                 => ~(plan[j].dependsOn \subseteq Before(order, k))
    BY <1>1, <2>0 DEF Steady, Picked
  <2>2. index(order[k]) = i
    BY <1>4, <2>1
  <2>3. ASSUME NEW m \in (k + 1)..Len(order), index(order[m]) < index(order[k])
        PROVE  ~(plan[index(order[m])].dependsOn \subseteq Before(order, k))
    <3>1. m \in 1..N /\ k < m
      BY <1>0, <1>2, <2>0
    <3>2. PICK j \in DOMAIN plan : order[m] = plan[j].id
      BY <1>1, <3>1 DEF Steady, Picked
    <3>3. index(order[m]) = j
      BY <1>4, <3>2
    <3>4. order[m] \notin Before(order, k)
      <4> SUFFICES ASSUME NEW x \in 1..(k - 1), order[x] = order[m] PROVE FALSE
        BY DEF Before
      <4>1. x \in 1..N /\ x # m
        BY <1>0, <2>0, <3>1
      <4> QED
        BY <1>0, <1>1, <3>1, <4>1, PlacesDiffer
    <3> QED
      BY <2>1, <2>2, <2>3, <3>2, <3>3, <3>4
  <2> QED
    BY <2>1, <2>2, <2>3
<1> QED
  BY <1>2, <1>3, <1>5 DEF Canonical, Before, order

-----------------------------------------------------------------------------
(* assertAcyclic.  The search calls itself below a step that was not on the *)
(* path, with the step added, or beside it, with the step taken from the    *)
(* ones to visit: a measure that every call lowers makes the recursion have *)
(* a solution.                                                              *)

Closed(plan) == \A i \in DOMAIN plan : plan[i].dependsOn \subseteq Ids(plan)

Findings(plan) == [black : SUBSET Ids(plan), cycle : BOOLEAN]

Visit(plan, f, v) == visit(plan, f, v[1], v[2], v[3])

Size(plan) == Cardinality(Ids(plan))

Weight(plan, v) ==
  (Size(plan) + 1) * Cardinality(Ids(plan) \ v[2]) + Cardinality(v[1])

\* The two calls of the search at v, where d is the step it takes up.
Taken(v) == CHOOSE x \in v[1] : TRUE
Under(plan, v) == <<DependsOn(plan, Taken(v)), v[2] \cup {Taken(v)}, v[3]>>
Beside(v, black) == <<v[1] \ {Taken(v)}, v[2], black \cup {Taken(v)}>>

\* What a step depends on is that of the only step of its name.
LEMMA DependsOnIs ==
  ASSUME NEW Descriptions, NEW plan \in Seq(Descriptions), Distinct(plan),
         NEW i \in DOMAIN plan
  PROVE  DependsOn(plan, plan[i].id) = plan[i].dependsOn
<1>1. DOMAIN plan \in SUBSET Nat
  OBVIOUS
<1>2. \A j \in DOMAIN plan :
        (plan[j].id = plan[i].id
           /\ \A k \in DOMAIN plan : plan[k].id = plan[i].id => k <= j) <=> j = i
  BY <1>1 DEF Distinct
<1> QED
  BY <1>2 DEF DependsOn

\* In a closed plan steps depend on steps of the plan.
LEMMA DependsInside ==
  ASSUME NEW Descriptions, NEW plan \in Seq(Descriptions), Distinct(plan),
         Closed(plan), NEW d \in Ids(plan)
  PROVE  DependsOn(plan, d) \in SUBSET Ids(plan)
<1>1. PICK i \in DOMAIN plan : d = plan[i].id
  BY DEF Ids
<1> QED
  BY <1>1, DependsOnIs DEF Closed

\* A plan has finitely many ids.
LEMMA IdsAreFinite ==
  ASSUME NEW Descriptions, NEW plan \in Seq(Descriptions)
  PROVE  IsFiniteSet(Ids(plan)) /\ Size(plan) \in Nat
<1> DEFINE N == Len(plan)
           f == [i \in 1..N |-> plan[i].id]
<1>0. N \in Nat /\ DOMAIN plan = 1..N
  OBVIOUS
<1>1. IsFiniteSet(1..N)
  <2>1. 1 \in Int /\ N \in Int
    BY <1>0
  <2> QED
    BY ONLY <2>1, FS_Interval
<1>2. f \in Surjection(1..N, Ids(plan))
  BY <1>0 DEF Surjection, Ids
<1> HIDE DEF f, N
<1>3. IsFiniteSet(Ids(plan))
  BY ONLY <1>1, <1>2, FS_Surjection
<1> QED
  BY <1>3, FS_CardinalityType DEF Size

\* The search unfolds into its outcome without a step to visit, at a gray step,
\* below the step, or beside it.
LEMMA VisitUnfolds ==
  ASSUME NEW plan, NEW f, NEW v \in Colourings(plan)
  PROVE  LET d     == Taken(v)
             below == IF d \in v[3] THEN [black |-> v[3], cycle |-> FALSE]
                      ELSE f[Under(plan, v)]
         IN  Visit(plan, f, v) =
               IF v[1] = {} THEN [black |-> v[3], cycle |-> FALSE]
               ELSE IF d \in v[2] \/ below.cycle
                 THEN [black |-> v[3], cycle |-> TRUE]
               ELSE f[Beside(v, below.black)]
  BY DEF Visit, visit, Taken, Under, Beside

\* One step more off the path outweighs any number of steps to visit.
LEMMA Scaled ==
  ASSUME NEW s \in Nat, NEW a \in Nat, NEW b \in Nat, b < a
  PROVE  (s + 1) * b + s < (s + 1) * a /\ (s + 1) * b \in Nat /\ (s + 1) * a \in Nat
  OBVIOUS

\* Both calls stay among the colourings of the plan and weigh less.
LEMMA CallsWeighLess ==
  ASSUME NEW Descriptions, NEW plan \in Seq(Descriptions), Distinct(plan),
         Closed(plan), NEW v \in Colourings(plan), v[1] # {},
         NEW black \in SUBSET Ids(plan)
  PROVE  /\ Taken(v) \in v[1] /\ Taken(v) \in Ids(plan)
         /\ Weight(plan, v) \in Nat
         /\ Under(plan, v) \in Colourings(plan)
         /\ Taken(v) \notin v[2] => Weight(plan, Under(plan, v)) < Weight(plan, v)
         /\ Beside(v, black) \in Colourings(plan)
         /\ Weight(plan, Beside(v, black)) < Weight(plan, v)
<1> DEFINE d == Taken(v)
           ids == Ids(plan)
<1>1. /\ v[1] \in SUBSET ids /\ v[2] \in SUBSET ids /\ v[3] \in SUBSET ids
      /\ d \in v[1] /\ d \in ids
  BY DEF Colourings, Taken
<1>2. DependsOn(plan, d) \in SUBSET ids
  BY <1>1, DependsInside
<1>3. Under(plan, v) \in Colourings(plan) /\ Beside(v, black) \in Colourings(plan)
  BY <1>1, <1>2 DEF Under, Beside, Colourings
<1>4. IsFiniteSet(ids) /\ Size(plan) \in Nat /\ Size(plan) = Cardinality(ids)
  BY IdsAreFinite DEF Size
<1> HIDE DEF d, ids
<1>5. \A S \in SUBSET ids :
        IsFiniteSet(S) /\ Cardinality(S) \in Nat /\ Cardinality(S) <= Size(plan)
  BY <1>4, FS_Subset, FS_CardinalityType
<1>6. d \notin v[2] =>
        Cardinality(ids \ (v[2] \cup {d})) < Cardinality(ids \ v[2])
  <2>1. IsFiniteSet(ids \ v[2]) /\ Cardinality(ids \ v[2]) \in Nat
    BY <1>5
  <2>2. d \notin v[2] =>
          Cardinality((ids \ v[2]) \ {d}) = Cardinality(ids \ v[2]) - 1
    BY <1>1, <2>1, FS_RemoveElement
  <2>3. (ids \ v[2]) \ {d} = ids \ (v[2] \cup {d})
    OBVIOUS
  <2>4. Cardinality((ids \ v[2]) \ {d}) = Cardinality(ids \ (v[2] \cup {d}))
    BY ONLY <2>3
  <2> QED
    BY ONLY <2>1, <2>2, <2>4
<1>7. /\ Cardinality(v[1] \ {d}) < Cardinality(v[1])
      /\ Cardinality(v[1] \ {d}) \in Nat /\ Cardinality(v[1]) \in Nat
  <2>1. IsFiniteSet(v[1])
    BY <1>1, <1>5
  <2>2. Cardinality(v[1] \ {d}) = Cardinality(v[1]) - 1
    BY <1>1, <2>1, FS_RemoveElement
  <2>3. Cardinality(v[1]) \in Nat /\ Cardinality(v[1] \ {d}) \in Nat
    BY <1>1, <1>5
  <2> QED
    BY <2>2, <2>3
<1> DEFINE s == Size(plan)
           a == Cardinality(ids \ v[2])
           b == Cardinality(ids \ (v[2] \cup {d}))
           x == Cardinality(v[1])
           y == Cardinality(v[1] \ {d})
           z == Cardinality(DependsOn(plan, d))
<1>8. /\ s \in Nat /\ a \in Nat /\ b \in Nat /\ x \in Nat /\ y \in Nat /\ z \in Nat
      /\ z <= s /\ y < x /\ (d \notin v[2] => b < a)
  BY <1>2, <1>4, <1>5, <1>6, <1>7
<1>9. /\ Weight(plan, v) = (s + 1) * a + x
      /\ Weight(plan, Under(plan, v)) = (s + 1) * b + z
      /\ Weight(plan, Beside(v, black)) = (s + 1) * a + y
  BY DEF Weight, Under, Beside, d, ids
<1> HIDE DEF s, a, b, x, y, z
<1>10. (s + 1) * a \in Nat /\ (s + 1) * b \in Nat
  BY <1>8
<1>11. b < a => (s + 1) * b + s < (s + 1) * a
  BY <1>8, Scaled
<1>12. /\ (s + 1) * a + x \in Nat
       /\ (s + 1) * a + y < (s + 1) * a + x
       /\ d \notin v[2] => (s + 1) * b + z < (s + 1) * a + x
  BY <1>8, <1>10, <1>11
<1> QED
  BY <1>1, <1>3, <1>9, <1>12 DEF d, ids

\* Weights are numbers, and none is above that of a search for every step with
\* an empty path.
LEMMA WeightIsNatural ==
  ASSUME NEW Descriptions, NEW plan \in Seq(Descriptions),
         NEW v \in Colourings(plan)
  PROVE  /\ Weight(plan, v) \in Nat
         /\ Weight(plan, v) <= (Size(plan) + 1) * Size(plan) + Size(plan)
<1> DEFINE s == Size(plan)
           a == Cardinality(Ids(plan) \ v[2])
           x == Cardinality(v[1])
<1>1. v[1] \in SUBSET Ids(plan) /\ Ids(plan) \ v[2] \in SUBSET Ids(plan)
  BY DEF Colourings
<1>2. IsFiniteSet(Ids(plan)) /\ s \in Nat /\ s = Cardinality(Ids(plan))
  BY IdsAreFinite DEF Size
<1>3. a \in Nat /\ a <= s /\ x \in Nat /\ x <= s
  BY <1>1, <1>2, FS_Subset, FS_CardinalityType
<1>4. Weight(plan, v) = (s + 1) * a + x
  BY DEF Weight
<1> HIDE DEF s, a, x
<1>5. (s + 1) * a \in Nat /\ (s + 1) * a <= (s + 1) * s /\ (s + 1) * s \in Nat
  <2>1. CASE a = s
    BY <1>2, <2>1
  <2>2. CASE a < s
    BY <1>2, <1>3, <2>2, Scaled
  <2> QED
    BY <1>2, <1>3, <2>1, <2>2
<1>6. /\ (s + 1) * a + x \in Nat
      /\ (s + 1) * a + x <= (s + 1) * s + s
  <2> DEFINE p == (s + 1) * a
             q == (s + 1) * s
  <2>1. p \in Nat /\ q \in Nat /\ p <= q
    BY <1>5
  <2> HIDE DEF p, q
  <2>2. p + x \in Nat /\ p + x <= q + s
    BY <1>2, <1>3, <2>1
  <2> QED
    BY <2>2 DEF p, q
<1> QED
  BY <1>4, <1>6 DEF s

\* What the search finds at v depends only on its lighter calls.
LEMMA VisitLooksBelow ==
  ASSUME NEW Descriptions, NEW plan \in Seq(Descriptions), Distinct(plan),
         Closed(plan), NEW v \in Colourings(plan),
         NEW f, NEW g \in [Colourings(plan) -> Findings(plan)],
         \A u \in Colourings(plan) :
           Weight(plan, u) < Weight(plan, v) => f[u] = g[u]
  PROVE  /\ Visit(plan, f, v) = Visit(plan, g, v)
         /\ Visit(plan, f, v) \in Findings(plan)
<1> DEFINE d == Taken(v)
           below(h) == IF d \in v[3] THEN [black |-> v[3], cycle |-> FALSE]
                       ELSE h[Under(plan, v)]
<1>0. v[3] \in SUBSET Ids(plan)
  BY DEF Colourings
<1>1. CASE v[1] = {}
  <2>1. /\ Visit(plan, f, v) = [black |-> v[3], cycle |-> FALSE]
        /\ Visit(plan, g, v) = [black |-> v[3], cycle |-> FALSE]
    BY <1>1, VisitUnfolds
  <2> QED
    BY <1>0, <2>1 DEF Findings
<1>2. CASE v[1] # {} /\ d \in v[2]
  <2>1. /\ Visit(plan, f, v) = [black |-> v[3], cycle |-> TRUE]
        /\ Visit(plan, g, v) = [black |-> v[3], cycle |-> TRUE]
    BY <1>2, VisitUnfolds
  <2> QED
    BY <1>0, <2>1 DEF Findings
<1>3. CASE v[1] # {} /\ d \notin v[2]
  <2>1. /\ Under(plan, v) \in Colourings(plan)
        /\ Weight(plan, Under(plan, v)) < Weight(plan, v)
    BY <1>0, <1>3, CallsWeighLess
  <2>2. below(f) = below(g) /\ below(f) \in Findings(plan)
    BY <1>0, <2>1 DEF Findings
  <2>3. below(f).black \in SUBSET Ids(plan)
    BY <2>2 DEF Findings
  <2> DEFINE w == Beside(v, below(f).black)
  <2>4. w \in Colourings(plan) /\ Weight(plan, w) < Weight(plan, v)
    BY <1>3, <2>2, <2>3, CallsWeighLess
  <2>5. f[w] = g[w] /\ f[w] \in Findings(plan)
    BY <2>4
  <2>6. Visit(plan, f, v) = IF below(f).cycle THEN [black |-> v[3], cycle |-> TRUE]
                            ELSE f[Beside(v, below(f).black)]
    BY <1>3, VisitUnfolds
  <2>7. Visit(plan, g, v) = IF below(g).cycle THEN [black |-> v[3], cycle |-> TRUE]
                            ELSE g[Beside(v, below(g).black)]
    BY <1>3, VisitUnfolds
  <2>8. [black |-> v[3], cycle |-> TRUE] \in Findings(plan)
    BY <1>0 DEF Findings
  <2> HIDE DEF below
  <2>9. Visit(plan, g, v) = IF below(f).cycle THEN [black |-> v[3], cycle |-> TRUE]
                            ELSE g[w]
    BY <2>2, <2>7
  <2> HIDE DEF w
  <2>10. Visit(plan, f, v) = IF below(f).cycle THEN [black |-> v[3], cycle |-> TRUE]
                             ELSE f[w]
    BY <2>6 DEF w
  <2> QED
    BY <2>5, <2>8, <2>9, <2>10
<1> QED
  BY <1>1, <1>2, <1>3

\* f is the search on what weighs less than n.
Searches(plan, f, n) ==
  /\ f \in [Colourings(plan) -> Findings(plan)]
  /\ \A v \in Colourings(plan) : Weight(plan, v) < n => f[v] = Visit(plan, f, v)

\* A search that is right below n is right below n + 1 once it has been run
\* through its own body.
LEMMA SearchGrows ==
  ASSUME NEW Descriptions, NEW plan \in Seq(Descriptions), Distinct(plan),
         Closed(plan), NEW n \in Nat, NEW f, Searches(plan, f, n)
  PROVE  \E g : Searches(plan, g, n + 1)
<1> DEFINE V == Colourings(plan)
           g == [v \in V |-> Visit(plan, f, v)]
<1>0. f \in [V -> Findings(plan)]
  BY DEF Searches
<1>1. \A v \in V : Visit(plan, f, v) \in Findings(plan)
  BY <1>0, VisitLooksBelow
<1>2. g \in [V -> Findings(plan)]
  BY <1>1
<1>3. ASSUME NEW v \in V, Weight(plan, v) < n + 1 PROVE g[v] = Visit(plan, g, v)
  <2>1. Weight(plan, v) \in Nat
    BY WeightIsNatural
  <2>2. \A u \in V : Weight(plan, u) < Weight(plan, v) => f[u] = g[u]
    <3> SUFFICES ASSUME NEW u \in V, Weight(plan, u) < Weight(plan, v)
                 PROVE  f[u] = g[u]
      OBVIOUS
    <3>1. Weight(plan, u) \in Nat
      BY WeightIsNatural
    <3>2. Weight(plan, u) < n
      BY <1>3, <2>1, <3>1
    <3> QED
      BY <3>2 DEF Searches
  <2>3. Visit(plan, f, v) = Visit(plan, g, v)
    <3> HIDE DEF g
    <3> QED
      BY <1>0, <1>2, <2>2, VisitLooksBelow
  <2> QED
    BY <2>3
<1> HIDE DEF g
<1>4. Searches(plan, g, n + 1)
  BY <1>2, <1>3 DEF Searches
<1> QED
  BY <1>4

\* The search has a solution up to any weight.
LEMMA SearchesExist ==
  ASSUME NEW Descriptions, NEW plan \in Seq(Descriptions), Distinct(plan),
         Closed(plan), NEW n \in Nat
  PROVE  \E f : Searches(plan, f, n)
<1> DEFINE T == {m \in Nat : \A f : ~Searches(plan, f, m)}
<1> SUFFICES ASSUME T # {} PROVE FALSE
  OBVIOUS
<1>1. PICK m \in T : \A x \in T : m <= x
  BY Least
<1>2. m \in Nat /\ \A f : ~Searches(plan, f, m)
  OBVIOUS
<1>3. CASE m = 0
  <2> DEFINE f == [v \in Colourings(plan) |-> [black |-> {}, cycle |-> FALSE]]
  <2>1. f \in [Colourings(plan) -> Findings(plan)]
    BY DEF Findings
  <2>2. \A v \in Colourings(plan) : ~(Weight(plan, v) < 0)
    BY WeightIsNatural
  <2> HIDE DEF f
  <2>3. Searches(plan, f, 0)
    BY <2>1, <2>2 DEF Searches
  <2> QED
    BY <1>2, <1>3, <2>3
<1>4. CASE m # 0
  <2>1. m - 1 \in Nat /\ m - 1 \notin T /\ (m - 1) + 1 = m
    BY <1>1, <1>2, <1>4
  <2>2. PICK f : Searches(plan, f, m - 1)
    BY <2>1
  <2> HIDE DEF T
  <2>3. \E g : Searches(plan, g, (m - 1) + 1)
    BY <2>1, <2>2, SearchGrows
  <2> QED
    BY <1>2, <2>1, <2>3
<1> QED
  BY <1>3, <1>4

\* The recursion has one solution: the search assertAcyclic makes.
LEMMA AcyclicUnfolds ==
  ASSUME NEW Descriptions, NEW plan \in Seq(Descriptions), Distinct(plan),
         Closed(plan)
  PROVE  \E f \in [Colourings(plan) -> Findings(plan)] :
           /\ \A v \in Colourings(plan) : f[v] = Visit(plan, f, v)
           /\ assertAcyclic(plan) = ~f[<<Ids(plan), {}, {}>>].cycle
<1> DEFINE V == Colourings(plan)
           Is(f) == f = [v \in V |-> visit(plan, f, v[1], v[2], v[3])]
           visited == CHOOSE f : Is(f)
           limit == (Size(plan) + 1) * Size(plan) + Size(plan)
<1>0. limit \in Nat
  BY IdsAreFinite
<1>1. PICK g : Searches(plan, g, limit + 1)
  <2>1. limit + 1 \in Nat
    BY <1>0
  <2> QED
    BY <2>1, SearchesExist
<1>2. g \in [V -> Findings(plan)] /\ \A v \in V : g[v] = Visit(plan, g, v)
  <2>1. \A v \in V : Weight(plan, v) \in Nat /\ Weight(plan, v) <= limit
    BY WeightIsNatural
  <2> HIDE DEF limit
  <2>2. \A v \in V : Weight(plan, v) < limit + 1
    BY <1>0, <2>1
  <2> QED
    BY <1>1, <2>2 DEF Searches
<1>3. Is(g)
  BY <1>2 DEF Visit
<1>4. Is(visited)
  BY <1>3
<1>5. assertAcyclic(plan) = ~visited[<<Ids(plan), {}, {}>>].cycle
  BY DEF assertAcyclic
<1> HIDE DEF visited
<1>6. \A v \in V : visited[v] = Visit(plan, visited, v)
  BY <1>4 DEF Visit
<1>7. ASSUME NEW v \in V, visited[v] # g[v] PROVE FALSE
  <2> DEFINE T == {Weight(plan, u) : u \in {u \in V : visited[u] # g[u]}}
  <2>1. T \in SUBSET Nat /\ T # {}
    BY <1>7, WeightIsNatural
  <2>2. PICK x \in T : \A y \in T : x <= y
    BY <2>1, Least
  <2>3. PICK u \in V : visited[u] # g[u] /\ x = Weight(plan, u)
    BY <2>2
  <2>4. \A w \in V : Weight(plan, w) < Weight(plan, u) => visited[w] = g[w]
    <3> SUFFICES ASSUME NEW w \in V, Weight(plan, w) < Weight(plan, u),
                        visited[w] # g[w]
                 PROVE  FALSE
      OBVIOUS
    <3>1. Weight(plan, w) \in T
      OBVIOUS
    <3>2. Weight(plan, w) \in Nat /\ Weight(plan, u) \in Nat
      BY WeightIsNatural
    <3> HIDE DEF T
    <3>3. Weight(plan, u) <= Weight(plan, w)
      BY <2>2, <2>3, <3>1
    <3> QED
      BY <3>2, <3>3
  <2>5. Visit(plan, visited, u) = Visit(plan, g, u)
    BY <1>2, <2>4, VisitLooksBelow
  <2> QED
    BY <1>2, <1>6, <2>3, <2>5
<1>8. \A v \in V : visited[v] = g[v]
  BY <1>7
<1>9. <<Ids(plan), {}, {}>> \in V
  BY DEF Colourings
<1>10. assertAcyclic(plan) = ~g[<<Ids(plan), {}, {}>>].cycle
  BY <1>5, <1>8, <1>9
<1> QED
  BY <1>2, <1>10

-----------------------------------------------------------------------------
(* What the search finds.  Steps are grounded when they depend on each      *)
(* other alone and no set of them waits for itself.                         *)

Grounded(plan, B) ==
  /\ B \in SUBSET Ids(plan)
  /\ \A b \in B : DependsOn(plan, b) \subseteq B
  /\ \A S \in SUBSET B :
       S # {} => \E x \in S : DependsOn(plan, x) \cap S = {}

\* A step may join the grounded steps when all it depends on is among them.
LEMMA GroundedGrows ==
  ASSUME NEW plan, NEW B, Grounded(plan, B), NEW d \in Ids(plan),
         DependsOn(plan, d) \subseteq B
  PROVE  Grounded(plan, B \cup {d})
<1>1. CASE d \in B
  <2>1. B \cup {d} = B
    BY <1>1
  <2> QED
    BY <2>1
<1>2. CASE d \notin B
  <2>1. /\ B \cup {d} \in SUBSET Ids(plan)
        /\ \A b \in B \cup {d} : DependsOn(plan, b) \subseteq B \cup {d}
    BY DEF Grounded
  <2>2. ASSUME NEW S \in SUBSET (B \cup {d}), S # {}
        PROVE  \E x \in S : DependsOn(plan, x) \cap S = {}
    <3>1. CASE S \cap B = {}
      <4>1. S = {d}
        BY <2>2, <3>1
      <4> QED
        BY <4>1, <1>2
    <3>2. CASE S \cap B # {}
      <4>1. PICK x \in S \cap B : DependsOn(plan, x) \cap (S \cap B) = {}
        BY <3>2 DEF Grounded
      <4>2. DependsOn(plan, x) \subseteq B
        BY DEF Grounded
      <4> QED
        BY <4>1, <4>2
    <3> QED
      BY <3>1, <3>2
  <2> QED
    BY <2>1, <2>2 DEF Grounded
<1> QED
  BY <1>1, <1>2

\* From grounded black steps a search that meets no gray one ends with grounded
\* black steps, and those it was to visit are among them.
LEMMA NoCycleGrounds ==
  ASSUME NEW Descriptions, NEW plan \in Seq(Descriptions), Distinct(plan),
         Closed(plan), NEW f \in [Colourings(plan) -> Findings(plan)],
         \A v \in Colourings(plan) : f[v] = Visit(plan, f, v)
  PROVE  \A v \in Colourings(plan) :
           Grounded(plan, v[3]) /\ ~f[v].cycle =>
             /\ Grounded(plan, f[v].black)
             /\ v[1] \cup v[3] \subseteq f[v].black
<1> DEFINE V == Colourings(plan)
           Right(v) == Grounded(plan, v[3]) /\ ~f[v].cycle =>
                         /\ Grounded(plan, f[v].black)
                         /\ v[1] \cup v[3] \subseteq f[v].black
           T == {Weight(plan, v) : v \in {v \in V : ~Right(v)}}
<1> SUFFICES ASSUME NEW v0 \in V, ~Right(v0) PROVE FALSE
  OBVIOUS
<1>1. T \in SUBSET Nat /\ T # {}
  <2>1. \A v \in V : Weight(plan, v) \in Nat
    BY WeightIsNatural
  <2> HIDE DEF Right, V
  <2> QED
    BY <2>1
<1>2. PICK x \in T : \A y \in T : x <= y
  BY <1>1, Least
<1>3. PICK v \in V : ~Right(v) /\ x = Weight(plan, v)
  <2> HIDE DEF Right, V
  <2> QED
    BY <1>2
<1>4. ASSUME NEW u \in V, Weight(plan, u) < Weight(plan, v) PROVE Right(u)
  <2> SUFFICES ASSUME ~Right(u) PROVE FALSE
    OBVIOUS
  <2>1. Weight(plan, u) \in Nat /\ Weight(plan, v) \in Nat
    BY WeightIsNatural
  <2>2. Weight(plan, u) \in T
    OBVIOUS
  <2> HIDE DEF T, Right
  <2>3. Weight(plan, v) <= Weight(plan, u)
    BY <1>2, <1>3, <2>2
  <2> QED
    BY <1>4, <2>1, <2>3
<1>5. Grounded(plan, v[3]) /\ ~f[v].cycle
  BY <1>3
<1> DEFINE d == Taken(v)
           below == IF d \in v[3] THEN [black |-> v[3], cycle |-> FALSE]
                    ELSE f[Under(plan, v)]
<1>6. f[v] = IF v[1] = {} THEN [black |-> v[3], cycle |-> FALSE]
             ELSE IF d \in v[2] \/ below.cycle
               THEN [black |-> v[3], cycle |-> TRUE]
             ELSE f[Beside(v, below.black)]
  BY VisitUnfolds
<1>7. v[1] # {}
  <2> SUFFICES ASSUME v[1] = {} PROVE FALSE
    OBVIOUS
  <2>1. f[v] = [black |-> v[3], cycle |-> FALSE]
    BY <1>6
  <2>2. f[v].black = v[3]
    BY <2>1
  <2> QED
    BY <1>3, <1>5, <2>2
<1>8. d \notin v[2] /\ ~below.cycle /\ f[v] = f[Beside(v, below.black)]
  <2>1. ASSUME d \in v[2] \/ below.cycle PROVE FALSE
    <3> HIDE DEF below, d
    <3>1. f[v] = [black |-> v[3], cycle |-> TRUE]
      BY <1>6, <1>7, <2>1
    <3> QED
      BY <1>5, <3>1
  <2> HIDE DEF below, d
  <2> QED
    BY <1>6, <1>7, <2>1
<1>9. v[3] \in SUBSET Ids(plan) /\ d \in v[1] /\ d \in Ids(plan)
  BY <1>7 DEF Colourings, Taken
<1>10. /\ Grounded(plan, below.black) /\ v[3] \subseteq below.black
       /\ DependsOn(plan, d) \subseteq below.black
  <2>1. CASE d \in v[3]
    <3>1. below = [black |-> v[3], cycle |-> FALSE]
      BY <2>1
    <3>2. below.black = v[3]
      BY <3>1
    <3> HIDE DEF below
    <3> QED
      BY <1>5, <2>1, <3>2 DEF Grounded
  <2>2. CASE d \notin v[3]
    <3> DEFINE u == Under(plan, v)
    <3>1. u \in V /\ Weight(plan, u) < Weight(plan, v)
      BY <1>7, <1>8, <1>9, CallsWeighLess
    <3>2. u[1] = DependsOn(plan, d) /\ u[3] = v[3]
      BY DEF Under
    <3>3. below = f[u]
      BY <2>2
    <3>4. Right(u)
      BY <1>4, <3>1
    <3> HIDE DEF u, below, d
    <3> QED
      BY <1>5, <1>8, <3>2, <3>3, <3>4
  <2> QED
    BY <2>1, <2>2
<1> HIDE DEF below
<1> DEFINE w == Beside(v, below.black)
<1>11. below.black \in SUBSET Ids(plan)
  BY <1>10 DEF Grounded
<1>12. w \in V /\ Weight(plan, w) < Weight(plan, v)
  BY <1>7, <1>11, CallsWeighLess
<1>13. w[1] = v[1] \ {d} /\ w[3] = below.black \cup {d}
  BY DEF Beside
<1>14. Grounded(plan, w[3])
  BY SMTT(30), <1>9, <1>10, <1>13, GroundedGrows
<1>15. Right(w)
  BY <1>4, <1>12
<1>16. f[v] = f[w]
  BY <1>8
<1> HIDE DEF w, d
<1>17. Grounded(plan, f[v].black) /\ w[1] \cup w[3] \subseteq f[v].black
  BY <1>5, <1>14, <1>15, <1>16
<1>18. v[1] \cup v[3] \subseteq f[v].black
  BY <1>10, <1>13, <1>17
<1> QED
  BY <1>3, <1>17, <1>18

\* Where steps can be ranked above all they depend on, and the path above the
\* steps to visit, a search meets no gray step.
Ranked(plan, rank) ==
  \A d \in Ids(plan) : /\ rank[d] \in Nat
                       /\ \A e \in DependsOn(plan, d) : rank[e] < rank[d]

\* By the least search that met one: below a ranked path no gray step is met.
LEMMA RankedHasNoCycle ==
  ASSUME NEW Descriptions, NEW plan \in Seq(Descriptions), Distinct(plan),
         Closed(plan), NEW rank, Ranked(plan, rank),
         NEW f \in [Colourings(plan) -> Findings(plan)],
         \A v \in Colourings(plan) : f[v] = Visit(plan, f, v)
  PROVE  \A v \in Colourings(plan) :
           (\A d \in v[1], g \in v[2] : rank[d] < rank[g]) => ~f[v].cycle
<1> DEFINE V == Colourings(plan)
           Right(v) ==
             (\A d \in v[1], g \in v[2] : rank[d] < rank[g]) => ~f[v].cycle
           T == {Weight(plan, v) : v \in {v \in V : ~Right(v)}}
<1> SUFFICES ASSUME NEW v0 \in V, ~Right(v0) PROVE FALSE
  OBVIOUS
<1>1. T \in SUBSET Nat /\ T # {}
  <2>1. \A v \in V : Weight(plan, v) \in Nat
    BY WeightIsNatural
  <2> HIDE DEF Right, V
  <2> QED
    BY <2>1
<1>2. PICK x \in T : \A y \in T : x <= y
  BY <1>1, Least
<1>3. PICK v \in V : ~Right(v) /\ x = Weight(plan, v)
  <2> HIDE DEF Right, V
  <2> QED
    BY <1>2
<1>4. ASSUME NEW u \in V, Weight(plan, u) < Weight(plan, v) PROVE Right(u)
  <2> SUFFICES ASSUME ~Right(u) PROVE FALSE
    OBVIOUS
  <2>1. Weight(plan, u) \in Nat /\ Weight(plan, v) \in Nat
    BY WeightIsNatural
  <2>2. Weight(plan, u) \in T
    OBVIOUS
  <2> HIDE DEF T, Right
  <2>3. Weight(plan, v) <= Weight(plan, u)
    BY <1>2, <1>3, <2>2
  <2> QED
    BY <1>4, <2>1, <2>3
<1>5. (\A e \in v[1], g \in v[2] : rank[e] < rank[g]) /\ f[v].cycle
  BY <1>3
<1> DEFINE d == Taken(v)
           below == IF d \in v[3] THEN [black |-> v[3], cycle |-> FALSE]
                    ELSE f[Under(plan, v)]
<1>6. f[v] = IF v[1] = {} THEN [black |-> v[3], cycle |-> FALSE]
             ELSE IF d \in v[2] \/ below.cycle
               THEN [black |-> v[3], cycle |-> TRUE]
             ELSE f[Beside(v, below.black)]
  BY VisitUnfolds
<1>7. v[1] # {}
  <2> SUFFICES ASSUME v[1] = {} PROVE FALSE
    OBVIOUS
  <2>1. f[v] = [black |-> v[3], cycle |-> FALSE]
    BY <1>6
  <2> QED
    BY <1>5, <2>1
<1>8. /\ v[2] \in SUBSET Ids(plan) /\ v[3] \in SUBSET Ids(plan)
      /\ d \in v[1] /\ d \in Ids(plan)
  BY <1>7 DEF Colourings, Taken
<1>9. d \notin v[2]
  <2> SUFFICES ASSUME d \in v[2] PROVE FALSE
    OBVIOUS
  <2>1. rank[d] < rank[d] /\ rank[d] \in Nat
    BY <1>5, <1>8 DEF Ranked
  <2> HIDE DEF d
  <2> QED
    BY <2>1
<1>10. ~below.cycle /\ below.black \in SUBSET Ids(plan)
  <2>1. CASE d \in v[3]
    <3>1. below = [black |-> v[3], cycle |-> FALSE]
      BY <2>1
    <3> HIDE DEF below
    <3> QED
      BY <1>8, <3>1
  <2>2. CASE d \notin v[3]
    <3> DEFINE u == Under(plan, v)
    <3>1. u \in V /\ Weight(plan, u) < Weight(plan, v)
      BY <1>7, <1>8, <1>9, CallsWeighLess
    <3>2. u[1] = DependsOn(plan, d) /\ u[2] = v[2] \cup {d}
      BY DEF Under
    <3>3. below = f[u] /\ f[u] \in Findings(plan)
      BY <2>2, <3>1
    <3>4. Right(u)
      BY <1>4, <3>1
    <3>5. \A e \in u[1], g \in u[2] : rank[e] < rank[g]
      <4> SUFFICES ASSUME NEW e \in u[1], NEW g \in u[2] PROVE rank[e] < rank[g]
        OBVIOUS
      <4>1. rank[e] < rank[d] /\ e \in Ids(plan)
        BY <1>8, <3>2, DependsInside DEF Ranked
      <4>2. g = d \/ (rank[d] < rank[g] /\ g \in Ids(plan))
        BY <1>5, <1>8, <3>2
      <4>3. rank[e] \in Nat /\ rank[d] \in Nat /\ rank[g] \in Nat
        BY <1>8, <4>1, <4>2 DEF Ranked
      <4> HIDE DEF d
      <4> QED
        BY <4>1, <4>2, <4>3
    <3> HIDE DEF u, below, d
    <3> QED
      BY <3>3, <3>4, <3>5 DEF Findings
  <2> QED
    BY <2>1, <2>2
<1> HIDE DEF below
<1> DEFINE w == Beside(v, below.black)
<1>11. w \in V /\ Weight(plan, w) < Weight(plan, v)
  BY <1>7, <1>10, CallsWeighLess
<1>12. w[1] = v[1] \ {d} /\ w[2] = v[2]
  BY DEF Beside
<1>13. Right(w)
  BY <1>4, <1>11
<1>14. f[v] = f[w]
  BY <1>6, <1>7, <1>9, <1>10
<1> HIDE DEF w, d
<1> QED
  BY <1>5, <1>12, <1>13, <1>14

-----------------------------------------------------------------------------
(* What validateWorkflow accepts is what can be run.                       *)

\* Ids differ when there are as many as steps.
LEMMA AsManyIdsAsSteps ==
  ASSUME NEW Descriptions, NEW plan \in Seq(Descriptions)
  PROVE  Distinct(plan) <=> Cardinality(Ids(plan)) = Len(plan)
<1> DEFINE N == Len(plan)
           f == [i \in 1..N |-> plan[i].id]
<1>0. N \in Nat /\ DOMAIN plan = 1..N
  OBVIOUS
<1>1. IsFiniteSet(1..N) /\ Cardinality(1..N) = N
  <2>1. 1 \in Int /\ N \in Int /\ N \in Nat
    BY <1>0
  <2> HIDE DEF N
  <2>2. IsFiniteSet(1..N) /\ Cardinality(1..N) = IF 1 > N THEN 0 ELSE N - 1 + 1
    BY ONLY <2>1, FS_Interval
  <2> QED
    BY <2>1, <2>2
<1>2. f \in Surjection(1..N, Ids(plan))
  BY <1>0 DEF Surjection, Ids
<1>3. Distinct(plan) <=> f \in Injection(1..N, Ids(plan))
  BY <1>0 DEF Distinct, Injection, IsInjective, Ids
<1> HIDE DEF f, N
<1>4. Cardinality(Ids(plan)) = Cardinality(1..N) <=> f \in Injection(1..N, Ids(plan))
  BY ONLY <1>1, <1>2, FS_Surjection
<1> QED
  BY <1>1, <1>3, <1>4 DEF N

\* A step that waits for one that is not there waits for ever.
LEMMA RunnableIsClosed ==
  ASSUME NEW plan, Runnable(plan)
  PROVE  Closed(plan)
<1> SUFFICES ASSUME NEW i \in DOMAIN plan PROVE plan[i].dependsOn \subseteq Ids(plan)
  BY DEF Closed
<1>1. {i} \in SUBSET DOMAIN plan /\ {i} # {}
  OBVIOUS
<1>2. \E j \in {i} : plan[j].dependsOn \subseteq Ids(plan) \ {plan[k].id : k \in {i}}
  BY <1>1 DEF Runnable
<1> QED
  BY <1>2

\* A plan in which the search meets no cycle can be run to its end ...
LEMMA AcyclicIsRunnable ==
  ASSUME NEW Descriptions, NEW plan \in Seq(Descriptions), Distinct(plan),
         Closed(plan), assertAcyclic(plan)
  PROVE  Runnable(plan)
<1> DEFINE v == <<Ids(plan), {}, {}>>
<1>1. PICK f \in [Colourings(plan) -> Findings(plan)] :
        /\ \A u \in Colourings(plan) : f[u] = Visit(plan, f, u)
        /\ assertAcyclic(plan) = ~f[v].cycle
  BY AcyclicUnfolds
<1>2. v \in Colourings(plan) /\ v[1] = Ids(plan) /\ v[3] = {}
  BY DEF Colourings
<1>3. Grounded(plan, {})
  BY DEF Grounded
<1> HIDE DEF v
<1>4. Grounded(plan, f[v].black) /\ Ids(plan) \subseteq f[v].black
  BY <1>1, <1>2, <1>3, NoCycleGrounds
<1>5. Grounded(plan, Ids(plan))
  <2>1. f[v].black = Ids(plan)
    BY <1>4 DEF Grounded
  <2> QED
    BY <1>4, <2>1
<1> SUFFICES ASSUME NEW S \in SUBSET DOMAIN plan, S # {}
             PROVE  \E i \in S :
                      plan[i].dependsOn \subseteq Ids(plan) \ {plan[j].id : j \in S}
  BY DEF Runnable
<1> DEFINE W == {plan[j].id : j \in S}
<1>6. W \in SUBSET Ids(plan) /\ W # {}
  BY DEF Ids
<1>7. PICK x \in W : DependsOn(plan, x) \cap W = {}
  BY <1>5, <1>6 DEF Grounded
<1>8. PICK i \in S : x = plan[i].id
  OBVIOUS
<1>9. DependsOn(plan, x) = plan[i].dependsOn
  BY <1>8, DependsOnIs
<1>10. plan[i].dependsOn \subseteq Ids(plan)
  BY DEF Closed
<1> QED
  BY <1>7, <1>9, <1>10

\* ... and in a plan that can be run, the places of topoOrder rank the steps.
LEMMA RunnableIsAcyclic ==
  ASSUME NEW Descriptions, NEW plan \in Seq(Descriptions), Distinct(plan),
         Runnable(plan)
  PROVE  assertAcyclic(plan)
<1> DEFINE N == Len(plan)
           order == topoOrder(plan)
           At(d) == CHOOSE k \in 1..N : order[k] = d
           rank == [d \in Ids(plan) |-> At(d)]
           v == <<Ids(plan), {}, {}>>
<1>0. Closed(plan) /\ N \in Nat
  BY RunnableIsClosed
<1>1. Steady(plan, order, N)
  BY TopoIsSteady
<1> HIDE DEF order
<1>2. ASSUME NEW d \in Ids(plan) PROVE rank[d] \in 1..N /\ order[rank[d]] = d
  <2>1. PICK i \in DOMAIN plan : d = plan[i].id
    BY DEF Ids
  <2>2. \E k \in 1..N : order[k] = d
    BY <1>1, <2>1, EveryStepPlaced
  <2>3. At(d) \in 1..N /\ order[At(d)] = d
    BY <2>2
  <2> QED
    BY <2>3
<1> HIDE DEF rank
<1>3. ASSUME NEW d \in Ids(plan), NEW e \in DependsOn(plan, d)
      PROVE  rank[e] < rank[d]
  <2>1. rank[d] \in 1..N /\ order[rank[d]] = d
    BY <1>2
  <2>2. PICK i \in DOMAIN plan : /\ d = plan[i].id
                                 /\ plan[i].dependsOn \subseteq Before(order, rank[d])
    BY <1>1, <2>1 DEF Steady, Picked
  <2>3. e \in Before(order, rank[d])
    BY <2>2, DependsOnIs
  <2>4. PICK m \in 1..(rank[d] - 1) : e = order[m]
    BY <2>3 DEF Before
  <2>5. e \in Ids(plan)
    BY <1>0, DependsInside
  <2>6. rank[e] \in 1..N /\ order[rank[e]] = e
    BY <1>2, <2>5
  <2>7. m \in 1..N /\ m < rank[d]
    BY <1>0, <2>1
  <2>8. order[rank[e]] = order[m] /\ N \in Nat
    BY <1>0, <2>4, <2>6
  <2>9. \A j, k \in 1..N : order[j] = order[k] => j = k
    BY ONLY <1>1, <2>8, PlacesDiffer
  <2>10. rank[e] = m
    BY <2>6, <2>7, <2>8, <2>9
  <2> QED
    BY <2>7, <2>10
<1>4. Ranked(plan, rank)
  <2>1. \A d \in Ids(plan) : rank[d] \in Nat
    BY <1>0, <1>2
  <2> QED
    BY <1>3, <2>1 DEF Ranked
<1>5. PICK f \in [Colourings(plan) -> Findings(plan)] :
        /\ \A u \in Colourings(plan) : f[u] = Visit(plan, f, u)
        /\ assertAcyclic(plan) = ~f[v].cycle
  BY <1>0, AcyclicUnfolds
<1>6. v \in Colourings(plan) /\ v[2] = {}
  BY DEF Colourings
<1> HIDE DEF v
<1>7. ~f[v].cycle
  BY <1>0, <1>4, <1>5, <1>6, RankedHasNoCycle
<1> QED
  BY <1>5, <1>7

\* validateWorkflow accepts exactly the plans that have steps, each in order
\* and told apart by its id, and that can be run to their end.
THEOREM ValidationIsExact ==
  ASSUME NEW v, NEW Descriptions, NEW plan \in Seq(Descriptions)
  PROVE  validateWorkflow(v, plan) <=>
           /\ Identified(v) /\ plan # << >> /\ Cardinality(Ids(plan)) = Len(plan)
           /\ \A i \in DOMAIN plan : plan[i].fields
           /\ Runnable(plan)
<1>1. Distinct(plan) <=> Cardinality(Ids(plan)) = Len(plan)
  BY AsManyIdsAsSteps
<1>2. Distinct(plan) => (Closed(plan) /\ assertAcyclic(plan) <=> Runnable(plan))
  BY AcyclicIsRunnable, RunnableIsAcyclic, RunnableIsClosed
<1> QED
  BY <1>1, <1>2 DEF validateWorkflow, Distinct, Closed
=============================================================================
