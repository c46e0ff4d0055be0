----------------------------- MODULE CSMAProofs -----------------------------
(***************************************************************************)
(* Proofs for the channel simulation: types, back-off ranges, and that the *)
(* statistics add up.  For the latter the first section shows what adding  *)
(* 1 to some values of a function does to their sum.                       *)
(***************************************************************************)
EXTENDS CSMA, NatSets, FiniteSetTheorems

-----------------------------------------------------------------------------
(* Sums                                                                    *)

Pick(S) == CHOOSE n \in S : TRUE

\* The local function of Total.
SumTable(f, g) ==
  g = [S \in SUBSET Nodes |-> IF S = {} THEN 0 ELSE f[Pick(S)] + g[S \ {Pick(S)}]]

LEMMA SubsetSize ==
  ASSUME NEW S \in SUBSET Nodes
  PROVE  /\ IsFiniteSet(S) /\ Cardinality(S) \in Nat
         /\ Cardinality(S) <= Cardinality(Nodes) /\ Cardinality(Nodes) \in Nat
         /\ S = {} <=> Cardinality(S) = 0
         /\ S # {} => /\ Pick(S) \in S /\ S \ {Pick(S)} \in SUBSET Nodes
                      /\ Cardinality(S \ {Pick(S)}) = Cardinality(S) - 1
<1>1. IsFiniteSet(Nodes)
  BY CSMAAssumption
<1>2. IsFiniteSet(S) /\ Cardinality(S) <= Cardinality(Nodes)
  BY <1>1, FS_Subset
<1>3. Cardinality(S) \in Nat /\ Cardinality(Nodes) \in Nat
  BY <1>1, <1>2, FS_CardinalityType
<1>4. S = {} <=> Cardinality(S) = 0
  BY <1>2, FS_EmptySet
<1>5. S # {} => Pick(S) \in S
  BY DEF Pick
<1>6. S # {} => Cardinality(S \ {Pick(S)}) = Cardinality(S) - 1
  BY <1>2, <1>5, FS_RemoveElement
<1> QED
  BY <1>2, <1>3, <1>4, <1>5, <1>6

\* There is such a table: its entries follow from those of smaller sets.
LEMMA SumTableExists ==
  ASSUME NEW f \in [Nodes -> Nat]
  PROVE  \E g \in [SUBSET Nodes -> Nat] : SumTable(f, g)
<1> DEFINE Dom(k) == {S \in SUBSET Nodes : Cardinality(S) <= k}
           Partly(k, g) == /\ g \in [Dom(k) -> Nat]
                           /\ \A S \in Dom(k) :
                                g[S] = IF S = {} THEN 0 ELSE f[Pick(S)] + g[S \ {Pick(S)}]
           K == {k \in Nat : \E g : Partly(k, g)}
<1>1. 0 \in K
  <2> DEFINE g == [S \in Dom(0) |-> 0]
  <2>1. ASSUME NEW S \in Dom(0) PROVE S = {}
    <3>1. S \in SUBSET Nodes /\ Cardinality(S) <= 0
      OBVIOUS
    <3>2. Cardinality(S) \in Nat
      BY <3>1, SubsetSize
    <3>3. Cardinality(S) = 0
      BY <3>1, <3>2
    <3> QED
      BY <3>1, <3>3, SubsetSize
  <2>2. Partly(0, g)
    BY <2>1
  <2> QED
    BY <2>2
<1>2. ASSUME NEW k \in Nat, k \in K PROVE k + 1 \in K
  <2>1. PICK g : Partly(k, g)
    BY <1>2
  <2> DEFINE Value(S) == IF S = {} THEN 0 ELSE f[Pick(S)] + g[S \ {Pick(S)}]
             h == [S \in Dom(k + 1) |-> Value(S)]
  <2>2. ASSUME NEW S \in Dom(k + 1) PROVE S # {} => S \ {Pick(S)} \in Dom(k) /\ Pick(S) \in Nodes
    BY SubsetSize
  <2>3. ASSUME NEW S \in Dom(k) PROVE S \in Dom(k + 1)
    <3>1. S \in SUBSET Nodes /\ Cardinality(S) <= k
      OBVIOUS
    <3>2. Cardinality(S) \in Nat
      BY <3>1, SubsetSize
    <3> QED
      BY <3>1, <3>2
  <2>4. \A S \in Dom(k + 1) : h[S] = Value(S)
    OBVIOUS
  <2>5. \A S \in Dom(k) : h[S] = g[S]
    BY <2>1, <2>3, <2>4
  <2>6. ASSUME NEW S \in Dom(k + 1) PROVE Value(S) \in Nat
    BY <2>1, <2>2
  <2>7. h \in [Dom(k + 1) -> Nat]
    BY <2>6
  <2> HIDE DEF h, Dom
  <2>8. \A S \in Dom(k + 1) :
          h[S] = IF S = {} THEN 0 ELSE f[Pick(S)] + h[S \ {Pick(S)}]
    BY <2>2, <2>4, <2>5
  <2>9. Partly(k + 1, h)
    BY <2>7, <2>8
  <2> HIDE DEF Partly
  <2> QED
    BY <2>9
<1> HIDE DEF K
<1>3. Cardinality(Nodes) \in Nat
  BY SubsetSize
<1>4. Cardinality(Nodes) \in K
  BY <1>1, <1>2, <1>3, SetInduction
<1>5. PICK g : Partly(Cardinality(Nodes), g)
  BY <1>4 DEF K
<1>6. Dom(Cardinality(Nodes)) = SUBSET Nodes
  BY SubsetSize
<1>7. /\ g \in [SUBSET Nodes -> Nat]
      /\ \A S \in SUBSET Nodes : g[S] = IF S = {} THEN 0 ELSE f[Pick(S)] + g[S \ {Pick(S)}]
  BY <1>5, <1>6
<1>8. g = [S \in SUBSET Nodes |-> g[S]]
  BY <1>7
<1> QED
  BY <1>7, <1>8 DEF SumTable

\* Adding 1 at the members of A adds the size of A.
LEMMA TableAdd ==
  ASSUME NEW f \in [Nodes -> Nat], NEW g, SumTable(f, g),
         NEW A \in SUBSET Nodes,
         NEW e \in [Nodes -> Nat], NEW h, SumTable(e, h),
         \A n \in Nodes : e[n] = IF n \in A THEN f[n] + 1 ELSE f[n]
  PROVE  h[Nodes] = g[Nodes] + Cardinality(A) /\ g[Nodes] \in Nat
<1> DEFINE Good(S) == g[S] \in Nat /\ h[S] = g[S] + Cardinality(S \cap A)
           K == {k \in Nat : \A S \in SUBSET Nodes : Cardinality(S) = k => Good(S)}
<1>1. 0 \in K
  <2> SUFFICES ASSUME NEW S \in SUBSET Nodes, Cardinality(S) = 0 PROVE Good(S)
    OBVIOUS
  <2>1. S = {} /\ S \cap A = {} /\ Cardinality({}) = 0
    BY SubsetSize, FS_EmptySet
  <2>2. g[S] = 0 /\ h[S] = 0
    BY <2>1 DEF SumTable
  <2> QED
    BY <2>1, <2>2
<1>2. ASSUME NEW k \in Nat, k \in K PROVE k + 1 \in K
  <2> SUFFICES ASSUME NEW S \in SUBSET Nodes, Cardinality(S) = k + 1 PROVE Good(S)
    OBVIOUS
  <2> DEFINE n == Pick(S)
             T == S \ {n}
  <2>1. S # {} /\ n \in S /\ T \in SUBSET Nodes /\ Cardinality(T) = k
    BY SubsetSize
  <2>2. Good(T)
    BY <1>2, <2>1
  <2>3. g[S] = f[n] + g[T] /\ h[S] = e[n] + h[T]
    BY <2>1 DEF SumTable
  <2>4. IsFiniteSet(T \cap A) /\ Cardinality(T \cap A) \in Nat
    BY <2>1, SubsetSize
  <2>5. Cardinality(S \cap A) = IF n \in A THEN Cardinality(T \cap A) + 1
                                           ELSE Cardinality(T \cap A)
    <3>1. CASE n \in A
      <4>1. S \cap A = (T \cap A) \cup {n} /\ n \notin T \cap A
        BY <2>1, <3>1
      <4> QED
        BY <2>4, <3>1, <4>1, FS_AddElement
    <3>2. CASE n \notin A
      <4>1. S \cap A = T \cap A
        BY <3>2
      <4> QED
        BY <3>2, <4>1
    <3> QED
      BY <3>1, <3>2
  <2>6. n \in Nodes /\ f[n] \in Nat /\ e[n] = IF n \in A THEN f[n] + 1 ELSE f[n]
    BY <2>1
  <2> HIDE DEF n, T
  <2> QED
    BY <2>2, <2>3, <2>4, <2>5, <2>6
<1> HIDE DEF K
<1>3. Cardinality(Nodes) \in K
  BY <1>1, <1>2, SetInduction, SubsetSize
<1>4. Good(Nodes)
  BY <1>3 DEF K
<1>5. Nodes \cap A = A
  OBVIOUS
<1> QED
  BY <1>4, <1>5

LEMMA TotalTable ==
  ASSUME NEW f \in [Nodes -> Nat]
  PROVE  \E g : SumTable(f, g) /\ Total(f) = g[Nodes]
<1> DEFINE g == CHOOSE h : SumTable(f, h)
<1>1. SumTable(f, g)
  BY SumTableExists
<1>2. Total(f) = g[Nodes]
  BY DEF Total, MapThenFoldSet, SumTable, Pick
<1> QED
  BY <1>1, <1>2

LEMMA TotalAdd ==
  ASSUME NEW f \in [Nodes -> Nat], NEW A \in SUBSET Nodes, NEW e \in [Nodes -> Nat],
         \A n \in Nodes : e[n] = IF n \in A THEN f[n] + 1 ELSE f[n]
  PROVE  Total(e) = Total(f) + Cardinality(A) /\ Total(f) \in Nat
<1>1. PICK g : SumTable(f, g) /\ Total(f) = g[Nodes]
  BY TotalTable
<1>2. PICK h : SumTable(e, h) /\ Total(e) = h[Nodes]
  BY TotalTable
<1> QED
  BY <1>1, <1>2, TableAdd

LEMMA TotalOfZeros == Total([n \in Nodes |-> 0]) = 0
<1> DEFINE f == [n \in Nodes |-> 0]
           h == [S \in SUBSET Nodes |-> 0]
<1>1. f \in [Nodes -> Nat] /\ \A n \in Nodes : f[n] = 0
  OBVIOUS
<1>2. SumTable(f, h)
  <2>1. ASSUME NEW S \in SUBSET Nodes
        PROVE  h[S] = IF S = {} THEN 0 ELSE f[Pick(S)] + h[S \ {Pick(S)}]
    <3>1. h[S] = 0
      OBVIOUS
    <3>2. ASSUME S # {} PROVE f[Pick(S)] = 0 /\ h[S \ {Pick(S)}] = 0
      <4>1. Pick(S) \in Nodes /\ S \ {Pick(S)} \in SUBSET Nodes
        BY <3>2, SubsetSize
      <4> QED
        BY <4>1
    <3> QED
      BY <3>1, <3>2
  <2>2. h = [S \in SUBSET Nodes |-> h[S]]
    OBVIOUS
  <2> HIDE DEF h, f
  <2> QED
    BY <2>1, <2>2 DEF SumTable
<1>3. h[Nodes] = 0
  OBVIOUS
<1> HIDE DEF f, h
<1>4. PICK g : SumTable(f, g) /\ Total(f) = g[Nodes]
  BY <1>1, TotalTable
<1>5. Cardinality({}) = 0 /\ {} \in SUBSET Nodes
  BY FS_EmptySet
<1>6. h[Nodes] = g[Nodes] + Cardinality({}) /\ g[Nodes] \in Nat
  BY <1>1, <1>2, <1>4, <1>5, TableAdd
<1> QED
  BY <1>3, <1>4, <1>5, <1>6 DEF f

-----------------------------------------------------------------------------
(* The channel                                                             *)

LEMMA MaxRangeProperties ==
  /\ MaxRange \in Nat /\ M \in Nat \ {0}
  /\ \A i \in 1 .. M : R[i] \in Nat /\ R[i] <= MaxRange
<1> DEFINE K == {k \in Nat : k + 1 <= M => \E j \in 1 .. k + 1 : \A i \in 1 .. k + 1 : R[i] <= R[j]}
<1>1. M \in Nat \ {0} /\ \A i \in 1 .. M : R[i] \in Nat
  BY CSMAAssumption
<1>2. 0 \in K
  <2>1. 1 \in 1 .. 1 /\ \A i \in 1 .. 1 : i = 1
    OBVIOUS
  <2>2. R[1] <= R[1]
    BY <1>1
  <2> QED
    BY <2>1, <2>2
<1>3. ASSUME NEW k \in Nat, k \in K PROVE k + 1 \in K
  <2> DEFINE m == k + 1
  <2> SUFFICES ASSUME m + 1 <= M
               PROVE  \E j \in 1 .. m + 1 : \A i \in 1 .. m + 1 : R[i] <= R[j]
    OBVIOUS
  <2>1. PICK j \in 1 .. m : \A i \in 1 .. m : R[i] <= R[j]
    <3>1. k + 1 <= M
      BY <1>1
    <3> QED
      BY <1>3, <3>1
  <2>2. /\ j \in 1 .. m + 1 /\ m + 1 \in 1 .. m + 1
        /\ \A i \in 1 .. m + 1 : i \in 1 .. M /\ (i \in 1 .. m \/ i = m + 1)
    BY <1>1
  <2>3. R[j] \in Nat /\ R[m + 1] \in Nat /\ \A i \in 1 .. m + 1 : R[i] \in Nat
    BY <1>1, <2>2
  <2> HIDE DEF m
  <2>4. CASE R[j] <= R[m + 1]
    <3>1. \A i \in 1 .. m + 1 : R[i] <= R[m + 1]
      BY <2>1, <2>2, <2>3, <2>4
    <3> QED
      BY <2>2, <3>1
  <2>5. CASE ~ (R[j] <= R[m + 1])
    <3>1. \A i \in 1 .. m + 1 : R[i] <= R[j]
      BY <2>1, <2>2, <2>3, <2>5
    <3> QED
      BY <2>2, <3>1
  <2> QED
    BY <2>4, <2>5
<1> HIDE DEF K
<1>4. M - 1 \in K /\ (M - 1) + 1 = M
  BY <1>1, <1>2, <1>3, SetInduction
<1>5. \E r \in {R[i] : i \in 1 .. M} : \A i \in 1 .. M : R[i] <= r
  BY <1>4 DEF K
<1>6. MaxRange \in {R[i] : i \in 1 .. M} /\ \A i \in 1 .. M : R[i] <= MaxRange
  BY <1>5 DEF MaxRange
<1> QED
  BY <1>1, <1>6

\* Counting modulo m.
LEMMA NextModulo ==
  ASSUME NEW c \in Nat, NEW m \in Nat \ {0}
  PROVE  ((c % m) + 1) % m = (c + 1) % m /\ (c + 1) % m \in 0 .. m - 1
<1> DEFINE q == c \div m
           r == c % m
           p == (c + 1) \div m
           s == (c + 1) % m
<1>1. q \in Int /\ r \in 0 .. m - 1 /\ c = m * q + r
  OBVIOUS
<1>2. p \in Int /\ s \in 0 .. m - 1 /\ c + 1 = m * p + s
  OBVIOUS
<1> HIDE DEF q, r, p, s
<1>3. m * (p - q) = m * p - m * q
  BY <1>1, <1>2
<1>4. m * (p - q) + s = r + 1
  BY <1>1, <1>2, <1>3
<1>5. p - q = 0 \/ (p - q = 1 /\ s = 0 /\ r + 1 = m)
  <2> DEFINE d == p - q
  <2>1. d \in Int
    BY <1>1, <1>2
  <2>2. m * d + s = r + 1
    BY <1>4
  <2> HIDE DEF d
  <2>3. CASE d <= -1
    <3>1. m * d <= -m
      BY <2>1, <2>3
    <3> QED
      BY <1>1, <1>2, <2>1, <2>2, <3>1
  <2>4. CASE d >= 2
    <3>1. m * d >= 2 * m
      BY <2>1, <2>4
    <3> QED
      BY <1>1, <1>2, <2>1, <2>2, <3>1
  <2>5. CASE d = 1
    <3>1. m + s = r + 1
      BY <2>2, <2>5
    <3> QED
      BY <1>1, <1>2, <2>5, <3>1 DEF d
  <2>6. CASE d = 0
    BY <2>6 DEF d
  <2> QED
    BY <2>1, <2>3, <2>4, <2>5, <2>6
<1>6. CASE p - q = 0
  <2>1. s = r + 1
    BY <1>1, <1>2, <1>4, <1>6
  <2>2. (r + 1) % m = r + 1
    BY <1>1, <1>2, <2>1
  <2> QED
    BY <1>2, <2>1, <2>2 DEF r, s
<1>7. CASE p - q = 1 /\ s = 0 /\ r + 1 = m
  <2>1. (r + 1) % m = 0
    BY <1>7
  <2> QED
    BY <1>2, <1>7, <2>1 DEF r, s
<1> QED
  BY <1>5, <1>6, <1>7

\* The collisions at a success are among those counted up to now.
SuccessBefore == \A n \in Nodes : atSuccess[n] <= totalCollisions[n]

Inv == /\ TypeOK /\ TimeAccounted /\ CollisionsShared /\ BackOffRange /\ StopsInTime
       /\ SuccessBefore

Longest == IF MaxRange > L THEN MaxRange ELSE L

LEMMA InitInv == Init => Inv
<1> SUFFICES ASSUME Init PROVE Inv
  OBVIOUS
<1>1. 1 \in 1 .. M /\ R[1] \in Nat /\ R[1] <= MaxRange /\ MaxRange \in Nat /\ M \in Nat \ {0}
  BY MaxRangeProperties
<1>2. /\ curCollisions = [n \in Nodes |-> 0] /\ countDown \in [Nodes -> 0 .. R[1]]
      /\ totalCollisions = [n \in Nodes |-> 0] /\ successTrans = [n \in Nodes |-> 0]
      /\ curTime = 0 /\ idleTime = 0 /\ busyTime = 0 /\ collisionCnt = 0
      /\ atSuccess = [n \in Nodes |-> 0]
  BY DEF Init
<1>3. countDown \in [Nodes -> 0 .. MaxRange]
  BY <1>1, <1>2
<1>4. TypeOK
  BY <1>1, <1>2, <1>3 DEF TypeOK
<1>5. Total(successTrans) = 0 /\ Total(totalCollisions) = 0
  BY <1>2, TotalOfZeros
<1>6. TimeAccounted
  BY <1>2, <1>5, CSMAAssumption DEF TimeAccounted
<1>7. CollisionsShared
  BY <1>2, <1>5 DEF CollisionsShared
<1>8. BackOffRange
  <2>1. (0 - 0) % M = 0
    BY <1>1
  <2> QED
    BY <1>1, <1>2, <2>1 DEF BackOffRange
<1>9. StopsInTime
  BY <1>1, <1>2, CSMAAssumption DEF StopsInTime
<1>10. SuccessBefore
  BY <1>2 DEF SuccessBefore
<1> QED
  BY <1>4, <1>6, <1>7, <1>8, <1>9, <1>10 DEF Inv

\* The search for the minimum ends with the shortest countdown, or with FirstMin
\* when all are longer.
LEMMA MinCountDownProperties ==
  ASSUME TypeOK
  PROVE  /\ MinCountDown \in 0 .. MaxRange
         /\ MinCountDown <= FirstMin /\ FirstMin \in Nat \ {0}
         /\ \A n \in Nodes : MinCountDown <= countDown[n]
         /\ MinCountDown = FirstMin \/ \E n \in Nodes : countDown[n] = MinCountDown
<1> DEFINE S == {FirstMin} \cup {countDown[n] : n \in Nodes}
<1>1. Nodes # {} /\ MaxRange \in Nat /\ FirstMin \in Nat \ {0}
  BY CSMAAssumption, MaxRangeProperties
<1>2. S \subseteq Nat /\ S # {} /\ \A n \in Nodes : countDown[n] \in 0 .. MaxRange
  BY <1>1 DEF TypeOK
<1>3. MinCountDown \in S /\ \A y \in S : MinCountDown <= y
  BY <1>2, LeastElement DEF MinCountDown, SetMin
<1>4. PICK n \in Nodes : TRUE
  BY <1>1
<1>5. MinCountDown \in Nat /\ MinCountDown <= countDown[n] /\ countDown[n] \in 0 .. MaxRange
  BY <1>2, <1>3
<1>6. MinCountDown \in 0 .. MaxRange
  BY <1>1, <1>5
<1> QED
  BY <1>1, <1>3, <1>6

\* Nobody is ready, so that the first countdown lasts.  When it has run off, or as
\* much of it as FirstMin, its node is ready unless it was above FirstMin.
LEMMA IdleCountsDown ==
  ASSUME TypeOK, Idle
  PROVE  /\ MinCountDown \in 1 .. MaxRange
         /\ countDown' \in [Nodes -> 0 .. MaxRange]
         /\ \A n \in Nodes : countDown'[n] = countDown[n] - MinCountDown
         /\ (\E n \in Nodes : countDown[n] <= FirstMin) => NodesReady' # {}
<1>1. /\ MinCountDown \in 0 .. MaxRange /\ MaxRange \in Nat
      /\ \A n \in Nodes : MinCountDown <= countDown[n]
      /\ MinCountDown <= FirstMin /\ FirstMin \in Nat \ {0}
      /\ MinCountDown = FirstMin \/ \E n \in Nodes : countDown[n] = MinCountDown
  BY MinCountDownProperties, MaxRangeProperties
<1>2. \A m \in Nodes : countDown[m] \in 0 .. MaxRange /\ countDown[m] # 0
  BY DEF TypeOK, Idle, NodesReady
<1>3. MinCountDown # 0
  BY <1>1, <1>2
<1>4. countDown' = [m \in Nodes |-> countDown[m] - MinCountDown]
  BY DEF Idle, CountedDown
<1>5. countDown' \in [Nodes -> 0 .. MaxRange]
  BY <1>1, <1>2, <1>4
<1>6. ASSUME NEW n \in Nodes, countDown[n] <= FirstMin PROVE NodesReady' # {}
  <2>1. PICK m \in Nodes : countDown[m] = MinCountDown
    <3>1. CASE MinCountDown = FirstMin
      <4>1. countDown[n] = MinCountDown
        BY <1>1, <1>2, <1>6, <3>1
      <4> QED
        BY <4>1
    <3> QED
      BY <1>1, <3>1
  <2>2. countDown'[m] = 0
    BY <1>1, <1>4, <2>1
  <2> QED
    BY <2>2 DEF NodesReady
<1> QED
  BY <1>1, <1>3, <1>4, <1>5, <1>6

LEMMA LongestProperties ==
  Longest \in Nat /\ MaxRange <= Longest /\ L <= Longest /\ 1 <= L /\ MaxTime \in Nat /\ L \in Nat
BY MaxRangeProperties, CSMAAssumption DEF Longest

LEMMA IdleInv ==
  ASSUME Inv, TimeLeft, Idle
  PROVE  Inv'
<1>1. /\ curCollisions \in [Nodes -> 0 .. M - 1] /\ curTime \in Nat /\ idleTime \in Nat
      /\ busyTime \in Nat /\ collisionCnt \in Nat /\ countDown \in [Nodes -> 0 .. MaxRange]
  BY DEF Inv, TypeOK
<1>2. /\ UNCHANGED <<curCollisions, totalCollisions, successTrans, busyTime, collisionCnt,
                     atSuccess>>
      /\ curTime' = curTime + MinCountDown /\ idleTime' = idleTime + MinCountDown
  BY DEF Idle, IdleFor
<1>3. /\ MinCountDown \in 1 .. MaxRange /\ countDown' \in [Nodes -> 0 .. MaxRange]
      /\ \A n \in Nodes : countDown'[n] = countDown[n] - MinCountDown
  BY IdleCountsDown DEF Inv
<1>4. MaxRange \in Nat /\ MinCountDown \in Nat /\ MinCountDown <= MaxRange
  BY <1>3, MaxRangeProperties
<1>5. TypeOK'
  BY <1>1, <1>2, <1>3, <1>4 DEF Inv, TypeOK
<1>6. TimeAccounted' /\ CollisionsShared'
  BY <1>1, <1>2, <1>4 DEF Inv, TimeAccounted, CollisionsShared
<1>7. BackOffRange'
  <2> SUFFICES ASSUME NEW n \in Nodes
               PROVE  /\ countDown'[n] <= R[curCollisions[n] + 1]
                      /\ curCollisions[n] = (totalCollisions[n] - atSuccess[n]) % M
    BY <1>2 DEF BackOffRange
  <2>1. /\ countDown[n] <= R[curCollisions[n] + 1]
        /\ curCollisions[n] = (totalCollisions[n] - atSuccess[n]) % M
    BY DEF Inv, BackOffRange
  <2>2. curCollisions[n] + 1 \in 1 .. M
    BY <1>1, MaxRangeProperties
  <2>3. R[curCollisions[n] + 1] \in Nat
    BY <2>2, MaxRangeProperties
  <2>4. countDown[n] \in Nat /\ countDown'[n] <= countDown[n]
    BY <1>1, <1>3, <1>4
  <2>5. countDown'[n] \in Nat
    BY <1>3
  <2> QED
    BY <2>1, <2>3, <2>4, <2>5
<1>8. StopsInTime'
  BY <1>1, <1>2, <1>4, LongestProperties DEF TimeLeft, StopsInTime, Longest
<1>9. SuccessBefore'
  BY <1>2 DEF Inv, SuccessBefore
<1> QED
  BY <1>5, <1>6, <1>7, <1>8, <1>9 DEF Inv

\* A new countdown is in the range of the collisions that count by then.
LEMMA ResetInRange ==
  ASSUME TypeOK, BackOffRange, curCollisions' \in [Nodes -> 0 .. M - 1],
         NEW S \in SUBSET Nodes, ResetCountDown(S),
         \A n \in Nodes \ S : curCollisions'[n] = curCollisions[n]
  PROVE  /\ countDown' \in [Nodes -> 0 .. MaxRange]
         /\ \A n \in Nodes : countDown'[n] <= R[curCollisions'[n] + 1]
<1>1. PICK draw \in [S -> 0 .. MaxRange] :
        /\ \A n \in S : draw[n] <= R[curCollisions'[n] + 1]
        /\ countDown' = [n \in Nodes |-> IF n \in S THEN draw[n] ELSE countDown[n]]
  BY DEF ResetCountDown
<1>2. countDown \in [Nodes -> 0 .. MaxRange]
  BY DEF TypeOK
<1>3. countDown' \in [Nodes -> 0 .. MaxRange]
  BY <1>1, <1>2
<1>4. ASSUME NEW n \in Nodes PROVE countDown'[n] <= R[curCollisions'[n] + 1]
  <2>1. CASE n \in S
    BY <1>1, <2>1
  <2>2. CASE n \notin S
    BY <1>1, <2>2 DEF BackOffRange
  <2> QED
    BY <2>1, <2>2
<1> QED
  BY <1>3, <1>4

LEMMA TransmitInv ==
  ASSUME Inv, TimeLeft, Transmit
  PROVE  Inv'
<1>1. /\ curCollisions \in [Nodes -> 0 .. M - 1] /\ curTime \in Nat /\ idleTime \in Nat
      /\ busyTime \in Nat /\ collisionCnt \in Nat
      /\ successTrans \in [Nodes -> Nat] /\ totalCollisions \in [Nodes -> Nat]
      /\ atSuccess \in [Nodes -> Nat]
  BY DEF Inv, TypeOK
<1>2. PICK n \in Nodes :
        /\ successTrans' = [successTrans EXCEPT ![n] = @ + 1]
        /\ curCollisions' = [curCollisions EXCEPT ![n] = 0]
        /\ ResetCountDown({n})
        /\ curTime' = curTime + L /\ busyTime' = busyTime + L
        /\ atSuccess' = [atSuccess EXCEPT ![n] = totalCollisions[n]]
        /\ UNCHANGED <<totalCollisions, idleTime, collisionCnt>>
  BY DEF Transmit, BusyFor, NextPacket
<1>3. M \in Nat \ {0} /\ L \in Nat
  BY MaxRangeProperties, LongestProperties
<1>4. /\ curCollisions' \in [Nodes -> 0 .. M - 1] /\ successTrans' \in [Nodes -> Nat]
      /\ \A m \in Nodes : /\ successTrans'[m] = IF m \in {n} THEN successTrans[m] + 1
                                                             ELSE successTrans[m]
                          /\ m # n => curCollisions'[m] = curCollisions[m]
  BY <1>1, <1>2, <1>3
<1>5. /\ countDown' \in [Nodes -> 0 .. MaxRange]
      /\ \A m \in Nodes : countDown'[m] <= R[curCollisions'[m] + 1]
  BY <1>2, <1>4, ResetInRange DEF Inv
<1>6. TypeOK'
  BY <1>1, <1>2, <1>3, <1>4, <1>5 DEF TypeOK
<1>7. TimeAccounted'
  <2>1. {n} \in SUBSET Nodes /\ Cardinality({n}) = 1
    BY FS_Singleton
  <2>2. Total(successTrans') = Total(successTrans) + 1 /\ Total(successTrans) \in Nat
    BY <1>1, <1>4, <2>1, TotalAdd
  <2>3. L * (Total(successTrans) + 1) = L * Total(successTrans) + L
        /\ L * Total(successTrans) \in Nat
    BY <1>3, <2>2
  <2>4. Total(successTrans)' = Total(successTrans')
    OBVIOUS
  <2> QED
    BY <1>1, <1>2, <1>3, <2>2, <2>3, <2>4 DEF Inv, TimeAccounted
<1>8. CollisionsShared'
  BY <1>2 DEF Inv, CollisionsShared
<1>9. BackOffRange'
  <2> SUFFICES ASSUME NEW m \in Nodes
               PROVE  curCollisions'[m] = (totalCollisions[m] - atSuccess'[m]) % M
    BY <1>2, <1>5 DEF BackOffRange
  <2>1. CASE m = n
    <3>1. curCollisions'[m] = 0 /\ atSuccess'[m] = totalCollisions[m] /\ totalCollisions[m] \in Nat
      BY <1>1, <1>2, <2>1
    <3>2. totalCollisions[m] - atSuccess'[m] = 0 /\ 0 % M = 0
      BY <1>3, <3>1
    <3> QED
      BY <3>1, <3>2
  <2>2. CASE m # n
    <3>1. atSuccess'[m] = atSuccess[m]
      BY <1>1, <1>2, <2>2
    <3> QED
      BY <1>4, <2>2, <3>1 DEF Inv, BackOffRange
  <2> QED
    BY <2>1, <2>2
<1>10. StopsInTime'
  BY <1>1, <1>2, LongestProperties DEF TimeLeft, StopsInTime, Longest
<1>11. SuccessBefore'
  <2>1. \A m \in Nodes : atSuccess'[m] = IF m = n THEN totalCollisions[m] ELSE atSuccess[m]
    BY <1>1, <1>2
  <2> QED
    BY <1>1, <1>2, <2>1 DEF Inv, SuccessBefore
<1> QED
  BY <1>6, <1>7, <1>8, <1>9, <1>10, <1>11 DEF Inv

LEMMA CollideInv ==
  ASSUME Inv, TimeLeft, Collide
  PROVE  Inv'
<1> DEFINE S == NodesReady
<1>1. /\ curCollisions \in [Nodes -> 0 .. M - 1] /\ curTime \in Nat /\ idleTime \in Nat
      /\ busyTime \in Nat /\ collisionCnt \in Nat
      /\ successTrans \in [Nodes -> Nat] /\ totalCollisions \in [Nodes -> Nat]
      /\ atSuccess \in [Nodes -> Nat]
  BY DEF Inv, TypeOK
<1>2. S \in SUBSET Nodes /\ Cardinality(S) > 1
  BY DEF NodesReady, Collide, SeveralReady
<1>3. /\ totalCollisions' = [n \in Nodes |-> IF n \in S THEN totalCollisions[n] + 1
                                                        ELSE totalCollisions[n]]
      /\ curCollisions' = [n \in Nodes |-> IF n \in S THEN OneMore(curCollisions[n])
                                                      ELSE curCollisions[n]]
      /\ ResetCountDown(S)
      /\ curTime' = curTime + 1 /\ busyTime' = busyTime + 1
      /\ collisionCnt' = collisionCnt + 1
      /\ UNCHANGED <<successTrans, idleTime, atSuccess>>
  BY DEF Collide, BusyFor
<1> HIDE DEF S
<1>4. M \in Nat \ {0} /\ L \in Nat
  BY MaxRangeProperties, LongestProperties
<1>5. ASSUME NEW c \in Nat PROVE OneMore(c % M) = (c + 1) % M /\ OneMore(c) \in 0 .. M - 1
  BY <1>4, NextModulo DEF OneMore
<1>6. /\ curCollisions' \in [Nodes -> 0 .. M - 1] /\ totalCollisions' \in [Nodes -> Nat]
      /\ \A n \in Nodes \ S : curCollisions'[n] = curCollisions[n]
  BY <1>1, <1>3, <1>5
<1>7. /\ countDown' \in [Nodes -> 0 .. MaxRange]
      /\ \A n \in Nodes : countDown'[n] <= R[curCollisions'[n] + 1]
  BY <1>2, <1>3, <1>6, ResetInRange DEF Inv
<1>8. TypeOK'
  BY <1>1, <1>3, <1>6, <1>7 DEF TypeOK
<1>9. TimeAccounted'
  <2>1. Total(successTrans)' = Total(successTrans) /\ Total(successTrans) \in Nat
    <3>1. {} \in SUBSET Nodes
      OBVIOUS
    <3>2. Total(successTrans) \in Nat
      BY <1>1, <3>1, TotalAdd
    <3> QED
      BY <1>3, <3>2
  <2>2. L * Total(successTrans) \in Nat
    BY <1>4, <2>1
  <2> QED
    BY <1>1, <1>3, <2>1, <2>2 DEF Inv, TimeAccounted
<1>10. CollisionsShared'
  <2>1. Total(totalCollisions') = Total(totalCollisions) + Cardinality(S)
        /\ Total(totalCollisions) \in Nat
    BY <1>1, <1>2, <1>3, <1>6, TotalAdd
  <2>2. Total(totalCollisions)' = Total(totalCollisions')
    OBVIOUS
  <2>3. Cardinality(S) \in Nat
    BY <1>2, SubsetSize
  <2>4. 2 * (collisionCnt + 1) <= Total(totalCollisions) + Cardinality(S)
    BY <1>1, <1>2, <2>1, <2>3 DEF Inv, CollisionsShared
  <2>5. ASSUME NEW n \in Nodes PROVE totalCollisions'[n] <= collisionCnt + 1
    <3>1. totalCollisions[n] <= collisionCnt /\ totalCollisions[n] \in Nat
      BY <1>1 DEF Inv, CollisionsShared
    <3> QED
      BY <1>1, <1>3, <3>1
  <2> QED
    BY <1>3, <2>1, <2>2, <2>4, <2>5 DEF CollisionsShared
<1>11. BackOffRange'
  <2> SUFFICES ASSUME NEW n \in Nodes
               PROVE  curCollisions'[n] = (totalCollisions'[n] - atSuccess[n]) % M
    BY <1>3, <1>7 DEF BackOffRange
  <2> DEFINE c == totalCollisions[n] - atSuccess[n]
  <2>1. /\ totalCollisions[n] \in Nat /\ atSuccess[n] \in Nat
        /\ atSuccess[n] <= totalCollisions[n] /\ curCollisions[n] = c % M
    BY <1>1 DEF Inv, BackOffRange, SuccessBefore
  <2>2. CASE n \in S
    <3>1. c \in Nat /\ totalCollisions'[n] - atSuccess[n] = c + 1
      BY <1>3, <2>1, <2>2
    <3>2. curCollisions'[n] = OneMore(c % M)
      BY <1>3, <2>1, <2>2
    <3> HIDE DEF c
    <3> QED
      BY <1>5, <3>1, <3>2
  <2>3. CASE n \notin S
    BY <1>3, <2>1, <2>3
  <2> QED
    BY <2>2, <2>3
<1>12. StopsInTime'
  BY <1>1, <1>3, LongestProperties DEF TimeLeft, StopsInTime, Longest
<1>13. SuccessBefore'
  <2>1. \A n \in Nodes : totalCollisions'[n] >= totalCollisions[n]
    BY <1>1, <1>3
  <2> QED
    BY <1>1, <1>3, <1>6, <2>1 DEF Inv, SuccessBefore
<1> QED
  BY <1>8, <1>9, <1>10, <1>11, <1>12, <1>13 DEF Inv

LEMMA InvHolds == Spec => []Inv
<1>1. Inv /\ [Next]_vars => Inv'
  <2> SUFFICES ASSUME Inv, [Next]_vars PROVE Inv'
    OBVIOUS
  <2>1. CASE Pass
    BY <2>1, IdleInv, TransmitInv, CollideInv DEF Pass
  <2>2. CASE UNCHANGED vars
    BY <2>2 DEF vars, nodeVars, Inv, TypeOK, TimeAccounted, CollisionsShared, BackOffRange,
                StopsInTime, SuccessBefore
  <2> QED
    BY <2>1, <2>2 DEF Next, Finished
<1> QED
  BY <1>1, InitInv, PTL DEF Spec

\* Times and counts add up for any number of nodes, any ranges and any draws of
\* rand(): the channel is idle or busy, busy with what the nodes have counted,
\* and every collision has at least two parties.
THEOREM StatisticsAddUp == Spec => []StatisticsAgree
BY InvHolds, PTL DEF Inv, StatisticsAgree

\* Before and after any number of successes a node backs off in the range of the
\* collisions since the last one, modulo M.
THEOREM BacksOffInRange == Spec => [](TypeOK /\ BackOffRange)
BY InvHolds, PTL DEF Inv

\* The simulated time exceeds MaxTime by less than one activity.
THEOREM EndsInTime == Spec => []StopsInTime
BY InvHolds, PTL DEF Inv

\* In an idle pass all countdowns run equally long and none below 0, and somebody is
\* ready afterwards unless every countdown was above FirstMin.
THEOREM IdleEndsReady == Spec => IdleUntilReady
<1>1. ASSUME TypeOK, Idle
      PROVE  /\ (\E n \in Nodes : countDown[n] <= FirstMin) => NodesReady' # {}
             /\ \A n \in Nodes : countDown'[n] >= 0
             /\ \A n, m \in Nodes :
                  countDown[n] - countDown[m] = countDown'[n] - countDown'[m]
  <2>1. /\ MinCountDown \in 1 .. MaxRange /\ MaxRange \in Nat
        /\ countDown' \in [Nodes -> 0 .. MaxRange]
        /\ \A n \in Nodes : countDown'[n] = countDown[n] - MinCountDown
        /\ (\E n \in Nodes : countDown[n] <= FirstMin) => NodesReady' # {}
    BY <1>1, IdleCountsDown, MaxRangeProperties
  <2>2. \A n \in Nodes : countDown[n] \in 0 .. MaxRange
    BY <1>1 DEF TypeOK
  <2> QED
    BY <2>1, <2>2
<1>2. Inv => TypeOK
  BY DEF Inv
<1> QED
  BY <1>1, <1>2, InvHolds, PTL DEF IdleUntilReady

\* With back-off ranges of at most FirstMin no idle period takes two passes.
THEOREM IdleOnce ==
  ASSUME MaxRange <= FirstMin
  PROVE  Spec => [][Idle => NodesReady' # {}]_vars
<1>1. ASSUME TypeOK, Idle PROVE NodesReady' # {}
  <2>1. PICK n \in Nodes : countDown[n] \in 0 .. MaxRange
    BY <1>1, CSMAAssumption DEF TypeOK
  <2>2. countDown[n] <= FirstMin
    BY <2>1, MaxRangeProperties, CSMAAssumption
  <2> QED
    BY <1>1, <2>2, IdleCountsDown
<1>2. Inv => TypeOK
  BY DEF Inv
<1> QED
  BY <1>1, <1>2, InvHolds, PTL
=============================================================================
