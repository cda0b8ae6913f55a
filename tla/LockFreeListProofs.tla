-------------------------- MODULE LockFreeListProofs --------------------------
(***************************************************************************)
(* Proofs about LockFreeList, for any number of threads and nodes.         *)
(*                                                                         *)
(* Erased nodes keep their links and are walked through, so that the list  *)
(* is more than the chain from the head.  Its shape is that every node has *)
(* a rank which its link lowers, and that a node which is not erased is on *)
(* the chain.  The walk is a recursive function; what it finds is proved   *)
(* by induction over its steps and over the ranks.                         *)
(***************************************************************************)
EXTENDS LockFreeList, FiniteSetTheorems, SequenceTheorems, WellFoundedInduction, TLAPS

-----------------------------------------------------------------------------
(* Induction                                                                *)

(* Induction over the natural numbers, for a set: the set of the numbers    *)
(* that have a property.                                                    *)
LEMMA SetInduction ==
  ASSUME NEW T, T \subseteq Nat, 0 \in T, \A n \in T : n + 1 \in T
  PROVE  T = Nat
<1> DEFINE D == Nat \ T
           R == OpToRel(<, Nat)
<1>1. SUFFICES ASSUME D # {} PROVE FALSE
  OBVIOUS
<1>2. IsWellFoundedOn(R, Nat)
  BY NatLessThanWellFounded
<1>3. D \subseteq Nat
  OBVIOUS
<1>4. \E x \in D : \A y \in D : ~(<<y, x>> \in R)
  <2> HIDE DEF D, R
  <2>1. QED BY <1>1, <1>2, <1>3, WFMin
<1>5. PICK x \in D : \A y \in D : ~(<<y, x>> \in R)
  BY <1>4
<1>6. x # 0 /\ x \in Nat /\ x - 1 \in Nat
  OBVIOUS
<1>7. x - 1 \notin T
  BY <1>6
<1>8. <<x - 1, x>> \in R
  BY <1>6 DEF OpToRel
<1>9. QED BY <1>5, <1>6, <1>7, <1>8

(* A step taken m times, from x0                                            *)
IsOrbit(f, m, X, x0, step) ==
  /\ f \in [0 .. m -> X]
  /\ f[0] = x0
  /\ \A k \in 1 .. m : f[k] = step[f[k - 1]]

(* Every step has an orbit from every start.                                *)
LEMMA OrbitExists ==
  ASSUME NEW X, NEW x0 \in X, NEW step \in [X -> X], NEW m \in Nat
  PROVE  \E f : IsOrbit(f, m, X, x0, step)
<1> DEFINE T == {k \in Nat : \E f : IsOrbit(f, k, X, x0, step)}
<1>1. 0 \in T
  <2>1. IsOrbit([k \in 0 .. 0 |-> x0], 0, X, x0, step)
    BY DEF IsOrbit
  <2>2. QED BY <2>1
<1>2. ASSUME NEW n \in T PROVE n + 1 \in T
  <2>1. PICK f : IsOrbit(f, n, X, x0, step)
    OBVIOUS
  <2> DEFINE g == [k \in 0 .. n + 1 |-> IF k <= n THEN f[k] ELSE step[f[n]]]
  <2>2. f[n] \in X /\ step[f[n]] \in X
    BY <2>1 DEF IsOrbit
  <2>3. g \in [0 .. n + 1 -> X] /\ g[0] = x0
    BY <2>1, <2>2 DEF IsOrbit
  <2>4. ASSUME NEW k \in 1 .. n + 1 PROVE g[k] = step[g[k - 1]]
    <3>1. CASE k <= n
      BY <2>1, <3>1 DEF IsOrbit
    <3>2. CASE k = n + 1
      BY <2>1, <3>2 DEF IsOrbit
    <3>3. QED BY <3>1, <3>2
  <2>5. IsOrbit(g, n + 1, X, x0, step)
    BY <2>3, <2>4 DEF IsOrbit
  <2>6. n + 1 \in Nat
    OBVIOUS
  <2>7. QED BY <2>5, <2>6
<1>3. T = Nat
  <2> HIDE DEF T
  <2>1. T \subseteq Nat
    BY DEF T
  <2>2. QED BY <1>1, <1>2, <2>1, SetInduction
<1>4. QED BY <1>3

-----------------------------------------------------------------------------
(* What an iterator finds                                                   *)
Places == All \cup {Null}

Item(nx, n) == IF nx[n].mark THEN <<>> ELSE <<n>>

Row(nx, g) ==
  [n \in Places |->
     IF n = Null THEN [live |-> <<>>, end |-> n]
     ELSE [live |-> Item(nx, n) \o g[nx[n].to].live, end |-> g[nx[n].to].end]]

Rows == [Places -> [live : Seq(All), end : Places]]

NoRow == [n \in Places |-> [live |-> <<>>, end |-> n]]

(* There are finitely many nodes, and Null is none of them.                 *)
LEMMA AllFinite ==
  /\ IsFiniteSet(All) /\ Cardinality(All) \in Nat \ {0}
  /\ Null \notin All
<1>1. IsFiniteSet(All)
  BY LockFreeListAssumption, FS_AddElement DEF All
<1>2. Cardinality(All) \in Nat
  BY <1>1, FS_CardinalityType
<1>3. All # {}
  BY DEF All
<1>4. Cardinality(All) # 0
  BY <1>1, <1>3, FS_EmptySet
<1>5. QED
  BY <1>1, <1>2, <1>4, LockFreeListAssumption DEF All

(* What a step of the walk adds, and where it goes                          *)
LEMMA ItemType ==
  ASSUME NEW nx \in [All -> Links], NEW n \in All
  PROVE  Item(nx, n) \in Seq(All) /\ nx[n].to \in Places
<1>1. nx[n].to \in Places
  BY DEF Links, Places, All
<1>2. <<>> \in Seq(All) /\ <<n>> \in Seq(All)
  OBVIOUS
<1>3. QED BY <1>1, <1>2 DEF Item

(* A row of the walk has the types of one.                                  *)
LEMMA RowType ==
  ASSUME NEW nx \in [All -> Links], NEW g \in Rows
  PROVE  Row(nx, g) \in Rows
<1>1. ASSUME NEW n \in All
      PROVE  Item(nx, n) \o g[nx[n].to].live \in Seq(All) /\ g[nx[n].to].end \in Places
  <2>1. Item(nx, n) \in Seq(All) /\ g[nx[n].to].live \in Seq(All) /\ g[nx[n].to].end \in Places
    BY ItemType DEF Rows
  <2>2. QED BY <2>1
<1>2. QED BY <1>1 DEF Row, Rows, Places

(* The walk is an orbit of Row: what WalkIn's recursion means.              *)
LEMMA WalkIsOrbit ==
  ASSUME NEW nx \in [All -> Links], NEW K, K = Cardinality(All)
  PROVE  \E f : IsOrbit(f, K, Rows, NoRow, [g \in Rows |-> Row(nx, g)]) /\ WalkIn(nx) = f[K]
<1> DEFINE step == [g \in Rows |-> Row(nx, g)]
           Body(f) == [k \in 0 .. K |->
                         [n \in Places |->
                            IF k = 0 \/ n = Null THEN [live |-> <<>>, end |-> n]
                            ELSE LET rest == f[k - 1][nx[n].to] IN
                                   [live |-> (IF nx[n].mark THEN <<>> ELSE <<n>>) \o rest.live,
                                    end |-> rest.end]]]
<1>1. \A g \in Rows : Row(nx, g) \in Rows
  BY RowType
<1>2. NoRow \in Rows /\ step \in [Rows -> Rows] /\ K \in Nat
  BY <1>1, AllFinite DEF NoRow, Rows
<1>3. \E f : IsOrbit(f, K, Rows, NoRow, step)
  <2> HIDE DEF step
  <2>1. QED BY <1>2, OrbitExists
<1>4. ASSUME NEW f PROVE Body(f)[0] = NoRow
  BY <1>2 DEF NoRow
<1>5. ASSUME NEW f, NEW k \in 1 .. K
      PROVE  Body(f)[k] = Row(nx, f[k - 1]) /\ k - 1 \in 0 .. K /\ k \in 0 .. K
  <2>1. k \in 0 .. K /\ k # 0 /\ k - 1 \in 0 .. K
    BY <1>2
  <2>2. QED BY <2>1 DEF Row, Item
<1>6. ASSUME NEW f, IsOrbit(f, K, Rows, NoRow, step) PROVE f = Body(f)
  <2>1. ASSUME NEW k \in 0 .. K PROVE f[k] = Body(f)[k]
    <3>1. CASE k = 0
      BY <1>4, <1>6, <3>1 DEF IsOrbit
    <3>2. CASE k # 0
      <4>1. k \in 1 .. K /\ k - 1 \in 0 .. K
        BY <1>2, <3>2
      <4>2. f[k - 1] \in Rows /\ f[k] = step[f[k - 1]]
        BY <1>6, <4>1 DEF IsOrbit
      <4>3. f[k] = Row(nx, f[k - 1])
        BY <4>2
      <4>4. QED BY <4>1, <4>3, <1>5
    <3>3. QED BY <3>1, <3>2
  <2>2. f \in [0 .. K -> Rows]
    BY <1>6 DEF IsOrbit
  <2>3. QED BY <2>1, <2>2
<1>7. ASSUME NEW f, f = Body(f) PROVE IsOrbit(f, K, Rows, NoRow, step)
  <2> DEFINE T == {k \in Nat : k \in 0 .. K => f[k] \in Rows}
  <2>1. f[0] = NoRow
    BY <1>4, <1>7
  <2>2. ASSUME NEW k \in 1 .. K PROVE f[k] = Row(nx, f[k - 1])
    <3>1. Body(f)[k] = Row(nx, f[k - 1])
      BY <1>5
    <3> HIDE DEF Body
    <3>2. f[k] = Body(f)[k]
      BY <1>7, Zenon
    <3>3. QED BY <3>1, <3>2
  <2>3. 0 \in T
    BY <1>2, <2>1
  <2>4. ASSUME NEW k \in T PROVE k + 1 \in T
    <3>1. SUFFICES ASSUME k + 1 \in 0 .. K PROVE f[k + 1] \in Rows
      OBVIOUS
    <3>2. k + 1 \in 1 .. K /\ (k + 1) - 1 = k /\ f[k] \in Rows
      BY <1>2, <2>4, <3>1
    <3>3. f[k + 1] = Row(nx, f[k])
      BY <2>2, <3>2
    <3>4. QED BY <1>1, <3>2, <3>3
  <2>5. T = Nat
    <3>1. T \subseteq Nat
      OBVIOUS
    <3> HIDE DEF T
    <3>2. QED BY <2>3, <2>4, <3>1, SetInduction
  <2>6. \A k \in 0 .. K : f[k] \in Rows
    BY <1>2, <2>5
  <2>7. ASSUME NEW k \in 1 .. K PROVE f[k] = step[f[k - 1]]
    <3>1. f[k - 1] \in Rows
      BY <1>5, <2>6
    <3>2. QED BY <2>2, <3>1
  <2>8. f = [k \in 0 .. K |-> f[k]]
    BY <1>7
  <2>9. QED BY <2>1, <2>6, <2>7, <2>8 DEF IsOrbit
<1> DEFINE h == CHOOSE f : f = Body(f)
<1>8. h = Body(h)
  BY <1>3, <1>6
<1>9. WalkIn(nx) = h[K]
  BY DEF WalkIn, Places
<1>10. QED BY <1>7, <1>8, <1>9

-----------------------------------------------------------------------------
(* Ranks: every link goes down.                                             *)
Ranked(nx, r) ==
  /\ r \in [Places -> Nat]
  /\ \A n \in All : r[nx[n].to] < r[n]

(* What holds of null, and of each node when it holds of its successor,     *)
(* holds everywhere.                                                        *)
LEMMA RankInduction ==
  ASSUME NEW nx \in [All -> Links], NEW r, Ranked(nx, r),
         NEW S, S \subseteq Places, Null \in S,
         \A n \in All : nx[n].to \in S => n \in S
  PROVE  S = Places
<1> DEFINE T == {k \in Nat : \A n \in Places : r[n] <= k => n \in S}
<1>1. ASSUME NEW n \in All
      PROVE  nx[n].to \in Places /\ r[n] \in Nat /\ r[nx[n].to] \in Nat /\ r[nx[n].to] < r[n]
  BY ItemType DEF Ranked, Places
<1>2. 0 \in T
  <2>1. ASSUME NEW n \in Places, r[n] <= 0 PROVE n \in S
    BY <1>1, <2>1 DEF Places
  <2>2. QED BY <2>1
<1>3. ASSUME NEW k \in T PROVE k + 1 \in T
  <2>1. ASSUME NEW n \in Places, r[n] <= k + 1 PROVE n \in S
    <3>1. CASE n = Null
      BY <3>1
    <3>2. CASE n \in All
      <4>1. r[nx[n].to] <= k
        BY <1>1, <2>1, <3>2
      <4>2. nx[n].to \in S
        BY <1>1, <3>2, <4>1
      <4>3. QED BY <3>2, <4>2
    <3>3. QED BY <3>1, <3>2 DEF Places
  <2>2. QED BY <2>1
<1>4. T = Nat
  <2>1. T \subseteq Nat
    OBVIOUS
  <2> HIDE DEF T
  <2>2. QED BY <1>2, <1>3, <2>1, SetInduction
<1>5. ASSUME NEW n \in Places PROVE n \in S
  <2>1. r[n] \in Nat
    BY DEF Ranked
  <2>2. r[n] \in T
    BY <1>4, <2>1
  <2>3. QED BY <2>1, <2>2
<1>6. QED BY <1>5

(* Going down, as many steps as there are nodes lead to null.               *)
LEMMA WalkEnds ==
  ASSUME NEW nx \in [All -> Links], NEW r, Ranked(nx, r),
         NEW K, K = Cardinality(All), NEW f,
         IsOrbit(f, K, Rows, NoRow, [g \in Rows |-> Row(nx, g)])
  PROVE  \A n \in Places : f[K][n].end = Null
<1> DEFINE S(k) == {n \in Places : f[k][n].end # Null}
<1>1. K \in Nat /\ IsFiniteSet(All) /\ Null \notin All
  BY AllFinite
<1>2. S(0) = All
  BY <1>1 DEF IsOrbit, NoRow, Places
<1>3. ASSUME NEW k \in 0 .. K, k + 1 \in 0 .. K
      PROVE  S(k + 1) = {n \in All : nx[n].to \in S(k)}
  <2>1. k + 1 \in 1 .. K /\ (k + 1) - 1 = k
    BY <1>1, <1>3
  <2>2. f[k] \in Rows /\ f[k + 1] = Row(nx, f[k])
    BY <2>1 DEF IsOrbit
  <2>3. f[k + 1][Null].end = Null
    BY <2>2 DEF Row, Places
  <2>4. ASSUME NEW n \in All
        PROVE  f[k + 1][n].end = f[k][nx[n].to].end /\ n \in Places /\ nx[n].to \in Places
    <3>1. n \in Places /\ n # Null /\ nx[n].to \in Places
      BY <1>1, ItemType DEF Places
    <3>2. Row(nx, f[k])[n].end = f[k][nx[n].to].end
      BY <3>1 DEF Row
    <3>3. QED BY <2>2, <3>1, <3>2
  <2>5. QED BY <2>3, <2>4 DEF Places
<1>4. ASSUME NEW k \in 0 .. K, k + 1 \in 0 .. K
      PROVE  S(k + 1) \subseteq S(k)
  <2> DEFINE T == {j \in Nat : j + 1 \in 0 .. K => S(j + 1) \subseteq S(j)}
  <2>1. 0 \in T
    <3>1. ASSUME 0 + 1 \in 0 .. K PROVE S(0 + 1) \subseteq S(0)
      <4>1. 0 \in 0 .. K
        BY <1>1
      <4>2. QED BY <1>2, <1>3, <3>1, <4>1
    <3>2. QED BY <3>1
  <2>2. ASSUME NEW j \in T PROVE j + 1 \in T
    <3>1. SUFFICES ASSUME (j + 1) + 1 \in 0 .. K PROVE S((j + 1) + 1) \subseteq S(j + 1)
      OBVIOUS
    <3>2. j \in 0 .. K /\ j + 1 \in 0 .. K
      BY <1>1, <3>1
    <3>3. S(j + 1) \subseteq S(j)
      BY <3>2
    <3>4. S(j + 1) = {n \in All : nx[n].to \in S(j)}
      BY <1>3, <3>2
    <3>5. S((j + 1) + 1) = {n \in All : nx[n].to \in S(j + 1)}
      BY <1>3, <3>1, <3>2
    <3>6. QED BY <3>3, <3>4, <3>5
  <2>3. T = Nat
    <3>1. T \subseteq Nat
      OBVIOUS
    <3> HIDE DEF T
    <3>2. QED BY <2>1, <2>2, <3>1, SetInduction
  <2>4. k \in Nat /\ (k \in T => (k + 1 \in 0 .. K => S(k + 1) \subseteq S(k)))
    BY <1>1
  <2>5. k \in T
    <3> HIDE DEF T
    <3>1. QED BY <2>3, <2>4
  <2>6. QED BY <1>4, <2>4, <2>5
<1>5. ASSUME NEW k \in 0 .. K, k + 1 \in 0 .. K, S(k + 1) = S(k)
      PROVE  S(k) = {}
  <2> DEFINE Q == Places \ S(k)
  <2>1. Null \notin S(k + 1)
    BY <1>1, <1>3, <1>5
  <2>2. Q \subseteq Places /\ Null \in Q
    BY <1>5, <2>1 DEF Places
  <2>3. ASSUME NEW n \in All, nx[n].to \in Q PROVE n \in Q
    BY <1>3, <1>5, <2>3 DEF Places
  <2>4. Q = Places
    <3> HIDE DEF Q
    <3>1. QED BY <2>2, <2>3, RankInduction
  <2>5. QED BY <2>4
<1>6. ASSUME NEW k \in 0 .. K
      PROVE  IsFiniteSet(S(k)) /\ Cardinality(S(k)) \in Nat /\ Cardinality(S(k)) <= K - k
  <2> DEFINE T == {j \in Nat : j \in 0 .. K =>
                     IsFiniteSet(S(j)) /\ Cardinality(S(j)) \in Nat /\ Cardinality(S(j)) <= K - j}
  <2>1. 0 \in T
    <3>1. IsFiniteSet(S(0)) /\ Cardinality(S(0)) = K
      <4> HIDE DEF S
      <4>1. QED BY <1>1, <1>2
    <3> HIDE DEF S
    <3>2. QED BY <1>1, <3>1
  <2>2. ASSUME NEW j \in T PROVE j + 1 \in T
    <3>1. SUFFICES ASSUME j + 1 \in 0 .. K
                   PROVE  /\ IsFiniteSet(S(j + 1)) /\ Cardinality(S(j + 1)) \in Nat
                          /\ Cardinality(S(j + 1)) <= K - (j + 1)
      OBVIOUS
    <3>2. j \in 0 .. K
      BY <1>1, <3>1
    <3>3. IsFiniteSet(S(j)) /\ Cardinality(S(j)) \in Nat /\ Cardinality(S(j)) <= K - j
      BY <3>2
    <3>4. S(j + 1) \subseteq S(j) /\ (S(j + 1) = S(j) => S(j) = {})
      BY <1>4, <1>5, <3>1, <3>2
    <3> HIDE DEF S
    <3>5. /\ IsFiniteSet(S(j + 1)) /\ Cardinality(S(j + 1)) \in Nat
          /\ Cardinality(S(j + 1)) <= Cardinality(S(j))
          /\ Cardinality(S(j + 1)) = Cardinality(S(j)) => S(j + 1) = S(j)
      BY <3>3, <3>4, FS_Subset, FS_CardinalityType
    <3>6. S(j) = {} => Cardinality(S(j)) = 0
      BY FS_EmptySet
    <3>7. QED BY <1>1, <3>1, <3>2, <3>3, <3>4, <3>5, <3>6
  <2>3. T = Nat
    <3>1. T \subseteq Nat
      OBVIOUS
    <3> HIDE DEF T
    <3>2. QED BY <2>1, <2>2, <3>1, SetInduction
  <2>4. k \in T
    BY <1>1, <2>3
  <2>5. QED BY <2>4
<1>7. S(K) = {}
  <2>1. K \in 0 .. K
    BY <1>1
  <2>2. IsFiniteSet(S(K)) /\ Cardinality(S(K)) = 0
    <3> HIDE DEF S
    <3>1. QED BY <1>1, <1>6, <2>1
  <2> HIDE DEF S
  <2>3. QED BY <2>2, FS_EmptySet
<1>8. QED BY <1>7

(* The equations of the walk                                                *)
IsWalk(nx, W) ==
  /\ W \in Rows
  /\ W[Null] = [live |-> <<>>, end |-> Null]
  /\ \A n \in All : /\ W[n].live = Item(nx, n) \o W[nx[n].to].live
                    /\ W[n].end = W[nx[n].to].end

(* When links lead down in rank, the walk has what its equations say, and it *)
(* ends at Null from everywhere.                                            *)
LEMMA WalkEquations ==
  ASSUME NEW nx \in [All -> Links], NEW r, Ranked(nx, r)
  PROVE  /\ IsWalk(nx, WalkIn(nx))
         /\ \A n \in Places : WalkIn(nx)[n].end = Null
<1> DEFINE K == Cardinality(All)
           step == [g \in Rows |-> Row(nx, g)]
<1>1. PICK f : IsOrbit(f, K, Rows, NoRow, step) /\ WalkIn(nx) = f[K]
  BY WalkIsOrbit
<1>2. K \in Nat \ {0} /\ K - 1 \in 0 .. K /\ K \in 0 .. K /\ Null \notin All
  BY AllFinite
<1>3. \A n \in Places : f[K][n].end = Null
  BY <1>1, WalkEnds
<1>4. ASSUME NEW k \in 0 .. K PROVE f[k] \in Rows
  BY <1>1 DEF IsOrbit
<1>5. ASSUME NEW k \in 0 .. K, k + 1 \in 0 .. K PROVE f[k + 1] = Row(nx, f[k])
  <2>1. k + 1 \in 1 .. K /\ (k + 1) - 1 = k
    BY <1>2, <1>5
  <2>2. QED BY <1>1, <1>4, <2>1 DEF IsOrbit
<1>6. ASSUME NEW k \in 0 .. K PROVE f[k][Null] = [live |-> <<>>, end |-> Null]
  <2>1. CASE k = 0
    BY <1>1, <2>1 DEF IsOrbit, NoRow, Places
  <2>2. CASE k # 0
    <3>1. k - 1 \in 0 .. K /\ (k - 1) + 1 = k
      BY <1>2, <2>2
    <3>2. f[k] = Row(nx, f[k - 1])
      BY <1>5, <3>1
    <3>3. QED BY <3>2 DEF Row, Places
  <2>3. QED BY <2>1, <2>2
<1>7. ASSUME NEW k \in 0 .. K, k + 1 \in 0 .. K, NEW n \in All
      PROVE  /\ f[k + 1][n] = [live |-> Item(nx, n) \o f[k][nx[n].to].live, end |-> f[k][nx[n].to].end]
             /\ nx[n].to \in Places
  <2>1. n \in Places /\ n # Null
    BY <1>2 DEF Places
  <2>2. f[k + 1] = Row(nx, f[k])
    BY <1>5, <1>7
  <2>3. QED BY <2>1, <2>2, ItemType DEF Row
<1> DEFINE Settled(k) == \A n \in Places : f[k][n].end = Null => f[k + 1][n] = f[k][n]
           T == {k \in Nat : k + 1 \in 0 .. K => Settled(k)}
<1>8. 0 \in T
  <2>1. ASSUME 0 + 1 \in 0 .. K, NEW n \in Places, f[0][n].end = Null PROVE f[0 + 1][n] = f[0][n]
    <3>1. n = Null
      BY <1>1, <2>1 DEF IsOrbit, NoRow
    <3>2. 0 \in 0 .. K
      BY <1>2
    <3>3. QED BY <1>6, <2>1, <3>1, <3>2
  <2>2. QED BY <2>1
<1>9. ASSUME NEW k \in T PROVE k + 1 \in T
  <2>1. ASSUME (k + 1) + 1 \in 0 .. K, NEW n \in Places, f[k + 1][n].end = Null
        PROVE  f[(k + 1) + 1][n] = f[k + 1][n]
    <3>1. k \in 0 .. K /\ k + 1 \in 0 .. K
      BY <1>2, <2>1
    <3>2. CASE n = Null
      BY <1>6, <2>1, <3>1, <3>2
    <3>3. CASE n \in All
      <4>1. /\ f[k + 1][n] = [live |-> Item(nx, n) \o f[k][nx[n].to].live, end |-> f[k][nx[n].to].end]
            /\ nx[n].to \in Places
        BY <1>7, <3>1, <3>3
      <4>2. f[(k + 1) + 1][n] = [live |-> Item(nx, n) \o f[k + 1][nx[n].to].live,
                                 end |-> f[k + 1][nx[n].to].end]
        BY <1>7, <2>1, <3>1, <3>3
      <4>3. f[k][nx[n].to].end = Null
        BY <2>1, <4>1
      <4>4. f[k + 1][nx[n].to] = f[k][nx[n].to]
        BY <1>9, <3>1, <4>1, <4>3
      <4>5. QED BY <4>1, <4>2, <4>4
    <3>4. QED BY <3>2, <3>3 DEF Places
  <2>2. QED BY <2>1
<1>10. T = Nat
  <2>1. T \subseteq Nat
    OBVIOUS
  <2> HIDE DEF T
  <2>2. QED BY <1>8, <1>9, <2>1, SetInduction
<1>11. Settled(K - 1) /\ (K - 1) + 1 = K
  <2>1. K - 1 \in T /\ (K - 1) + 1 \in 0 .. K /\ (K - 1) + 1 = K
    <3> HIDE DEF T
    <3>1. QED BY <1>2, <1>10
  <2>2. QED BY <2>1
<1>12. ASSUME NEW n \in All
       PROVE  /\ f[K][n].live = Item(nx, n) \o f[K][nx[n].to].live
              /\ f[K][n].end = f[K][nx[n].to].end
  <2> DEFINE m == nx[n].to
  <2>1. /\ f[K][n] = [live |-> Item(nx, n) \o f[K - 1][m].live, end |-> f[K - 1][m].end]
        /\ m \in Places /\ n \in Places
    <3>1. K - 1 \in 0 .. K /\ (K - 1) + 1 \in 0 .. K /\ (K - 1) + 1 = K
      BY <1>2
    <3>2. QED BY <1>7, <3>1 DEF Places
  <2>2. f[K - 1][m].end = Null
    BY <1>3, <2>1
  <2>3. f[K][m] = f[K - 1][m]
    BY <1>11, <2>1, <2>2
  <2>4. QED BY <2>1, <2>3
<1>13. f[K] \in Rows /\ f[K][Null] = [live |-> <<>>, end |-> Null]
  BY <1>2, <1>4, <1>6
<1>14. QED BY <1>1, <1>3, <1>12, <1>13 DEF IsWalk

-----------------------------------------------------------------------------
(* The nodes that are found from a place: Live, for any links               *)
Rest(nx, n) == WalkIn(nx)[n].live

(* The nodes found from a place are its own, unless it is erased, and those *)
(* found from its successor.                                                *)
LEMMA RestEquations ==
  ASSUME NEW nx \in [All -> Links], NEW r, Ranked(nx, r)
  PROVE  /\ Rest(nx, Null) = <<>>
         /\ \A n \in Places : Rest(nx, n) \in Seq(All)
         /\ \A n \in All : Rest(nx, n) = Item(nx, n) \o Rest(nx, nx[n].to)
<1>1. IsWalk(nx, WalkIn(nx))
  BY WalkEquations
<1> DEFINE W == WalkIn(nx)
<1> HIDE DEF W
<1>2. /\ W \in Rows
      /\ W[Null] = [live |-> <<>>, end |-> Null]
      /\ \A n \in All : W[n].live = Item(nx, n) \o W[nx[n].to].live
  BY <1>1 DEF IsWalk, W
<1>3. W[Null].live = <<>> /\ \A n \in Places : W[n].live \in Seq(All)
  BY <1>2 DEF Rows
<1>4. QED BY <1>2, <1>3 DEF Rest, W

(* They are not erased, and where the links stay inside a set, of that set. *)
LEMMA RestElements ==
  ASSUME NEW nx \in [All -> Links], NEW r, Ranked(nx, r),
         NEW Q, Q \subseteq All, \A n \in Q : nx[n].to \in Q \cup {Null}
  PROVE  \A n \in Q \cup {Null} : \A i \in 1 .. Len(Rest(nx, n)) :
           /\ Rest(nx, n)[i] \in Q /\ ~nx[Rest(nx, n)[i]].mark
           /\ r[Rest(nx, n)[i]] <= r[n]
<1> DEFINE Good(n) == \A i \in 1 .. Len(Rest(nx, n)) :
                        /\ Rest(nx, n)[i] \in Q /\ ~nx[Rest(nx, n)[i]].mark
                        /\ r[Rest(nx, n)[i]] <= r[n]
           S == {n \in Places : n \in Q \cup {Null} => Good(n)}
<1>1. Null \in S
  <2>1. Rest(nx, Null) = <<>>
    BY RestEquations
  <2>2. QED BY <2>1 DEF Places
<1>2. ASSUME NEW n \in All, nx[n].to \in S PROVE n \in S
  <2> DEFINE m == nx[n].to
             s == Rest(nx, n)
             u == Rest(nx, m)
  <2>1. SUFFICES ASSUME n \in Q, NEW i \in 1 .. Len(s)
                 PROVE  s[i] \in Q /\ ~nx[s[i]].mark /\ r[s[i]] <= r[n]
    BY AllFinite DEF Places
  <2>2. /\ m \in Q \cup {Null} /\ m \in Places /\ s = Item(nx, n) \o u
        /\ u \in Seq(All) /\ Item(nx, n) \in Seq(All)
    BY <2>1, ItemType, RestEquations DEF Places
  <2>3. r[n] \in Nat /\ r[m] \in Nat /\ r[m] < r[n]
    BY <2>2 DEF Ranked, Places
  <2>4. ASSUME NEW j \in 1 .. Len(u) PROVE u[j] \in Q /\ ~nx[u[j]].mark /\ r[u[j]] <= r[n]
    <3>1. u[j] \in Q /\ ~nx[u[j]].mark /\ r[u[j]] <= r[m]
      BY <1>2, <2>2
    <3>2. r[u[j]] \in Nat
      BY <3>1 DEF Ranked, Places
    <3>3. QED BY <2>3, <3>1, <3>2
  <2>5. CASE nx[n].mark
    <3>1. s = u
      BY <2>2, <2>5 DEF Item
    <3>2. QED BY <2>1, <2>4, <3>1
  <2>6. CASE ~nx[n].mark
    <3> HIDE DEF s, u
    <3>1. s = <<n>> \o u
      BY <2>2, <2>6 DEF Item
    <3>2. s[i] = n \/ (i - 1 \in 1 .. Len(u) /\ s[i] = u[i - 1])
      BY <2>1, <2>2, <3>1
    <3>3. QED BY <2>1, <2>3, <2>4, <2>6, <3>2
  <2>7. QED BY <2>5, <2>6
<1>3. S = Places
  <2> HIDE DEF Good
  <2>1. S \subseteq Places
    OBVIOUS
  <2> HIDE DEF S
  <2>2. QED BY <1>1, <1>2, <2>1, RankInduction
<1>4. Q \cup {Null} \subseteq Places
  BY DEF Places
<1>5. QED BY <1>3, <1>4

(* Links that agree where a walk may go lead to the same nodes.             *)
LEMMA RestAgree ==
  ASSUME NEW nx \in [All -> Links], NEW r, Ranked(nx, r),
         NEW nx2 \in [All -> Links], NEW r2, Ranked(nx2, r2),
         NEW Q, Q \subseteq All, \A n \in Q : nx[n].to \in Q \cup {Null},
         \A n \in Q : nx2[n] = nx[n]
  PROVE  \A n \in Q \cup {Null} : Rest(nx2, n) = Rest(nx, n)
<1> DEFINE S == {n \in Places : n \in Q \cup {Null} => Rest(nx2, n) = Rest(nx, n)}
<1>1. Null \in S
  BY RestEquations DEF Places
<1>2. ASSUME NEW n \in All, nx[n].to \in S PROVE n \in S
  <2>1. SUFFICES ASSUME n \in Q PROVE Rest(nx2, n) = Rest(nx, n)
    BY AllFinite DEF Places
  <2>2. Rest(nx, n) = Item(nx, n) \o Rest(nx, nx[n].to)
    BY RestEquations
  <2>3. Rest(nx2, n) = Item(nx2, n) \o Rest(nx2, nx2[n].to)
    BY RestEquations
  <2>4. nx2[n] = nx[n] /\ Rest(nx2, nx[n].to) = Rest(nx, nx[n].to)
    BY <1>2, <2>1
  <2>5. QED BY <2>2, <2>3, <2>4 DEF Item
<1>3. S = Places
  <2>1. S \subseteq Places
    OBVIOUS
  <2> HIDE DEF S
  <2>2. QED BY <1>1, <1>2, <2>1, RankInduction
<1>4. Q \cup {Null} \subseteq Places
  BY DEF Places
<1>5. QED BY <1>3, <1>4

-----------------------------------------------------------------------------
(* The chain of the nodes that the dummy head reaches                       *)
Chained(nx, C, r) ==
  /\ C \subseteq All /\ Dummy \in C
  /\ \A n \in C : nx[n].to \in C \cup {Null} /\ r[n] <= r[Dummy]
  /\ \A n \in C \ {Dummy} : \E m \in C : nx[m].to = n
  /\ \A m, n \in C : nx[m].to = nx[n].to /\ nx[m].to # Null => m = n

SamePrefix(nx, nx2, r, a) ==
  \E pre \in Seq(All) :
    /\ Rest(nx, Dummy) = pre \o Rest(nx, a)
    /\ Rest(nx2, Dummy) = pre \o Rest(nx2, a)
    /\ \A i \in 1 .. Len(pre) : r[a] < r[pre[i]]

(* What is before a node of the chain in the list: nodes of higher ranks,   *)
(* and no others when links change that are not before it.                  *)
LEMMA Above ==
  ASSUME NEW nx \in [All -> Links], NEW r, Ranked(nx, r), NEW C, Chained(nx, C, r),
         NEW nx2 \in [All -> Links], NEW r2, Ranked(nx2, r2),
         NEW a \in C, \A n \in C : r[a] < r[n] => nx2[n] = nx[n]
  PROVE  SamePrefix(nx, nx2, r, a)
<1> DEFINE Pre(c) == SamePrefix(nx, nx2, r, c)
           T == {k \in Nat : \A c \in C : r[Dummy] <= r[c] + k /\ r[a] <= r[c] => Pre(c)}
<1>1. ASSUME NEW n \in C PROVE n \in All /\ n \in Places /\ r[n] \in Nat /\ r[n] <= r[Dummy]
  BY DEF Chained, Ranked, Places
<1>2. Dummy \in C /\ Dummy \in All /\ r[Dummy] \in Nat /\ r[a] \in Nat
  BY <1>1 DEF Chained
<1>3. ASSUME NEW c \in C, c # Dummy
      PROVE  \E m \in C : nx[m].to = c /\ r[c] < r[m]
  <2>1. PICK m \in C : nx[m].to = c
    BY <1>3 DEF Chained
  <2>2. r[c] < r[m]
    BY <1>1, <2>1 DEF Ranked
  <2>3. QED BY <2>1, <2>2
<1>4. Pre(Dummy)
  <2>1. Rest(nx, Dummy) \in Seq(All) /\ Rest(nx2, Dummy) \in Seq(All)
    BY <1>2, RestEquations DEF Places
  <2>2. <<>> \in Seq(All) /\ Len(<<>>) = 0
    OBVIOUS
  <2>3. Rest(nx, Dummy) = <<>> \o Rest(nx, Dummy) /\ Rest(nx2, Dummy) = <<>> \o Rest(nx2, Dummy)
    BY <2>1
  <2>4. \A i \in 1 .. Len(<<>>) : r[Dummy] < r[<<>>[i]]
    BY <2>2
  <2>5. QED BY <2>2, <2>3, <2>4 DEF SamePrefix
<1>5. ASSUME NEW c \in C, NEW m \in C, nx[m].to = c, r[c] < r[m], r[a] <= r[c], Pre(m)
      PROVE  Pre(c)
  <2>1. PICK pre \in Seq(All) :
          /\ Rest(nx, Dummy) = pre \o Rest(nx, m)
          /\ Rest(nx2, Dummy) = pre \o Rest(nx2, m)
          /\ \A i \in 1 .. Len(pre) : r[m] < r[pre[i]]
    BY <1>5 DEF SamePrefix
  <2>2. r[c] \in Nat /\ r[m] \in Nat /\ m \in All /\ c \in Places
    BY <1>1
  <2>3. nx2[m] = nx[m]
    BY <1>2, <1>5, <2>2
  <2>4. Rest(nx, m) = Item(nx, m) \o Rest(nx, c) /\ Rest(nx, c) \in Seq(All)
    BY <1>5, <2>2, RestEquations
  <2>5. Rest(nx2, m) = Item(nx, m) \o Rest(nx2, c) /\ Rest(nx2, c) \in Seq(All)
    BY <1>5, <2>2, <2>3, RestEquations DEF Item
  <2>6. Item(nx, m) \in Seq(All)
    BY <2>2, ItemType
  <2> DEFINE q == pre \o Item(nx, m)
  <2>7. q \in Seq(All) /\ Len(q) = Len(pre) + Len(Item(nx, m))
    BY <2>6
  <2>8. Rest(nx, Dummy) = q \o Rest(nx, c)
    <3>1. q \o Rest(nx, c) = pre \o (Item(nx, m) \o Rest(nx, c))
      BY <2>4, <2>6, ConcatAssociative
    <3>2. QED BY <2>1, <2>4, <3>1
  <2>9. Rest(nx2, Dummy) = q \o Rest(nx2, c)
    <3>1. q \o Rest(nx2, c) = pre \o (Item(nx, m) \o Rest(nx2, c))
      BY <2>5, <2>6, ConcatAssociative
    <3>2. QED BY <2>1, <2>5, <3>1
  <2>10. ASSUME NEW i \in 1 .. Len(q) PROVE r[c] < r[q[i]]
    <3>1. CASE i <= Len(pre)
      <4>1. q[i] = pre[i] /\ i \in 1 .. Len(pre)
        BY <2>6, <3>1
      <4>2. r[m] < r[pre[i]] /\ pre[i] \in All
        BY <2>1, <4>1
      <4>3. r[pre[i]] \in Nat
        BY <4>2 DEF Ranked, Places
      <4>4. QED BY <1>5, <2>2, <4>1, <4>2, <4>3
    <3>2. CASE i > Len(pre)
      <4>1. q[i] = Item(nx, m)[i - Len(pre)] /\ i - Len(pre) \in 1 .. Len(Item(nx, m))
        BY <2>6, <3>2
      <4>2. Item(nx, m)[i - Len(pre)] = m
        BY <4>1 DEF Item
      <4>3. QED BY <1>5, <4>1, <4>2
    <3>3. QED BY <3>1, <3>2
  <2> HIDE DEF q
  <2>11. QED BY <2>7, <2>8, <2>9, <2>10 DEF SamePrefix
<1> HIDE DEF Pre
<1>6. 0 \in T
  <2>1. ASSUME NEW c \in C, r[Dummy] <= r[c] + 0 PROVE c = Dummy
    BY <1>1, <1>2, <1>3, <2>1
  <2>2. QED BY <1>4, <2>1
<1>7. ASSUME NEW k \in T PROVE k + 1 \in T
  <2>1. ASSUME NEW c \in C, r[Dummy] <= r[c] + (k + 1), r[a] <= r[c] PROVE Pre(c)
    <3>1. CASE c = Dummy
      BY <1>4, <3>1
    <3>2. CASE c # Dummy
      <4>1. PICK m \in C : nx[m].to = c /\ r[c] < r[m]
        BY <1>3, <3>2
      <4>2. r[m] \in Nat /\ r[c] \in Nat /\ r[Dummy] <= r[m] + k /\ r[a] <= r[m]
        BY <1>1, <1>2, <2>1, <4>1
      <4>3. Pre(m)
        BY <4>2
      <4>4. QED BY <1>5, <2>1, <4>1, <4>3
    <3>3. QED BY <3>1, <3>2
  <2>2. QED BY <2>1
<1>8. T = Nat
  <2>1. T \subseteq Nat
    OBVIOUS
  <2> HIDE DEF T
  <2>2. QED BY <1>6, <1>7, <2>1, SetInduction
<1>9. Pre(a)
  <2>1. r[Dummy] \in T
    <3> HIDE DEF T
    <3>1. QED BY <1>2, <1>8
  <2>2. r[Dummy] <= r[a] + r[Dummy] /\ r[a] <= r[a]
    BY <1>2
  <2>3. QED BY <2>1, <2>2
<1>10. QED BY <1>9 DEF Pre

(* The link of a is now v.                                                  *)
Relinked(nx, nx2, a, v) ==
  /\ nx2 \in [All -> Links]
  /\ nx2[a] = v
  /\ \A n \in All : n # a => nx2[n] = nx[n]

(* An assignment to the link of a node relinks it.                          *)
LEMMA ExceptRelinks ==
  ASSUME NEW nx \in [All -> Links], NEW a \in All, NEW v \in Links
  PROVE  Relinked(nx, [nx EXCEPT ![a] = v], a, v)
BY DEF Relinked

SplicedAt(nx, nx2, r, a, v) ==
  \E pre \in Seq(All) :
    /\ Rest(nx, Dummy) = pre \o (Item(nx, a) \o Rest(nx, nx[a].to))
    /\ Rest(nx2, Dummy) = pre \o ((IF v.mark THEN <<>> ELSE <<a>>) \o Rest(nx2, v.to))
    /\ \A i \in 1 .. Len(pre) : r[a] < r[pre[i]]

(* One link of the chain changes: the list before it stays, and so do the   *)
(* nodes that are found from below.                                         *)
LEMMA Splice ==
  ASSUME NEW nx \in [All -> Links], NEW r, Ranked(nx, r), NEW C, Chained(nx, C, r),
         NEW a \in C, NEW v \in Links, NEW r2,
         NEW nx2, Relinked(nx, nx2, a, v), Ranked(nx2, r2)
  PROVE  /\ SplicedAt(nx, nx2, r, a, v)
         /\ \A n \in Places : r[n] < r[a] => Rest(nx2, n) = Rest(nx, n)
<1> DEFINE Q == {n \in All : r[n] < r[a]}
<1>1. a \in All /\ r[a] \in Nat
  BY DEF Chained, Ranked, Places
<1>2. nx2 \in [All -> Links] /\ nx2[a] = v /\ \A n \in All : n # a => nx2[n] = nx[n]
  BY DEF Relinked
<1>3. \A n \in C : r[a] < r[n] => nx2[n] = nx[n]
  BY <1>1, <1>2 DEF Chained
<1>4. SamePrefix(nx, nx2, r, a)
  BY <1>2, <1>3, Above
<1>5. Rest(nx, a) = Item(nx, a) \o Rest(nx, nx[a].to)
  BY <1>1, RestEquations
<1>6. Rest(nx2, a) = (IF v.mark THEN <<>> ELSE <<a>>) \o Rest(nx2, v.to)
  BY <1>1, <1>2, RestEquations DEF Item
<1>7. ASSUME NEW n \in Places, r[n] < r[a] PROVE Rest(nx2, n) = Rest(nx, n)
  <2>1. ASSUME NEW m \in Q PROVE nx[m].to \in Q \cup {Null} /\ nx2[m] = nx[m]
    <3>1. nx[m].to \in Places /\ r[m] \in Nat /\ r[nx[m].to] \in Nat /\ r[nx[m].to] < r[m]
      BY ItemType DEF Ranked, Places
    <3>2. QED BY <1>1, <1>2, <3>1 DEF Places
  <2>2. n \in Q \cup {Null} /\ Q \subseteq All
    BY <1>7 DEF Places
  <2> HIDE DEF Q
  <2>3. QED BY <1>2, <2>1, <2>2, RestAgree
<1>8. SplicedAt(nx, nx2, r, a, v)
  BY <1>4, <1>5, <1>6 DEF SplicedAt, SamePrefix
<1>9. QED BY <1>7, <1>8

-----------------------------------------------------------------------------
(* The shape of the list: A are the nodes that were ever linked, C those    *)
(* that the head reaches.  Nodes that are not erased are reached; without   *)
(* marks, nothing is known of the others.                                   *)
Targets(A) == (A \ {Dummy}) \cup {Null}

Linked(mk, nx, A, C) ==
  /\ C \subseteq A /\ A \subseteq All
  /\ \A n \in All : /\ nx[n].to \in Targets(A)
                    /\ nx[n].mark => mk /\ n \in A \ {Dummy}
  /\ mk => \A n \in A : ~nx[n].mark => n \in C

(* The links of some state                                                  *)
Lists(mk, nx, A, C, r) ==
  /\ nx \in [All -> Links]
  /\ Ranked(nx, r) /\ Chained(nx, C, r) /\ Linked(mk, nx, A, C)

(* What the shape of the list says of ranks and links                       *)
LEMMA ListsTypes ==
  ASSUME NEW mk, NEW nx, NEW A, NEW C, NEW r, Lists(mk, nx, A, C, r)
  PROVE  /\ nx \in [All -> Links] /\ Ranked(nx, r) /\ Chained(nx, C, r)
         /\ C \subseteq A /\ A \subseteq All /\ Dummy \in C
         /\ Null \notin All /\ Null \in Places
         /\ \A n \in Places : r[n] \in Nat
         /\ \A n \in All : /\ nx[n] \in Links /\ nx[n].to \in A \cup {Null} /\ nx[n].to # Dummy
                           /\ n \in Places /\ nx[n].to \in Places
                           /\ nx[n].mark \in BOOLEAN /\ r[nx[n].to] < r[n]
         /\ \A n \in A \cup {Null} : n \in Places
<1>1. /\ nx \in [All -> Links] /\ Ranked(nx, r) /\ Chained(nx, C, r)
      /\ C \subseteq A /\ A \subseteq All /\ Dummy \in C /\ Null \notin All
  BY AllFinite DEF Lists, Linked, Chained
<1>2. /\ \A n \in Places : r[n] \in Nat
      /\ \A n \in All : r[nx[n].to] < r[n]
  BY <1>1 DEF Ranked
<1>3. ASSUME NEW n \in All
      PROVE  /\ nx[n] \in Links /\ nx[n].to \in A \cup {Null} /\ nx[n].to # Dummy
             /\ n \in Places /\ nx[n].to \in Places /\ nx[n].mark \in BOOLEAN
  <2>1. nx[n] \in Links /\ nx[n].to \in Targets(A)
    BY <1>1 DEF Lists, Linked
  <2>2. QED BY <1>1, <2>1 DEF Links, Targets, Places, All
<1>4. QED BY <1>1, <1>2, <1>3 DEF Places

Raised(r, a, x) == [r EXCEPT ![x] = r[a]]

(* A node that was never linked gets the link of another, and its rank.     *)
LEMMA Preparing ==
  ASSUME NEW mk, NEW nx, NEW A, NEW C, NEW r, Lists(mk, nx, A, C, r),
         NEW a \in A, ~nx[a].mark, NEW x \in All \ A,
         NEW nx2, Relinked(nx, nx2, x, nx[a])
  PROVE  /\ Lists(mk, nx2, A, C, Raised(r, a, x))
         /\ \A n \in A \cup {Null} : Rest(nx2, n) = Rest(nx, n)
<1> DEFINE r2 == Raised(r, a, x)
<1>1. /\ nx \in [All -> Links] /\ Ranked(nx, r) /\ Chained(nx, C, r)
      /\ C \subseteq A /\ A \subseteq All /\ Dummy \in C /\ Null \notin All /\ Null \in Places
      /\ \A n \in Places : r[n] \in Nat
      /\ \A n \in All : /\ nx[n] \in Links /\ nx[n].to \in A \cup {Null} /\ nx[n].to # Dummy
                        /\ n \in Places /\ nx[n].to \in Places
                        /\ nx[n].mark \in BOOLEAN /\ r[nx[n].to] < r[n]
  BY ListsTypes
<1>2. nx2 \in [All -> Links] /\ nx2[x] = nx[a] /\ \A n \in All : n # x => nx2[n] = nx[n]
  BY DEF Relinked
<1>3. r2 \in [Places -> Nat] /\ r2[x] = r[a] /\ \A n \in Places : n # x => r2[n] = r[n]
  BY <1>1 DEF Ranked, Raised
<1> HIDE DEF r2
<1>4. \A n \in A \cup {Null} : n # x /\ n \in Places
  BY <1>1 DEF Places
<1>5. Ranked(nx2, r2)
  <2>1. ASSUME NEW n \in All PROVE r2[nx2[n].to] < r2[n]
    <3>1. CASE n = x
      BY <1>1, <1>2, <1>3, <1>4, <3>1
    <3>2. CASE n # x
      BY <1>1, <1>2, <1>3, <1>4, <3>2
    <3>3. QED BY <3>1, <3>2
  <2>2. QED BY <1>3, <2>1 DEF Ranked
<1>6. Chained(nx2, C, r2)
  <2>1. \A n \in C : nx2[n] = nx[n] /\ r2[n] = r[n]
    BY <1>1, <1>2, <1>3, <1>4
  <2>2. QED BY <1>1, <2>1 DEF Chained
<1>7. Linked(mk, nx2, A, C)
  <2>1. ASSUME NEW n \in All
        PROVE  nx2[n].to \in Targets(A) /\ (nx2[n].mark => mk /\ n \in A \ {Dummy})
    <3>1. CASE n = x
      BY <1>1, <1>2, <3>1 DEF Lists, Linked
    <3>2. CASE n # x
      BY <1>1, <1>2, <3>2 DEF Lists, Linked
    <3>3. QED BY <3>1, <3>2
  <2>2. \A n \in A : nx2[n] = nx[n]
    BY <1>1, <1>2, <1>4
  <2>3. mk => \A n \in A : ~nx2[n].mark => n \in C
    BY <2>2 DEF Lists, Linked
  <2>4. QED BY <1>1, <2>1, <2>3 DEF Linked
<1>8. \A n \in A \cup {Null} : Rest(nx2, n) = Rest(nx, n)
  <2>1. \A n \in A : nx2[n] = nx[n] /\ nx[n].to \in A \cup {Null}
    BY <1>1, <1>2, <1>4
  <2>2. QED BY <1>1, <1>2, <1>5, <2>1, RestAgree
<1>9. QED BY <1>2, <1>5, <1>6, <1>7, <1>8 DEF Lists, r2

(* A node x that was never linked, with the link of a, is linked after a.   *)
Shifted(r, a, x) == [n \in Places |-> IF n = x THEN 2 * r[a] - 1 ELSE 2 * r[n]]

(* The shape then has one more node, below a and above what followed.       *)
LEMMA Linking ==
  ASSUME NEW mk, NEW nx, NEW A, NEW C, NEW r, Lists(mk, nx, A, C, r),
         NEW a \in C, ~nx[a].mark, NEW x \in Nodes \ A, nx[x] = nx[a],
         NEW nx2, Relinked(nx, nx2, a, To(x))
  PROVE  Lists(mk, nx2, A \cup {x}, C \cup {x}, Shifted(r, a, x))
<1> DEFINE r2 == Shifted(r, a, x)
           C2 == C \cup {x}
           A2 == A \cup {x}
<1>1. /\ nx \in [All -> Links] /\ Ranked(nx, r) /\ Chained(nx, C, r)
      /\ C \subseteq A /\ A \subseteq All /\ Dummy \in C /\ Null \notin All /\ Null \in Places
      /\ \A n \in Places : r[n] \in Nat
      /\ \A n \in All : /\ nx[n] \in Links /\ nx[n].to \in A \cup {Null} /\ nx[n].to # Dummy
                        /\ n \in Places /\ nx[n].to \in Places
                        /\ nx[n].mark \in BOOLEAN /\ r[nx[n].to] < r[n]
  BY ListsTypes
<1>2. x \in All /\ x # a /\ x # Dummy /\ a \in All /\ x # Null /\ x \in Places
  BY <1>1, LockFreeListAssumption DEF All, Places
<1>3. To(x) \in Links /\ To(x).to = x /\ To(x).mark = FALSE
  BY DEF To, Links
<1>4. nx2 \in [All -> Links] /\ nx2[a] = To(x) /\ \A n \in All : n # a => nx2[n] = nx[n]
  BY DEF Relinked
<1>5. r[a] > 0
  BY <1>1, <1>2
<1>6. r2 \in [Places -> Nat] /\ r2[x] = 2 * r[a] - 1 /\ \A n \in Places : n # x => r2[n] = 2 * r[n]
  <2>1. \A n \in Places : (IF n = x THEN 2 * r[a] - 1 ELSE 2 * r[n]) \in Nat
    BY <1>1, <1>2, <1>5
  <2>2. QED BY <1>2, <2>1 DEF Shifted
<1> HIDE DEF r2
<1>7. \A n \in A \cup {Null} : n # x /\ n \in Places
  BY <1>1, <1>2 DEF Places
<1>8. Ranked(nx2, r2)
  <2>1. ASSUME NEW n \in All PROVE r2[nx2[n].to] < r2[n]
    <3>1. CASE n = x
      BY <1>1, <1>2, <1>4, <1>6, <1>7, <3>1
    <3>2. CASE n = a
      BY <1>1, <1>2, <1>3, <1>4, <1>6, <1>7, <3>2
    <3>3. CASE n # x /\ n # a
      BY <1>1, <1>4, <1>6, <1>7, <3>3
    <3>4. QED BY <3>1, <3>2, <3>3
  <2>2. QED BY <1>6, <2>1 DEF Ranked
<1>9. Chained(nx2, C2, r2)
  <2>1. /\ \A n \in C : nx[n].to \in C \cup {Null} /\ r[n] <= r[Dummy]
        /\ \A n \in C \ {Dummy} : \E m \in C : nx[m].to = n
        /\ \A m, n \in C : nx[m].to = nx[n].to /\ nx[m].to # Null => m = n
    BY <1>1 DEF Chained
  <2>2. \A n \in C : n \in A /\ n # x /\ n \in All /\ nx[n].to # x
    BY <1>1, <1>7
  <2>3. C2 \subseteq All /\ Dummy \in C2
    BY <1>1, <1>2
  <2>4. \A n \in C2 : nx2[n].to \in C2 \cup {Null}
    BY <1>2, <1>3, <1>4, <2>1, <2>2
  <2>5. ASSUME NEW n \in C2 PROVE r2[n] <= r2[Dummy]
    <3>1. r2[Dummy] = 2 * r[Dummy] /\ r[Dummy] \in Nat /\ r[a] <= r[Dummy] /\ r[a] \in Nat
      BY <1>1, <1>2, <1>6, <1>7, <2>1
    <3>2. CASE n = x
      BY <1>6, <3>1, <3>2
    <3>3. CASE n \in C
      BY <1>1, <1>6, <2>1, <2>2, <3>1, <3>3
    <3>4. QED BY <3>2, <3>3
  <2>6. ASSUME NEW n \in C2 \ {Dummy} PROVE \E m \in C2 : nx2[m].to = n
    <3>1. CASE n = x
      BY <1>3, <1>4, <3>1
    <3>2. CASE n # x
      <4>1. PICK m \in C : nx[m].to = n
        BY <2>1, <3>2
      <4>2. CASE m = a
        <5>1. nx2[x].to = n
          BY <1>2, <1>4, <4>1, <4>2
        <5>2. QED BY <5>1
      <4>3. CASE m # a
        BY <1>4, <2>2, <4>1, <4>3
      <4>4. QED BY <4>2, <4>3
    <3>3. QED BY <3>1, <3>2
  <2>7. ASSUME NEW m \in C2, NEW n \in C2, nx2[m].to = nx2[n].to, nx2[m].to # Null
        PROVE  m = n
    <3>1. nx2[x].to = nx[a].to /\ nx2[a].to = x
      BY <1>2, <1>3, <1>4
    <3>2. \A k \in C : k # a => nx2[k].to = nx[k].to /\ nx2[k].to # x
      BY <1>4, <2>2
    <3>3. nx[a].to # x
      BY <2>2
    <3> HIDE DEF C2
    <3>4. \A k \in C2 : k \in C \/ k = x
      BY DEF C2
    <3>5. QED BY <2>1, <2>7, <3>1, <3>2, <3>3, <3>4
  <2>8. QED BY <2>3, <2>4, <2>5, <2>6, <2>7 DEF Chained
<1>10. Linked(mk, nx2, A2, C2)
  <2>1. ASSUME NEW n \in All
        PROVE  nx2[n].to \in Targets(A2) /\ (nx2[n].mark => mk /\ n \in A2 \ {Dummy})
    <3>1. nx[n].to \in Targets(A) /\ (nx[n].mark => mk /\ n \in A \ {Dummy})
      BY DEF Lists, Linked
    <3>2. CASE n = a
      BY <1>2, <1>3, <1>4, <3>2 DEF Targets
    <3>3. CASE n # a
      BY <1>4, <3>1, <3>3 DEF Targets
    <3>4. QED BY <3>2, <3>3
  <2>2. mk => \A n \in A2 : ~nx2[n].mark => n \in C2
    <3>1. mk => \A n \in A : ~nx[n].mark => n \in C
      BY DEF Lists, Linked
    <3>2. \A n \in A : n \in All
      BY <1>1
    <3>3. QED BY <1>4, <3>1, <3>2
  <2>3. QED BY <1>1, <1>2, <2>1, <2>2 DEF Linked
<1>11. QED BY <1>4, <1>8, <1>9, <1>10 DEF Lists, r2

(* A node is marked.                                                        *)
LEMMA Marking ==
  ASSUME NEW nx, NEW A, NEW C, NEW r, Lists(TRUE, nx, A, C, r),
         NEW n \in A \ {Dummy}, NEW nx2, Relinked(nx, nx2, n, Marked(nx[n]))
  PROVE  Lists(TRUE, nx2, A, C, r)
<1>1. /\ nx \in [All -> Links] /\ Ranked(nx, r) /\ Chained(nx, C, r)
      /\ C \subseteq A /\ A \subseteq All /\ nx[n] \in Links
  BY ListsTypes
<1>2. nx2 \in [All -> Links] /\ nx2[n] = Marked(nx[n]) /\ \A m \in All : m # n => nx2[m] = nx[m]
  BY DEF Relinked
<1>3. \A m \in All : nx2[m].to = nx[m].to
  BY <1>1, <1>2 DEF Links, Marked
<1>4. Ranked(nx2, r)
  BY <1>1, <1>3 DEF Ranked
<1>5. Chained(nx2, C, r)
  <2>1. \A m \in C : nx2[m].to = nx[m].to
    BY <1>1, <1>3
  <2>2. QED BY <1>1, <2>1 DEF Chained
<1>6. Linked(TRUE, nx2, A, C)
  <2>1. \A m \in All : nx2[m].mark => m \in A \ {Dummy}
    BY <1>2 DEF Lists, Linked
  <2>2. \A m \in A : ~nx2[m].mark => m \in C
    <3>1. nx2[n].mark
      BY <1>1, <1>2 DEF Marked, Links
    <3>2. QED BY <1>1, <1>2, <3>1 DEF Lists, Linked
  <2>3. QED BY <1>1, <1>3, <2>1, <2>2 DEF Lists, Linked
<1>7. QED BY <1>2, <1>4, <1>5, <1>6 DEF Lists

(* The node n after a is unlinked: with marks, it is marked.                *)
LEMMA Unlinking ==
  ASSUME NEW mk, NEW nx, NEW A, NEW C, NEW r, Lists(mk, nx, A, C, r),
         NEW a \in C, NEW n \in A \ {Dummy}, nx[a].to = n, mk => nx[n].mark,
         NEW v \in Links, v.to = nx[n].to, ~v.mark,
         NEW nx2, Relinked(nx, nx2, a, v)
  PROVE  Lists(mk, nx2, A, C \ {n}, r) /\ n \in C
<1> DEFINE C2 == C \ {n}
<1>1. /\ nx \in [All -> Links] /\ Ranked(nx, r) /\ Chained(nx, C, r)
      /\ C \subseteq A /\ A \subseteq All /\ Dummy \in C /\ Null \notin All /\ Null \in Places
      /\ \A m \in Places : r[m] \in Nat
      /\ \A m \in All : /\ nx[m] \in Links /\ nx[m].to \in A \cup {Null} /\ nx[m].to # Dummy
                        /\ m \in Places /\ nx[m].to \in Places
                        /\ nx[m].mark \in BOOLEAN /\ r[nx[m].to] < r[m]
  BY ListsTypes
<1>2. a \in All /\ n \in All /\ n # Null /\ n # a
  BY <1>1
<1>3. nx2 \in [All -> Links] /\ nx2[a] = v /\ \A m \in All : m # a => nx2[m] = nx[m]
  BY DEF Relinked
<1>4. /\ \A m \in C : nx[m].to \in C \cup {Null} /\ r[m] <= r[Dummy]
      /\ \A m \in C \ {Dummy} : \E k \in C : nx[k].to = m
      /\ \A m, k \in C : nx[m].to = nx[k].to /\ nx[m].to # Null => m = k
  BY <1>1 DEF Chained
<1>5. n \in C
  BY <1>2, <1>4
<1>6. Ranked(nx2, r)
  <2>1. ASSUME NEW m \in All PROVE r[nx2[m].to] < r[m]
    <3>1. CASE m = a
      BY <1>1, <1>2, <1>3, <3>1
    <3>2. CASE m # a
      BY <1>1, <1>3, <3>2
    <3>3. QED BY <3>1, <3>2
  <2>2. QED BY <1>1, <2>1 DEF Ranked
<1>7. Chained(nx2, C2, r)
  <2>1. C2 \subseteq All /\ Dummy \in C2 /\ \A m \in C2 : m \in C /\ m # n /\ r[m] <= r[Dummy]
    BY <1>1, <1>4
  <2>2. ASSUME NEW m \in C2 PROVE nx2[m].to \in C2 \cup {Null}
    <3>1. CASE m = a
      <4>1. nx[n].to # n
        BY <1>1, <1>2
      <4>2. QED BY <1>3, <1>4, <1>5, <3>1, <4>1
    <3>2. CASE m # a
      <4>1. nx[m].to # n
        BY <1>2, <1>4, <2>1, <3>2
      <4>2. QED BY <1>1, <1>3, <1>4, <2>1, <3>2, <4>1
    <3>3. QED BY <3>1, <3>2
  <2>3. ASSUME NEW m \in C2 \ {Dummy} PROVE \E k \in C2 : nx2[k].to = m
    <3>1. PICK k \in C : nx[k].to = m
      BY <1>4, <2>1
    <3>2. a \in C2
      BY <1>2
    <3>3. CASE k = n
      BY <1>3, <3>1, <3>2, <3>3
    <3>4. CASE k # n
      <4>1. k # a /\ k \in All /\ k \in C2
        BY <1>1, <2>1, <3>1, <3>4
      <4>2. QED BY <1>3, <3>1, <4>1
    <3>5. QED BY <3>3, <3>4
  <2>4. ASSUME NEW m \in C2, NEW k \in C2, nx2[m].to = nx2[k].to, nx2[m].to # Null
        PROVE  m = k
    <3>1. nx2[a].to = nx[n].to
      BY <1>3
    <3>2. \A j \in C2 : j # a => nx2[j].to = nx[j].to
      BY <1>1, <1>3, <2>1
    <3>3. QED BY <1>4, <1>5, <2>1, <2>4, <3>1, <3>2
  <2> HIDE DEF C2
  <2>5. QED BY <2>1, <2>2, <2>3, <2>4 DEF Chained
<1>8. Linked(mk, nx2, A, C2)
  <2>1. ASSUME NEW m \in All
        PROVE  nx2[m].to \in Targets(A) /\ (nx2[m].mark => mk /\ m \in A \ {Dummy})
    <3>1. \A k \in All : nx[k].to \in Targets(A) /\ (nx[k].mark => mk /\ k \in A \ {Dummy})
      BY DEF Lists, Linked
    <3>2. CASE m = a
      BY <1>2, <1>3, <3>1, <3>2
    <3>3. CASE m # a
      BY <1>3, <3>1, <3>3
    <3>4. QED BY <3>2, <3>3
  <2>2. mk => \A m \in A : ~nx2[m].mark => m \in C2
    <3>1. mk => \A m \in A : ~nx[m].mark => m \in C
      BY DEF Lists, Linked
    <3>2. \A m \in A : m \in All /\ (m # a => nx2[m] = nx[m])
      BY <1>1, <1>3
    <3>3. QED BY <1>2, <1>3, <3>1, <3>2
  <2>3. QED BY <1>1, <2>1, <2>2 DEF Linked
<1>9. QED BY <1>3, <1>5, <1>6, <1>7, <1>8 DEF Lists

-----------------------------------------------------------------------------
(* The list around one of its elements                                      *)
Join(pre, a, rest) == pre \o (<<a>> \o rest)

Joined(s, pre, a, rest) ==
  /\ s \in Seq(All) /\ Len(s) = Len(pre) + 1 + Len(rest)
  /\ Len(pre) \in Nat /\ Len(rest) \in Nat
  /\ \A i \in 1 .. Len(pre) : s[i] = pre[i]
  /\ s[Len(pre) + 1] = a
  /\ \A i \in Len(pre) + 2 .. Len(s) :
       i - (Len(pre) + 1) \in 1 .. Len(rest) /\ s[i] = rest[i - (Len(pre) + 1)]

(* Join puts the three pieces behind one another.                           *)
LEMMA JoinJoins ==
  ASSUME NEW pre \in Seq(All), NEW a \in All, NEW rest \in Seq(All)
  PROVE  Joined(Join(pre, a, rest), pre, a, rest)
<1> DEFINE u == <<a>> \o rest
           s == pre \o u
<1>1. /\ u \in Seq(All) /\ Len(u) = 1 + Len(rest) /\ u[1] = a
      /\ \A i \in 2 .. Len(u) : i - 1 \in 1 .. Len(rest) /\ u[i] = rest[i - 1]
  OBVIOUS
<1> HIDE DEF u
<1>2. /\ s \in Seq(All) /\ Len(s) = Len(pre) + Len(u)
      /\ \A i \in 1 .. Len(pre) : s[i] = pre[i]
      /\ \A i \in Len(pre) + 1 .. Len(s) : s[i] = u[i - Len(pre)]
  <2>1. /\ s \in Seq(All) /\ Len(s) = Len(pre) + Len(u)
        /\ \A i \in 1 .. Len(pre) + Len(u) :
             s[i] = IF i <= Len(pre) THEN pre[i] ELSE u[i - Len(pre)]
    BY <1>1, ConcatProperties
  <2>2. Len(pre) \in Nat /\ Len(u) \in Nat
    BY <1>1
  <2> HIDE DEF s
  <2>3. \A i \in 1 .. Len(pre) : i \in 1 .. Len(pre) + Len(u) /\ i <= Len(pre)
    BY <2>2
  <2>4. \A i \in Len(pre) + 1 .. Len(s) : i \in 1 .. Len(pre) + Len(u) /\ ~(i <= Len(pre))
    BY <2>1, <2>2
  <2>5. QED BY <2>1, <2>3, <2>4
<1>3. Len(pre) \in Nat /\ Len(rest) \in Nat
  OBVIOUS
<1> HIDE DEF s
<1>4. ASSUME NEW i \in Len(pre) + 2 .. Len(s)
      PROVE  i - (Len(pre) + 1) \in 1 .. Len(rest) /\ s[i] = rest[i - (Len(pre) + 1)]
  <2>1. i - Len(pre) \in 2 .. Len(u) /\ i \in Len(pre) + 1 .. Len(s)
        /\ (i - Len(pre)) - 1 = i - (Len(pre) + 1)
    BY <1>1, <1>2, <1>3
  <2>2. QED BY <1>1, <1>2, <2>1
<1>5. s[Len(pre) + 1] = a
  <2>1. Len(pre) + 1 \in Len(pre) + 1 .. Len(s) /\ (Len(pre) + 1) - Len(pre) = 1
    BY <1>1, <1>2, <1>3
  <2>2. QED BY <1>1, <1>2, <2>1
<1>6. Joined(s, pre, a, rest)
  BY <1>1, <1>2, <1>3, <1>4, <1>5 DEF Joined
<1>7. QED BY <1>6 DEF s, u, Join

(* An insertion behind the middle piece, by position                        *)
LEMMA InsertAround ==
  ASSUME NEW pre \in Seq(All), NEW a \in All, NEW rest \in Seq(All), NEW x \in All
  PROVE  InsertAt(Join(pre, a, rest), Len(pre) + 2, x) = Join(pre, a, <<x>> \o rest)
<1> DEFINE s == Join(pre, a, rest)
           m == Len(pre)
           p == SubSeq(s, 1, m + 1)
           q == SubSeq(s, m + 2, Len(s))
<1>1. /\ s \in Seq(All) /\ Len(s) = m + 1 + Len(rest) /\ m \in Nat /\ Len(rest) \in Nat
      /\ \A i \in 1 .. m : s[i] = pre[i]
      /\ s[m + 1] = a
      /\ \A i \in m + 2 .. Len(s) :
           i - (m + 1) \in 1 .. Len(rest) /\ s[i] = rest[i - (m + 1)]
  <2>1. Joined(s, pre, a, rest)
    BY JoinJoins
  <2> HIDE DEF s
  <2>2. QED BY <2>1 DEF Joined
<1> HIDE DEF s
<1>2. p = pre \o <<a>>
  <2>1. p \in Seq(All) /\ Len(p) = m + 1 /\ \A i \in 1 .. m + 1 : p[i] = s[i]
    BY <1>1
  <2> DEFINE w == pre \o <<a>>
  <2>2. w \in Seq(All) /\ Len(w) = m + 1 /\ w[m + 1] = a /\ \A i \in 1 .. m : w[i] = pre[i]
    BY <1>1
  <2> HIDE DEF p, w
  <2>3. ASSUME NEW i \in 1 .. m + 1 PROVE p[i] = w[i]
    <3>1. i = m + 1 \/ i \in 1 .. m
      <4>1. m \in Nat
        BY <1>1
      <4> HIDE DEF m
      <4>2. QED BY <4>1
    <3>2. CASE i = m + 1
      BY <1>1, <2>1, <2>2, <3>2
    <3>3. CASE i \in 1 .. m
      BY <1>1, <2>1, <2>2, <3>3
    <3>4. QED BY <3>1, <3>2, <3>3
  <2>4. p = w
    BY <2>1, <2>2, <2>3, SeqEqual
  <2>5. QED BY <2>4 DEF w
<1>3. q = rest
  <2>1. q \in Seq(All) /\ Len(q) = Len(rest) /\ \A i \in 1 .. Len(rest) : q[i] = s[m + 1 + i]
    BY <1>1
  <2> HIDE DEF q
  <2>2. ASSUME NEW i \in 1 .. Len(rest) PROVE q[i] = rest[i]
    <3>1. m + 1 + i \in m + 2 .. Len(s) /\ (m + 1 + i) - (m + 1) = i
      BY <1>1
    <3>2. QED BY <1>1, <2>1, <3>1
  <2>3. QED BY <2>1, <2>2, SeqEqual
<1>4. InsertAt(s, m + 2, x) = p \o <<x>> \o q
  <2>1. (m + 2) - 1 = m + 1
    BY <1>1
  <2>2. QED BY <2>1 DEF InsertAt
<1> DEFINE y == <<x>>
           b == <<a>>
<1>5. y \in Seq(All) /\ b \in Seq(All) /\ y \o rest \in Seq(All)
  OBVIOUS
<1>6. ((pre \o b) \o y) \o rest = pre \o (b \o (y \o rest))
  <2>1. pre \o b \in Seq(All)
    BY <1>5
  <2> DEFINE c == pre \o b
             d == y \o rest
  <2>2. (c \o y) \o rest = c \o (y \o rest)
    <3> HIDE DEF y, c
    <3>1. QED BY <1>5, <2>1, ConcatAssociative
  <2>3. (pre \o b) \o d = pre \o (b \o d)
    <3> HIDE DEF b, d
    <3>1. QED BY <1>5, ConcatAssociative
  <2> HIDE DEF y, b
  <2>4. QED BY <2>2, <2>3
<1>7. QED BY <1>2, <1>3, <1>4, <1>6 DEF s, Join

(* The middle piece is removed.                                             *)
LEMMA RemoveAround ==
  ASSUME NEW pre \in Seq(All), NEW a \in All, NEW rest \in Seq(All)
  PROVE  RemoveAt(Join(pre, a, rest), Len(pre) + 1) = pre \o rest
<1> DEFINE s == Join(pre, a, rest)
           m == Len(pre)
           p == SubSeq(s, 1, m)
           q == SubSeq(s, m + 2, Len(s))
<1>1. /\ s \in Seq(All) /\ Len(s) = m + 1 + Len(rest) /\ m \in Nat /\ Len(rest) \in Nat
      /\ \A i \in 1 .. m : s[i] = pre[i]
      /\ s[m + 1] = a
      /\ \A i \in m + 2 .. Len(s) :
           i - (m + 1) \in 1 .. Len(rest) /\ s[i] = rest[i - (m + 1)]
  <2>1. Joined(s, pre, a, rest)
    BY JoinJoins
  <2> HIDE DEF s
  <2>2. QED BY <2>1 DEF Joined
<1> HIDE DEF s
<1>2. p = pre
  <2>1. p \in Seq(All) /\ Len(p) = m /\ \A i \in 1 .. m : p[i] = s[i]
    BY <1>1
  <2> HIDE DEF p
  <2>2. QED BY <1>1, <2>1, SeqEqual
<1>3. q = rest
  <2>1. q \in Seq(All) /\ Len(q) = Len(rest) /\ \A i \in 1 .. Len(rest) : q[i] = s[m + 1 + i]
    BY <1>1
  <2> HIDE DEF q
  <2>2. ASSUME NEW i \in 1 .. Len(rest) PROVE q[i] = rest[i]
    <3>1. m + 1 + i \in m + 2 .. Len(s) /\ (m + 1 + i) - (m + 1) = i
      BY <1>1
    <3>2. QED BY <1>1, <2>1, <3>1
  <2>3. QED BY <2>1, <2>2, SeqEqual
<1>4. (m + 1) - 1 = m /\ (m + 1) + 1 = m + 2
  BY <1>1
<1>5. RemoveAt(s, m + 1) = p \o q
  BY <1>4 DEF RemoveAt
<1>6. QED BY <1>2, <1>3, <1>5 DEF s

(* A node that the head reaches and that is not erased is in the list.      *)
LEMMA Around ==
  ASSUME NEW mk, NEW nx, NEW A, NEW C, NEW r, Lists(mk, nx, A, C, r),
         NEW a \in C, ~nx[a].mark
  PROVE  \E pre \in Seq(All) :
           /\ Rest(nx, Dummy) = Join(pre, a, Rest(nx, nx[a].to))
           /\ Rest(nx, nx[a].to) \in Seq(All)
           /\ \A i \in 1 .. Len(pre) : r[a] < r[pre[i]]
           /\ \A i \in 1 .. Len(Rest(nx, nx[a].to)) : r[Rest(nx, nx[a].to)[i]] < r[a]
<1>1. /\ nx \in [All -> Links] /\ Ranked(nx, r) /\ Chained(nx, C, r)
      /\ a \in All /\ nx[a].to \in A \cup {Null} /\ A \subseteq All
      /\ \A n \in Places : r[n] \in Nat
      /\ nx[a].to \in Places /\ r[nx[a].to] < r[a] /\ a \in Places
  BY ListsTypes
<1>2. SamePrefix(nx, nx, r, a)
  BY <1>1, Above
<1>3. PICK pre \in Seq(All) :
        /\ Rest(nx, Dummy) = pre \o Rest(nx, a)
        /\ \A i \in 1 .. Len(pre) : r[a] < r[pre[i]]
  BY <1>2 DEF SamePrefix
<1>4. Rest(nx, a) = <<a>> \o Rest(nx, nx[a].to) /\ Rest(nx, nx[a].to) \in Seq(All)
  BY <1>1, RestEquations DEF Item
<1>5. ASSUME NEW i \in 1 .. Len(Rest(nx, nx[a].to)) PROVE r[Rest(nx, nx[a].to)[i]] < r[a]
  <2>1. \A n \in All : nx[n].to \in All \cup {Null}
    BY ListsTypes
  <2>2. r[Rest(nx, nx[a].to)[i]] <= r[nx[a].to] /\ Rest(nx, nx[a].to)[i] \in All
    BY <1>1, <2>1, RestElements
  <2>3. r[Rest(nx, nx[a].to)[i]] \in Nat
    BY <1>1, <2>2 DEF Places
  <2>4. QED BY <1>1, <2>2, <2>3
<1>6. QED BY <1>3, <1>4, <1>5 DEF Join

(* A node has one place in a list: before it ranks are higher, behind it    *)
(* lower.                                                                   *)
PlaceOf(s, a) == CHOOSE i \in DOMAIN s : s[i] = a

Between(r, pre, a, rest) ==
  /\ r \in [Places -> Nat] /\ pre \in Seq(All) /\ a \in All /\ rest \in Seq(All)
  /\ \A i \in 1 .. Len(pre) : r[a] < r[pre[i]]
  /\ \A i \in 1 .. Len(rest) : r[rest[i]] < r[a]

PlacedAfter(r, s, pre, a) ==
  /\ PlaceOf(s, a) = Len(pre) + 1
  /\ a \in ToSet(s)
  /\ \A i \in DOMAIN s : r[a] < r[s[i]] => i < Len(pre) + 1

(* The place is where the list was joined.                                  *)
LEMMA Place ==
  ASSUME NEW r, NEW pre, NEW a, NEW rest, Between(r, pre, a, rest)
  PROVE  PlacedAfter(r, Join(pre, a, rest), pre, a)
<1> DEFINE s == Join(pre, a, rest)
<1>1. /\ r \in [Places -> Nat] /\ pre \in Seq(All) /\ a \in All /\ rest \in Seq(All)
      /\ \A i \in 1 .. Len(pre) : r[a] < r[pre[i]]
      /\ \A i \in 1 .. Len(rest) : r[rest[i]] < r[a]
  BY DEF Between
<1>2. /\ s \in Seq(All) /\ Len(s) = Len(pre) + 1 + Len(rest)
      /\ Len(pre) \in Nat /\ Len(rest) \in Nat
      /\ \A i \in 1 .. Len(pre) : s[i] = pre[i]
      /\ s[Len(pre) + 1] = a
      /\ \A i \in Len(pre) + 2 .. Len(s) :
           i - (Len(pre) + 1) \in 1 .. Len(rest) /\ s[i] = rest[i - (Len(pre) + 1)]
  <2>1. Joined(s, pre, a, rest)
    BY <1>1, JoinJoins
  <2> HIDE DEF s
  <2>2. QED BY <2>1 DEF Joined
<1> HIDE DEF s
<1>3. DOMAIN s = 1 .. Len(s) /\ Len(pre) + 1 \in 1 .. Len(s) /\ r[a] \in Nat
  BY <1>1, <1>2 DEF Places
<1>4. ASSUME NEW i \in DOMAIN s
      PROVE  /\ i < Len(pre) + 1 => r[a] < r[s[i]]
             /\ i = Len(pre) + 1 => s[i] = a
             /\ i > Len(pre) + 1 => r[s[i]] < r[a]
             /\ r[s[i]] \in Nat /\ i \in Nat
  <2>1. i \in 1 .. Len(s) /\ s[i] \in All
    BY <1>2, <1>3
  <2>2. r[s[i]] \in Nat
    BY <1>1, <2>1 DEF Places
  <2>3. ASSUME i < Len(pre) + 1 PROVE r[a] < r[s[i]]
    <3>1. i \in 1 .. Len(pre)
      BY <1>2, <2>1, <2>3
    <3>2. QED BY <1>1, <1>2, <3>1
  <2>4. ASSUME i > Len(pre) + 1 PROVE r[s[i]] < r[a]
    <3>1. i \in Len(pre) + 2 .. Len(s)
      BY <1>2, <2>1, <2>4
    <3>2. QED BY <1>1, <1>2, <3>1
  <2>5. QED BY <1>2, <2>1, <2>2, <2>3, <2>4
<1>5. ASSUME NEW i \in DOMAIN s PROVE s[i] = a <=> i = Len(pre) + 1
  <2> DEFINE k == Len(pre)
             q == r[s[i]]
  <2>1. /\ i < k + 1 => r[a] < q
        /\ i = k + 1 => s[i] = a
        /\ i > k + 1 => q < r[a]
        /\ q \in Nat /\ i \in Nat /\ r[a] \in Nat /\ k \in Nat
        /\ s[i] = a => q = r[a]
    BY <1>2, <1>3, <1>4
  <2> HIDE DEF k, q
  <2>2. s[i] = a <=> i = k + 1
    BY <2>1
  <2>3. QED BY <2>2 DEF k
<1>6. PlaceOf(s, a) = Len(pre) + 1
  BY <1>3, <1>5 DEF PlaceOf
<1>7. a \in ToSet(s)
  BY <1>2, <1>3 DEF ToSet
<1>8. ASSUME NEW i \in DOMAIN s, r[a] < r[s[i]] PROVE i < Len(pre) + 1
  <2> DEFINE k == Len(pre)
             q == r[s[i]]
  <2>1. /\ i = k + 1 => q = r[a]
        /\ i > k + 1 => q < r[a]
        /\ q \in Nat /\ i \in Nat /\ r[a] \in Nat /\ k \in Nat
    BY <1>2, <1>3, <1>4
  <2>2. r[a] < q
    BY <1>8
  <2> HIDE DEF k, q
  <2>3. i < k + 1
    BY <2>1, <2>2
  <2>4. QED BY <2>3 DEF k
<1>9. QED BY <1>6, <1>7, <1>8 DEF s, PlacedAfter

(* An insertion right after it                                              *)
InsertedAfter(s, a, x, result) == a \in ToSet(s) /\ InsertAt(s, PlaceOf(s, a) + 1, x) = result

(* It puts the new node in front of what followed.                          *)
LEMMA InsertAfter ==
  ASSUME NEW r, NEW pre, NEW a, NEW rest, NEW x \in All, Between(r, pre, a, rest)
  PROVE  InsertedAfter(Join(pre, a, rest), a, x, Join(pre, a, <<x>> \o rest))
<1> DEFINE s == Join(pre, a, rest)
<1>1. PlacedAfter(r, s, pre, a)
  BY Place
<1>2. PlaceOf(s, a) = Len(pre) + 1 /\ a \in ToSet(s)
  BY <1>1 DEF PlacedAfter
<1>3. pre \in Seq(All) /\ a \in All /\ rest \in Seq(All) /\ Len(pre) \in Nat
  BY DEF Between
<1>4. (Len(pre) + 1) + 1 = Len(pre) + 2
  BY <1>3
<1>5. InsertAt(s, Len(pre) + 2, x) = Join(pre, a, <<x>> \o rest)
  BY <1>3, InsertAround
<1> HIDE DEF s
<1>6. InsertAt(s, PlaceOf(s, a) + 1, x) = Join(pre, a, <<x>> \o rest)
  BY <1>2, <1>4, <1>5
<1>7. QED BY <1>2, <1>6 DEF InsertedAfter, s

-----------------------------------------------------------------------------
(* What the steps do to the list                                            *)

(* The new node comes right after the anchor.                               *)
LEMMA LinkInserts ==
  ASSUME NEW mk, NEW nx, NEW A, NEW C, NEW r, Lists(mk, nx, A, C, r),
         NEW a \in C, ~nx[a].mark, NEW x \in Nodes \ A, nx[x] = nx[a],
         NEW nx2, Relinked(nx, nx2, a, To(x))
  PROVE  LET list == Rest(nx, Dummy) IN
           /\ a \in ToSet(list) /\ x \notin ToSet(list)
           /\ Rest(nx2, Dummy) = InsertAt(list, PlaceOf(list, a) + 1, x)
<1> DEFINE list == Rest(nx, Dummy)
           rest == Rest(nx, nx[a].to)
           r2 == Shifted(r, a, x)
<1>1. /\ nx \in [All -> Links] /\ Ranked(nx, r) /\ Chained(nx, C, r)
      /\ a \in All /\ nx[a].to \in A \cup {Null} /\ A \subseteq All
      /\ r \in [Places -> Nat]
      /\ nx[a].to \in Places /\ r[nx[a].to] < r[a] /\ a \in Places /\ Dummy \in C
      /\ \A n \in C : nx[n].to \in C \cup {Null}
      /\ C \subseteq A
  BY ListsTypes DEF Ranked, Chained
<1>2. Lists(mk, nx2, A \cup {x}, C \cup {x}, r2)
  BY Linking
<1>3. Ranked(nx2, r2) /\ nx2 \in [All -> Links]
  BY <1>2 DEF Lists
<1>4. To(x) \in Links /\ To(x).to = x /\ To(x).mark = FALSE /\ x \in All /\ x # a
  BY <1>1 DEF To, Links, All
<1>5. SplicedAt(nx, nx2, r, a, To(x)) /\ Rest(nx2, nx[a].to) = rest
  <2> HIDE DEF r2
  <2>1. QED BY <1>1, <1>3, <1>4, Splice
<1>6. Rest(nx2, x) = <<x>> \o rest
  <2>1. x \in Places /\ nx2[x] = nx[a]
    BY <1>1, <1>4 DEF Places, Relinked
  <2>2. Rest(nx2, x) = Item(nx2, x) \o Rest(nx2, nx2[x].to)
    <3> HIDE DEF r2
    <3>1. QED BY <1>3, <1>4, RestEquations
  <2>3. Item(nx2, x) = <<x>>
    BY <2>1 DEF Item
  <2>4. QED BY <1>5, <2>1, <2>2, <2>3
<1>7. rest \in Seq(All) /\ \A i \in 1 .. Len(rest) : r[rest[i]] < r[a]
  BY Around
<1> HIDE DEF r2
<1>8. PICK pre \in Seq(All) :
        /\ list = Join(pre, a, rest)
        /\ Rest(nx2, Dummy) = Join(pre, a, Rest(nx2, x))
        /\ \A i \in 1 .. Len(pre) : r[a] < r[pre[i]]
  <2>1. Item(nx, a) = <<a>>
    BY DEF Item
  <2>2. QED BY <1>4, <1>5, <2>1 DEF SplicedAt, Join
<1> HIDE DEF list, rest
<1>9. rest \in Seq(All) /\ list = Join(pre, a, rest)
  BY <1>7, <1>8
<1>10. /\ a \in ToSet(list)
      /\ InsertAt(list, PlaceOf(list, a) + 1, x) = Join(pre, a, <<x>> \o rest)
  <2>1. r \in [Places -> Nat] /\ a \in All /\ x \in All
    BY <1>1, <1>4
  <2>2. \A i \in 1 .. Len(pre) : r[a] < r[pre[i]]
    BY <1>8
  <2>3. \A i \in 1 .. Len(rest) : r[rest[i]] < r[a]
    BY <1>7
  <2>4. rest \in Seq(All) /\ pre \in Seq(All)
    BY <1>9
  <2>5. Between(r, pre, a, rest)
    BY <2>1, <2>2, <2>3, <2>4 DEF Between
  <2>6. InsertedAfter(Join(pre, a, rest), a, x, Join(pre, a, <<x>> \o rest))
    BY <2>1, <2>5, InsertAfter
  <2>7. InsertedAfter(list, a, x, Join(pre, a, <<x>> \o rest))
    BY <1>9, <2>6
  <2>8. QED BY <2>7 DEF InsertedAfter
<1>11. x \notin ToSet(list)
  <2>1. \A n \in C \cup {Null} : \A i \in 1 .. Len(Rest(nx, n)) : Rest(nx, n)[i] \in C
    BY <1>1, RestElements
  <2>2. list \in Seq(All)
    BY <1>1, RestEquations DEF Places, list
  <2>3. \A i \in 1 .. Len(list) : list[i] \in C
    BY <1>1, <2>1 DEF list
  <2>4. QED BY <1>1, <2>2, <2>3 DEF ToSet
<1>12. Rest(nx2, Dummy) = InsertAt(list, PlaceOf(list, a) + 1, x)
  BY <1>6, <1>10, <1>8
<1>13. QED BY <1>10, <1>11, <1>12 DEF list

(* A removal at an index, after every node of higher rank than n            *)
RemovedBelow(list, list2, r, n) ==
  \E i \in 2 .. Len(list) :
    /\ list2 = RemoveAt(list, i)
    /\ \A j \in DOMAIN list : r[n] < r[list[j]] => j < i

(* Taking out the node in the middle is one.                                *)
LEMMA RemovalIsBelow ==
  ASSUME NEW mk, NEW nx, NEW A, NEW C, NEW r, Lists(mk, nx, A, C, r),
         NEW n \in C \ {Dummy}, ~nx[n].mark, NEW pre \in Seq(All),
         Rest(nx, Dummy) = Join(pre, n, Rest(nx, nx[n].to)),
         \A i \in 1 .. Len(pre) : r[n] < r[pre[i]]
  PROVE  RemovedBelow(Rest(nx, Dummy), pre \o Rest(nx, nx[n].to), r, n)
<1> DEFINE list == Rest(nx, Dummy)
           rest == Rest(nx, nx[n].to)
<1>1. /\ nx \in [All -> Links] /\ Ranked(nx, r) /\ r \in [Places -> Nat]
      /\ n \in All /\ Dummy \in All /\ ~nx[Dummy].mark
  <2>1. nx[Dummy].mark => Dummy \in A \ {Dummy}
    BY ListsTypes DEF Lists, Linked
  <2>2. QED BY <2>1, ListsTypes DEF Ranked
<1>2. rest \in Seq(All) /\ \A i \in 1 .. Len(rest) : r[rest[i]] < r[n]
  BY Around
<1>3. list = <<Dummy>> \o Rest(nx, nx[Dummy].to) /\ Rest(nx, nx[Dummy].to) \in Seq(All)
  <2>1. nx[Dummy].to \in Places
    BY <1>1, ListsTypes
  <2>2. Item(nx, Dummy) = <<Dummy>>
    BY <1>1 DEF Item
  <2>3. QED BY <1>1, <2>1, <2>2, RestEquations
<1> HIDE DEF list, rest
<1>4. list = Join(pre, n, rest)
  BY DEF list, rest
<1>5. /\ Len(list) = Len(pre) + 1 + Len(rest)
      /\ Len(pre) \in Nat /\ Len(rest) \in Nat /\ list[Len(pre) + 1] = n
  <2>1. Joined(list, pre, n, rest)
    BY <1>1, <1>2, <1>4, JoinJoins
  <2>2. QED BY <2>1 DEF Joined
<1>6. \A i \in DOMAIN list : r[n] < r[list[i]] => i < Len(pre) + 1
  <2>1. Between(r, pre, n, rest)
    BY <1>1, <1>2 DEF Between
  <2>2. PlacedAfter(r, list, pre, n)
    BY <1>4, <2>1, Place
  <2>3. QED BY <2>2 DEF PlacedAfter
<1>7. list[1] = Dummy
  BY <1>3
<1>8. Len(pre) + 1 \in 2 .. Len(list)
  BY <1>5, <1>7
<1>9. pre \o rest = RemoveAt(list, Len(pre) + 1)
  BY <1>1, <1>2, <1>4, RemoveAround
<1>10. QED BY <1>6, <1>8, <1>9 DEF RemovedBelow, list, rest

(* The mark takes a node out of the list.                                   *)
LEMMA MarkErases ==
  ASSUME NEW nx, NEW A, NEW C, NEW r, Lists(TRUE, nx, A, C, r),
         NEW n \in A \ {Dummy}, ~nx[n].mark,
         NEW nx2, Relinked(nx, nx2, n, Marked(nx[n]))
  PROVE  RemovedBelow(Rest(nx, Dummy), Rest(nx2, Dummy), r, n)
<1> DEFINE v == Marked(nx[n])
           rest == Rest(nx, nx[n].to)
<1>1. /\ nx \in [All -> Links] /\ Ranked(nx, r) /\ Chained(nx, C, r)
      /\ n \in All /\ nx[n] \in Links /\ n \in C
      /\ nx[n].to \in Places /\ r[nx[n].to] < r[n]
  BY ListsTypes DEF Lists, Linked
<1>2. v \in Links /\ v.mark /\ v.to = nx[n].to
  BY <1>1 DEF Links, Marked
<1>3. Ranked(nx2, r)
  BY Marking DEF Lists
<1> HIDE DEF v
<1>4. SplicedAt(nx, nx2, r, n, v) /\ Rest(nx2, v.to) = rest
  <2>1. Relinked(nx, nx2, n, v)
    BY DEF v
  <2>2. QED BY <1>1, <1>2, <1>3, <2>1, Splice
<1>5. rest \in Seq(All)
  BY <1>1, RestEquations
<1>6. <<>> \o rest = rest
  BY <1>5
<1>7. PICK pre \in Seq(All) :
           /\ Rest(nx, Dummy) = Join(pre, n, rest)
           /\ Rest(nx2, Dummy) = pre \o rest
           /\ \A i \in 1 .. Len(pre) : r[n] < r[pre[i]]
  <2>1. Item(nx, n) = <<n>>
    BY DEF Item
  <2>2. QED BY <1>2, <1>4, <1>6, <2>1 DEF SplicedAt, Join
<1>8. RemovedBelow(Rest(nx, Dummy), pre \o rest, r, n)
  BY <1>1, <1>7, RemovalIsBelow
<1>9. QED BY <1>7, <1>8

(* Unlinking a marked node leaves the list as it is; without marks, it      *)
(* takes the node out of it.                                                *)
LEMMA UnlinkErases ==
  ASSUME NEW mk, NEW nx, NEW A, NEW C, NEW r, Lists(mk, nx, A, C, r),
         NEW a \in C, ~nx[a].mark, NEW n \in A \ {Dummy}, nx[a].to = n, mk => nx[n].mark,
         NEW v \in Links, v.to = nx[n].to, ~v.mark,
         NEW nx2, Relinked(nx, nx2, a, v)
  PROVE  /\ nx[n].mark => Rest(nx2, Dummy) = Rest(nx, Dummy)
         /\ ~nx[n].mark => RemovedBelow(Rest(nx, Dummy), Rest(nx2, Dummy), r, n)
<1> DEFINE rest == Rest(nx, nx[n].to)
<1>1. Lists(mk, nx2, A, C \ {n}, r) /\ n \in C
  BY Unlinking
<1>2. /\ nx \in [All -> Links] /\ Ranked(nx, r) /\ Chained(nx, C, r)
      /\ n \in All /\ a \in All /\ nx[n] \in Links /\ a \in Places /\ n \in Places
      /\ nx[n].to \in Places /\ r[nx[n].to] < r[n] /\ r[n] < r[a]
      /\ \A m \in Places : r[m] \in Nat
  BY <1>1, ListsTypes
<1>3. Ranked(nx2, r)
  BY <1>1 DEF Lists
<1>4. SplicedAt(nx, nx2, r, a, v) /\ Rest(nx2, nx[n].to) = rest
  <2>1. r[nx[n].to] < r[a]
    BY <1>2
  <2>2. QED BY <1>2, <1>3, <2>1, Splice
<1>5. PICK pre \in Seq(All) :
           /\ Rest(nx, Dummy) = Join(pre, a, Rest(nx, n))
           /\ Rest(nx2, Dummy) = Join(pre, a, rest)
           /\ \A i \in 1 .. Len(pre) : r[a] < r[pre[i]]
  <2>1. Item(nx, a) = <<a>>
    BY DEF Item
  <2>2. QED BY <1>4, <2>1 DEF SplicedAt, Join
<1>6. Rest(nx, n) = Item(nx, n) \o rest /\ rest \in Seq(All)
  BY <1>2, RestEquations
<1>7. ASSUME nx[n].mark PROVE Rest(nx2, Dummy) = Rest(nx, Dummy)
  <2>1. Rest(nx, n) = rest
    BY <1>6, <1>7 DEF Item
  <2>2. QED BY <1>5, <2>1
<1>8. ASSUME ~nx[n].mark PROVE RemovedBelow(Rest(nx, Dummy), Rest(nx2, Dummy), r, n)
  <2> DEFINE q == pre \o <<a>>
             b == <<a>>
             c == <<n>> \o rest
  <2>1. Rest(nx, n) = c /\ c \in Seq(All) /\ b \in Seq(All)
    BY <1>2, <1>6, <1>8 DEF Item
  <2>2. q \o c = pre \o (b \o c) /\ q \o rest = pre \o (b \o rest)
    <3>1. pre \in Seq(All) /\ b \in Seq(All) /\ c \in Seq(All) /\ rest \in Seq(All)
      BY <1>6, <2>1
    <3> HIDE DEF b, c, rest
    <3>2. (pre \o b) \o c = pre \o (b \o c)
      BY <3>1, ConcatAssociative
    <3>3. (pre \o b) \o rest = pre \o (b \o rest)
      BY <3>1, ConcatAssociative
    <3>4. QED BY <3>2, <3>3 DEF b
  <2>3. Rest(nx, Dummy) = q \o c /\ Rest(nx2, Dummy) = q \o rest
    <3> HIDE DEF rest, c, q
    <3>1. QED BY <1>5, <2>1, <2>2 DEF Join
  <2>4. ASSUME NEW i \in 1 .. Len(q) PROVE r[n] < r[q[i]]
    <3>1. CASE i = Len(pre) + 1
      BY <1>2, <3>1
    <3>2. CASE i # Len(pre) + 1
      <4>1. i \in 1 .. Len(pre) /\ q[i] = pre[i] /\ pre[i] \in All
        BY <1>2, <3>2
      <4>2. r[a] < r[pre[i]] /\ r[pre[i]] \in Nat /\ r[a] \in Nat /\ r[n] \in Nat
        BY <1>2, <1>5, <4>1 DEF Places
      <4>3. QED BY <1>2, <4>1, <4>2
    <3>3. QED BY <3>1, <3>2
  <2>5. q \in Seq(All)
    BY <1>2
  <2>6. n \in C \ {Dummy}
    BY <1>1
  <2>7. c = <<n>> \o Rest(nx, nx[n].to)
    OBVIOUS
  <2> HIDE DEF q, c
  <2>8. Rest(nx, Dummy) = Join(q, n, Rest(nx, nx[n].to))
    BY <2>3, <2>7 DEF Join
  <2>9. RemovedBelow(Rest(nx, Dummy), q \o Rest(nx, nx[n].to), r, n)
    BY <1>8, <2>4, <2>5, <2>6, <2>8, RemovalIsBelow
  <2>10. QED BY <2>3, <2>9
<1>9. QED BY <1>7, <1>8

-----------------------------------------------------------------------------
(* The inductive invariant                                                  *)

(* Where a thread is in its call                                            *)
CallOf(mk, l, o, a, x) ==
  /\ l = "idle" <=> o = "none"
  /\ o = "insert" <=> x # Null
  /\ l = "load" => o \in {"insert", "erase"}
  /\ l = "link" => o = "insert"
  /\ l \in {"target", "mark"} => o = "erase"
  /\ l = "unlink" => o \in {"erase", "erased"}
  /\ l # "idle" => a # Null
  /\ ~mk /\ l # "idle" => a = Dummy
  /\ l = "mark" \/ o = "erased" => mk

Calling == \A t \in Threads : CallOf(marking, pc[t], op[t], anchor[t], node[t])

(* What a thread knows of the list, at l in its call: its iterator was      *)
(* linked, and so was its target, which is below the iterator.              *)
Holds(mk, nx, A, r, l, a, x, e, f) ==
  /\ a \in A \cup {Null} /\ e.to \in Targets(A)
  /\ l \in {"target", "mark", "unlink"} => e.to # Null /\ r[e.to] < r[a]
  /\ l = "link" => nx[x] = e
  /\ l = "mark" => ~f.mark
  /\ l = "unlink" => f = nx[e.to] /\ (f.mark <=> mk)

(* A node that is being inserted is one thread's only, and not linked.      *)
Owned(A) ==
  /\ A \cap fresh = {}
  /\ \A t \in Threads : node[t] \notin A /\ node[t] \notin fresh
  /\ \A t, u \in Threads : t # u /\ node[t] # Null => node[t] # node[u]

Shape(A, C, r) ==
  /\ Lists(marking, next, A, C, r)
  /\ Owned(A)
  /\ \A t \in Threads :
       Holds(marking, next, A, r, pc[t], anchor[t], node[t], expected[t], after[t])

IInv == TypeOK /\ Calling /\ \E A, C, r : Shape(A, C, r)

(* The empty list has the shape, with the head alone in it.                 *)
LEMMA InitIInv == Init => IInv
<1>1. SUFFICES ASSUME Init PROVE IInv
  OBVIOUS
<1> DEFINE A == {Dummy}
           r == [n \in Places |-> IF n = Null THEN 0 ELSE 1]
<1>2. Null \notin All /\ Dummy \in All /\ Null \in Places /\ All \subseteq Places
  BY AllFinite DEF All, Places
<1>3. To(Null) \in Links /\ To(Null).to = Null /\ To(Null).mark = FALSE
  BY DEF To, Links
<1>4. next \in [All -> Links] /\ \A n \in All : next[n] = To(Null)
  BY <1>1, <1>3 DEF Init
<1>5. TypeOK
  <2>1. marking \in BOOLEAN /\ fresh \subseteq Nodes /\ decision \in (Threads \X BOOLEAN) \cup {None}
    BY <1>1 DEF Init
  <2>2. /\ pc \in [Threads -> {"idle", "load", "link", "target", "mark", "unlink"}]
        /\ op \in [Threads -> {"none", "insert", "erase", "erased"}]
        /\ anchor \in [Threads -> All \cup {Null}]
        /\ node \in [Threads -> Nodes \cup {Null}]
    BY <1>1, <1>2 DEF Init
  <2>3. To(Null) \in {l \in Links : ~l.mark}
    BY <1>3
  <2>4. expected \in [Threads -> {l \in Links : ~l.mark}] /\ after \in [Threads -> Links]
    BY <1>1, <1>3, <2>3 DEF Init
  <2>5. QED BY <1>4, <2>1, <2>2, <2>4 DEF TypeOK
<1>6. Calling
  <2>1. ASSUME NEW t \in Threads PROVE CallOf(marking, pc[t], op[t], anchor[t], node[t])
    <3>1. pc[t] = "idle" /\ op[t] = "none" /\ anchor[t] = Dummy /\ node[t] = Null
      BY <1>1 DEF Init
    <3>2. QED BY <3>1 DEF CallOf
  <2>2. QED BY <2>1 DEF Calling
<1>7. Lists(marking, next, A, A, r)
  <2>1. r \in [Places -> Nat] /\ r[Null] = 0 /\ \A n \in All : r[n] = 1
    BY <1>2
  <2> HIDE DEF r
  <2>2. \A n \in All : next[n].to = Null /\ ~next[n].mark
    BY <1>3, <1>4
  <2>3. Ranked(next, r)
    BY <2>1, <2>2 DEF Ranked
  <2>4. Chained(next, A, r)
    BY <1>2, <2>1, <2>2 DEF Chained
  <2>5. Linked(marking, next, A, A)
    <3>1. ASSUME NEW n \in A PROVE n \in A
      OBVIOUS
    <3>2. QED BY <1>2, <2>2 DEF Linked, Targets
  <2>6. QED BY <1>4, <2>3, <2>4, <2>5 DEF Lists
<1>8. Owned(A)
  BY <1>1, <1>2, LockFreeListAssumption DEF Init, Owned
<1>9. ASSUME NEW t \in Threads
      PROVE  Holds(marking, next, A, r, pc[t], anchor[t], node[t], expected[t], after[t])
  <2>1. pc[t] = "idle" /\ anchor[t] = Dummy /\ expected[t] = To(Null)
    BY <1>1 DEF Init
  <2>2. QED BY <1>3, <2>1 DEF Holds, Targets
<1>10. Shape(A, A, r)
  BY <1>7, <1>8, <1>9 DEF Shape
<1>11. QED BY <1>5, <1>6, <1>10 DEF IInv

-----------------------------------------------------------------------------
(* What the steps have in common                                            *)
LEMMA TypesOf ==
  ASSUME TypeOK, NEW t \in Threads
  PROVE  /\ pc[t] \in {"idle", "load", "link", "target", "mark", "unlink"}
         /\ op[t] \in {"none", "insert", "erase", "erased"}
         /\ anchor[t] \in All \cup {Null} /\ node[t] \in Nodes \cup {Null}
         /\ expected[t] \in Links /\ ~expected[t].mark /\ expected[t].mark = FALSE
         /\ after[t] \in Links
         /\ To(Null) \in Links /\ To(Null).to = Null /\ ~To(Null).mark
         /\ To(Null) \in {l \in Links : ~l.mark}
         /\ next \in [All -> Links]
         /\ None \in (Threads \X BOOLEAN) \cup {None}
         /\ \A b \in BOOLEAN : <<t, b>> \in (Threads \X BOOLEAN) \cup {None}
<1>1. /\ pc[t] \in {"idle", "load", "link", "target", "mark", "unlink"}
      /\ op[t] \in {"none", "insert", "erase", "erased"}
      /\ anchor[t] \in All \cup {Null} /\ node[t] \in Nodes \cup {Null}
      /\ expected[t] \in Links /\ ~expected[t].mark
      /\ after[t] \in Links /\ next \in [All -> Links]
  BY DEF TypeOK
<1>2. expected[t].mark = FALSE
  BY <1>1 DEF Links
<1>3. To(Null) \in Links /\ To(Null).to = Null /\ ~To(Null).mark
  BY DEF To, Links
<1>4. QED BY <1>1, <1>2, <1>3

OthersStay(t) ==
  \A u \in Threads \ {t} :
    /\ pc'[u] = pc[u] /\ op'[u] = op[u] /\ anchor'[u] = anchor[u]
    /\ node'[u] = node[u] /\ expected'[u] = expected[u] /\ after'[u] = after[u]

(* A step is of one thread, which changes its own locals only.              *)
LEMMA NextFrame ==
  ASSUME TypeOK, NEW t \in Threads, Call(t) \/ Step(t)
  PROVE  OthersStay(t) /\ marking' = marking
<1>1. CASE Begin(t) \/ Advance(t)
  BY <1>1 DEF Begin, Advance, OthersStay, TypeOK
<1>2. CASE CallInsert(t)
  BY <1>2 DEF CallInsert, Goto, OthersStay, TypeOK
<1>3. CASE CallErase(t)
  BY <1>3 DEF CallErase, Goto, locals, OthersStay, TypeOK
<1>4. ASSUME Answer(t, TRUE) \/ Answer(t, FALSE) PROVE OthersStay(t)
  BY <1>4 DEF Answer, Goto, OthersStay, TypeOK
<1>5. ASSUME NEW v, Prepare(t, v) PROVE OthersStay(t)
  BY <1>5 DEF Prepare, Goto, OthersStay, TypeOK
<1>6. CASE InsertLoad(t)
  BY <1>4, <1>5, <1>6 DEF InsertLoad
<1>7. CASE Link(t)
  <2>1. ASSUME Goto(t, "load"), expected' = [expected EXCEPT ![t] = To(Null)],
               UNCHANGED <<op, anchor, node, after>>
        PROVE  OthersStay(t)
    BY <2>1 DEF Goto, OthersStay, TypeOK
  <2>2. QED BY <1>4, <1>5, <1>7, <2>1 DEF Link
<1>8. ASSUME NEW v, Target(t, v) PROVE OthersStay(t)
  <2>1. CASE Answer(t, FALSE)
    BY <1>4, <2>1
  <2>2. CASE ~Answer(t, FALSE)
    BY <1>8, <2>2 DEF Target, Goto, OthersStay, TypeOK
  <2>3. QED BY <2>1, <2>2
<1>9. CASE EraseLoad(t)
  BY <1>8, <1>9 DEF EraseLoad
<1>10. CASE LoadAfter(t)
  BY <1>10 DEF LoadAfter, Goto, OthersStay, TypeOK
<1>11. CASE Mark(t)
  BY <1>11 DEF Mark, Goto, OthersStay, TypeOK
<1>12. CASE Unlink(t)
  BY <1>12 DEF Unlink, Return, Goto, OthersStay, TypeOK
<1>13. CASE UnlinkPlain(t)
  BY <1>4, <1>8, <1>13 DEF UnlinkPlain
<1>14. QED BY <1>1, <1>2, <1>3, <1>6, <1>7, <1>9, <1>10, <1>11, <1>12, <1>13 DEF Call, Step

(* What an answer does to the locals of its thread                          *)
LEMMA AnswerEffect ==
  ASSUME TypeOK, NEW t \in Threads, NEW b \in BOOLEAN, Answer(t, b)
  PROVE  /\ pc'[t] = "idle" /\ op'[t] = "none" /\ node'[t] = Null
         /\ anchor' = anchor /\ expected'[t] = To(Null) /\ after'[t] = To(Null)
         /\ decision' = <<t, b>>
BY DEF Answer, Goto, TypeOK

(* The preparation of a node                                                *)
LEMMA PrepareEffect ==
  ASSUME TypeOK, NEW t \in Threads, NEW v, Prepare(t, v)
  PROVE  /\ pc'[t] = "link" /\ op' = op /\ node' = node /\ anchor' = anchor
         /\ expected'[t] = v /\ after' = after /\ decision' = None
         /\ next' = [next EXCEPT ![node[t]] = v]
BY DEF Prepare, Goto, Undecided, TypeOK

(* The choice of a target, or the answer that there is none                 *)
LEMMA TargetEffect ==
  ASSUME TypeOK, NEW t \in Threads, NEW v, Target(t, v)
  PROVE  \/ (v.to = Null \/ v.mark) /\ Answer(t, FALSE)
         \/ /\ v.to # Null /\ ~v.mark
            /\ pc'[t] = "target" /\ op' = op /\ node' = node /\ anchor' = anchor
            /\ expected'[t] = v /\ after'[t] = To(Null) /\ decision' = None
BY DEF Target, Goto, Undecided, TypeOK

(* Every step keeps the calls and their places together.                    *)
LEMMA CallingStep ==
  ASSUME TypeOK, Calling, NEW t \in Threads, Call(t) \/ Step(t)
  PROVE  Calling'
<1>1. OthersStay(t) /\ marking' = marking
  BY NextFrame
<1>2. CallOf(marking, pc[t], op[t], anchor[t], node[t])
  BY DEF Calling
<1>3. /\ pc[t] \in {"idle", "load", "link", "target", "mark", "unlink"}
      /\ op[t] \in {"none", "insert", "erase", "erased"} /\ node[t] \in Nodes \cup {Null}
  BY TypesOf
<1>4. Null \notin Nodes /\ Dummy # Null
  BY LockFreeListAssumption
<1> DEFINE Good == CallOf(marking, pc'[t], op'[t], anchor'[t], node'[t])
<1>5. ASSUME Good PROVE Calling'
  <2>1. ASSUME NEW u \in Threads PROVE CallOf(marking', pc'[u], op'[u], anchor'[u], node'[u])
    <3>1. CASE u = t
      BY <1>1, <1>5, <3>1
    <3>2. CASE u # t
      <4>1. CallOf(marking, pc[u], op[u], anchor[u], node[u])
        BY DEF Calling
      <4>2. pc'[u] = pc[u] /\ op'[u] = op[u] /\ anchor'[u] = anchor[u] /\ node'[u] = node[u]
        BY <1>1, <3>2 DEF OthersStay
      <4>3. QED BY <1>1, <4>1, <4>2
    <3>3. QED BY <3>1, <3>2
  <2>2. QED BY <2>1 DEF Calling
<1>6. ASSUME NEW b \in BOOLEAN, Answer(t, b) PROVE Good
  <2>1. pc'[t] = "idle" /\ op'[t] = "none" /\ node'[t] = Null /\ anchor'[t] = anchor[t]
    BY <1>6, AnswerEffect
  <2>2. QED BY <1>2, <2>1 DEF CallOf
<1>7. ASSUME NEW v, Prepare(t, v), op[t] = "insert", pc[t] # "idle" PROVE Good
  <2>1. pc'[t] = "link" /\ op'[t] = "insert" /\ node'[t] = node[t] /\ anchor'[t] = anchor[t]
    BY <1>7, PrepareEffect
  <2>2. QED BY <1>2, <1>7, <2>1 DEF CallOf
<1>8. ASSUME NEW v, Target(t, v), op[t] = "erase", pc[t] # "idle" PROVE Good
  <2>1. \/ Answer(t, FALSE)
        \/ pc'[t] = "target" /\ op'[t] = "erase" /\ node'[t] = node[t] /\ anchor'[t] = anchor[t]
    BY <1>8, TargetEffect
  <2>2. CASE Answer(t, FALSE)
    BY <1>6, <2>2
  <2>3. CASE pc'[t] = "target" /\ op'[t] = "erase" /\ node'[t] = node[t] /\ anchor'[t] = anchor[t]
    BY <1>2, <1>8, <2>3 DEF CallOf
  <2>4. QED BY <2>1, <2>2, <2>3
<1>9. CASE Begin(t)
  <2>1. pc[t] = "idle" /\ pc' = pc /\ op' = op /\ node' = node /\ anchor'[t] = Dummy
    BY <1>9 DEF Begin, TypeOK
  <2>2. QED BY <1>2, <1>5, <2>1 DEF CallOf
<1>10. CASE Advance(t)
  <2>1. pc[t] = "idle" /\ pc' = pc /\ op' = op /\ node' = node
    BY <1>10 DEF Advance
  <2>2. QED BY <1>2, <1>5, <2>1 DEF CallOf
<1>11. CASE CallInsert(t)
  <2>1. /\ pc[t] = "idle" /\ pc'[t] = "load" /\ op'[t] = "insert" /\ anchor' = anchor
        /\ anchor[t] # Null /\ (~marking => anchor[t] = Dummy) /\ node'[t] \in Nodes
    BY <1>11 DEF CallInsert, MayCall, Goto, TypeOK
  <2>2. QED BY <1>2, <1>4, <1>5, <2>1 DEF CallOf
<1>12. CASE CallErase(t)
  <2>1. /\ pc[t] = "idle" /\ pc'[t] = "load" /\ op'[t] = "erase" /\ anchor' = anchor
        /\ anchor[t] # Null /\ (~marking => anchor[t] = Dummy) /\ node' = node
    BY <1>12 DEF CallErase, MayCall, Goto, locals, TypeOK
  <2>2. QED BY <1>2, <1>5, <2>1 DEF CallOf
<1>13. CASE InsertLoad(t)
  <2>1. pc[t] = "load" /\ op[t] = "insert" /\ (Answer(t, FALSE) \/ Prepare(t, next[anchor[t]]))
    BY <1>13 DEF InsertLoad
  <2>2. QED BY <1>5, <1>6, <1>7, <2>1
<1>14. CASE Link(t)
  <2>1. pc[t] = "link" /\ op[t] = "insert"
    BY <1>2, <1>14 DEF Link, CallOf
  <2>2. CASE Answer(t, TRUE) \/ Prepare(t, next[anchor[t]])
    BY <1>5, <1>6, <1>7, <2>1, <2>2
  <2>3. CASE Goto(t, "load") /\ UNCHANGED <<op, anchor, node>>
    <3>1. pc'[t] = "load" /\ op' = op /\ anchor' = anchor /\ node' = node
      BY <2>3 DEF Goto, TypeOK
    <3>2. QED BY <1>2, <1>5, <2>1, <3>1 DEF CallOf
  <2>4. QED BY <1>14, <2>2, <2>3 DEF Link
<1>15. CASE EraseLoad(t)
  <2>1. pc[t] = "load" /\ op[t] = "erase" /\ Target(t, next[anchor[t]])
    BY <1>15 DEF EraseLoad
  <2>2. QED BY <1>5, <1>8, <2>1
<1>16. CASE LoadAfter(t)
  <2>1. /\ pc[t] = "target" /\ pc'[t] \in {"mark", "unlink"} /\ (pc'[t] = "mark" => marking)
        /\ op' = op /\ anchor' = anchor /\ node' = node
    BY <1>16 DEF LoadAfter, Goto, TypeOK
  <2>2. QED BY <1>2, <1>5, <2>1 DEF CallOf
<1>17. CASE Mark(t)
  <2>1. /\ pc[t] = "mark" /\ pc'[t] \in {"mark", "unlink"} /\ anchor' = anchor /\ node' = node
        /\ (pc'[t] = "unlink" /\ op'[t] = "erased") \/ op' = op
    BY <1>17 DEF Mark, Goto, TypeOK
  <2>2. QED BY <1>2, <1>5, <2>1 DEF CallOf
<1>18. CASE Unlink(t)
  <2>1. /\ pc[t] = "unlink" /\ anchor' = anchor /\ node' = node
        /\ \/ pc'[t] = "idle" /\ op'[t] = "none"
           \/ pc'[t] = "load" /\ op'[t] = "erase" /\ op[t] = "erase"
    BY <1>18 DEF Unlink, Return, Goto, TypeOK
  <2>2. QED BY <1>2, <1>5, <2>1 DEF CallOf
<1>19. CASE UnlinkPlain(t)
  <2>1. pc[t] = "unlink" /\ ~marking /\ (Answer(t, TRUE) \/ Target(t, next[anchor[t]]))
    BY <1>19 DEF UnlinkPlain
  <2>2. CASE Answer(t, TRUE)
    BY <1>5, <1>6, <2>2
  <2>3. CASE Target(t, next[anchor[t]])
    <3>1. op[t] = "erase"
      BY <1>2, <2>1 DEF CallOf
    <3>2. QED BY <1>5, <1>8, <2>1, <2>3, <3>1
  <2>4. QED BY <2>1, <2>2, <2>3
<1>20. QED BY <1>9, <1>10, <1>11, <1>12, <1>13, <1>14, <1>15, <1>16, <1>17, <1>18, <1>19 DEF Call, Step

-----------------------------------------------------------------------------
(* The other threads                                                        *)

(* The links that the other threads rely on stay.                           *)
KeepsHeld(t) ==
  \A u \in Threads \ {t} :
    /\ pc[u] = "link" => next'[node[u]] = next[node[u]]
    /\ pc[u] = "unlink" => next'[expected[u].to] = next[expected[u].to]

(* Ranks change, and keep the order of the nodes that were linked.          *)
KeepsOrder(A, r, r2) ==
  \A m, n \in A \cup {Null} : r[m] < r[n] => r2[m] < r2[n]

(* A step of t that keeps what the others know, the order of the ranks and  *)
(* the lists has the shape again, if t knows what it must.                  *)
LEMMA ShapeStep ==
  ASSUME TypeOK, NEW t \in Threads, OthersStay(t), marking' = marking,
         NEW A, NEW C, NEW r, Shape(A, C, r), KeepsHeld(t),
         NEW A2, NEW C2, NEW r2, A \subseteq A2, KeepsOrder(A, r, r2),
         Lists(marking, next', A2, C2, r2), Owned(A2)',
         Holds(marking, next', A2, r2, pc'[t], anchor'[t], node'[t], expected'[t], after'[t])
  PROVE  Shape(A2, C2, r2)'
<1>1. ASSUME NEW u \in Threads
      PROVE  Holds(marking', next', A2, r2, pc'[u], anchor'[u], node'[u], expected'[u], after'[u])
  <2>1. CASE u = t
    BY <2>1
  <2>2. CASE u # t
    <3>1. Holds(marking, next, A, r, pc[u], anchor[u], node[u], expected[u], after[u])
      BY DEF Shape
    <3>2. /\ pc'[u] = pc[u] /\ anchor'[u] = anchor[u]
          /\ node'[u] = node[u] /\ expected'[u] = expected[u] /\ after'[u] = after[u]
      BY <2>2 DEF OthersStay
    <3>3. /\ pc[u] = "link" => next'[node[u]] = next[node[u]]
          /\ pc[u] = "unlink" => next'[expected[u].to] = next[expected[u].to]
      BY <2>2 DEF KeepsHeld
    <3>4. anchor[u] \in A \cup {Null} /\ expected[u].to \in A \cup {Null}
      BY <3>1 DEF Holds, Targets
    <3>5. r[expected[u].to] < r[anchor[u]] => r2[expected[u].to] < r2[anchor[u]]
      BY <3>4 DEF KeepsOrder
    <3>6. expected[u].to \in Targets(A2) /\ anchor[u] \in A2 \cup {Null}
      BY <3>1 DEF Holds, Targets
    <3>7. Holds(marking, next', A2, r2, pc[u], anchor[u], node[u], expected[u], after[u])
      BY <3>1, <3>3, <3>5, <3>6 DEF Holds
    <3>8. QED BY <3>2, <3>7
  <2>3. QED BY <2>1, <2>2
<1>2. QED BY <1>1 DEF Shape

(* A step that changes no link keeps what the others rely on.               *)
LEMMA HeldWhenSame ==
  ASSUME NEW t \in Threads, next' = next
  PROVE  KeepsHeld(t)
BY DEF KeepsHeld

(* The node that t inserts is held by no other thread.                      *)
LEMMA HeldWhenPrivate ==
  ASSUME TypeOK, NEW t \in Threads, NEW A, NEW C, NEW r, Shape(A, C, r),
         node[t] # Null, \A n \in All : n # node[t] => next'[n] = next[n], Calling
  PROVE  KeepsHeld(t)
<1>1. ASSUME NEW u \in Threads \ {t}, pc[u] = "link"
      PROVE  next'[node[u]] = next[node[u]]
  <2>1. node[u] # node[t]
    BY DEF Shape, Owned
  <2>2. CallOf(marking, pc[u], op[u], anchor[u], node[u])
    BY DEF Calling
  <2>3. node[u] \in All
    BY <1>1, <2>2, TypesOf DEF CallOf, All
  <2>4. QED BY <2>1, <2>3
<1>2. ASSUME NEW u \in Threads \ {t}, pc[u] = "unlink"
      PROVE  next'[expected[u].to] = next[expected[u].to]
  <2>1. Holds(marking, next, A, r, pc[u], anchor[u], node[u], expected[u], after[u])
    BY DEF Shape
  <2>2. expected[u].to \in A /\ A \subseteq All /\ node[t] \notin A
    BY <1>2, <2>1 DEF Holds, Targets, Shape, Lists, Linked, Owned
  <2>3. QED BY <2>2
<1>3. QED BY <1>1, <1>2 DEF KeepsHeld

(* A linked node that is not marked, and that is the head without marks, is *)
(* held by none, as far as its link goes.                                   *)
LEMMA HeldWhenLinked ==
  ASSUME TypeOK, NEW t \in Threads, NEW A, NEW C, NEW r, Shape(A, C, r),
         NEW a \in A, ~next[a].mark, ~marking => a = Dummy,
         \A n \in All : n # a => next'[n] = next[n], Calling
  PROVE  KeepsHeld(t)
<1>1. ASSUME NEW u \in Threads \ {t}, pc[u] = "link"
      PROVE  next'[node[u]] = next[node[u]]
  <2>1. node[u] # a
    BY DEF Shape, Owned
  <2>2. CallOf(marking, pc[u], op[u], anchor[u], node[u])
    BY DEF Calling
  <2>3. node[u] \in All
    BY <1>1, <2>2, TypesOf DEF CallOf, All
  <2>4. QED BY <2>1, <2>3
<1>2. ASSUME NEW u \in Threads \ {t}, pc[u] = "unlink"
      PROVE  next'[expected[u].to] = next[expected[u].to]
  <2>1. Holds(marking, next, A, r, pc[u], anchor[u], node[u], expected[u], after[u])
    BY DEF Shape
  <2>2. expected[u].to \in A \ {Dummy} /\ A \subseteq All
    BY <1>2, <2>1 DEF Holds, Targets, Shape, Lists, Linked
  <2>3. expected[u].to # a
    <3>1. after[u] = next[expected[u].to] /\ (after[u].mark <=> marking)
      BY <1>2, <2>1 DEF Holds
    <3>2. CASE marking
      BY <3>1, <3>2
    <3>3. CASE ~marking
      BY <2>2, <3>3
    <3>4. QED BY <3>2, <3>3
  <2>4. QED BY <2>2, <2>3
<1>3. QED BY <1>1, <1>2 DEF KeepsHeld

(* Ranks that stay keep the order.                                          *)
LEMMA OrderSame ==
  ASSUME NEW A, NEW r PROVE KeepsOrder(A, r, r)
BY DEF KeepsOrder

(* The nodes that threads own stay owned.                                   *)
LEMMA OwnedSame ==
  ASSUME NEW A, Owned(A), fresh' = fresh, node' = node PROVE Owned(A)'
BY DEF Owned

(* They stay owned when t gives its node up,                                *)
LEMMA OwnedAnswer ==
  ASSUME TypeOK, NEW t \in Threads, NEW A, Owned(A), A \subseteq All, fresh' = fresh,
         OthersStay(t), node'[t] = Null
  PROVE  Owned(A)'
<1>1. Null \notin A /\ Null \notin fresh
  BY AllFinite, LockFreeListAssumption DEF TypeOK
<1>2. \A u \in Threads : u # t => node'[u] = node[u]
  BY DEF OthersStay
<1>3. \A u \in Threads : node'[u] \notin A /\ node'[u] \notin fresh
  BY <1>1, <1>2 DEF Owned
<1>4. ASSUME NEW u \in Threads, NEW w \in Threads, u # w, node'[u] # Null PROVE node'[u] # node'[w]
  <2>1. u # t /\ node'[u] = node[u]
    BY <1>2, <1>4
  <2>2. CASE w = t
    BY <1>4, <2>2
  <2>3. CASE w # t
    BY <1>2, <1>4, <2>1, <2>3 DEF Owned
  <2>4. QED BY <2>2, <2>3
<1>5. QED BY <1>3, <1>4 DEF Owned

(* when it has linked it,                                                   *)
LEMMA OwnedLinked ==
  ASSUME TypeOK, NEW t \in Threads, NEW A, Owned(A), A \subseteq All, fresh' = fresh,
         OthersStay(t), NEW x, x = node[t], x # Null, node'[t] = Null
  PROVE  Owned(A \cup {x})'
<1>1. Owned(A)'
  BY OwnedAnswer
<1>2. x \notin fresh
  BY DEF Owned
<1>3. ASSUME NEW u \in Threads PROVE node'[u] # x
  <2>1. CASE u = t
    BY <2>1
  <2>2. CASE u # t
    BY <2>2 DEF OthersStay, Owned
  <2>3. QED BY <2>1, <2>2
<1>4. /\ A \cap fresh' = {}
      /\ \A u \in Threads : node'[u] \notin A /\ node'[u] \notin fresh'
      /\ \A u, w \in Threads : u # w /\ node'[u] # Null => node'[u] # node'[w]
  BY <1>1 DEF Owned
<1>5. (A \cup {x}) \cap fresh' = {} /\ \A u \in Threads : node'[u] \notin A \cup {x}
  BY <1>2, <1>3, <1>4
<1>6. QED BY <1>4, <1>5 DEF Owned

(* and when it takes a fresh one.                                           *)
LEMMA OwnedNew ==
  ASSUME TypeOK, NEW t \in Threads, NEW A, Owned(A), OthersStay(t),
         NEW n \in fresh, fresh' = fresh \ {n}, node'[t] = n
  PROVE  Owned(A)'
<1>1. \A u \in Threads : u # t => node'[u] = node[u]
  BY DEF OthersStay
<1>2. n \notin A /\ n \notin fresh' /\ \A u \in Threads : node[u] # n
  BY DEF Owned
<1>3. \A u \in Threads : node'[u] \notin A /\ node'[u] \notin fresh'
  BY <1>1, <1>2 DEF Owned
<1>4. ASSUME NEW u \in Threads, NEW w \in Threads, u # w, node'[u] # Null PROVE node'[u] # node'[w]
  BY <1>1, <1>2, <1>4 DEF Owned
<1>5. A \cap fresh' = {}
  BY DEF Owned
<1>6. QED BY <1>3, <1>4, <1>5 DEF Owned

-----------------------------------------------------------------------------
(* The moves of the abstract list                                           *)
LEMMA ListedNodes ==
  ASSUME NEW mk, NEW nx, NEW A, NEW C, NEW r, Lists(mk, nx, A, C, r),
         NEW a, a \in ToSet(Rest(nx, Dummy))
  PROVE  a \in C /\ ~nx[a].mark
<1> DEFINE list == Rest(nx, Dummy)
<1>1. /\ nx \in [All -> Links] /\ Ranked(nx, r) /\ Dummy \in C /\ C \subseteq All
      /\ \A n \in C : nx[n].to \in C \cup {Null}
      /\ Dummy \in Places
  BY ListsTypes DEF Chained
<1>2. \A n \in C \cup {Null} : \A i \in 1 .. Len(Rest(nx, n)) :
        Rest(nx, n)[i] \in C /\ ~nx[Rest(nx, n)[i]].mark
  BY <1>1, RestElements
<1>3. list \in Seq(All)
  BY <1>1, RestEquations
<1>4. \A i \in 1 .. Len(list) : list[i] \in C /\ ~nx[list[i]].mark
  BY <1>1, <1>2
<1> HIDE DEF list
<1>5. \E i \in 1 .. Len(list) : list[i] = a
  BY <1>3 DEF ToSet, list
<1>6. QED BY <1>4, <1>5

(* The node of the chain without a successor is the last of the list.       *)
LEMMA LastListed ==
  ASSUME NEW mk, NEW nx, NEW A, NEW C, NEW r, Lists(mk, nx, A, C, r),
         NEW a \in C, ~nx[a].mark, nx[a].to = Null
  PROVE  PlaceOf(Rest(nx, Dummy), a) = Len(Rest(nx, Dummy))
<1>1. nx \in [All -> Links] /\ Ranked(nx, r) /\ r \in [Places -> Nat] /\ a \in All
  BY ListsTypes DEF Ranked
<1>2. PICK pre \in Seq(All) :
        /\ Rest(nx, Dummy) = Join(pre, a, Rest(nx, nx[a].to))
        /\ \A i \in 1 .. Len(pre) : r[a] < r[pre[i]]
  BY Around
<1>3. Rest(nx, nx[a].to) = <<>>
  BY <1>1, RestEquations
<1> DEFINE e == <<>>
           list == Join(pre, a, e)
<1>4. e \in Seq(All) /\ Len(e) = 0 /\ \A i \in 1 .. Len(e) : r[e[i]] < r[a]
  OBVIOUS
<1> HIDE DEF e
<1>5. PlaceOf(list, a) = Len(pre) + 1
  <2>1. Between(r, pre, a, e)
    BY <1>1, <1>2, <1>4 DEF Between
  <2>2. PlacedAfter(r, list, pre, a)
    BY <2>1, Place
  <2>3. QED BY <2>2 DEF PlacedAfter
<1>6. Len(list) = Len(pre) + 1
  <2>1. Joined(list, pre, a, e)
    BY <1>1, <1>4, JoinJoins
  <2> HIDE DEF list
  <2>2. QED BY <1>4, <2>1 DEF Joined
<1>7. QED BY <1>2, <1>3, <1>5, <1>6 DEF e

(* A step that decides nothing and changes no list is one of Pass;          *)
LEMMA Passing ==
  ASSUME decision' = None, Rest(next', Dummy) = Rest(next, Dummy)
  PROVE  L!Next
BY DEF L!Next, L!Pass, Live, Rest

(* an answer FALSE at an erased node, or at the last one, is a refusal;     *)
LEMMA Refusing ==
  ASSUME NEW t \in Threads, NEW A, NEW C, NEW r, Shape(A, C, r), op[t] \in {"insert", "erase"},
         anchor[t] \in A, next[anchor[t]].mark \/ (op[t] = "erase" /\ next[anchor[t]].to = Null),
         decision' = <<t, FALSE>>, next' = next
  PROVE  L!Next
<1> DEFINE list == Rest(next, Dummy)
           a == anchor[t]
<1>1. Lists(marking, next, A, C, r)
  BY DEF Shape
<1>2. a \in ToSet(list) => a \in C /\ ~next[a].mark
  BY <1>1, ListedNodes
<1>3. a \notin ToSet(list) \/ (op[t] = "erase" /\ PlaceOf(list, a) = Len(list))
  <2>1. CASE a \notin ToSet(list)
    BY <2>1
  <2>2. CASE a \in ToSet(list)
    <3>1. a \in C /\ ~next[a].mark /\ op[t] = "erase" /\ next[a].to = Null
      BY <1>2, <2>2
    <3>2. PlaceOf(list, a) = Len(list)
      BY <1>1, <3>1, LastListed
    <3>3. QED BY <3>1, <3>2
  <2>3. QED BY <2>1, <2>2
<1>4. Live(Dummy) = list /\ Live(Dummy)' = list
  BY DEF Live, Rest
<1> HIDE DEF list
<1>5. L!Refuse(t)
  <2>1. L!In(a) <=> a \in ToSet(list)
    BY <1>4 DEF L!In, L!ToSet, ToSet
  <2>2. L!Position(a) = PlaceOf(list, a)
    BY <1>4 DEF L!Position, PlaceOf
  <2>3. QED BY <1>3, <1>4, <2>1, <2>2 DEF L!Refuse, L!Decide
<1>6. QED BY <1>5 DEF L!Next

(* a node that comes in behind the anchor is an insertion;                  *)
LEMMA Inserting ==
  ASSUME NEW t \in Threads, op[t] = "insert", decision' = <<t, TRUE>>,
         anchor[t] \in ToSet(Rest(next, Dummy)), node[t] \notin ToSet(Rest(next, Dummy)),
         Rest(next', Dummy)
           = InsertAt(Rest(next, Dummy), PlaceOf(Rest(next, Dummy), anchor[t]) + 1, node[t])
  PROVE  L!Next
<1> DEFINE list == Rest(next, Dummy)
           a == anchor[t]
<1>1. Live(Dummy) = list /\ Live(Dummy)' = Rest(next', Dummy)
  BY DEF Live, Rest
<1> HIDE DEF list
<1>2. L!Insert(t)
  <2>1. \A n : L!In(n) <=> n \in ToSet(list)
    BY <1>1 DEF L!In, L!ToSet, ToSet
  <2>2. L!Position(a) = PlaceOf(list, a)
    BY <1>1 DEF L!Position, PlaceOf
  <2>3. \A s, i, e : L!InsertAt(s, i, e) = InsertAt(s, i, e)
    BY DEF L!InsertAt, InsertAt
  <2>4. QED BY <1>1, <2>1, <2>2, <2>3 DEF L!Insert, L!Decide, list
<1>3. QED BY <1>2 DEF L!Next

(* and one that goes from below the anchor is an erasure.                   *)
LEMMA Erasing ==
  ASSUME NEW t \in Threads, op[t] = "erase", decision' = <<t, TRUE>>, NEW r, NEW n,
         RemovedBelow(Rest(next, Dummy), Rest(next', Dummy), r, n), r[n] < r[anchor[t]]
  PROVE  L!Next
<1> DEFINE list == Rest(next, Dummy)
           a == anchor[t]
<1>1. Live(Dummy) = list /\ Live(Dummy)' = Rest(next', Dummy)
  BY DEF Live, Rest
<1>2. PICK i \in 2 .. Len(list) :
        /\ Rest(next', Dummy) = RemoveAt(list, i)
        /\ \A j \in DOMAIN list : r[n] < r[list[j]] => j < i
  BY DEF RemovedBelow
<1> HIDE DEF list
<1>3. ASSUME a \in ToSet(list) PROVE PlaceOf(list, a) < i
  <2>1. \E j \in DOMAIN list : list[j] = a
    BY <1>3 DEF ToSet
  <2>2. PlaceOf(list, a) \in DOMAIN list /\ list[PlaceOf(list, a)] = a
    BY <2>1 DEF PlaceOf
  <2>3. QED BY <1>2, <2>2
<1>4. L!Erase(t)
  <2>1. L!In(a) <=> a \in ToSet(list)
    BY <1>1 DEF L!In, L!ToSet, ToSet
  <2>2. L!Position(a) = PlaceOf(list, a)
    BY <1>1 DEF L!Position, PlaceOf
  <2>3. \A s, j : L!RemoveAt(s, j) = RemoveAt(s, j)
    BY DEF L!RemoveAt, RemoveAt
  <2>4. QED BY <1>1, <1>2, <1>3, <2>1, <2>2, <2>3 DEF L!Erase, L!Decide
<1>5. QED BY <1>4 DEF L!Next

-----------------------------------------------------------------------------
(* The types of the locals, step by step                                    *)
LocalTypes ==
  /\ pc \in [Threads -> {"idle", "load", "link", "target", "mark", "unlink"}]
  /\ op \in [Threads -> {"none", "insert", "erase", "erased"}]
  /\ anchor \in [Threads -> All \cup {Null}]
  /\ node \in [Threads -> Nodes \cup {Null}]
  /\ expected \in [Threads -> {l \in Links : ~l.mark}]
  /\ after \in [Threads -> Links]
  /\ decision \in (Threads \X BOOLEAN) \cup {None}

(* The types: those of the locals and the rest                              *)
LEMMA TypeParts ==
  TypeOK <=> marking \in BOOLEAN /\ next \in [All -> Links] /\ fresh \subseteq Nodes /\ LocalTypes
BY DEF TypeOK, LocalTypes

(* The locals keep their types when a call answers,                         *)
LEMMA AnswerTypes ==
  ASSUME TypeOK, NEW t \in Threads, NEW b \in BOOLEAN, Answer(t, b) PROVE LocalTypes'
<1>1. To(Null) \in {l \in Links : ~l.mark} /\ To(Null) \in Links
  BY TypesOf
<1>2. QED BY <1>1 DEF Answer, Goto, TypeOK, LocalTypes

(* also when a node is prepared,                                            *)
LEMMA PrepareTypes ==
  ASSUME TypeOK, NEW t \in Threads, NEW v \in Links, ~v.mark, Prepare(t, v) PROVE LocalTypes'
<1>1. v \in {l \in Links : ~l.mark}
  OBVIOUS
<1>2. QED BY <1>1 DEF Prepare, Goto, Undecided, TypeOK, LocalTypes

(* and when a target is chosen.                                             *)
LEMMA TargetTypes ==
  ASSUME TypeOK, NEW t \in Threads, NEW v \in Links, Target(t, v) PROVE LocalTypes'
<1>1. CASE Answer(t, FALSE)
  BY <1>1, AnswerTypes
<1>2. CASE ~Answer(t, FALSE)
  <2>1. v \in {l \in Links : ~l.mark} /\ To(Null) \in Links
    BY <1>2, TypesOf DEF Target
  <2>2. /\ expected' = [expected EXCEPT ![t] = v] /\ after' = [after EXCEPT ![t] = To(Null)]
        /\ pc' = [pc EXCEPT ![t] = "target"] /\ decision' = None
        /\ op' = op /\ anchor' = anchor /\ node' = node
    BY <1>2 DEF Target, Goto, Undecided
  <2>3. QED BY <2>1, <2>2 DEF TypeOK, LocalTypes
<1>3. QED BY <1>1, <1>2

-----------------------------------------------------------------------------
(* What is found from a place                                               *)
Found(nx, n) == ToSet(Rest(nx, n))

(* What was found from n, of D, still is.                                   *)
Kept(nx, nx2, D, n) == Found(nx, n) \cap D \subseteq Found(nx2, n)

(* A place finds its node, unless that is erased, and what the successor    *)
(* finds.                                                                   *)
LEMMA FoundEquations ==
  ASSUME NEW nx \in [All -> Links], NEW r, Ranked(nx, r)
  PROVE  /\ Found(nx, Null) = {}
         /\ \A n \in All : Found(nx, n) = (IF nx[n].mark THEN {} ELSE {n}) \cup Found(nx, nx[n].to)
<1>1. ASSUME NEW n \in All
      PROVE  Found(nx, n) = (IF nx[n].mark THEN {} ELSE {n}) \cup Found(nx, nx[n].to)
  <2> DEFINE u == Rest(nx, nx[n].to)
  <2>1. Rest(nx, n) = Item(nx, n) \o u /\ u \in Seq(All)
    BY ItemType, RestEquations
  <2>2. CASE nx[n].mark
    <3>1. Rest(nx, n) = u
      BY <2>1, <2>2, ConcatEmptySeq DEF Item
    <3>2. QED BY <2>2, <3>1 DEF Found
  <2>3. CASE ~nx[n].mark
    <3>1. Rest(nx, n) = <<n>> \o u
      BY <2>1, <2>3 DEF Item
    <3> HIDE DEF u
    <3> DEFINE w == <<n>> \o u
    <3>2. Len(w) = Len(u) + 1 /\ w[1] = n /\ \A i \in 1 .. Len(u) : w[i + 1] = u[i]
      BY <2>1
    <3>3. w \in Seq(All) /\ Len(u) \in Nat
      BY <2>1
    <3> HIDE DEF w
    <3>4. DOMAIN w = 1 .. Len(u) + 1 /\ DOMAIN u = 1 .. Len(u)
      BY <2>1, <3>2, <3>3
    <3>5. \A i \in 2 .. Len(u) + 1 : i - 1 \in 1 .. Len(u) /\ w[i] = u[i - 1]
      BY <3>2, <3>3
    <3>6. ToSet(w) = {n} \cup ToSet(u)
      BY <3>2, <3>3, <3>4, <3>5 DEF ToSet
    <3>7. QED BY <2>3, <3>1, <3>6 DEF Found, u, w
  <2>4. QED BY <2>2, <2>3
<1>2. Found(nx, Null) = {}
  BY RestEquations DEF Found, ToSet
<1>3. QED BY <1>1, <1>2

(* When the link of a changes, what is found is kept everywhere if it is    *)
(* kept at a, whenever it is at the old successor of a.                     *)
LEMMA KeptByOne ==
  ASSUME NEW nx \in [All -> Links], NEW r, Ranked(nx, r),
         NEW nx2 \in [All -> Links], NEW r2, Ranked(nx2, r2), NEW D, NEW a \in All,
         \A n \in All : n # a => nx2[n] = nx[n],
         Kept(nx, nx2, D, nx[a].to) => Kept(nx, nx2, D, a)
  PROVE  \A n \in Places : Kept(nx, nx2, D, n)
<1> DEFINE S == {n \in Places : Kept(nx, nx2, D, n)}
<1>1. Null \in S
  BY FoundEquations DEF Places, Kept
<1>2. ASSUME NEW n \in All, nx[n].to \in S PROVE n \in S
  <2>1. CASE n = a
    BY <1>2, <2>1 DEF Places
  <2>2. CASE n # a
    <3>1. nx2[n] = nx[n] /\ Kept(nx, nx2, D, nx[n].to)
      BY <1>2, <2>2
    <3>2. Found(nx, n) = (IF nx[n].mark THEN {} ELSE {n}) \cup Found(nx, nx[n].to)
      BY FoundEquations
    <3>3. Found(nx2, n) = (IF nx[n].mark THEN {} ELSE {n}) \cup Found(nx2, nx[n].to)
      BY <3>1, FoundEquations
    <3>4. Kept(nx, nx2, D, n)
      BY <3>1, <3>2, <3>3 DEF Kept
    <3>5. QED BY <3>4 DEF Places
  <2>3. QED BY <2>1, <2>2
<1>3. S = Places
  <2>1. S \subseteq Places
    OBVIOUS
  <2> HIDE DEF S
  <2>2. QED BY <1>1, <1>2, <2>1, RankInduction
<1>4. QED BY <1>3

(* The nodes of the list that an iterator would find are not lost to it.    *)
Keeps ==
  \A t \in Threads :
    \A n \in Found(next, anchor[t]) : n \in Found(next', Dummy) => n \in Found(next', anchor[t])

(* So when no link changes,                                                 *)
LEMMA KeepsSame == ASSUME next' = next PROVE Keeps
BY DEF Keeps

(* and when what is found is kept wherever an iterator may be.              *)
LEMMA KeepsAll ==
  ASSUME NEW A, NEW C, NEW r, Shape(A, C, r),
         \A n \in A \cup {Null} : Kept(next, next', Found(next', Dummy), n)
  PROVE  Keeps
<1>1. ASSUME NEW t \in Threads PROVE anchor[t] \in A \cup {Null}
  BY DEF Shape, Holds
<1>2. QED BY <1>1 DEF Keeps, Kept

(* The steps, one by one: each keeps the shape, is a move of the abstract   *)
(* list, and loses no node to an iterator.                                  *)
Advances == TypeOK' /\ (\E A, C, r : Shape(A, C, r)') /\ L!Next /\ Keeps

(* What a thread may use of the invariant, and what it knows at its place   *)
LEMMA Knowledge ==
  ASSUME TypeOK, Calling, NEW t \in Threads, NEW A, NEW C, NEW r, Shape(A, C, r)
  PROVE  /\ Lists(marking, next, A, C, r) /\ Owned(A) /\ A \subseteq All /\ C \subseteq A
         /\ CallOf(marking, pc[t], op[t], anchor[t], node[t])
         /\ Holds(marking, next, A, r, pc[t], anchor[t], node[t], expected[t], after[t])
         /\ anchor[t] \in A \cup {Null} /\ Null \notin A
         /\ pc[t] # "idle" => anchor[t] \in A
         /\ Dummy \in C /\ Dummy \in A /\ Null \in Targets(A) /\ A \subseteq Places
         /\ \A n \in A : next[n] \in Links /\ next[n].to \in Targets(A)
<1>1. /\ Lists(marking, next, A, C, r) /\ Owned(A)
      /\ CallOf(marking, pc[t], op[t], anchor[t], node[t])
      /\ Holds(marking, next, A, r, pc[t], anchor[t], node[t], expected[t], after[t])
  BY DEF Shape, Calling
<1>2. A \subseteq All /\ C \subseteq A /\ Null \notin A /\ Dummy \in C /\ Dummy \in A
  BY <1>1, ListsTypes
<1>3. Null \in Targets(A) /\ A \subseteq Places
  BY <1>2 DEF Targets, Places
<1>4. \A n \in A : next[n] \in Links /\ next[n].to \in Targets(A)
  BY <1>1, <1>2 DEF Lists, Linked
<1>5. anchor[t] \in A \cup {Null} /\ (pc[t] # "idle" => anchor[t] \in A)
  BY <1>1 DEF Holds, CallOf
<1>6. QED BY <1>1, <1>2, <1>3, <1>4, <1>5

(* A step that changes no link and decides nothing                          *)
LEMMA QuietStep ==
  ASSUME TypeOK, NEW t \in Threads, NEW A, NEW C, NEW r, Shape(A, C, r),
         OthersStay(t), marking' = marking, next' = next, fresh' \subseteq Nodes,
         LocalTypes', Owned(A)',
         Holds(marking, next, A, r, pc'[t], anchor'[t], node'[t], expected'[t], after'[t])
  PROVE  TypeOK' /\ \E A2, C2, r2 : Shape(A2, C2, r2)'
<1>1. TypeOK'
  BY TypeParts DEF LocalTypes, TypeOK
<1>2. KeepsHeld(t) /\ KeepsOrder(A, r, r)
  BY HeldWhenSame, OrderSame
<1>3. Lists(marking, next', A, C, r)
  BY DEF Shape
<1>4. Holds(marking, next', A, r, pc'[t], anchor'[t], node'[t], expected'[t], after'[t])
  OBVIOUS
<1>5. Shape(A, C, r)'
  BY <1>2, <1>3, <1>4, ShapeStep
<1>6. QED BY <1>1, <1>5

(* The locals of an answer                                                  *)
LEMMA AnswerHolds ==
  ASSUME TypeOK, Calling, NEW t \in Threads, NEW A, NEW C, NEW r, Shape(A, C, r),
         NEW b \in BOOLEAN, Answer(t, b), NEW nx, NEW A2, NEW r2, A \subseteq A2
  PROVE  Holds(marking, nx, A2, r2, pc'[t], anchor'[t], node'[t], expected'[t], after'[t])
<1>1. /\ pc'[t] = "idle" /\ anchor'[t] = anchor[t] /\ expected'[t] = To(Null)
  BY AnswerEffect
<1>2. anchor[t] \in A2 \cup {Null} /\ To(Null).to \in Targets(A2)
  BY Knowledge, TypesOf DEF Targets
<1>3. QED BY <1>1, <1>2 DEF Holds

(* A call that answers FALSE                                                *)
LEMMA RefuseStep ==
  ASSUME TypeOK, Calling, NEW t \in Threads, NEW A, NEW C, NEW r, Shape(A, C, r),
         OthersStay(t), UNCHANGED <<marking, next, fresh>>, Answer(t, FALSE),
         op[t] \in {"insert", "erase"}, pc[t] # "idle",
         next[anchor[t]].mark \/ (op[t] = "erase" /\ next[anchor[t]].to = Null)
  PROVE  Advances
<1>1. anchor[t] \in A /\ A \subseteq All /\ Owned(A)
  BY Knowledge
<1>2. node'[t] = Null /\ decision' = <<t, FALSE>>
  BY AnswerEffect
<1>3. Owned(A)'
  BY <1>1, <1>2, OwnedAnswer
<1>4. Holds(marking, next, A, r, pc'[t], anchor'[t], node'[t], expected'[t], after'[t])
  BY AnswerHolds
<1>5. LocalTypes' /\ fresh' \subseteq Nodes
  BY AnswerTypes DEF TypeOK
<1>6. TypeOK' /\ \E A2, C2, r2 : Shape(A2, C2, r2)'
  BY <1>3, <1>4, <1>5, QuietStep
<1>7. L!Next
  BY <1>1, <1>2, Refusing
<1>8. QED BY <1>6, <1>7, KeepsSame DEF Advances

(* A call that has found its target, or that there is none                  *)
LEMMA TargetStep ==
  ASSUME TypeOK, Calling, NEW t \in Threads, NEW A, NEW C, NEW r, Shape(A, C, r),
         OthersStay(t), UNCHANGED <<marking, next, fresh>>, Target(t, next[anchor[t]]),
         op[t] = "erase", pc[t] # "idle"
  PROVE  Advances
<1> DEFINE a == anchor[t]
           v == next[a]
<1>1. a \in A /\ A \subseteq All /\ v \in Links /\ v.to \in Targets(A) /\ Owned(A) /\ A \subseteq Places
  BY Knowledge
<1>2. CASE (v.to = Null \/ v.mark) /\ Answer(t, FALSE)
  BY <1>2, RefuseStep
<1>3. CASE /\ v.to # Null /\ ~v.mark
           /\ pc'[t] = "target" /\ op' = op /\ node' = node /\ anchor' = anchor
           /\ expected'[t] = v /\ after'[t] = To(Null) /\ decision' = None
  <2>1. Owned(A)'
    BY <1>1, <1>3, OwnedSame
  <2>2. LocalTypes' /\ fresh' \subseteq Nodes
    BY <1>1, TargetTypes DEF TypeOK
  <2>3. r[v.to] < r[a]
    BY <1>1, Knowledge, ListsTypes
  <2>4. Holds(marking, next, A, r, pc'[t], anchor'[t], node'[t], expected'[t], after'[t])
    BY <1>1, <1>3, <2>3 DEF Holds
  <2>5. TypeOK' /\ \E A2, C2, r2 : Shape(A2, C2, r2)'
    BY <2>1, <2>2, <2>4, QuietStep
  <2>6. L!Next
    BY <1>3, Passing
  <2>7. QED BY <2>5, <2>6, KeepsSame DEF Advances
<1>4. QED BY <1>2, <1>3, TargetEffect

(* The new node takes the link of the anchor.                               *)
LEMMA PrepareStep ==
  ASSUME TypeOK, Calling, NEW t \in Threads, NEW A, NEW C, NEW r, Shape(A, C, r),
         OthersStay(t), UNCHANGED <<marking, fresh>>, Prepare(t, next[anchor[t]]),
         op[t] = "insert", pc[t] # "idle", ~next[anchor[t]].mark
  PROVE  Advances
<1>1. PICK a : a = anchor[t]
  OBVIOUS
<1>2. PICK x : x = node[t]
  OBVIOUS
<1> DEFINE r2 == Raised(r, a, x)
<1>3. /\ Lists(marking, next, A, C, r) /\ Owned(A) /\ A \subseteq All /\ C \subseteq A /\ Dummy \in A
      /\ a \in A /\ next[a] \in Links /\ next[a].to \in Targets(A) /\ A \subseteq Places
      /\ next \in [All -> Links] /\ Null \notin A
  <2>1. /\ Lists(marking, next, A, C, r) /\ Owned(A) /\ A \subseteq All /\ C \subseteq A
        /\ Dummy \in A /\ anchor[t] \in A /\ A \subseteq Places /\ Null \notin A
        /\ \A n \in A : next[n] \in Links /\ next[n].to \in Targets(A)
    BY Knowledge
  <2>2. next \in [All -> Links]
    BY TypesOf
  <2>3. QED BY <1>1, <2>1, <2>2
<1>4. x \in All \ A /\ x \in Nodes /\ x # Null
  <2>1. x \in Nodes /\ x \notin A
    BY <1>2, <1>3, Knowledge, TypesOf DEF CallOf, Owned
  <2>2. QED BY <2>1, LockFreeListAssumption DEF All
<1>5. /\ pc'[t] = "link" /\ node' = node /\ anchor' = anchor
      /\ expected'[t] = next[a] /\ decision' = None
      /\ next' = [next EXCEPT ![x] = next[a]]
  BY <1>1, <1>2, PrepareEffect
<1>6. Relinked(next, next', x, next[a])
  BY <1>3, <1>4, <1>5, ExceptRelinks
<1>7. Lists(marking, next', A, C, r2) /\ \A n \in A \cup {Null} : Rest(next', n) = Rest(next, n)
  <2>1. ~next[a].mark
    BY <1>1
  <2>2. ASSUME NEW nx, NEW nx2, Lists(marking, nx, A, C, r), ~nx[a].mark, Relinked(nx, nx2, x, nx[a])
        PROVE  /\ Lists(marking, nx2, A, C, r2)
               /\ \A n \in A \cup {Null} : Rest(nx2, n) = Rest(nx, n)
    BY <1>3, <1>4, <2>2, Preparing
  <2>3. QED BY <1>3, <1>6, <2>1, <2>2
<1>8. LocalTypes'
  BY <1>1, <1>3, PrepareTypes
<1>9. TypeOK'
  <2>1. next' \in [All -> Links]
    BY <1>7 DEF Lists
  <2>2. QED BY <1>8, <2>1 DEF LocalTypes, TypeOK
<1>10. Owned(A)'
  BY <1>3, <1>5, OwnedSame
<1>11. KeepsHeld(t)
  BY <1>2, <1>4, <1>6, HeldWhenPrivate DEF Relinked
<1>12. KeepsOrder(A, r, r2)
  <2>1. \A n \in A \cup {Null} : r2[n] = r[n]
    BY <1>3, <1>4 DEF Lists, Ranked, Places, Raised
  <2> HIDE DEF r2
  <2>2. QED BY <2>1 DEF KeepsOrder
<1> HIDE DEF r2
<1>13. Holds(marking, next', A, r2, pc'[t], anchor'[t], node'[t], expected'[t], after'[t])
  <2>1. next'[node'[t]] = expected'[t]
    BY <1>2, <1>5, <1>6 DEF Relinked
  <2>2. anchor'[t] = a /\ expected'[t] = next[a]
    BY <1>1, <1>5
  <2>3. QED BY <1>3, <1>5, <2>1, <2>2 DEF Holds
<1>14. PICK r3 : r3 = r2
  OBVIOUS
<1>15. Shape(A, C, r3)'
  BY <1>7, <1>10, <1>11, <1>12, <1>13, <1>14, ShapeStep
<1>16. L!Next
  BY <1>3, <1>5, <1>7, Passing
<1>17. Keeps
  <2>1. \A n \in A \cup {Null} : Found(next', n) = Found(next, n)
    BY <1>7 DEF Found
  <2>2. \A n \in A \cup {Null} : Kept(next, next', Found(next', Dummy), n)
    BY <2>1 DEF Kept
  <2>3. QED BY <2>2, KeepsAll
<1>18. QED BY <1>9, <1>15, <1>16, <1>17 DEF Advances

(* A linked iterator whose link is not marked is reached.                   *)
LEMMA Reached ==
  ASSUME TypeOK, Calling, NEW t \in Threads, NEW A, NEW C, NEW r, Shape(A, C, r),
         pc[t] # "idle", ~next[anchor[t]].mark
  PROVE  anchor[t] \in C
<1>1. /\ Lists(marking, next, A, C, r) /\ anchor[t] \in A /\ Dummy \in C
      /\ CallOf(marking, pc[t], op[t], anchor[t], node[t])
  BY Knowledge
<1>2. CASE marking
  BY <1>1, <1>2 DEF Lists, Linked
<1>3. CASE ~marking
  BY <1>1, <1>3 DEF CallOf
<1>4. QED BY <1>2, <1>3

(* The CAS of insert_after() that succeeds                                  *)
LEMMA LinkSucceeds ==
  ASSUME TypeOK, Calling, NEW t \in Threads, NEW A, NEW C, NEW r, Shape(A, C, r),
         OthersStay(t), UNCHANGED <<marking, fresh>>, pc[t] = "link",
         next[anchor[t]] = expected[t], next' = [next EXCEPT ![anchor[t]] = To(node[t])],
         Answer(t, TRUE)
  PROVE  Advances
<1>1. PICK a : a = anchor[t]
  OBVIOUS
<1>2. PICK x : x = node[t]
  OBVIOUS
<1> DEFINE r2 == Shifted(r, a, x)
<1>3. /\ Lists(marking, next, A, C, r) /\ Owned(A) /\ A \subseteq All /\ C \subseteq A
      /\ a \in A /\ A \subseteq Places /\ next \in [All -> Links] /\ Null \notin A /\ op[t] = "insert"
  BY <1>1, Knowledge, TypesOf DEF CallOf
<1>4. x \in Nodes \ A /\ x \in All /\ x # Null
  <2>1. x \in Nodes /\ x \notin A
    BY <1>2, <1>3, Knowledge, TypesOf DEF CallOf, Owned
  <2>2. QED BY <2>1, LockFreeListAssumption DEF All
<1>5. ~next[a].mark /\ next[x] = next[a]
  BY <1>1, <1>2, Knowledge, TypesOf DEF Holds
<1>6. a \in C /\ (~marking => a = Dummy)
  BY <1>1, <1>5, Reached, Knowledge DEF CallOf
<1>7. Relinked(next, next', a, To(x))
  <2>1. To(x) \in Links
    BY <1>4 DEF To, Links
  <2>2. QED BY <1>1, <1>2, <1>3, <2>1, ExceptRelinks
<1>8. Lists(marking, next', A \cup {x}, C \cup {x}, r2)
  BY <1>3, <1>4, <1>5, <1>6, <1>7, Linking
<1>9. LET list == Rest(next, Dummy) IN
        /\ a \in ToSet(list) /\ x \notin ToSet(list)
        /\ Rest(next', Dummy) = InsertAt(list, PlaceOf(list, a) + 1, x)
  BY <1>3, <1>4, <1>5, <1>6, <1>7, LinkInserts
<1>10. node'[t] = Null /\ decision' = <<t, TRUE>> /\ LocalTypes'
  BY AnswerEffect, AnswerTypes
<1>11. L!Next
  BY <1>1, <1>2, <1>3, <1>9, <1>10, Inserting
<1>12. TypeOK'
  <2>1. next' \in [All -> Links]
    BY <1>7 DEF Relinked
  <2>2. QED BY <1>10, <2>1 DEF LocalTypes, TypeOK
<1>13. Owned(A \cup {x})'
  BY <1>2, <1>3, <1>4, <1>10, OwnedLinked
<1>14. KeepsHeld(t)
  BY <1>3, <1>5, <1>6, <1>7, HeldWhenLinked DEF Relinked
<1>15. KeepsOrder(A, r, r2)
  <2>1. \A n \in A \cup {Null} : r2[n] = 2 * r[n] /\ r[n] \in Nat
    BY <1>3, <1>4 DEF Lists, Ranked, Places, Shifted
  <2> HIDE DEF r2
  <2>2. QED BY <2>1 DEF KeepsOrder
<1> HIDE DEF r2
<1>16. Holds(marking, next', A \cup {x}, r2, pc'[t], anchor'[t], node'[t], expected'[t], after'[t])
  BY AnswerHolds
<1>17. PICK A2, C2, r3 : A2 = A \cup {x} /\ C2 = C \cup {x} /\ r3 = r2
  OBVIOUS
<1>18. Shape(A2, C2, r3)'
  <2>1. Owned(A2)'
    BY <1>13, <1>17
  <2>2. QED BY <1>8, <1>14, <1>15, <1>16, <1>17, <2>1, ShapeStep
<1>19. Keeps
  <2>1. PICK D : D = Found(next', Dummy)
    OBVIOUS
  <2>2. /\ Ranked(next, r) /\ next' \in [All -> Links] /\ Ranked(next', r3)
        /\ a \in All /\ \A n \in A \cup {Null} : n \in Places
    <3>1. Ranked(next, r) /\ a \in All /\ \A n \in A \cup {Null} : n \in Places
      BY <1>3, ListsTypes
    <3>2. next' \in [All -> Links] /\ Ranked(next', r3)
      BY <1>8, <1>17 DEF Lists
    <3>3. QED BY <3>1, <3>2
  <2>3. /\ next'[a] = To(x) /\ To(x).to = x /\ ~To(x).mark
        /\ next'[x] = next[a] /\ \A n \in All : n # a => next'[n] = next[n]
    BY <1>3, <1>4, <1>5, <1>7 DEF Relinked, To
  <2>4. ASSUME Kept(next, next', D, next[a].to) PROVE Kept(next, next', D, a)
    <3>1. Found(next, a) = {a} \cup Found(next, next[a].to)
      BY <1>3, <1>5, <2>2, FoundEquations
    <3>2. Found(next', a) = {a} \cup Found(next', x)
      <4>1. Found(next', a) = (IF next'[a].mark THEN {} ELSE {a}) \cup Found(next', next'[a].to)
        BY <2>2, FoundEquations
      <4>2. QED BY <2>3, <4>1
    <3>3. Found(next', next[a].to) \subseteq Found(next', x)
      <4>1. Found(next', x) = (IF next'[x].mark THEN {} ELSE {x}) \cup Found(next', next'[x].to)
        BY <1>4, <2>2, FoundEquations
      <4>2. QED BY <2>3, <4>1
    <3>4. QED BY <2>4, <3>1, <3>2, <3>3 DEF Kept
  <2>5. \A n \in Places : Kept(next, next', D, n)
    BY <1>3, <2>2, <2>3, <2>4, KeptByOne
  <2>6. QED BY <2>1, <2>2, <2>5, KeepsAll
<1>20. QED BY <1>11, <1>12, <1>18, <1>19 DEF Advances

(* The CAS of insert_after(), or its failure                                *)
LEMMA LinkStep ==
  ASSUME TypeOK, Calling, NEW t \in Threads, NEW A, NEW C, NEW r, Shape(A, C, r), Link(t)
  PROVE  Advances
<1>1. OthersStay(t) /\ UNCHANGED <<marking, fresh>> /\ pc[t] = "link"
  BY NextFrame DEF Step, Link
<1>2. op[t] = "insert" /\ anchor[t] \in A /\ Owned(A) /\ (~marking => anchor[t] = Dummy)
  BY <1>1, Knowledge DEF CallOf
<1>3. CASE /\ next[anchor[t]] = expected[t]
           /\ next' = [next EXCEPT ![anchor[t]] = To(node[t])]
           /\ Answer(t, TRUE)
  BY <1>1, <1>3, LinkSucceeds
<1>4. CASE /\ Goto(t, "load") /\ expected' = [expected EXCEPT ![t] = To(Null)]
           /\ Undecided /\ UNCHANGED <<next, op, anchor, node, after>>
  <2>1. pc'[t] = "load" /\ expected'[t] = To(Null) /\ decision' = None
    BY <1>4 DEF Goto, Undecided, TypeOK
  <2>2. LocalTypes' /\ fresh' \subseteq Nodes
    <3>1. To(Null) \in {l \in Links : ~l.mark}
      BY TypesOf
    <3>2. QED BY <1>1, <1>4, <3>1 DEF Goto, Undecided, TypeOK, LocalTypes
  <2>3. Owned(A)'
    BY <1>1, <1>2, <1>4, OwnedSame
  <2>4. Holds(marking, next, A, r, pc'[t], anchor'[t], node'[t], expected'[t], after'[t])
    <3>1. anchor'[t] \in A \cup {Null} /\ expected'[t].to \in Targets(A)
      BY <1>2, <1>4, <2>1, TypesOf DEF Targets
    <3>2. QED BY <2>1, <3>1 DEF Holds
  <2>5. TypeOK' /\ \E A2, C2, r2 : Shape(A2, C2, r2)'
    BY <1>1, <1>4, <2>2, <2>3, <2>4, QuietStep
  <2>6. L!Next /\ Keeps
    BY <1>4, <2>1, Passing, KeepsSame
  <2>7. QED BY <2>5, <2>6 DEF Advances
<1>5. CASE ~marking /\ Prepare(t, next[anchor[t]])
  <2>1. ~next[anchor[t]].mark
    BY <1>2, <1>5, Knowledge DEF Lists, Linked
  <2>2. QED BY <1>1, <1>2, <1>5, <2>1, PrepareStep
<1>6. QED BY <1>3, <1>4, <1>5 DEF Link

(* The load of insert_after()                                               *)
LEMMA InsertLoadStep ==
  ASSUME TypeOK, Calling, NEW t \in Threads, NEW A, NEW C, NEW r, Shape(A, C, r), InsertLoad(t)
  PROVE  Advances
<1>1. /\ OthersStay(t) /\ UNCHANGED <<marking, fresh>> /\ pc[t] = "load" /\ op[t] = "insert"
  BY NextFrame DEF Step, InsertLoad
<1>2. CASE next[anchor[t]].mark /\ Answer(t, FALSE) /\ UNCHANGED next
  BY <1>1, <1>2, RefuseStep
<1>3. CASE ~next[anchor[t]].mark /\ Prepare(t, next[anchor[t]])
  BY <1>1, <1>3, PrepareStep
<1>4. QED BY <1>2, <1>3 DEF InsertLoad

(* The load of erase_after()                                                *)
LEMMA EraseLoadStep ==
  ASSUME TypeOK, Calling, NEW t \in Threads, NEW A, NEW C, NEW r, Shape(A, C, r), EraseLoad(t)
  PROVE  Advances
<1>1. OthersStay(t) /\ UNCHANGED <<marking, next, fresh>>
  BY NextFrame DEF Step, EraseLoad
<1>2. pc[t] = "load" /\ op[t] = "erase" /\ Target(t, next[anchor[t]])
  BY DEF EraseLoad
<1>3. QED BY <1>1, <1>2, TargetStep

(* The steps that only move a thread on                                     *)
LEMMA MoveStep ==
  ASSUME TypeOK, Calling, NEW t \in Threads, NEW A, NEW C, NEW r, Shape(A, C, r),
         OthersStay(t), UNCHANGED <<marking, next, fresh, op, anchor, node, expected>>, Undecided,
         pc[t] \in {"target", "mark"}, Goto(t, pc'[t]),
         after' = [after EXCEPT ![t] = next[expected[t].to]],
         pc'[t] = (IF marking /\ ~next[expected[t].to].mark THEN "mark" ELSE "unlink")
  PROVE  Advances
<1> DEFINE n == expected[t].to
<1>1. Holds(marking, next, A, r, pc[t], anchor[t], node[t], expected[t], after[t])
  BY Knowledge
<1>2. n \in A /\ next[n] \in Links /\ (next[n].mark => marking) /\ Owned(A)
  BY <1>1, Knowledge DEF Holds, Targets, Lists, Linked
<1>3. after'[t] = next[n]
  BY DEF TypeOK
<1>4. Holds(marking, next, A, r, pc'[t], anchor'[t], node'[t], expected'[t], after'[t])
  BY <1>1, <1>2, <1>3 DEF Holds
<1>5. LocalTypes' /\ fresh' \subseteq Nodes
  BY <1>2 DEF Goto, Undecided, TypeOK, LocalTypes
<1>6. Owned(A)'
  BY <1>2, OwnedSame
<1>7. TypeOK' /\ \E A2, C2, r2 : Shape(A2, C2, r2)'
  BY <1>4, <1>5, <1>6, QuietStep
<1>8. L!Next /\ Keeps
  BY Passing, KeepsSame DEF Undecided
<1>9. QED BY <1>7, <1>8 DEF Advances

(* The load of the successor of the target                                  *)
LEMMA LoadAfterStep ==
  ASSUME TypeOK, Calling, NEW t \in Threads, NEW A, NEW C, NEW r, Shape(A, C, r), LoadAfter(t)
  PROVE  Advances
<1> DEFINE v == next[expected[t].to]
           l == IF marking /\ ~v.mark THEN "mark" ELSE "unlink"
<1>1. OthersStay(t)
  BY NextFrame DEF Step
<1>2. pc[t] = "target" /\ after' = [after EXCEPT ![t] = v] /\ Goto(t, l) /\ Undecided
      /\ UNCHANGED <<marking, next, fresh, op, anchor, node, expected>>
  BY DEF LoadAfter
<1>3. pc'[t] = l
  BY <1>2 DEF Goto, TypeOK
<1>4. Goto(t, pc'[t])
  BY <1>2, <1>3 DEF Goto
<1>5. QED BY <1>1, <1>2, <1>3, <1>4, MoveStep

(* The CAS that marks, or its failure                                       *)
LEMMA MarkStep ==
  ASSUME TypeOK, Calling, NEW t \in Threads, NEW A, NEW C, NEW r, Shape(A, C, r), Mark(t)
  PROVE  Advances
<1>1. OthersStay(t) /\ UNCHANGED <<marking, fresh, anchor, node, expected>> /\ pc[t] = "mark"
  BY NextFrame DEF Step, Mark
<1>2. PICK n : n = expected[t].to
  OBVIOUS
<1>3. /\ Lists(marking, next, A, C, r) /\ Owned(A) /\ A \subseteq All /\ next \in [All -> Links]
      /\ marking = TRUE /\ op[t] = "erase"
      /\ Holds(marking, next, A, r, pc[t], anchor[t], node[t], expected[t], after[t])
  BY <1>1, Knowledge, TypesOf DEF CallOf, TypeOK
<1>4. /\ n \in A \ {Dummy} /\ r[n] < r[anchor[t]] /\ ~after[t].mark /\ next[n] \in Links
      /\ anchor[t] \in A \cup {Null} /\ n # Null /\ n \in Targets(A)
  BY <1>1, <1>2, <1>3, Knowledge DEF Holds, Targets
<1>5. CASE /\ next[n] = after[t]
           /\ next' = [next EXCEPT ![n] = Marked(@)]
           /\ after' = [after EXCEPT ![t] = Marked(@)]
           /\ decision' = <<t, TRUE>>
           /\ op' = [op EXCEPT ![t] = "erased"]
           /\ Goto(t, "unlink")
  <2>1. Marked(next[n]) \in Links /\ Marked(next[n]).mark
    BY <1>4 DEF Marked, Links
  <2>2. Relinked(next, next', n, Marked(next[n]))
    BY <1>3, <1>4, <1>5, <2>1, ExceptRelinks
  <2>3. Lists(marking, next', A, C, r)
    BY <1>3, <1>4, <2>2, Marking
  <2>4. RemovedBelow(Rest(next, Dummy), Rest(next', Dummy), r, n)
    BY <1>3, <1>4, <1>5, <2>2, MarkErases
  <2>5. L!Next
    BY <1>3, <1>4, <1>5, <2>4, Erasing
  <2>6. LocalTypes'
    BY <1>1, <1>4, <1>5, <2>1 DEF Goto, TypeOK, LocalTypes
  <2>7. TypeOK'
    <3>1. next' \in [All -> Links]
      BY <2>2 DEF Relinked
    <3>2. QED BY <1>1, <2>6, <3>1 DEF LocalTypes, TypeOK
  <2>8. Owned(A)'
    BY <1>1, <1>3, OwnedSame
  <2>9. KeepsHeld(t)
    BY <1>3, <1>4, <1>5, <2>2, HeldWhenLinked DEF Relinked
  <2>10. pc'[t] = "unlink" /\ after'[t] = Marked(next[n])
    BY <1>5 DEF Goto, TypeOK
  <2>11. Holds(marking, next', A, r, pc'[t], anchor'[t], node'[t], expected'[t], after'[t])
    <3>1. next'[n] = Marked(next[n]) /\ expected'[t].to = n /\ anchor'[t] = anchor[t]
      BY <1>1, <1>2, <2>2 DEF Relinked
    <3>2. QED BY <1>3, <1>4, <2>1, <2>10, <3>1 DEF Holds
  <2>12. Shape(A, C, r)'
    BY <1>1, <2>3, <2>8, <2>9, <2>11, OrderSame, ShapeStep
  <2>13. Keeps
    <3>1. PICK D : D = Found(next', Dummy)
      OBVIOUS
    <3>2. /\ Ranked(next, r) /\ next' \in [All -> Links] /\ Ranked(next', r)
          /\ \A m \in A \cup {Null} : m \in Places
      BY <1>3, <2>3, ListsTypes
    <3>3. /\ next'[n].mark /\ next'[n].to = next[n].to /\ n \in All
          /\ \A m \in All : m # n => next'[m] = next[m]
      BY <1>3, <1>4, <2>1, <2>2 DEF Relinked, Marked
    <3>4. n \notin D
      BY <2>3, <3>1, <3>3, ListedNodes DEF Found
    <3>5. ASSUME Kept(next, next', D, next[n].to) PROVE Kept(next, next', D, n)
      <4>1. Found(next, n) \subseteq {n} \cup Found(next, next[n].to)
        BY <1>3, <3>2, <3>3, FoundEquations
      <4>2. Found(next', n) = Found(next', next[n].to)
        <5>1. Found(next', n) = (IF next'[n].mark THEN {} ELSE {n}) \cup Found(next', next'[n].to)
          BY <3>2, <3>3, FoundEquations
        <5>2. QED BY <3>3, <5>1
      <4>3. QED BY <3>4, <3>5, <4>1, <4>2 DEF Kept
    <3>6. \A m \in Places : Kept(next, next', D, m)
      BY <1>3, <3>2, <3>3, <3>5, KeptByOne
    <3>7. QED BY <3>1, <3>2, <3>6, KeepsAll
  <2>14. QED BY <2>5, <2>7, <2>12, <2>13 DEF Advances
<1>6. CASE /\ next[n] # after[t]
           /\ after' = [after EXCEPT ![t] = next[n]]
           /\ Goto(t, IF next[n].mark THEN "unlink" ELSE "mark")
           /\ Undecided /\ UNCHANGED <<next, op>>
  <2>1. pc'[t] = (IF marking /\ ~next[n].mark THEN "mark" ELSE "unlink")
    BY <1>3, <1>6 DEF Goto, TypeOK
  <2>2. Goto(t, pc'[t])
    BY <1>6 DEF Goto, TypeOK
  <2>3. QED BY <1>1, <1>2, <1>6, <2>1, <2>2, MoveStep
<1>7. QED BY <1>2, <1>5, <1>6 DEF Mark

(* Where the target n of t is unlinked                                      *)
LEMMA UnlinkShape ==
  ASSUME TypeOK, Calling, NEW t \in Threads, NEW A, NEW C, NEW r, Shape(A, C, r),
         OthersStay(t), UNCHANGED <<marking, fresh>>, pc[t] = "unlink",
         next[anchor[t]] = expected[t], NEW v, v = Unmarked(after[t]),
         next' = [next EXCEPT ![anchor[t]] = v], LocalTypes', Owned(A)',
         pc'[t] \in {"idle", "load"}, anchor'[t] = anchor[t], expected'[t] = To(Null)
  PROVE  /\ TypeOK' /\ \E A2, C2, r2 : Shape(A2, C2, r2)'
         /\ Keeps
         /\ marking => Rest(next', Dummy) = Rest(next, Dummy)
         /\ ~marking => /\ RemovedBelow(Rest(next, Dummy), Rest(next', Dummy), r, expected[t].to)
                        /\ r[expected[t].to] < r[anchor[t]]
<1>1. PICK a, n : a = anchor[t] /\ n = expected[t].to
  OBVIOUS
<1>2. /\ Lists(marking, next, A, C, r) /\ A \subseteq All /\ next \in [All -> Links]
      /\ a \in A /\ ~next[a].mark /\ next[a].to = n
      /\ Holds(marking, next, A, r, pc[t], anchor[t], node[t], expected[t], after[t])
  BY <1>1, Knowledge, TypesOf
<1>3. /\ n \in A \ {Dummy} /\ r[n] < r[a] /\ after[t] = next[n] /\ (next[n].mark <=> marking)
      /\ next[n] \in Links
  BY <1>1, <1>2, Knowledge DEF Holds, Targets
<1>4. v \in Links /\ v.to = next[n].to /\ ~v.mark
  BY <1>3 DEF Unmarked, Links
<1>5. a \in C /\ (~marking => a = Dummy)
  BY <1>1, <1>2, Reached, Knowledge DEF CallOf
<1>6. Relinked(next, next', a, v)
  BY <1>1, <1>2, <1>4, ExceptRelinks
<1>7. Lists(marking, next', A, C \ {n}, r)
  BY <1>2, <1>3, <1>4, <1>5, <1>6, Unlinking
<1>8. /\ next[n].mark => Rest(next', Dummy) = Rest(next, Dummy)
      /\ ~next[n].mark => RemovedBelow(Rest(next, Dummy), Rest(next', Dummy), r, n)
  BY <1>2, <1>3, <1>4, <1>5, <1>6, UnlinkErases
<1>9. TypeOK'
  <2>1. next' \in [All -> Links]
    BY <1>6 DEF Relinked
  <2>2. QED BY <2>1 DEF LocalTypes, TypeOK
<1>10. KeepsHeld(t)
  BY <1>2, <1>5, <1>6, HeldWhenLinked DEF Relinked
<1>11. Holds(marking, next', A, r, pc'[t], anchor'[t], node'[t], expected'[t], after'[t])
  <2>1. anchor'[t] \in A \cup {Null} /\ expected'[t].to \in Targets(A)
    BY <1>1, <1>2, TypesOf DEF Targets
  <2>2. QED BY <2>1 DEF Holds
<1>12. PICK C2 : C2 = C \ {n}
  OBVIOUS
<1>13. Shape(A, C2, r)'
  BY <1>7, <1>10, <1>11, <1>12, OrderSame, ShapeStep
<1>14. Keeps
  <2>1. PICK D : D = Found(next', Dummy)
    OBVIOUS
  <2>2. /\ Ranked(next, r) /\ next' \in [All -> Links] /\ Ranked(next', r)
        /\ a \in All /\ n \in All /\ n # a /\ \A m \in A \cup {Null} : m \in Places
    <3>1. /\ Ranked(next, r) /\ a \in All /\ n \in All /\ \A m \in A \cup {Null} : m \in Places
          /\ r[n] \in Nat /\ r[a] \in Nat
      BY <1>2, <1>3, ListsTypes
    <3>2. next' \in [All -> Links] /\ Ranked(next', r)
      BY <1>7 DEF Lists
    <3>3. n # a
      BY <1>3, <3>1
    <3>4. QED BY <3>1, <3>2, <3>3
  <2>3. next'[a] = v /\ \A m \in All : m # a => next'[m] = next[m]
    BY <1>6 DEF Relinked
  <2>4. n \notin D
    <3>1. n \in D => n \in C2
      BY <1>7, <1>12, <2>1, ListedNodes DEF Found
    <3>2. QED BY <1>12, <3>1
  <2>5. ASSUME Kept(next, next', D, n) PROVE Kept(next, next', D, a)
    <3>1. Found(next, a) = {a} \cup Found(next, n)
      BY <1>2, <2>2, FoundEquations
    <3>2. Found(next', a) = {a} \cup Found(next', next[n].to)
      <4>1. Found(next', a) = (IF next'[a].mark THEN {} ELSE {a}) \cup Found(next', next'[a].to)
        BY <2>2, FoundEquations
      <4>2. QED BY <1>4, <2>3, <4>1
    <3>3. Found(next', n) \subseteq {n} \cup Found(next', next[n].to)
      <4>1. next'[n] = next[n]
        BY <2>2, <2>3
      <4>2. Found(next', n) = (IF next'[n].mark THEN {} ELSE {n}) \cup Found(next', next'[n].to)
        BY <2>2, FoundEquations
      <4>3. QED BY <4>1, <4>2
    <3>4. QED BY <2>4, <2>5, <3>1, <3>2, <3>3 DEF Kept
  <2>6. \A m \in Places : Kept(next, next', D, m)
    BY <1>2, <2>2, <2>3, <2>5, KeptByOne
  <2>7. QED BY <2>1, <2>2, <2>6, KeepsAll
<1>15. QED BY <1>1, <1>3, <1>8, <1>9, <1>13, <1>14

(* The CAS that unlinks with marks, or its failure                          *)
LEMMA UnlinkStep ==
  ASSUME TypeOK, Calling, NEW t \in Threads, NEW A, NEW C, NEW r, Shape(A, C, r), Unlink(t)
  PROVE  Advances
<1>1. OthersStay(t) /\ UNCHANGED <<marking, fresh, anchor, node>> /\ pc[t] = "unlink" /\ marking
  BY NextFrame DEF Step, Unlink
<1>2. /\ pc'[t] \in {"idle", "load"} /\ expected'[t] = To(Null) /\ decision' = None
  BY DEF Unlink, Return, Goto, Undecided, TypeOK
<1>3. LocalTypes'
  <2>1. To(Null) \in {l \in Links : ~l.mark} /\ To(Null) \in Links
    BY TypesOf
  <2>2. CASE Return(t)
    BY <1>1, <2>1, <2>2 DEF Return, Goto, Undecided, TypeOK, LocalTypes
  <2>3. CASE ~Return(t)
    BY <1>1, <2>1, <2>3 DEF Unlink, Goto, Undecided, TypeOK, LocalTypes
  <2>4. QED BY <2>2, <2>3
<1>4. Owned(A) /\ anchor[t] \in A
  BY <1>1, Knowledge
<1>5. Owned(A)'
  BY <1>1, <1>4, OwnedSame
<1>6. CASE next[anchor[t]] = expected[t]
  <2>1. PICK v : v = Unmarked(after[t])
    OBVIOUS
  <2>2. next' = [next EXCEPT ![anchor[t]] = v]
    BY <1>6, <2>1 DEF Unlink
  <2>3. /\ TypeOK' /\ \E A2, C2, r2 : Shape(A2, C2, r2)'
        /\ Rest(next', Dummy) = Rest(next, Dummy) /\ Keeps
    BY <1>1, <1>2, <1>3, <1>5, <1>6, <2>1, <2>2, UnlinkShape
  <2>4. QED BY <1>2, <2>3, Passing DEF Advances
<1>7. CASE next[anchor[t]] # expected[t]
  <2>1. next' = next
    BY <1>7 DEF Unlink
  <2>2. Holds(marking, next, A, r, pc'[t], anchor'[t], node'[t], expected'[t], after'[t])
    <3>1. anchor'[t] \in A \cup {Null} /\ expected'[t].to \in Targets(A)
      BY <1>1, <1>2, <1>4, TypesOf DEF Targets
    <3>2. QED BY <1>2, <3>1 DEF Holds
  <2>3. fresh' \subseteq Nodes
    BY <1>1 DEF TypeOK
  <2>4. TypeOK' /\ \E A2, C2, r2 : Shape(A2, C2, r2)'
    BY <1>1, <1>3, <1>5, <2>1, <2>2, <2>3, QuietStep
  <2>5. QED BY <1>2, <2>1, <2>4, Passing, KeepsSame DEF Advances
<1>8. QED BY <1>6, <1>7

(* The CAS that erases without marks, or its failure                        *)
LEMMA UnlinkPlainStep ==
  ASSUME TypeOK, Calling, NEW t \in Threads, NEW A, NEW C, NEW r, Shape(A, C, r), UnlinkPlain(t)
  PROVE  Advances
<1>1. OthersStay(t) /\ UNCHANGED <<marking, fresh>> /\ pc[t] = "unlink" /\ ~marking
  BY NextFrame DEF Step, UnlinkPlain
<1>2. op[t] = "erase" /\ anchor[t] \in A /\ Owned(A) /\ A \subseteq All
  BY <1>1, Knowledge DEF CallOf
<1>3. CASE /\ next[anchor[t]] = expected[t]
           /\ next' = [next EXCEPT ![anchor[t]] = after[t]]
           /\ Answer(t, TRUE)
  <2>1. after[t] = Unmarked(after[t])
    <3>1. after[t] \in Links /\ ~after[t].mark
      BY <1>1, Knowledge, TypesOf DEF Holds
    <3>2. QED BY <3>1 DEF Unmarked, Links
  <2>2. PICK v : v = after[t]
    OBVIOUS
  <2>3. /\ pc'[t] = "idle" /\ node'[t] = Null /\ anchor'[t] = anchor[t] /\ expected'[t] = To(Null)
        /\ decision' = <<t, TRUE>> /\ LocalTypes'
    BY <1>3, AnswerEffect, AnswerTypes
  <2>4. Owned(A)'
    BY <1>1, <1>2, <2>3, OwnedAnswer
  <2>5. /\ TypeOK' /\ \E A2, C2, r2 : Shape(A2, C2, r2)'
        /\ Keeps
        /\ RemovedBelow(Rest(next, Dummy), Rest(next', Dummy), r, expected[t].to)
        /\ r[expected[t].to] < r[anchor[t]]
    BY <1>1, <1>3, <2>1, <2>2, <2>3, <2>4, UnlinkShape
  <2>6. PICK n : n = expected[t].to
    OBVIOUS
  <2>7. L!Next
    BY <1>2, <2>3, <2>5, <2>6, Erasing
  <2>8. QED BY <2>5, <2>7 DEF Advances
<1>4. CASE Target(t, next[anchor[t]]) /\ UNCHANGED next
  BY <1>1, <1>2, <1>4, TargetStep
<1>5. QED BY <1>3, <1>4 DEF UnlinkPlain

(* The iterator moves, or a call begins.                                    *)
LEMMA CallStep ==
  ASSUME TypeOK, Calling, NEW t \in Threads, NEW A, NEW C, NEW r, Shape(A, C, r), Call(t)
  PROVE  Advances
<1>1. OthersStay(t) /\ marking' = marking
  BY NextFrame
<1>2. /\ Lists(marking, next, A, C, r) /\ Owned(A) /\ A \subseteq All /\ Dummy \in A /\ Null \notin A
      /\ Holds(marking, next, A, r, pc[t], anchor[t], node[t], expected[t], after[t])
      /\ anchor[t] \in A \cup {Null}
  BY Knowledge
<1>3. pc[t] = "idle" /\ next' = next /\ decision' = None /\ expected' = expected
  BY DEF Call, Begin, Advance, CallInsert, CallErase, Undecided, locals
<1>4. CASE Begin(t) \/ Advance(t)
  <2>1. /\ pc' = pc /\ node' = node /\ fresh' = fresh
        /\ \E a \in A \cup {Null} : anchor' = [anchor EXCEPT ![t] = a]
    <3>1. CASE Begin(t)
      BY <1>2, <3>1 DEF Begin
    <3>2. CASE Advance(t)
      <4>1. anchor[t] \in A
        BY <1>2, <3>2 DEF Advance
      <4>2. next[anchor[t]].to \in A \cup {Null}
        BY <1>2, <4>1, ListsTypes
      <4>3. QED BY <3>2, <4>2 DEF Advance
    <3>3. QED BY <1>4, <3>1, <3>2
  <2>2. anchor'[t] \in A \cup {Null}
    BY <2>1 DEF TypeOK
  <2>3. LocalTypes' /\ fresh' \subseteq Nodes
    BY <1>2, <1>3, <1>4, <2>1 DEF Begin, Advance, Undecided, TypeOK, LocalTypes
  <2>4. Owned(A)'
    BY <1>2, <2>1, OwnedSame
  <2>5. Holds(marking, next, A, r, pc'[t], anchor'[t], node'[t], expected'[t], after'[t])
    BY <1>2, <1>3, <2>1, <2>2 DEF Holds
  <2>6. TypeOK' /\ \E A2, C2, r2 : Shape(A2, C2, r2)'
    BY <1>1, <1>3, <2>3, <2>4, <2>5, QuietStep
  <2>7. QED BY <1>3, <2>6, Passing, KeepsSame DEF Advances
<1>5. CASE CallInsert(t) \/ CallErase(t)
  <2>1. pc'[t] = "load" /\ anchor' = anchor /\ fresh' \subseteq Nodes
    BY <1>5 DEF CallInsert, CallErase, Goto, locals, TypeOK
  <2>2. LocalTypes'
    <3>1. CASE CallInsert(t)
      BY <3>1 DEF CallInsert, Goto, Undecided, TypeOK, LocalTypes
    <3>2. CASE CallErase(t)
      BY <3>2 DEF CallErase, Goto, Undecided, locals, TypeOK, LocalTypes
    <3>3. QED BY <1>5, <3>1, <3>2
  <2>3. Owned(A)'
    <3>1. CASE CallInsert(t)
      <4>1. PICK n \in fresh : fresh' = fresh \ {n} /\ node' = [node EXCEPT ![t] = n]
        BY <3>1 DEF CallInsert
      <4>2. node'[t] = n
        BY <4>1 DEF TypeOK
      <4>3. QED BY <1>1, <1>2, <4>1, <4>2, OwnedNew
    <3>2. CASE CallErase(t)
      BY <1>2, <3>2, OwnedSame DEF CallErase, locals
    <3>3. QED BY <1>5, <3>1, <3>2
  <2>4. Holds(marking, next, A, r, pc'[t], anchor'[t], node'[t], expected'[t], after'[t])
    BY <1>2, <1>3, <2>1 DEF Holds
  <2>5. TypeOK' /\ \E A2, C2, r2 : Shape(A2, C2, r2)'
    BY <1>1, <1>3, <2>1, <2>2, <2>3, <2>4, QuietStep
  <2>6. QED BY <1>3, <2>5, Passing, KeepsSame DEF Advances
<1>6. QED BY <1>4, <1>5 DEF Call

(* Every step does,                                                         *)
LEMMA NextAdvances ==
  ASSUME IInv, NEW t \in Threads, Call(t) \/ Step(t)
  PROVE  IInv' /\ L!Next /\ Keeps
<1>1. TypeOK /\ Calling
  BY DEF IInv
<1>2. PICK A, C, r : Shape(A, C, r)
  BY DEF IInv
<1>3. Calling'
  BY <1>1, CallingStep
<1>4. Advances
  BY <1>1, <1>2, CallStep, InsertLoadStep, LinkStep, EraseLoadStep, LoadAfterStep, MarkStep,
     UnlinkStep, UnlinkPlainStep DEF Step
<1>5. QED BY <1>3, <1>4 DEF Advances, IInv

(* and the invariant is inductive.                                          *)
LEMMA NextIInv ==
  ASSUME IInv, [Next]_vars PROVE IInv'
<1>1. CASE Next
  BY <1>1, NextAdvances DEF Next
<1>2. CASE UNCHANGED vars
  <2>1. /\ marking' = marking /\ next' = next /\ fresh' = fresh /\ pc' = pc /\ op' = op
        /\ anchor' = anchor /\ node' = node /\ expected' = expected /\ after' = after
        /\ decision' = decision
    BY <1>2 DEF vars, locals
  <2>2. TypeOK'
    BY <2>1 DEF IInv, TypeOK
  <2>3. Calling'
    BY <2>1 DEF IInv, Calling
  <2>4. PICK A, C, r : Shape(A, C, r)
    BY DEF IInv
  <2>5. Owned(A)'
    BY <2>1, <2>4 DEF Shape, Owned
  <2>6. Shape(A, C, r)'
    BY <2>1, <2>4, <2>5 DEF Shape
  <2>7. QED BY <2>2, <2>3, <2>6 DEF IInv
<1>3. QED BY <1>1, <1>2

(* The inductive invariant: what each thread holds fits the links, and the  *)
(* links of the nodes go down.                                              *)
THEOREM LockFreeListInvariant == Spec => []IInv
<1>1. Init => IInv
  BY InitIInv
<1>2. IInv /\ [Next]_vars => IInv'
  BY NextIInv
<1>3. QED BY <1>1, <1>2, PTL DEF Spec

(* Types: pointers lead to nodes or to null, marks are never expected, and  *)
(* the calls of insert_after() and erase_after() are where they can be.     *)
THEOREM LockFreeListTypes == Spec => []TypeOK
<1>1. IInv => TypeOK
  BY DEF IInv
<1>2. QED BY <1>1, LockFreeListInvariant, PTL

-----------------------------------------------------------------------------
(* Iterators                                                                *)
LEMMA SuffixFromSplit ==
  ASSUME NEW pre \in Seq(All), NEW s \in Seq(All)
  PROVE  IsSuffix(s, pre \o s)
<1> DEFINE l == pre \o s
           a == Len(pre)
           b == Len(s)
           p == Reverse(s)
           q == Reverse(l)
<1>1. a \in Nat /\ b \in Nat /\ l \in Seq(All) /\ Len(l) = a + b
  BY ConcatProperties
<1>2. \A i \in 1 .. b : l[a + i] = s[i]
  BY ConcatProperties
<1> HIDE DEF l
<1>3. /\ p \in [1 .. b -> All] /\ \A i \in 1 .. b : p[i] = s[(b - i) + 1]
  BY <1>1 DEF Reverse
<1>4. /\ q \in [1 .. a + b -> All] /\ \A i \in 1 .. a + b : q[i] = l[((a + b) - i) + 1]
  BY <1>1 DEF Reverse
<1> HIDE DEF p, q, a, b
<1>5. p \in Seq(All) /\ q \in Seq(All) /\ Len(p) = b /\ Len(q) = a + b
  BY <1>1, <1>3, <1>4, SeqDef
<1>6. ASSUME NEW i \in 1 .. b PROVE p[i] = q[i]
  <2>1. i \in 1 .. a + b /\ (b - i) + 1 \in 1 .. b /\ ((a + b) - i) + 1 = a + ((b - i) + 1)
    BY <1>1
  <2>2. QED BY <1>2, <1>3, <1>4, <2>1
<1> DEFINE u == SubSeq(p, 1, b)
           w == SubSeq(q, 1, b)
<1>7. /\ u \in Seq(All) /\ Len(u) = b /\ \A i \in 1 .. b : u[i] = p[i]
      /\ w \in Seq(All) /\ Len(w) = b /\ \A i \in 1 .. b : w[i] = q[i]
  BY <1>1, <1>3, <1>4, <1>5
<1> HIDE DEF u, w
<1>8. u = w
  BY <1>6, <1>7, SeqEqual
<1>9. b <= a + b
  BY <1>1
<1>10. IsPrefix(p, q)
  BY <1>5, <1>8, <1>9 DEF IsPrefix, u, w
<1>11. QED BY <1>10 DEF IsSuffix, p, q, l

(* What is found from n: nodes that are not in the list, none with marks,   *)
(* and then the last part of the list                                       *)
FindsRest(mk, nx, n) ==
  \E pre \in Seq(All), old \in Seq(All), s \in Seq(All) :
    /\ Rest(nx, Dummy) = pre \o s
    /\ Rest(nx, n) = old \o s
    /\ \A i \in 1 .. Len(old) : ~mk /\ old[i] \notin Found(nx, Dummy)

(* It is so at every node that was ever linked: one of the chain finds what *)
(* follows it there, and the others go on to such a node or to the end.     *)
LEMMA RestOfList ==
  ASSUME NEW mk, NEW nx, NEW A, NEW C, NEW r, Lists(mk, nx, A, C, r)
  PROVE  \A n \in A \cup {Null} : FindsRest(mk, nx, n)
<1> DEFINE e == <<>>
           S == {n \in Places : n \in A \cup {Null} => FindsRest(mk, nx, n)}
<1>1. /\ nx \in [All -> Links] /\ Ranked(nx, r) /\ Chained(nx, C, r) /\ A \subseteq All
      /\ Dummy \in Places /\ Null \in Places /\ Null \notin All
      /\ \A n \in All : nx[n].to \in A \cup {Null} /\ nx[n].to \in Places
  BY ListsTypes DEF Places
<1>2. e \in Seq(All) /\ Len(e) = 0 /\ \A q \in Seq(All) : e \o q = q /\ q \o e = q
  BY ConcatEmptySeq
<1> HIDE DEF e
<1>3. FindsRest(mk, nx, Null)
  <2>1. Rest(nx, Null) = e /\ Rest(nx, Dummy) \in Seq(All)
    BY <1>1, RestEquations DEF e
  <2>2. Rest(nx, Dummy) = Rest(nx, Dummy) \o e /\ Rest(nx, Null) = e \o e
    BY <1>2, <2>1
  <2>3. \A i \in 1 .. Len(e) : ~mk /\ e[i] \notin Found(nx, Dummy)
    BY <1>2
  <2>4. QED BY <1>2, <2>1, <2>2, <2>3 DEF FindsRest
<1>4. ASSUME NEW n \in C PROVE FindsRest(mk, nx, n)
  <2>1. SamePrefix(nx, nx, r, n)
    BY <1>1, Above
  <2>2. PICK pre \in Seq(All) : Rest(nx, Dummy) = pre \o Rest(nx, n)
    BY <2>1 DEF SamePrefix
  <2>3. Rest(nx, n) \in Seq(All)
    BY <1>1, RestEquations DEF Chained, Places
  <2>4. Rest(nx, n) = e \o Rest(nx, n) /\ \A i \in 1 .. Len(e) : ~mk /\ e[i] \notin Found(nx, Dummy)
    BY <1>2, <2>3
  <2>5. QED BY <1>2, <2>2, <2>3, <2>4 DEF FindsRest
<1>5. ASSUME NEW n \in A, n \notin C, FindsRest(mk, nx, nx[n].to) PROVE FindsRest(mk, nx, n)
  <2>1. PICK pre \in Seq(All), old \in Seq(All), s \in Seq(All) :
          /\ Rest(nx, Dummy) = pre \o s
          /\ Rest(nx, nx[n].to) = old \o s
          /\ \A i \in 1 .. Len(old) : ~mk /\ old[i] \notin Found(nx, Dummy)
    BY <1>5 DEF FindsRest
  <2>2. n \in All /\ Rest(nx, n) = Item(nx, n) \o (old \o s)
    BY <1>1, <2>1, RestEquations
  <2>3. n \notin Found(nx, Dummy)
    BY <1>5, ListedNodes DEF Found
  <2>4. CASE nx[n].mark
    <3>1. Rest(nx, n) = old \o s
      BY <1>2, <2>2, <2>4 DEF Item, e
    <3>2. QED BY <2>1, <3>1 DEF FindsRest
  <2>5. CASE ~nx[n].mark
    <3> DEFINE b == <<n>>
    <3>1. ~mk
      BY <1>5, <2>5 DEF Lists, Linked
    <3>2. b \in Seq(All) /\ Rest(nx, n) = b \o (old \o s)
      BY <2>2, <2>5 DEF Item
    <3>3. ASSUME NEW i \in 1 .. Len(b \o old) PROVE (b \o old)[i] \notin Found(nx, Dummy)
      <4>1. (b \o old)[i] = n \/ (i - 1 \in 1 .. Len(old) /\ (b \o old)[i] = old[i - 1])
        BY <2>1, <3>3
      <4>2. QED BY <2>1, <2>3, <4>1
    <3>4. b \o old \in Seq(All)
      BY <3>2
    <3> HIDE DEF b
    <3>5. b \o (old \o s) = (b \o old) \o s
      <4>1. b \in Seq(All) /\ old \in Seq(All) /\ s \in Seq(All)
        BY <3>2
      <4>2. (b \o old) \o s = b \o (old \o s)
        BY <4>1, ConcatAssociative
      <4>3. QED BY <4>2
    <3>6. QED BY <2>1, <3>1, <3>2, <3>3, <3>4, <3>5 DEF FindsRest
  <2>6. QED BY <2>4, <2>5
<1>6. Null \in S
  BY <1>1, <1>3
<1>7. ASSUME NEW n \in All, nx[n].to \in S PROVE n \in S
  <2>1. n \in Places
    BY DEF Places
  <2>2. ASSUME n \in A \cup {Null} PROVE FindsRest(mk, nx, n)
    BY <1>1, <1>4, <1>5, <1>7, <2>2
  <2>3. QED BY <2>1, <2>2
<1>8. S = Places
  <2>1. S \subseteq Places
    OBVIOUS
  <2> HIDE DEF S
  <2>2. QED BY <1>1, <1>6, <1>7, <2>1, RankInduction
<1>9. A \cup {Null} \subseteq Places
  BY <1>1 DEF Places
<1>10. QED BY <1>8, <1>9

(* What is found, cut behind the nodes that are not in the list             *)
LEMMA CutRest ==
  ASSUME NEW mk, NEW nx, NEW n, FindsRest(mk, nx, n)
  PROVE  \E k \in 0 .. Len(Rest(nx, n)) :
           /\ \A i \in 1 .. k : ~mk /\ Rest(nx, n)[i] \notin Found(nx, Dummy)
           /\ IsSuffix(SubSeq(Rest(nx, n), k + 1, Len(Rest(nx, n))), Rest(nx, Dummy))
<1>1. PICK pre \in Seq(All), old \in Seq(All), s \in Seq(All) :
        /\ Rest(nx, Dummy) = pre \o s
        /\ Rest(nx, n) = old \o s
        /\ \A i \in 1 .. Len(old) : ~mk /\ old[i] \notin Found(nx, Dummy)
  BY DEF FindsRest
<1> DEFINE w == old \o s
           k == Len(old)
           q == SubSeq(w, k + 1, Len(w))
<1>2. /\ w \in Seq(All) /\ Len(w) = k + Len(s) /\ k \in Nat /\ Len(s) \in Nat
      /\ \A i \in 1 .. k : w[i] = old[i]
      /\ \A i \in 1 .. Len(s) : w[k + i] = s[i]
  BY ConcatProperties
<1> HIDE DEF w, k
<1>3. q = s
  <2>1. q \in Seq(All) /\ Len(q) = Len(s) /\ \A i \in 1 .. Len(s) : q[i] = w[k + i]
    BY <1>2
  <2> HIDE DEF q
  <2>2. QED BY <1>2, <2>1, SeqEqual
<1>4. IsSuffix(q, pre \o s)
  BY <1>3, SuffixFromSplit
<1>5. k \in 0 .. Len(w) /\ \A i \in 1 .. k : ~mk /\ w[i] \notin Found(nx, Dummy)
  BY <1>1, <1>2 DEF k
<1>6. Rest(nx, n) = w
  BY <1>1 DEF w
<1> HIDE DEF q
<1>7. IsSuffix(q, Rest(nx, Dummy))
  BY <1>1, <1>4
<1>8. QED BY <1>5, <1>6, <1>7 DEF q

(* Where an iterator goes when it moves: to the head, or one node on        *)
LEMMA IteratorMoves ==
  ASSUME IInv, NEW t \in Threads, NEW u \in Threads, Call(u) \/ Step(u)
  PROVE  \/ anchor'[t] = anchor[t]
         \/ anchor'[t] = Dummy
         \/ next' = next /\ anchor[t] \in All /\ anchor'[t] = next[anchor[t]].to
<1>1. TypeOK
  BY DEF IInv
<1>2. OthersStay(u)
  BY <1>1, NextFrame
<1>3. CASE t # u
  BY <1>2, <1>3 DEF OthersStay
<1>4. CASE t = u
  <2>1. CASE Begin(u)
    BY <1>1, <1>4, <2>1 DEF Begin, TypeOK
  <2>2. CASE Advance(u)
    BY <1>1, <1>4, <2>2 DEF Advance, TypeOK
  <2>3. CASE ~Begin(u) /\ ~Advance(u)
    <3>1. anchor' = anchor
      BY <2>3 DEF Call, CallInsert, CallErase, Step, InsertLoad, Link, EraseLoad, LoadAfter, Mark,
                  Unlink, UnlinkPlain, Prepare, Target, Answer, Return, locals
    <3>2. QED BY <3>1
  <2>4. QED BY <2>1, <2>2, <2>3
<1>5. QED BY <1>3, <1>4

(* An iterator that is parked on a node, erased or not, "can keep walking   *)
(* through the graveyard chain back into the live suffix" (comments at      *)
(* lines 62-66 and 128-132): it finds, in the order of the list, all the    *)
(* nodes that were live behind its node, also when that was erased, and     *)
(* still are, and then the end.  Erased nodes keep their successor, a node  *)
(* is unlinked only when it is erased, and new links lead on to the old.    *)
THEOREM LockFreeListIterators == Spec => IteratorsReachTheRest
<1>1. IInv => FindsInOrder
  <2>1. SUFFICES ASSUME IInv, NEW t \in Threads
                 PROVE  LET found == Live(anchor[t]) IN
                          /\ WalkIn(next)[anchor[t]].end = Null
                          /\ \E k \in 0 .. Len(found) :
                               /\ \A i \in 1 .. k : ~marking /\ found[i] \notin InList
                               /\ IsSuffix(SubSeq(found, k + 1, Len(found)), Live(Dummy))
    BY DEF FindsInOrder
  <2>2. PICK A, C, r : Shape(A, C, r)
    BY <2>1 DEF IInv
  <2>3. Lists(marking, next, A, C, r) /\ A \subseteq Places /\ anchor[t] \in A \cup {Null}
    BY <2>1, <2>2, Knowledge DEF IInv
  <2>4. WalkIn(next)[anchor[t]].end = Null
    BY <2>3, WalkEquations DEF Lists, Places
  <2>5. FindsRest(marking, next, anchor[t])
    BY <2>3, RestOfList
  <2>6. \E k \in 0 .. Len(Rest(next, anchor[t])) :
          /\ \A i \in 1 .. k : ~marking /\ Rest(next, anchor[t])[i] \notin Found(next, Dummy)
          /\ IsSuffix(SubSeq(Rest(next, anchor[t]), k + 1, Len(Rest(next, anchor[t]))), Rest(next, Dummy))
    BY <2>5, CutRest
  <2>7. QED BY <2>4, <2>6 DEF Live, Rest, InList, Found
<1>2. IInv /\ [Next]_vars => [NoneIsMissed]_vars
  <2>1. SUFFICES ASSUME IInv, NEW u \in Threads, Call(u) \/ Step(u), NEW t \in Threads,
                        NEW n \in Found(next, anchor[t]), n \in Found(next', Dummy)
                 PROVE  n \in Found(next', anchor'[t]) \/ (n = anchor[t] /\ anchor'[t] # n)
    BY DEF Next, NoneIsMissed, Finds, InList, Live, Rest, Found
  <2>2. n \in Found(next', anchor[t])
    BY <2>1, NextAdvances DEF Keeps
  <2>3. CASE anchor'[t] = anchor[t] \/ anchor'[t] = Dummy
    BY <2>1, <2>2, <2>3
  <2>4. CASE next' = next /\ anchor[t] \in All /\ anchor'[t] = next[anchor[t]].to
    <3>1. PICK A, C, r : Shape(A, C, r)
      BY <2>1 DEF IInv
    <3>2. next \in [All -> Links] /\ Ranked(next, r)
      BY <3>1 DEF Shape, Lists
    <3>3. /\ Found(next, anchor[t]) = (IF next[anchor[t]].mark THEN {} ELSE {anchor[t]})
                                       \cup Found(next, next[anchor[t]].to)
      BY <2>4, <3>2, FoundEquations
    <3>4. next[anchor[t]].to # anchor[t]
      <4>1. next[anchor[t]].to \in Places /\ r[next[anchor[t]].to] < r[anchor[t]] /\ r[anchor[t]] \in Nat
        BY <2>4, <3>2, ItemType DEF Ranked, Places
      <4>2. QED BY <4>1
    <3>5. QED BY <2>1, <2>4, <3>3, <3>4
  <2>5. QED BY <2>1, <2>3, <2>4, IteratorMoves
<1>3. QED BY <1>1, <1>2, LockFreeListInvariant, PTL DEF Spec, IteratorsReachTheRest

-----------------------------------------------------------------------------
(* Refinement                                                               *)

(* The list of the live nodes from the head behaves as the abstract list:   *)
(* a successful insert_after() puts its node right after its anchor at its  *)
(* CAS, the mark, or without marks the CAS of erase_after(), takes one node *)
(* out, helping changes nothing, and a call is refused only with reason.    *)
THEOREM LockFreeListImplementsList == Spec => ImplementsList
<1>1. Init => L!Init
  <2>1. SUFFICES ASSUME Init PROVE L!Init
    OBVIOUS
  <2>2. IInv
    BY <2>1, InitIInv
  <2>3. PICK A, C, r : Shape(A, C, r)
    BY <2>2 DEF IInv
  <2>4. next \in [All -> Links] /\ Ranked(next, r) /\ Dummy \in All
    BY <2>3 DEF Shape, Lists, All
  <2>5. next[Dummy] = To(Null) /\ To(Null).to = Null /\ ~To(Null).mark
    BY <2>1, <2>4 DEF Init, To
  <2>6. Rest(next, Dummy) = Item(next, Dummy) \o Rest(next, Null) /\ Rest(next, Null) = <<>>
    BY <2>4, <2>5, RestEquations
  <2>7. Item(next, Dummy) = <<Dummy>>
    BY <2>5 DEF Item
  <2>8. Live(Dummy) = <<Dummy>>
    BY <2>6, <2>7 DEF Live, Rest
  <2>9. QED BY <2>1, <2>8 DEF Init, L!Init
<1>2. IInv /\ [Next]_vars => [L!Next]_(L!vars)
  <2>1. ASSUME IInv, Next PROVE L!Next
    BY <2>1, NextAdvances DEF Next
  <2>2. UNCHANGED vars => UNCHANGED L!vars
    BY DEF vars, locals, L!vars, Live
  <2>3. QED BY <2>1, <2>2
<1>3. QED BY <1>1, <1>2, LockFreeListInvariant, PTL DEF Spec, ImplementsList, L!Spec
=============================================================================
