----------------------------- MODULE TreeProofs -----------------------------
(***************************************************************************)
(* Theorems about the membership tree: what its roots vouch for, through   *)
(* any sequence of registrations, removals and reinstatements.             *)
(***************************************************************************)
EXTENDS MembershipTree, MembershipProofs

(***************************************************************************)
(* Recursive functions.                                                    *)
(***************************************************************************)

\* The functions a recursion from first by the steps next[1] .. next[n] defines.
Recursion(S, first, n, next) ==
  {g \in [0 .. n -> S] : g[0] = first /\ \A k \in 1 .. n : g[k] = next[k][g[k - 1]]}

\* There is one.
LEMMA FiniteRecursion ==
  ASSUME NEW S, NEW first \in S, NEW n \in Nat, NEW next \in [1 .. n -> [S -> S]]
  PROVE  \E g : g \in Recursion(S, first, n, next)
<1> DEFINE Solves(g, m) == /\ g \in [0 .. m -> S]
                           /\ g[0] = first
                           /\ \A k \in 1 .. m : g[k] = next[k][g[k - 1]]
           T == {m \in Nat : m <= n => \E g : Solves(g, m)}
<1> HIDE DEF Solves
<1>1. 0 \in T
  <2>1. Solves([k \in 0 .. 0 |-> first], 0)
    BY DEF Solves
  <2> QED
    BY <2>1
<1>2. ASSUME NEW m \in Nat, m \in T PROVE m + 1 \in T
  <2> SUFFICES ASSUME m + 1 <= n PROVE \E g : Solves(g, m + 1)
    BY <1>2
  <2>1. PICK g : Solves(g, m)
    BY <1>2
  <2> DEFINE h == [k \in 0 .. m + 1 |-> IF k = m + 1 THEN next[k][g[m]] ELSE g[k]]
  <2>2. /\ g \in [0 .. m -> S]
        /\ g[0] = first
        /\ \A k \in 1 .. m : g[k] = next[k][g[k - 1]]
    BY <2>1 DEF Solves
  <2>3. g[m] \in S /\ next[m + 1][g[m]] \in S
    BY <2>2
  <2>4. h \in [0 .. m + 1 -> S]
    BY <2>2, <2>3
  <2>5. h[0] = first
    BY <2>2
  <2>6. \A k \in 1 .. m + 1 : h[k] = next[k][h[k - 1]]
    <3> TAKE k \in 1 .. m + 1
    <3>1. CASE k = m + 1
      BY <3>1
    <3>2. CASE k # m + 1
      BY <3>2, <2>2
    <3> QED
      BY <3>1, <3>2
  <2>7. Solves(h, m + 1)
    BY <2>4, <2>5, <2>6 DEF Solves
  <2> QED
    BY <2>7
<1> HIDE DEF T
<1>3. n \in T
  BY <1>1, <1>2, SetInduction
<1> QED
  BY <1>3 DEF T, Solves, Recursion

\* Induction up to a bound.
LEMMA IntervalInduction ==
  ASSUME NEW T, NEW n \in Nat, 0 \in T, \A k \in 1 .. n : k - 1 \in T => k \in T
  PROVE  \A k \in 0 .. n : k \in T
<1> DEFINE U == {k \in Nat : k <= n => k \in T}
<1>1. 0 \in U
  OBVIOUS
<1>2. ASSUME NEW k \in Nat, k \in U PROVE k + 1 \in U
  <2> SUFFICES ASSUME k + 1 <= n PROVE k + 1 \in T
    OBVIOUS
  <2>1. k \in T /\ k + 1 \in 1 .. n /\ (k + 1) - 1 = k
    BY <1>2
  <2> QED
    BY <2>1
<1> HIDE DEF U
<1>3. Nat \subseteq U
  BY <1>1, <1>2, SetInduction
<1> QED
  BY <1>3 DEF U

(***************************************************************************)
(* The levels of a tree.                                                   *)
(***************************************************************************)

\* The leaves below a node double from one level to the next.
LEMMA Capacity ==
  /\ capacity \in [0 .. MaxTreeDepth -> Nat \ {0}]
  /\ capacity[0] = 1
  /\ \A k \in 1 .. MaxTreeDepth : capacity[k] = 2 * capacity[k - 1]
<1> DEFINE Sizes == Nat \ {0}
           next == [k \in 1 .. MaxTreeDepth |-> [v \in Sizes |-> 2 * v]]
<1>1. /\ next \in [1 .. MaxTreeDepth -> [Sizes -> Sizes]]
      /\ \A k \in 1 .. MaxTreeDepth : \A v \in Sizes : next[k][v] = 2 * v
  OBVIOUS
<1>2. MaxTreeDepth \in Nat /\ 1 \in Sizes
  BY TreeAssumption
<1> HIDE DEF next, Sizes
<1>3. PICK g \in [0 .. MaxTreeDepth -> Sizes] :
        g[0] = 1 /\ \A k \in 1 .. MaxTreeDepth : g[k] = next[k][g[k - 1]]
  <2>1. \E g : g \in Recursion(Sizes, 1, MaxTreeDepth, next)
    BY <1>1, <1>2, FiniteRecursion
  <2> QED
    BY <2>1 DEF Recursion
<1>4. \A k \in 1 .. MaxTreeDepth : g[k] = 2 * g[k - 1]
  BY <1>1, <1>3, <1>2
<1>5. g = [k \in 0 .. MaxTreeDepth |-> IF k = 0 THEN 1 ELSE 2 * g[k - 1]]
  BY <1>3, <1>4, <1>2
<1>6. capacity = [k \in 0 .. MaxTreeDepth |-> IF k = 0 THEN 1 ELSE 2 * capacity[k - 1]]
  BY <1>5 DEF capacity
<1>7. capacity[0] = 1 /\ \A k \in 1 .. MaxTreeDepth : capacity[k] = 2 * capacity[k - 1]
  BY <1>6, <1>2
<1> DEFINE T == {k \in Nat : capacity[k] \in Sizes}
<1>8. 0 \in T
  BY <1>7, <1>2
<1>9. ASSUME NEW k \in 1 .. MaxTreeDepth, k - 1 \in T PROVE k \in T
  BY <1>7, <1>2, <1>9 DEF Sizes
<1> HIDE DEF T
<1>10. \A k \in 0 .. MaxTreeDepth : k \in T
  BY <1>8, <1>9, <1>2, IntervalInduction
<1>11. \A k \in 0 .. MaxTreeDepth : capacity[k] \in Sizes
  BY <1>10 DEF T
<1> QED
  BY <1>6, <1>7, <1>11 DEF Sizes

\* Each ancestor's index is half of the one below.
LEMMA Ancestors ==
  ASSUME NEW i \in Nat
  PROVE  /\ ancestors(i) \in [0 .. MaxTreeDepth -> Nat]
         /\ ancestors(i)[0] = i
         /\ \A k \in 1 .. MaxTreeDepth : ancestors(i)[k] = ancestors(i)[k - 1] \div 2
<1> DEFINE next == [k \in 1 .. MaxTreeDepth |-> [v \in Nat |-> v \div 2]]
           up == ancestors(i)
<1>1. /\ next \in [1 .. MaxTreeDepth -> [Nat -> Nat]]
      /\ \A k \in 1 .. MaxTreeDepth : \A v \in Nat : next[k][v] = v \div 2
  OBVIOUS
<1>2. MaxTreeDepth \in Nat
  BY TreeAssumption
<1> HIDE DEF next
<1>3. PICK g \in [0 .. MaxTreeDepth -> Nat] :
        g[0] = i /\ \A k \in 1 .. MaxTreeDepth : g[k] = next[k][g[k - 1]]
  <2>1. \E g : g \in Recursion(Nat, i, MaxTreeDepth, next)
    BY <1>1, <1>2, FiniteRecursion
  <2> QED
    BY <2>1 DEF Recursion
<1>4. \A k \in 1 .. MaxTreeDepth : g[k] = g[k - 1] \div 2
  <2> TAKE k \in 1 .. MaxTreeDepth
  <2>1. g[k] = next[k][g[k - 1]] /\ g[k - 1] \in Nat
    BY <1>3, <1>2
  <2> QED
    BY <2>1, <1>1
<1>5. g = [k \in 0 .. MaxTreeDepth |-> IF k = 0 THEN i ELSE g[k - 1] \div 2]
  BY <1>3, <1>4, <1>2
<1>6. up = [k \in 0 .. MaxTreeDepth |-> IF k = 0 THEN i ELSE up[k - 1] \div 2]
  BY <1>5 DEF ancestors
<1> HIDE DEF up
<1>7. up[0] = i /\ \A k \in 1 .. MaxTreeDepth : up[k] = up[k - 1] \div 2
  BY <1>6, <1>2
<1> DEFINE T == {k \in Nat : up[k] \in Nat}
<1>8. 0 \in T
  BY <1>7, <1>2
<1>9. ASSUME NEW k \in 1 .. MaxTreeDepth, k - 1 \in T PROVE k \in T
  BY <1>7, <1>2, <1>9
<1> HIDE DEF T
<1>10. \A k \in 0 .. MaxTreeDepth : k \in T
  BY <1>8, <1>9, <1>2, IntervalInduction
<1>11. \A k \in 0 .. MaxTreeDepth : up[k] \in Nat
  BY <1>10 DEF T
<1> QED
  BY <1>6, <1>7, <1>11 DEF up

\* An ancestor's index is half of the one below, stated for one level.
LEMMA HalfAncestor ==
  ASSUME NEW i \in Nat, NEW k \in 1 .. MaxTreeDepth
  PROVE  /\ ancestors(i)[k] \in Nat
         /\ ancestors(i)[k - 1] \in Nat
         /\ ancestors(i)[k] = ancestors(i)[k - 1] \div 2
<1>1. k \in 0 .. MaxTreeDepth /\ k - 1 \in 0 .. MaxTreeDepth
  BY TreeAssumption
<1>2. ancestors(i)[k] \in Nat /\ ancestors(i)[k - 1] \in Nat
  BY <1>1, Ancestors
<1> QED
  BY <1>2, Ancestors

\* Multiplication keeps the order.
LEMMA Scale ==
  ASSUME NEW x \in Nat, NEW y \in Nat, NEW c \in Nat, x <= y
  PROVE  x * c <= y * c
<1>1. PICK e \in Nat : y = x + e
  <2>1. y - x \in Nat /\ y = x + (y - x)
    OBVIOUS
  <2> QED
    BY <2>1
<1>2. y * c = x * c + e * c /\ e * c \in Nat /\ x * c \in Nat
  BY <1>1
<1> QED
  BY <1>2

\* The node above leaf i at level k, and no other of that level, has leaf i
\* below it.
LEMMA AncestorBounds ==
  ASSUME NEW i \in Nat, NEW k \in 0 .. MaxTreeDepth
  PROVE  /\ ancestors(i)[k] * capacity[k] <= i
         /\ i < (ancestors(i)[k] + 1) * capacity[k]
<1> DEFINE Below(j) == /\ ancestors(i)[j] * capacity[j] <= i
                       /\ i < (ancestors(i)[j] + 1) * capacity[j]
           T == {j \in Nat : Below(j)}
<1> HIDE DEF Below
<1>1. 0 \in T
  BY Ancestors, Capacity DEF Below
<1>2. ASSUME NEW j \in 1 .. MaxTreeDepth, j - 1 \in T PROVE j \in T
  <2> DEFINE a == ancestors(i)[j - 1]  b == ancestors(i)[j]  c == capacity[j - 1]
  <2>1. /\ a \in Nat /\ b \in Nat /\ b = a \div 2 /\ c \in Nat
        /\ capacity[j] = 2 * c
    <3>1. j - 1 \in 0 .. MaxTreeDepth /\ j \in 0 .. MaxTreeDepth
      BY TreeAssumption
    <3>2. a \in Nat /\ b \in Nat /\ b = a \div 2
      BY <3>1, Ancestors
    <3> QED
      BY <3>1, <3>2, Capacity
  <2>2. a * c <= i /\ i < (a + 1) * c
    BY <1>2 DEF Below
  <2> HIDE DEF a, b, c
  <2>3. 2 * b <= a /\ a + 1 <= 2 * b + 2
    BY <2>1
  <2>4. (2 * b) * c <= a * c /\ (a + 1) * c <= (2 * b + 2) * c
    BY <2>1, <2>3, Scale
  <2>5. (2 * b) * c = b * (2 * c) /\ (2 * b + 2) * c = (b + 1) * (2 * c)
    BY <2>1
  <2>6. b * (2 * c) <= i /\ i < (b + 1) * (2 * c)
    <3>1. a * c \in Nat /\ (a + 1) * c \in Nat /\ b * (2 * c) \in Nat /\ (b + 1) * (2 * c) \in Nat
      BY <2>1
    <3> QED
      BY <3>1, <2>2, <2>4, <2>5
  <2> QED
    BY <2>1, <2>6 DEF Below, b
<1> HIDE DEF T
<1>3. k \in T
  BY <1>1, <1>2, TreeAssumption, IntervalInduction
<1> QED
  BY <1>3 DEF T, Below

\* The only node of a level with leaf i below it is leaf i's ancestor.
LEMMA OnlyAncestor ==
  ASSUME NEW i \in Nat, NEW k \in 0 .. MaxTreeDepth, NEW j \in Nat,
         j * capacity[k] <= i, i < (j + 1) * capacity[k]
  PROVE  j = ancestors(i)[k]
<1> DEFINE a == ancestors(i)[k]  c == capacity[k]
<1>1. a \in Nat /\ c \in Nat
  BY Ancestors, Capacity
<1>2. a * c <= i /\ i < (a + 1) * c
  BY AncestorBounds
<1>3. j * c <= i /\ i < (j + 1) * c
  OBVIOUS
<1> HIDE DEF a, c
<1>4. CASE j + 1 <= a
  BY <1>1, <1>2, <1>3, <1>4, Scale
<1>5. CASE a + 1 <= j
  BY <1>1, <1>2, <1>3, <1>5, Scale
<1> QED
  BY <1>1, <1>4, <1>5 DEF a

\* The next leaf's ancestors are the same or one further.
LEMMA NextAncestor ==
  ASSUME NEW i \in Nat, NEW k \in 0 .. MaxTreeDepth
  PROVE  ancestors(i + 1)[k] \in {ancestors(i)[k], ancestors(i)[k] + 1}
<1> DEFINE T == {j \in Nat : ancestors(i + 1)[j] \in {ancestors(i)[j], ancestors(i)[j] + 1}}
<1>1. 0 \in T
  BY Ancestors
<1>2. ASSUME NEW j \in 1 .. MaxTreeDepth, j - 1 \in T PROVE j \in T
  <2> DEFINE a == ancestors(i)[j - 1]  b == ancestors(i + 1)[j - 1]
  <2>1. /\ j - 1 \in 0 .. MaxTreeDepth /\ j \in Nat
        /\ i + 1 \in Nat
    BY TreeAssumption
  <2>2. /\ a \in Nat /\ b \in Nat
        /\ ancestors(i)[j] = a \div 2 /\ ancestors(i + 1)[j] = b \div 2
    BY <2>1, Ancestors
  <2>3. b \in {a, a + 1}
    BY <1>2
  <2> HIDE DEF a, b
  <2>4. b \div 2 \in {a \div 2, a \div 2 + 1}
    BY <2>2, <2>3
  <2> QED
    BY <2>1, <2>2, <2>4
<1> HIDE DEF T
<1>3. k \in T
  BY <1>1, <1>2, TreeAssumption, IntervalInduction
<1> QED
  BY <1>3 DEF T

\* Leaves 0 and 1 have the leftmost ancestors.
LEMMA FirstAncestors ==
  ASSUME NEW k \in 0 .. MaxTreeDepth
  PROVE  ancestors(0)[k] = 0 /\ (k # 0 => ancestors(1)[k] = 0)
<1> DEFINE T == {j \in Nat : ancestors(0)[j] = 0 /\ (j # 0 => ancestors(1)[j] = 0)}
<1>1. 0 \in T
  BY Ancestors
<1>2. ASSUME NEW j \in 1 .. MaxTreeDepth, j - 1 \in T PROVE j \in T
  <2>1. j - 1 \in 0 .. MaxTreeDepth /\ j \in Nat
    BY TreeAssumption
  <2>2. /\ ancestors(0)[j] = ancestors(0)[j - 1] \div 2
        /\ ancestors(1)[j] = ancestors(1)[j - 1] \div 2
        /\ ancestors(1)[0] = 1
    BY Ancestors
  <2>3. ancestors(0)[j - 1] = 0 /\ ancestors(1)[j - 1] \in {0, 1}
    BY <1>2, <2>1, <2>2
  <2> QED
    BY <2>1, <2>2, <2>3
<1> HIDE DEF T
<1>3. k \in T
  BY <1>1, <1>2, TreeAssumption, IntervalInduction
<1> QED
  BY <1>3 DEF T

\* The nodes above a leaf of a tree are nodes of the tree, the root the last.
LEMMA AncestorInTree ==
  ASSUME NEW depth \in 0 .. MaxTreeDepth, NEW i \in Positions(depth), NEW k \in 0 .. depth
  PROVE  /\ ancestors(i)[k] \in 0 .. capacity[depth - k] - 1
         /\ ancestors(i)[depth] = 0
<1>1. i \in Nat /\ i < capacity[depth] /\ capacity[depth] \in Nat
  BY Capacity DEF Positions
<1> DEFINE T == {j \in Nat : ancestors(i)[j] < capacity[depth - j]}
<1>2. 0 \in T
  <2>1. ancestors(i)[0] = i /\ depth - 0 = depth
    BY <1>1, Ancestors, TreeAssumption
  <2> QED
    BY <2>1, <1>1
<1>3. ASSUME NEW j \in 1 .. depth, j - 1 \in T PROVE j \in T
  <2> DEFINE a == ancestors(i)[j - 1]  c == capacity[depth - j]
  <2>1. /\ j - 1 \in 0 .. MaxTreeDepth /\ j \in 1 .. MaxTreeDepth
        /\ depth - (j - 1) \in 1 .. MaxTreeDepth /\ depth - j \in 0 .. MaxTreeDepth
        /\ (depth - (j - 1)) - 1 = depth - j
    BY TreeAssumption
  <2>2. a \in Nat /\ ancestors(i)[j] = a \div 2
    BY <2>1, <1>1, Ancestors
  <2>3. c \in Nat /\ capacity[depth - (j - 1)] = 2 * c
    BY <2>1, Capacity
  <2>4. a < 2 * c
    BY <1>3, <2>3
  <2> HIDE DEF a, c
  <2>5. a \div 2 < c
    BY <2>2, <2>3, <2>4
  <2> QED
    BY <2>1, <2>2, <2>5 DEF c
<1> HIDE DEF T
<1>4. \A j \in 0 .. depth : j \in T
  BY <1>2, <1>3, TreeAssumption, IntervalInduction
<1>5. /\ k \in 0 .. MaxTreeDepth /\ depth - k \in 0 .. MaxTreeDepth
      /\ ancestors(i)[k] \in Nat /\ ancestors(i)[depth] \in Nat
  <2>1. /\ k \in 0 .. MaxTreeDepth /\ depth - k \in 0 .. MaxTreeDepth
        /\ depth \in 0 .. MaxTreeDepth
    BY TreeAssumption
  <2>2. ancestors(i) \in [0 .. MaxTreeDepth -> Nat]
    BY <1>1, Ancestors
  <2> QED
    BY <2>1, <2>2
<1>6. ancestors(i)[k] < capacity[depth - k] /\ ancestors(i)[depth] < capacity[depth - depth]
  BY <1>4, TreeAssumption DEF T
<1>7. depth - depth = 0 /\ capacity[0] = 1 /\ capacity[depth - k] \in Nat
  BY <1>5, Capacity, TreeAssumption
<1> QED
  BY <1>5, <1>6, <1>7

(***************************************************************************)
(* What a node vouches for.  May[j] is the set of values that may stand    *)
(* for leaf j.                                                             *)
(***************************************************************************)

\* The vector v of n values stands for the leaves from b on.
Covers(v, b, n, May) ==
  /\ v \in [1 .. n -> LeafValues]
  /\ \A p \in 1 .. n : v[p] \in May[b + p - 1]

\* The vector of node j of level k.
NodeCovers(v, k, j, May) == Covers(v, j * capacity[k], capacity[k], May)

\* The hash of a pair stands for the leaves of both.
LEMMA CoversPair ==
  ASSUME NEW b \in Nat, NEW n \in Nat, NEW May, NEW v, NEW w,
         Covers(v, b, n, May), Covers(w, b + n, n, May)
  PROVE  Covers(hash_pair(v, w), b, 2 * n, May)
<1>1. /\ v \in [1 .. n -> LeafValues] /\ w \in [1 .. n -> LeafValues]
      /\ \A p \in 1 .. n : v[p] \in May[b + p - 1]
      /\ \A p \in 1 .. n : w[p] \in May[(b + n) + p - 1]
  BY DEF Covers
<1>2. /\ v \in Seq(LeafValues) /\ w \in Seq(LeafValues)
      /\ Len(v) = n /\ Len(w) = n
  BY <1>1
<1>3. /\ v \o w \in Seq(LeafValues)
      /\ Len(v \o w) = 2 * n
      /\ \A p \in 1 .. 2 * n : (v \o w)[p] = IF p <= n THEN v[p] ELSE w[p - n]
  BY <1>2
<1>4. v \o w \in [1 .. 2 * n -> LeafValues]
  BY <1>3, LenProperties
<1>5. ASSUME NEW p \in 1 .. 2 * n PROVE (v \o w)[p] \in May[b + p - 1]
  <2>1. CASE p <= n
    BY <2>1, <1>1, <1>3
  <2>2. CASE ~(p <= n)
    <3>1. p - n \in 1 .. n /\ (b + n) + (p - n) - 1 = b + p - 1
      BY <2>2
    <3> QED
      BY <3>1, <2>2, <1>1, <1>3
  <2> QED
    BY <2>1, <2>2
<1> QED
  BY <1>4, <1>5 DEF Covers, hash_pair

\* A node stands for the leaves of its children.
LEMMA NodePair ==
  ASSUME NEW k \in 1 .. MaxTreeDepth, NEW j \in Nat, NEW May, NEW v, NEW w,
         NodeCovers(v, k - 1, 2 * j, May), NodeCovers(w, k - 1, 2 * j + 1, May)
  PROVE  NodeCovers(hash_pair(v, w), k, j, May)
<1> DEFINE c == capacity[k - 1]
<1>1. c \in Nat /\ capacity[k] = 2 * c
  BY Capacity, TreeAssumption
<1>2. Covers(v, (2 * j) * c, c, May) /\ Covers(w, (2 * j + 1) * c, c, May)
  BY DEF NodeCovers
<1> HIDE DEF c
<1>3. /\ (2 * j) * c \in Nat
      /\ (2 * j + 1) * c = (2 * j) * c + c
      /\ j * (2 * c) = (2 * j) * c
  BY <1>1
<1>4. Covers(w, (2 * j) * c + c, c, May)
  BY <1>2, <1>3
<1>5. Covers(hash_pair(v, w), (2 * j) * c, 2 * c, May)
  BY <1>1, <1>2, <1>3, <1>4, CoversPair
<1> QED
  BY <1>1, <1>3, <1>5 DEF NodeCovers

\* The zero of a level stands for empty leaves.
LEMMA CoversZero ==
  ASSUME NEW b \in Nat, NEW k \in 0 .. MaxTreeDepth, NEW May,
         \A j \in Nat : b <= j /\ j < b + capacity[k] => Zero \in May[j]
  PROVE  Covers(zero_at_level(k), b, capacity[k], May)
<1>1. capacity[k] \in Nat /\ Zero \in LeafValues
  BY Capacity DEF LeafValues
<1>2. \A p \in 1 .. capacity[k] : b + p - 1 \in Nat /\ b <= b + p - 1 /\ b + p - 1 < b + capacity[k]
  BY <1>1
<1> QED
  BY <1>1, <1>2 DEF Covers, zero_at_level

\* What stands for some leaves still does when more may.
LEMMA CoversChange ==
  ASSUME NEW b \in Nat, NEW n \in Nat, NEW May, NEW New, NEW v,
         Covers(v, b, n, May),
         \A j \in Nat : b <= j /\ j < b + n => May[j] \subseteq New[j]
  PROVE  Covers(v, b, n, New)
<1>1. \A p \in 1 .. n : b + p - 1 \in Nat /\ b <= b + p - 1 /\ b + p - 1 < b + n
  OBVIOUS
<1> QED
  BY <1>1 DEF Covers

\* Two vectors for the same leaves are the same when each leaf allows one value.
LEMMA CoversOnce ==
  ASSUME NEW b \in Nat, NEW n \in Nat, NEW May, NEW v, NEW w,
         Covers(v, b, n, May), Covers(w, b, n, May),
         \A j \in Nat : b <= j /\ j < b + n => \A x, y \in May[j] : x = y
  PROVE  v = w
<1>1. \A p \in 1 .. n : b + p - 1 \in Nat /\ b <= b + p - 1 /\ b + p - 1 < b + n
  OBVIOUS
<1> QED
  BY <1>1 DEF Covers

(***************************************************************************)
(* Paths.                                                                  *)
(***************************************************************************)
sibling(at) == IF is_left(at) THEN at + 1 ELSE at - 1

\* A path of the tree's depth from leaf i, whose siblings stand for their leaves.
PathOK(path, i, depth, May) ==
  /\ DOMAIN path = 1 .. depth
  /\ Len(path) = depth
  /\ \A k \in 1 .. depth :
       /\ path[k][1] = is_left(ancestors(i)[k - 1])
       /\ NodeCovers(path[k][2], k - 1, sibling(ancestors(i)[k - 1]), May)

\* The hashes along a path: each is that of the pair with the sibling.
LEMMA PathHashes ==
  ASSUME NEW depth \in 0 .. MaxTreeDepth, NEW i \in Nat, NEW leaf \in LeafValues,
         NEW path, NEW May, PathOK(path, i, depth, May)
  PROVE  /\ path_hashes(leaf, path)[0] = <<leaf>>
         /\ \A k \in 1 .. depth : path_hashes(leaf, path)[k] =
              IF is_left(ancestors(i)[k - 1])
              THEN hash_pair(path_hashes(leaf, path)[k - 1], path[k][2])
              ELSE hash_pair(path[k][2], path_hashes(leaf, path)[k - 1])
<1> DEFINE Vector == Seq(LeafValues)
           next == [k \in 1 .. depth |-> [v \in Vector |->
                      IF path[k][1] THEN hash_pair(v, path[k][2]) ELSE hash_pair(path[k][2], v)]]
           h == path_hashes(leaf, path)
<1>1. depth \in Nat /\ <<leaf>> \in Vector /\ Len(path) = depth
  BY TreeAssumption DEF PathOK
<1>2. \A k \in 1 .. depth : path[k][2] \in Vector
  <2> TAKE k \in 1 .. depth
  <2>1. path[k][2] \in [1 .. capacity[k - 1] -> LeafValues]
    BY DEF PathOK, NodeCovers, Covers
  <2>2. capacity[k - 1] \in Nat
    BY Capacity, TreeAssumption
  <2> QED
    BY <2>1, <2>2
<1>3. \A v, w \in Vector : hash_pair(v, w) \in Vector
  BY DEF hash_pair
<1>4. /\ next \in [1 .. depth -> [Vector -> Vector]]
      /\ \A k \in 1 .. depth : \A v \in Vector : next[k][v] =
           IF path[k][1] THEN hash_pair(v, path[k][2]) ELSE hash_pair(path[k][2], v)
  BY <1>2, <1>3
<1> HIDE DEF next, Vector
<1>5. PICK g \in [0 .. depth -> Vector] :
        g[0] = <<leaf>> /\ \A k \in 1 .. depth : g[k] = next[k][g[k - 1]]
  <2>1. \E g : g \in Recursion(Vector, <<leaf>>, depth, next)
    BY <1>1, <1>4, FiniteRecursion
  <2> QED
    BY <2>1 DEF Recursion
<1>6. \A k \in 1 .. depth : g[k] =
        IF path[k][1] THEN hash_pair(g[k - 1], path[k][2]) ELSE hash_pair(path[k][2], g[k - 1])
  <2> TAKE k \in 1 .. depth
  <2>1. g[k] = next[k][g[k - 1]] /\ g[k - 1] \in Vector
    BY <1>5, <1>1
  <2> QED
    BY <2>1, <1>4
<1>7. g = [k \in 0 .. Len(path) |->
             IF k = 0 THEN <<leaf>>
             ELSE IF path[k][1] THEN hash_pair(g[k - 1], path[k][2])
             ELSE hash_pair(path[k][2], g[k - 1])]
  BY <1>5, <1>6, <1>1
<1>8. h = [k \in 0 .. Len(path) |->
             IF k = 0 THEN <<leaf>>
             ELSE IF path[k][1] THEN hash_pair(h[k - 1], path[k][2])
             ELSE hash_pair(path[k][2], h[k - 1])]
  BY <1>7 DEF path_hashes
<1> HIDE DEF h
<1>9. h[0] = <<leaf>>
  BY <1>8, <1>1
<1>10. \A k \in 1 .. depth : h[k] =
         IF path[k][1] THEN hash_pair(h[k - 1], path[k][2]) ELSE hash_pair(path[k][2], h[k - 1])
  BY <1>8, <1>1
<1>11. \A k \in 1 .. depth : path[k][1] = is_left(ancestors(i)[k - 1])
  BY DEF PathOK
<1> QED
  BY <1>9, <1>10, <1>11 DEF h

\* They stand for the leaves below the leaf's ancestors.
LEMMA PathCovers ==
  ASSUME NEW depth \in 0 .. MaxTreeDepth, NEW i \in Nat, NEW leaf \in LeafValues,
         NEW path, NEW May, PathOK(path, i, depth, May), leaf \in May[i]
  PROVE  \A k \in 0 .. depth :
           NodeCovers(path_hashes(leaf, path)[k], k, ancestors(i)[k], May)
<1> DEFINE h == path_hashes(leaf, path)
           T == {k \in Nat : NodeCovers(h[k], k, ancestors(i)[k], May)}
<1>1. 0 \in T
  <2>1. h[0] = <<leaf>> /\ ancestors(i)[0] = i /\ capacity[0] = 1
    BY PathHashes, Ancestors, Capacity
  <2>2. Covers(<<leaf>>, i * 1, 1, May)
    BY DEF Covers
  <2> QED
    BY <2>1, <2>2 DEF NodeCovers
<1>2. ASSUME NEW k \in 1 .. depth, k - 1 \in T PROVE k \in T
  <2> DEFINE a == ancestors(i)[k - 1]  b == ancestors(i)[k]  w == path[k][2]
  <2>1. k \in 1 .. MaxTreeDepth /\ k - 1 \in 0 .. MaxTreeDepth
    BY TreeAssumption
  <2>2. a \in Nat /\ b \in Nat /\ b = a \div 2
    BY <2>1, HalfAncestor
  <2>3. NodeCovers(h[k - 1], k - 1, a, May)
    BY <1>2
  <2>4. NodeCovers(w, k - 1, sibling(a), May)
    BY DEF PathOK
  <2>5. h[k] = IF is_left(a) THEN hash_pair(h[k - 1], w) ELSE hash_pair(w, h[k - 1])
    BY PathHashes
  <2> HIDE DEF a, b, w, h
  <2>6. CASE is_left(a)
    <3>1. a = 2 * b /\ sibling(a) = 2 * b + 1
      BY <2>2, <2>6 DEF is_left, sibling
    <3> QED
      BY <2>1, <2>2, <2>3, <2>4, <2>5, <2>6, <3>1, NodePair DEF b
  <2>7. CASE ~is_left(a)
    <3>1. a = 2 * b + 1 /\ sibling(a) = 2 * b
      BY <2>2, <2>7 DEF is_left, sibling
    <3> QED
      BY <2>1, <2>2, <2>3, <2>4, <2>5, <2>7, <3>1, NodePair DEF b
  <2> QED
    BY <2>6, <2>7
<1> HIDE DEF T
<1>3. \A k \in 0 .. depth : k \in T
  BY <1>1, <1>2, TreeAssumption, IntervalInduction
<1> QED
  BY <1>3 DEF T

(***************************************************************************)
(* The inductive invariant of one tree.                                    *)
(*                                                                         *)
(* Registered: zero, or the commitment once registered at a leaf.          *)
(* LiveOrRegistered: the leaf's commitment while it is live.               *)
(* Stored: the stored leaf and nothing else.                               *)
(***************************************************************************)
Registered(t) ==
  [i \in Nat |-> {Zero} \cup {c \in DOMAIN t.leaf_index : t.leaf_index[c] = i}]

Stored(t) ==
  [i \in Nat |-> IF i \in Positions(t.depth) THEN {t.leaf_value[i]} ELSE {Zero}]

LiveOrRegistered(t) ==
  [i \in Nat |-> IF Zero \in Stored(t)[i] THEN Registered(t)[i] ELSE Stored(t)[i]]

\* Every hash the tree reads stands for its leaves: the stored nodes, the left
\* siblings that filled_subtrees keeps for the next insertion, and the root.
HashesCover(t, May) ==
  /\ \A n \in Nodes(t.depth) : NodeCovers(t.node_hash[n], n[1], n[2], May)
  /\ \A k \in 1 .. t.depth :
       LET at == ancestors(t.next_leaf_index)[k - 1]
       IN  ~is_left(at) => NodeCovers(t.filled_subtrees[k], k - 1, at - 1, May)
  /\ NodeCovers(current_root(t), t.depth, 0, May)
  /\ \A i \in Positions(t.depth) : t.leaf_value[i] \in May[i]
  /\ \A i \in Nat : i >= t.next_leaf_index => Zero \in May[i]

TreeFields ==
  {"depth", "next_leaf_index", "filled_subtrees", "roots", "leaf_index", "member_leaf_index",
   "leaf_value", "next_root_index", "root_index", "node_hash", "min_valid_root_idx"}

TreeShape(t) ==
  /\ TreeOK(t)
  /\ DOMAIN t = TreeFields
  /\ t.filled_subtrees \in [1 .. t.depth -> Seq(LeafValues)]
  /\ t.roots \in Seq(NodeValues(t.depth))

\* The current root has the newest index, and no index is above it.
RootIndicesOK(t) ==
  /\ \A r \in DOMAIN t.root_index : t.root_index[r] <= curr_idx(t)
  /\ t.next_root_index > 0 => curr_idx(t) = t.next_root_index - 1
  /\ t.next_root_index = 0 => curr_idx(t) = 0
  /\ t.min_valid_root_idx <= curr_idx(t)
  /\ t.next_leaf_index <= t.next_root_index

LeavesOK(t) ==
  /\ \A m, n \in DOMAIN t.member_leaf_index :
       t.member_leaf_index[m] = t.member_leaf_index[n] => m = n
  /\ \A i \in Positions(t.depth) : t.leaf_value[i] # Zero =>
       /\ i < t.next_leaf_index
       /\ \E m \in DOMAIN t.member_leaf_index : t.member_leaf_index[m] = i
       /\ t.leaf_value[i] \in DOMAIN t.leaf_index
       /\ t.leaf_index[t.leaf_value[i]] = i

TreeInv(t) ==
  /\ TreeShape(t)
  /\ RootIndicesOK(t)
  /\ LeavesOK(t)
  /\ HashesCover(t, LiveOrRegistered(t))
  /\ \A r \in DOMAIN t.roots : NodeCovers(t.roots[r], t.depth, 0, Registered(t))
  /\ t.min_valid_root_idx = 0 => HashesCover(t, Stored(t))

(***************************************************************************)
(* What the operations leave in each field.                                *)
(***************************************************************************)

\* The history after a push.
pushed(t, root) ==
  LET roots == Append(t.roots, root)
  IN  IF Len(roots) > MaxRootHistory THEN Tail(roots) ELSE roots

\* push_root writes the history, the root's index and the next index.
LEMMA PushRootFields ==
  ASSUME NEW t, DOMAIN t = TreeFields, NEW root, NEW u, u = push_root(t, root)
  PROVE  /\ DOMAIN u = TreeFields
         /\ u.depth = t.depth
         /\ u.next_leaf_index = t.next_leaf_index
         /\ u.filled_subtrees = t.filled_subtrees
         /\ u.leaf_index = t.leaf_index
         /\ u.member_leaf_index = t.member_leaf_index
         /\ u.leaf_value = t.leaf_value
         /\ u.node_hash = t.node_hash
         /\ u.min_valid_root_idx = t.min_valid_root_idx
         /\ u.roots = pushed(t, root)
         /\ u.root_index = put(t.root_index, root, t.next_root_index)
         /\ u.next_root_index = t.next_root_index + 1
BY DEF push_root, pushed, TreeFields

\* write_path writes the stored nodes only.
LEMMA WritePathFields ==
  ASSUME NEW t, DOMAIN t = TreeFields, NEW i, NEW h, NEW u, u = write_path(t, i, h)
  PROVE  /\ DOMAIN u = TreeFields
         /\ u.depth = t.depth
         /\ u.next_leaf_index = t.next_leaf_index
         /\ u.filled_subtrees = t.filled_subtrees
         /\ u.roots = t.roots
         /\ u.leaf_index = t.leaf_index
         /\ u.member_leaf_index = t.member_leaf_index
         /\ u.leaf_value = t.leaf_value
         /\ u.next_root_index = t.next_root_index
         /\ u.root_index = t.root_index
         /\ u.min_valid_root_idx = t.min_valid_root_idx
         /\ u.node_hash = [n \in DOMAIN t.node_hash |->
                             IF n[2] = ancestors(i)[n[1]] THEN h[n[1]] ELSE t.node_hash[n]]
BY DEF write_path, TreeFields

\* The hashes of a registration and of a change of leaf i.
insert_hashes(t, c) == path_hashes(c, insertion_path(t, t.next_leaf_index))
update_hashes(t, i, v) == path_hashes(v, get_merkle_path(t, i))

\* filled_subtrees after a registration.
refilled(t, c) ==
  LET i == t.next_leaf_index
  IN  [k \in 1 .. t.depth |->
         IF is_left(ancestors(i)[k - 1]) /\ (i = 0 => k = 1)
         THEN insert_hashes(t, c)[k - 1] ELSE t.filled_subtrees[k]]

\* The nodes after the hashes h were stored above leaf i.
rewritten(t, i, h) ==
  [n \in DOMAIN t.node_hash |->
     IF n[2] = ancestors(i)[n[1]] THEN h[n[1]] ELSE t.node_hash[n]]

\* insert_leaf writes filled_subtrees, the stored nodes and the history.
LEMMA InsertLeafFields ==
  ASSUME NEW t, DOMAIN t = TreeFields, NEW c, NEW u,
         u = insert_leaf(t, c, t.next_leaf_index)
  PROVE  LET h == insert_hashes(t, c) IN
         /\ DOMAIN u = TreeFields
         /\ u.depth = t.depth
         /\ u.next_leaf_index = t.next_leaf_index
         /\ u.filled_subtrees = refilled(t, c)
         /\ u.leaf_index = t.leaf_index
         /\ u.member_leaf_index = t.member_leaf_index
         /\ u.leaf_value = t.leaf_value
         /\ u.node_hash = rewritten(t, t.next_leaf_index, h)
         /\ u.min_valid_root_idx = t.min_valid_root_idx
         /\ u.roots = pushed(t, h[t.depth])
         /\ u.root_index = put(t.root_index, h[t.depth], t.next_root_index)
         /\ u.next_root_index = t.next_root_index + 1
<1> DEFINE i == t.next_leaf_index
           h == insert_hashes(t, c)
           w == write_path(t, i, h)
           x == [w EXCEPT !.filled_subtrees = refilled(t, c)]
<1>1. u = push_root(x, h[t.depth])
  BY DEF insert_leaf, insert_hashes, refilled
<1>2. /\ DOMAIN w = TreeFields
      /\ w.depth = t.depth
      /\ w.next_leaf_index = t.next_leaf_index
      /\ w.roots = t.roots
      /\ w.leaf_index = t.leaf_index
      /\ w.member_leaf_index = t.member_leaf_index
      /\ w.leaf_value = t.leaf_value
      /\ w.next_root_index = t.next_root_index
      /\ w.root_index = t.root_index
      /\ w.min_valid_root_idx = t.min_valid_root_idx
      /\ w.node_hash = rewritten(t, i, h)
  BY WritePathFields DEF rewritten
<1> HIDE DEF w, h
<1>3. /\ DOMAIN x = TreeFields
      /\ x.depth = w.depth
      /\ x.next_leaf_index = w.next_leaf_index
      /\ x.filled_subtrees = refilled(t, c)
      /\ x.roots = w.roots
      /\ x.leaf_index = w.leaf_index
      /\ x.member_leaf_index = w.member_leaf_index
      /\ x.leaf_value = w.leaf_value
      /\ x.next_root_index = w.next_root_index
      /\ x.root_index = w.root_index
      /\ x.min_valid_root_idx = w.min_valid_root_idx
      /\ x.node_hash = w.node_hash
  BY <1>2 DEF TreeFields
<1> HIDE DEF x
<1>4. /\ DOMAIN u = TreeFields
      /\ u.depth = x.depth
      /\ u.next_leaf_index = x.next_leaf_index
      /\ u.filled_subtrees = x.filled_subtrees
      /\ u.leaf_index = x.leaf_index
      /\ u.member_leaf_index = x.member_leaf_index
      /\ u.leaf_value = x.leaf_value
      /\ u.node_hash = x.node_hash
      /\ u.min_valid_root_idx = x.min_valid_root_idx
      /\ u.roots = pushed(x, h[t.depth])
      /\ u.root_index = put(x.root_index, h[t.depth], x.next_root_index)
      /\ u.next_root_index = x.next_root_index + 1
  BY <1>1, <1>3, PushRootFields
<1>5. pushed(x, h[t.depth]) = pushed(t, h[t.depth])
  BY <1>2, <1>3 DEF pushed
<1> QED
  BY <1>2, <1>3, <1>4, <1>5 DEF h

\* What a registration leaves in each field.
Registration(t, c, m, u) ==
  LET h == insert_hashes(t, c)
  IN
      /\ DOMAIN u = TreeFields
      /\ u.depth = t.depth
      /\ u.next_leaf_index = t.next_leaf_index + 1
      /\ u.filled_subtrees = refilled(t, c)
      /\ u.leaf_index = put(t.leaf_index, c, t.next_leaf_index)
      /\ u.member_leaf_index = put(t.member_leaf_index, m, t.next_leaf_index)
      /\ u.leaf_value = [t.leaf_value EXCEPT ![t.next_leaf_index] = c]
      /\ u.node_hash = rewritten(t, t.next_leaf_index, h)
      /\ u.min_valid_root_idx = t.min_valid_root_idx
      /\ u.roots = pushed(t, h[t.depth])
      /\ u.root_index = put(t.root_index, h[t.depth], t.next_root_index)
      /\ u.next_root_index = t.next_root_index + 1

\* A registration writes what Registration says.
LEMMA RegisteredFields ==
  ASSUME NEW t, DOMAIN t = TreeFields, NEW c, NEW m, NEW u, u = registered(t, c, m)
  PROVE  Registration(t, c, m, u)
<1> DEFINE h == insert_hashes(t, c)
           x == insert_leaf(t, c, t.next_leaf_index)
<1>1. u = [x EXCEPT !.next_leaf_index = @ + 1,
                    !.leaf_index = put(@, c, t.next_leaf_index),
                    !.member_leaf_index = put(@, m, t.next_leaf_index),
                    !.leaf_value[t.next_leaf_index] = c]
  BY DEF registered
<1>2. /\ DOMAIN x = TreeFields
      /\ x.depth = t.depth
      /\ x.next_leaf_index = t.next_leaf_index
      /\ x.filled_subtrees = refilled(t, c)
      /\ x.leaf_index = t.leaf_index
      /\ x.member_leaf_index = t.member_leaf_index
      /\ x.leaf_value = t.leaf_value
      /\ x.node_hash = rewritten(t, t.next_leaf_index, h)
      /\ x.min_valid_root_idx = t.min_valid_root_idx
      /\ x.roots = pushed(t, h[t.depth])
      /\ x.root_index = put(t.root_index, h[t.depth], t.next_root_index)
      /\ x.next_root_index = t.next_root_index + 1
  BY InsertLeafFields
<1> HIDE DEF x, h
<1>3. /\ DOMAIN u = TreeFields
      /\ u.depth = x.depth
      /\ u.next_leaf_index = x.next_leaf_index + 1
      /\ u.filled_subtrees = x.filled_subtrees
      /\ u.leaf_index = put(x.leaf_index, c, t.next_leaf_index)
      /\ u.member_leaf_index = put(x.member_leaf_index, m, t.next_leaf_index)
      /\ u.leaf_value = [x.leaf_value EXCEPT ![t.next_leaf_index] = c]
      /\ u.node_hash = x.node_hash
      /\ u.min_valid_root_idx = x.min_valid_root_idx
      /\ u.roots = x.roots
      /\ u.root_index = x.root_index
      /\ u.next_root_index = x.next_root_index
  BY <1>1, <1>2 DEF TreeFields
<1> QED
  BY <1>2, <1>3 DEF h, Registration

\* The tree remove_member leaves.
removed(t, i) == [update_leaf(t, i, Zero) EXCEPT !.min_valid_root_idx = t.next_root_index]

\* What a removal leaves in each field.
Removal(t, i, u) ==
  LET h == update_hashes(t, i, Zero)
  IN
      /\ DOMAIN u = TreeFields
      /\ u.depth = t.depth
      /\ u.next_leaf_index = t.next_leaf_index
      /\ u.filled_subtrees = t.filled_subtrees
      /\ u.leaf_index = t.leaf_index
      /\ u.member_leaf_index = t.member_leaf_index
      /\ u.leaf_value = [t.leaf_value EXCEPT ![i] = Zero]
      /\ u.node_hash = rewritten(t, i, h)
      /\ u.min_valid_root_idx = t.next_root_index
      /\ u.roots = pushed(t, h[t.depth])
      /\ u.root_index = put(t.root_index, h[t.depth], t.next_root_index)
      /\ u.next_root_index = t.next_root_index + 1

\* A removal writes what Removal says.
LEMMA RemovedFields ==
  ASSUME NEW t, DOMAIN t = TreeFields, NEW i, NEW u,
         u = removed(t, i)
  PROVE  Removal(t, i, u)
<1> DEFINE h == update_hashes(t, i, Zero)
           w == write_path(t, i, h)
           x == [w EXCEPT !.leaf_value[i] = Zero]
           y == push_root(x, h[t.depth])
<1>1. u = [y EXCEPT !.min_valid_root_idx = t.next_root_index]
  BY DEF removed, update_leaf, update_hashes
<1>2. /\ DOMAIN w = TreeFields
      /\ w.depth = t.depth
      /\ w.next_leaf_index = t.next_leaf_index
      /\ w.filled_subtrees = t.filled_subtrees
      /\ w.roots = t.roots
      /\ w.leaf_index = t.leaf_index
      /\ w.member_leaf_index = t.member_leaf_index
      /\ w.leaf_value = t.leaf_value
      /\ w.next_root_index = t.next_root_index
      /\ w.root_index = t.root_index
      /\ w.min_valid_root_idx = t.min_valid_root_idx
      /\ w.node_hash = rewritten(t, i, h)
  BY WritePathFields DEF rewritten
<1> HIDE DEF w, h
<1>3. /\ DOMAIN x = TreeFields
      /\ x.depth = w.depth
      /\ x.next_leaf_index = w.next_leaf_index
      /\ x.filled_subtrees = w.filled_subtrees
      /\ x.roots = w.roots
      /\ x.leaf_index = w.leaf_index
      /\ x.member_leaf_index = w.member_leaf_index
      /\ x.leaf_value = [w.leaf_value EXCEPT ![i] = Zero]
      /\ x.next_root_index = w.next_root_index
      /\ x.root_index = w.root_index
      /\ x.node_hash = w.node_hash
  BY <1>2 DEF TreeFields
<1> HIDE DEF x
<1>4. /\ DOMAIN y = TreeFields
      /\ y.depth = x.depth
      /\ y.next_leaf_index = x.next_leaf_index
      /\ y.filled_subtrees = x.filled_subtrees
      /\ y.leaf_index = x.leaf_index
      /\ y.member_leaf_index = x.member_leaf_index
      /\ y.leaf_value = x.leaf_value
      /\ y.node_hash = x.node_hash
      /\ y.roots = pushed(x, h[t.depth])
      /\ y.root_index = put(x.root_index, h[t.depth], x.next_root_index)
      /\ y.next_root_index = x.next_root_index + 1
  BY <1>3, PushRootFields
<1>5. pushed(x, h[t.depth]) = pushed(t, h[t.depth])
  BY <1>2, <1>3 DEF pushed
<1> HIDE DEF y
<1>6. /\ DOMAIN u = TreeFields
      /\ u.depth = y.depth
      /\ u.next_leaf_index = y.next_leaf_index
      /\ u.filled_subtrees = y.filled_subtrees
      /\ u.leaf_index = y.leaf_index
      /\ u.member_leaf_index = y.member_leaf_index
      /\ u.leaf_value = y.leaf_value
      /\ u.node_hash = y.node_hash
      /\ u.min_valid_root_idx = t.next_root_index
      /\ u.roots = y.roots
      /\ u.root_index = y.root_index
      /\ u.next_root_index = y.next_root_index
  BY <1>1, <1>4 DEF TreeFields
<1> QED
  BY <1>2, <1>3, <1>4, <1>5, <1>6 DEF h, Removal

(***************************************************************************)
(* What the operations leave of what the hashes stand for.                 *)
(***************************************************************************)

\* Higher nodes have at least as many leaves below them.
LEMMA CapacityGrows ==
  ASSUME NEW b \in 0 .. MaxTreeDepth, NEW a \in 0 .. b
  PROVE  capacity[b - a] <= capacity[b]
<1> DEFINE T == {j \in Nat : capacity[b - j] <= capacity[b]}
<1>1. 0 \in T
  <2>1. b - 0 = b /\ capacity[b] \in Nat
    BY Capacity, TreeAssumption
  <2> QED
    BY <2>1
<1>2. ASSUME NEW j \in 1 .. b, j - 1 \in T PROVE j \in T
  <2>1. /\ b - (j - 1) \in 1 .. MaxTreeDepth /\ b - j \in 0 .. MaxTreeDepth
        /\ (b - (j - 1)) - 1 = b - j
    BY TreeAssumption
  <2>2. /\ capacity[b - j] \in Nat /\ capacity[b] \in Nat
        /\ capacity[b - (j - 1)] = 2 * capacity[b - j]
    BY <2>1, Capacity, TreeAssumption
  <2>3. capacity[b - (j - 1)] <= capacity[b]
    BY <1>2
  <2> QED
    BY <2>2, <2>3
<1> HIDE DEF T
<1>3. a \in T
  BY <1>1, <1>2, TreeAssumption, IntervalInduction
<1> QED
  BY <1>3 DEF T

\* A node still stands for its leaves when each of them may be more.
LEMMA NodeCoversChange ==
  ASSUME NEW k \in 0 .. MaxTreeDepth, NEW j \in Nat, NEW May, NEW New, NEW v,
         NodeCovers(v, k, j, May),
         \A x \in Nat : j * capacity[k] <= x /\ x < (j + 1) * capacity[k]
                          => May[x] \subseteq New[x]
  PROVE  NodeCovers(v, k, j, New)
<1> DEFINE c == capacity[k]
<1>1. c \in Nat
  BY Capacity
<1>2. Covers(v, j * c, c, May)
  BY DEF NodeCovers
<1>3. \A x \in Nat : j * c <= x /\ x < (j + 1) * c => May[x] \subseteq New[x]
  OBVIOUS
<1> HIDE DEF c
<1>4. j * c \in Nat /\ (j + 1) * c = j * c + c
  BY <1>1
<1>5. Covers(v, j * c, c, New)
  BY <1>1, <1>2, <1>3, <1>4, CoversChange
<1> QED
  BY <1>5 DEF NodeCovers, c

\* A node that is not above leaf i does not stand for it.
LEMMA OtherNodeCovers ==
  ASSUME NEW i \in Nat, NEW k \in 0 .. MaxTreeDepth, NEW j \in Nat, j # ancestors(i)[k],
         NEW May, NEW New, NEW v, NodeCovers(v, k, j, May),
         \A x \in Nat : x # i => May[x] \subseteq New[x]
  PROVE  NodeCovers(v, k, j, New)
<1>1. ~(j * capacity[k] <= i /\ i < (j + 1) * capacity[k])
  BY OnlyAncestor
<1>2. \A x \in Nat : j * capacity[k] <= x /\ x < (j + 1) * capacity[k]
                       => May[x] \subseteq New[x]
  BY <1>1
<1> QED
  BY <1>2, NodeCoversChange

\* The zero of a level stands for a node to the right of leaf i's ancestor when
\* everything to the right of leaf i is empty.
LEMMA ZeroCoversRight ==
  ASSUME NEW i \in Nat, NEW k \in 0 .. MaxTreeDepth, NEW May,
         \A x \in Nat : x > i => Zero \in May[x]
  PROVE  NodeCovers(zero_at_level(k), k, ancestors(i)[k] + 1, May)
<1> DEFINE c == capacity[k]  a == ancestors(i)[k]
<1>1. c \in Nat /\ a \in Nat
  BY Capacity, Ancestors
<1>2. i < (a + 1) * c
  BY AncestorBounds
<1>3. (a + 1) * c \in Nat
  BY <1>1
<1>4. \A x \in Nat : (a + 1) * c <= x /\ x < (a + 1) * c + c => Zero \in May[x]
  BY <1>2, <1>3
<1>5. Covers(zero_at_level(k), (a + 1) * c, c, May)
  BY <1>3, <1>4, CoversZero
<1> QED
  BY <1>5 DEF NodeCovers

\* The nodes of a tree by level and index.
LEMMA NodeInTree ==
  ASSUME NEW depth \in 0 .. MaxTreeDepth, NEW n \in Nodes(depth)
  PROVE  /\ n[1] \in 1 .. depth /\ n[1] \in 0 .. MaxTreeDepth
         /\ n[2] \in Nat
<1>1. capacity[depth] \in Nat
  BY Capacity
<1> QED
  BY <1>1, TreeAssumption DEF Nodes, Positions

\* Storing the hashes of a path keeps every node right.
LEMMA RewrittenCovers ==
  ASSUME NEW t, t.depth \in 1 .. MaxTreeDepth, NEW i \in Positions(t.depth), NEW h,
         NEW May, NEW New,
         DOMAIN t.node_hash = Nodes(t.depth),
         \A n \in Nodes(t.depth) : NodeCovers(t.node_hash[n], n[1], n[2], May),
         \A x \in Nat : x # i => May[x] \subseteq New[x],
         \A k \in 0 .. t.depth : NodeCovers(h[k], k, ancestors(i)[k], New)
  PROVE  \A n \in Nodes(t.depth) : NodeCovers(rewritten(t, i, h)[n], n[1], n[2], New)
<1> TAKE n \in Nodes(t.depth)
<1>1. t.depth \in 0 .. MaxTreeDepth /\ i \in Nat
  BY TreeAssumption, Capacity DEF Positions
<1>2. n[1] \in 1 .. t.depth /\ n[1] \in 0 .. MaxTreeDepth /\ n[2] \in Nat
  BY <1>1, NodeInTree
<1>3. rewritten(t, i, h)[n] = IF n[2] = ancestors(i)[n[1]] THEN h[n[1]] ELSE t.node_hash[n]
  BY DEF rewritten
<1>4. CASE n[2] = ancestors(i)[n[1]]
  <2>1. n[1] \in 0 .. t.depth
    BY <1>1, <1>2
  <2>2. NodeCovers(h[n[1]], n[1], ancestors(i)[n[1]], New)
    BY <2>1
  <2> QED
    BY <2>2, <1>3, <1>4
<1>5. CASE n[2] # ancestors(i)[n[1]]
  <2>1. NodeCovers(t.node_hash[n], n[1], n[2], May)
    OBVIOUS
  <2>2. NodeCovers(t.node_hash[n], n[1], n[2], New)
    BY <2>1, <1>1, <1>2, <1>5, OtherNodeCovers
  <2> QED
    BY <2>2, <1>3, <1>5
<1> QED
  BY <1>4, <1>5

\* The arithmetic of a level and the one below it.
LEMMA LevelBelow ==
  ASSUME NEW depth \in 1 .. MaxTreeDepth, NEW k \in 1 .. depth
  PROVE  /\ depth \in Nat /\ depth \in 0 .. MaxTreeDepth
         /\ k - 1 \in 0 .. MaxTreeDepth /\ k - 1 \in 0 .. depth
         /\ depth - k \in 0 .. MaxTreeDepth /\ depth - (k - 1) \in 1 .. MaxTreeDepth
         /\ (depth - (k - 1)) - 1 = depth - k
BY TreeAssumption

\* The shape's parts the proofs below use most.
LEMMA ShapeFacts ==
  ASSUME NEW t, TreeShape(t)
  PROVE  /\ t.depth \in 1 .. MaxTreeDepth /\ t.depth \in 0 .. MaxTreeDepth
         /\ t.depth \in Nat
         /\ capacity[t.depth] \in Nat
         /\ t.next_leaf_index \in Nat
         /\ Positions(t.depth) \subseteq Nat
         /\ t.leaf_value \in [Positions(t.depth) -> LeafValues]
         /\ DOMAIN t.node_hash = Nodes(t.depth)
<1>1. t.depth \in 1 .. MaxTreeDepth /\ t.next_leaf_index \in 0 .. capacity[t.depth]
  BY DEF TreeShape, TreeOK
<1>2. t.depth \in 0 .. MaxTreeDepth /\ t.depth \in Nat
  BY <1>1, TreeAssumption
<1>3. capacity[t.depth] \in Nat
  BY <1>2, Capacity
<1>4. t.next_leaf_index \in Nat
  BY <1>1, <1>3
<1>5. Positions(t.depth) \subseteq Nat
  BY <1>3 DEF Positions
<1> QED
  BY <1>1, <1>2, <1>3, <1>4, <1>5 DEF TreeShape, TreeOK

\* The path of an insertion: what is to the left is in filled_subtrees, what is
\* to the right is empty.
LEMMA InsertionPathOK ==
  ASSUME NEW t, TreeShape(t), t.next_leaf_index < capacity[t.depth],
         NEW May, HashesCover(t, May),
         NEW New, \A x \in Nat : x # t.next_leaf_index => May[x] \subseteq New[x]
  PROVE  PathOK(insertion_path(t, t.next_leaf_index), t.next_leaf_index, t.depth, New)
<1> DEFINE i == t.next_leaf_index
           path == insertion_path(t, i)
<1>1. t.depth \in 1 .. MaxTreeDepth /\ t.depth \in Nat /\ i \in Nat
  BY ShapeFacts
<1>2. /\ \A x \in Nat : x # i => May[x] \subseteq New[x]
      /\ \A x \in Nat : x >= i => Zero \in May[x]
      /\ \A k \in 1 .. t.depth : ~is_left(ancestors(i)[k - 1]) =>
           NodeCovers(t.filled_subtrees[k], k - 1, ancestors(i)[k - 1] - 1, May)
  BY DEF HashesCover
<1> HIDE DEF i
<1>3. DOMAIN path = 1 .. t.depth /\ Len(path) = t.depth
  BY <1>1 DEF insertion_path
<1>4. ASSUME NEW k \in 1 .. t.depth
      PROVE  /\ path[k][1] = is_left(ancestors(i)[k - 1])
             /\ NodeCovers(path[k][2], k - 1, sibling(ancestors(i)[k - 1]), New)
  <2> DEFINE a == ancestors(i)[k - 1]
  <2>1. k - 1 \in 0 .. MaxTreeDepth /\ a \in Nat
    <3>1. k - 1 \in 0 .. MaxTreeDepth
      BY <1>1, LevelBelow
    <3> QED
      BY <3>1, <1>1, Ancestors
  <2>2. path[k] = <<is_left(a), IF is_left(a) THEN zero_at_level(k - 1) ELSE t.filled_subtrees[k]>>
    BY DEF insertion_path
  <2>3. CASE is_left(a)
    <3>1. \A x \in Nat : x > i => Zero \in New[x]
      BY <1>1, <1>2
    <3>2. NodeCovers(zero_at_level(k - 1), k - 1, a + 1, New)
      BY <3>1, <1>1, <2>1, ZeroCoversRight
    <3> QED
      BY <3>2, <2>2, <2>3 DEF sibling
  <2>4. CASE ~is_left(a)
    <3>1. a - 1 \in Nat /\ a - 1 # a
      BY <2>1, <2>4 DEF is_left
    <3>2. NodeCovers(t.filled_subtrees[k], k - 1, a - 1, May)
      BY <1>2, <2>4
    <3>3. NodeCovers(t.filled_subtrees[k], k - 1, a - 1, New)
      BY <3>1, <3>2, <1>1, <1>2, <2>1, OtherNodeCovers
    <3> QED
      BY <3>3, <2>2, <2>4 DEF sibling
  <2> QED
    BY <2>3, <2>4
<1> QED
  BY <1>3, <1>4 DEF PathOK, i

\* The path get_merkle_path serves, which is also the one update_leaf takes.
LEMMA ServedPathOK ==
  ASSUME NEW t, TreeShape(t), NEW i \in Positions(t.depth),
         NEW May, HashesCover(t, May),
         NEW New, \A x \in Nat : x # i => May[x] \subseteq New[x]
  PROVE  PathOK(get_merkle_path(t, i), i, t.depth, New)
<1> DEFINE path == get_merkle_path(t, i)
<1>1. /\ t.depth \in 1 .. MaxTreeDepth /\ t.depth \in 0 .. MaxTreeDepth
      /\ t.depth \in Nat /\ i \in Nat
      /\ t.leaf_value \in [Positions(t.depth) -> LeafValues]
  BY ShapeFacts
<1>2. DOMAIN path = 1 .. t.depth /\ Len(path) = t.depth
  BY <1>1 DEF get_merkle_path
<1>3. ASSUME NEW k \in 1 .. t.depth
      PROVE  /\ path[k][1] = is_left(ancestors(i)[k - 1])
             /\ NodeCovers(path[k][2], k - 1, sibling(ancestors(i)[k - 1]), New)
  <2> DEFINE a == ancestors(i)[k - 1]
             s == sibling(a)
  <2>1. /\ k - 1 \in 0 .. MaxTreeDepth /\ k - 1 \in 0 .. t.depth
        /\ t.depth - k \in 0 .. MaxTreeDepth /\ t.depth - (k - 1) \in 1 .. MaxTreeDepth
        /\ (t.depth - (k - 1)) - 1 = t.depth - k
    BY <1>1, LevelBelow
  <2>2. a \in 0 .. capacity[t.depth - (k - 1)] - 1
    BY <1>1, <2>1, AncestorInTree
  <2>3. /\ capacity[t.depth - k] \in Nat
        /\ capacity[t.depth - (k - 1)] = 2 * capacity[t.depth - k]
        /\ capacity[t.depth] \in Nat
        /\ capacity[t.depth - (k - 1)] <= capacity[t.depth]
    BY <1>1, <2>1, Capacity, CapacityGrows
  <2>4. s \in Nat /\ s # a /\ s < capacity[t.depth - (k - 1)] /\ s \in Positions(t.depth)
    BY <2>2, <2>3 DEF sibling, is_left, Positions
  <2>5. path[k] = <<is_left(a), node(t, k - 1, s)>>
    BY DEF get_merkle_path, sibling
  <2>6. NodeCovers(node(t, k - 1, s), k - 1, s, May)
    <3>1. CASE k - 1 = 0
      <4>1. node(t, k - 1, s) = <<t.leaf_value[s]>>
        BY <3>1 DEF node
      <4>2. t.leaf_value[s] \in May[s] /\ t.leaf_value[s] \in LeafValues
        BY <1>1, <2>4 DEF HashesCover
      <4> HIDE DEF s
      <4>3. s * 1 = s /\ s + 1 - 1 = s /\ capacity[0] = 1
        BY <2>4, Capacity
      <4>4. Covers(<<t.leaf_value[s]>>, s * 1, 1, May)
        BY <4>2, <4>3 DEF Covers
      <4> QED
        BY <3>1, <4>1, <4>3, <4>4 DEF NodeCovers
    <3>2. CASE k - 1 # 0
      <4>1. node(t, k - 1, s) = t.node_hash[<<k - 1, s>>]
        BY <3>2 DEF node
      <4>2. <<k - 1, s>> \in Nodes(t.depth)
        BY <1>1, <2>1, <2>4, <3>2 DEF Nodes
      <4> QED
        BY <4>1, <4>2 DEF HashesCover
    <3> QED
      BY <3>1, <3>2
  <2> HIDE DEF s
  <2>7. NodeCovers(node(t, k - 1, s), k - 1, s, New)
    BY <1>1, <2>1, <2>4, <2>6, OtherNodeCovers
  <2> QED
    BY <2>5, <2>7 DEF s
<1> QED
  BY <1>2, <1>3 DEF PathOK

\* filled_subtrees after a registration: a left turn keeps the
\* hash for the insertions to its right.  The fast path skips levels that the
\* next insertion does not read.
LEMMA RefilledCovers ==
  ASSUME NEW t, TreeShape(t), t.next_leaf_index < capacity[t.depth],
         NEW May, HashesCover(t, May), NEW c \in LeafValues,
         NEW New, \A x \in Nat : x # t.next_leaf_index => May[x] \subseteq New[x],
         \A k \in 0 .. t.depth :
           NodeCovers(insert_hashes(t, c)[k], k, ancestors(t.next_leaf_index)[k], New)
  PROVE  \A k \in 1 .. t.depth :
           ~is_left(ancestors(t.next_leaf_index + 1)[k - 1]) =>
             NodeCovers(refilled(t, c)[k], k - 1,
                        ancestors(t.next_leaf_index + 1)[k - 1] - 1, New)
<1> DEFINE i == t.next_leaf_index
<1> SUFFICES ASSUME NEW k \in 1 .. t.depth, ~is_left(ancestors(i + 1)[k - 1])
             PROVE  NodeCovers(refilled(t, c)[k], k - 1, ancestors(i + 1)[k - 1] - 1, New)
  OBVIOUS
<1> DEFINE a == ancestors(i)[k - 1]
           b == ancestors(i + 1)[k - 1]
<1>1. /\ t.depth \in 1 .. MaxTreeDepth /\ t.depth \in Nat /\ i \in Nat
      /\ k - 1 \in 0 .. MaxTreeDepth /\ k - 1 \in 0 .. t.depth
  BY ShapeFacts, LevelBelow
<1>2. a \in Nat /\ b \in {a, a + 1}
  BY <1>1, Ancestors, NextAncestor
<1>3. refilled(t, c)[k] = IF is_left(a) /\ (i = 0 => k = 1)
                          THEN insert_hashes(t, c)[k - 1] ELSE t.filled_subtrees[k]
  BY DEF refilled
<1>4. CASE is_left(a)
  <2>1. b = a + 1
    BY <1>2, <1>4
  <2>2. i = 0 => k = 1
    <3> SUFFICES ASSUME i = 0, k # 1 PROVE FALSE
      OBVIOUS
    <3>1. k - 1 # 0 /\ i + 1 = 1
      BY <1>1
    <3>2. b = 0
      BY <1>1, <3>1, FirstAncestors
    <3> QED
      BY <3>2 DEF is_left
  <2>3. NodeCovers(insert_hashes(t, c)[k - 1], k - 1, a, New)
    BY <1>1
  <2>4. b - 1 = a
    BY <2>1, <1>2
  <2> QED
    BY <1>3, <1>4, <2>2, <2>3, <2>4
<1>5. CASE ~is_left(a)
  <2>1. b = a /\ a - 1 \in Nat /\ a - 1 # a
    BY <1>2, <1>5 DEF is_left
  <2>2. NodeCovers(t.filled_subtrees[k], k - 1, a - 1, May)
    BY <1>5 DEF HashesCover
  <2>3. NodeCovers(t.filled_subtrees[k], k - 1, a - 1, New)
    BY <1>1, <2>1, <2>2, OtherNodeCovers
  <2> QED
    BY <1>3, <1>5, <2>1, <2>3
<1> QED
  BY <1>4, <1>5

\* The history after a push: the new root is the last.
LEMMA Pushed ==
  ASSUME NEW t, NEW V, t.roots \in Seq(V), Len(t.roots) \in 1 .. MaxRootHistory,
         NEW root \in V, NEW roots, roots = pushed(t, root)
  PROVE  /\ roots \in Seq(V)
         /\ Len(roots) \in 1 .. MaxRootHistory
         /\ roots[Len(roots)] = root
         /\ \A i \in DOMAIN roots :
              roots[i] = root \/ \E j \in DOMAIN t.roots : roots[i] = t.roots[j]
<1> DEFINE old == t.roots
           all == Append(old, root)
<1>1. old \in Seq(V) /\ Len(old) \in 1 .. MaxRootHistory /\ MaxRootHistory \in Nat
  BY TreeAssumption
<1> HIDE DEF old
<1>2. /\ all \in Seq(V) /\ Len(all) = Len(old) + 1
      /\ \A i \in 1 .. Len(old) + 1 : all[i] = IF i <= Len(old) THEN old[i] ELSE root
      /\ DOMAIN old = 1 .. Len(old)
  BY <1>1
<1>3. roots = IF Len(all) > MaxRootHistory THEN Tail(all) ELSE all
  BY DEF pushed, old
<1>4. CASE Len(all) > MaxRootHistory
  <2>1. all # << >>
    BY <1>1, <1>2
  <2> HIDE DEF all
  <2>2. /\ roots \in Seq(V) /\ Len(roots) = Len(old)
        /\ \A i \in 1 .. Len(old) : roots[i] = all[i + 1]
        /\ DOMAIN roots = 1 .. Len(old)
    BY <1>1, <1>2, <1>3, <1>4, <2>1, HeadTailProperties
  <2>3. \A i \in 1 .. Len(old) : i + 1 \in 1 .. Len(old) + 1 /\ (i + 1 <= Len(old) => i + 1 \in DOMAIN old)
    BY <1>1, <1>2
  <2>4. all[Len(old) + 1] = root
    BY <1>1, <1>2
  <2>5. \A i \in 1 .. Len(old) : roots[i] = root \/ \E j \in DOMAIN old : roots[i] = old[j]
    <3> TAKE i \in 1 .. Len(old)
    <3>1. CASE i + 1 <= Len(old)
      BY <3>1, <1>2, <2>2, <2>3
    <3>2. CASE ~(i + 1 <= Len(old))
      <4>1. i + 1 = Len(old) + 1
        BY <3>2, <1>1
      <4> QED
        BY <4>1, <2>2, <2>4
    <3> QED
      BY <3>1, <3>2
  <2>6. roots[Len(roots)] = root
    BY <1>1, <2>2, <2>4
  <2> QED
    BY <1>1, <2>2, <2>5, <2>6 DEF old
<1>5. CASE ~(Len(all) > MaxRootHistory)
  <2>1. roots = all /\ DOMAIN all = 1 .. Len(old) + 1
    BY <1>2, <1>3, <1>5
  <2> HIDE DEF all
  <2> QED
    BY <1>1, <1>2, <1>5, <2>1 DEF old
<1> QED
  BY <1>4, <1>5

\* A function after one key was set.
LEMMA Put ==
  ASSUME NEW f, NEW x, NEW v, NEW g, g = put(f, x, v)
  PROVE  /\ DOMAIN g = DOMAIN f \cup {x}
         /\ g[x] = v
         /\ \A y \in DOMAIN f : y # x => g[y] = f[y]
BY DEF put

\* The hashes of a registration stand for the leaves, the new one included.
LEMMA InsertHashesCover ==
  ASSUME NEW t, TreeShape(t), t.next_leaf_index < capacity[t.depth],
         NEW May, HashesCover(t, May), NEW c \in LeafValues,
         NEW New, c \in New[t.next_leaf_index],
         \A x \in Nat : x # t.next_leaf_index => May[x] \subseteq New[x]
  PROVE  \A k \in 0 .. t.depth :
           NodeCovers(insert_hashes(t, c)[k], k, ancestors(t.next_leaf_index)[k], New)
<1> DEFINE path == insertion_path(t, t.next_leaf_index)
<1>1. PathOK(path, t.next_leaf_index, t.depth, New)
  BY InsertionPathOK
<1>2. t.depth \in 0 .. MaxTreeDepth /\ t.next_leaf_index \in Nat
  BY ShapeFacts
<1> HIDE DEF path
<1>3. \A k \in 0 .. t.depth :
        NodeCovers(path_hashes(c, path)[k], k, ancestors(t.next_leaf_index)[k], New)
  BY <1>1, <1>2, PathCovers
<1> QED
  BY <1>3 DEF insert_hashes, path

\* A registration: the hashes stand for the new leaves.
LEMMA RegisteredCovers ==
  ASSUME NEW t, TreeShape(t), t.next_leaf_index < capacity[t.depth],
         NEW May, HashesCover(t, May), NEW c \in LeafValues,
         NEW New, c \in New[t.next_leaf_index],
         \A x \in Nat : x # t.next_leaf_index => May[x] \subseteq New[x],
         NEW m, NEW u, u = registered(t, c, m)
  PROVE  HashesCover(u, New) /\ current_root(u) = insert_hashes(t, c)[t.depth]
<1> DEFINE i == t.next_leaf_index
           h == insert_hashes(t, c)
<1>1. /\ u.depth = t.depth
      /\ u.next_leaf_index = i + 1
      /\ u.filled_subtrees = refilled(t, c)
      /\ u.leaf_value = [t.leaf_value EXCEPT ![i] = c]
      /\ u.node_hash = rewritten(t, i, h)
      /\ u.roots = pushed(t, h[t.depth])
  <2>1. DOMAIN t = TreeFields
    BY DEF TreeShape
  <2>2. Registration(t, c, m, u)
    BY <2>1, RegisteredFields
  <2> QED
    BY <2>2 DEF Registration
<1>2. \A k \in 0 .. t.depth : NodeCovers(h[k], k, ancestors(i)[k], New)
  BY InsertHashesCover
<1>3. /\ t.depth \in 1 .. MaxTreeDepth /\ t.depth \in 0 .. MaxTreeDepth /\ t.depth \in 0 .. t.depth
      /\ i \in Nat /\ i \in Positions(t.depth) /\ Positions(t.depth) \subseteq Nat
      /\ t.leaf_value \in [Positions(t.depth) -> LeafValues]
      /\ DOMAIN t.node_hash = Nodes(t.depth)
  BY ShapeFacts DEF Positions
<1>4. NodeCovers(h[t.depth], t.depth, 0, New)
  BY <1>2, <1>3, AncestorInTree
<1>5. current_root(u) = h[t.depth]
  <2>1. h[t.depth] \in NodeValues(t.depth)
    BY <1>4 DEF NodeCovers, Covers, NodeValues
  <2>2. t.roots \in Seq(NodeValues(t.depth)) /\ Len(t.roots) \in 1 .. MaxRootHistory
    BY DEF TreeShape, TreeOK
  <2> HIDE DEF h
  <2>3. u.roots[Len(u.roots)] = h[t.depth]
    BY <1>1, <2>1, <2>2, Pushed
  <2> QED
    BY <2>3 DEF current_root
<1>6. \A n \in Nodes(u.depth) : NodeCovers(u.node_hash[n], n[1], n[2], New)
  <2>1. \A n \in Nodes(t.depth) : NodeCovers(t.node_hash[n], n[1], n[2], May)
    BY DEF HashesCover
  <2> HIDE DEF h
  <2>2. \A n \in Nodes(t.depth) : NodeCovers(rewritten(t, i, h)[n], n[1], n[2], New)
    BY <1>2, <1>3, <2>1, RewrittenCovers
  <2> QED
    BY <1>1, <2>2
<1>7. \A k \in 1 .. u.depth : ~is_left(ancestors(u.next_leaf_index)[k - 1]) =>
        NodeCovers(u.filled_subtrees[k], k - 1, ancestors(u.next_leaf_index)[k - 1] - 1, New)
  <2>1. \A k \in 1 .. t.depth : ~is_left(ancestors(i + 1)[k - 1]) =>
          NodeCovers(refilled(t, c)[k], k - 1, ancestors(i + 1)[k - 1] - 1, New)
    BY <1>2, RefilledCovers
  <2> QED
    BY <1>1, <2>1
<1>8. \A x \in Positions(u.depth) : u.leaf_value[x] \in New[x]
  <2> SUFFICES ASSUME NEW x \in Positions(t.depth) PROVE u.leaf_value[x] \in New[x]
    BY <1>1
  <2>1. CASE x = i
    BY <2>1, <1>1, <1>3
  <2>2. CASE x # i
    <3>1. t.leaf_value[x] \in May[x] /\ x \in Nat
      BY <1>3 DEF HashesCover
    <3> QED
      BY <3>1, <2>2, <1>1, <1>3
  <2> QED
    BY <2>1, <2>2
<1>9. \A x \in Nat : x >= u.next_leaf_index => Zero \in New[x]
  <2> SUFFICES ASSUME NEW x \in Nat, x >= i + 1 PROVE Zero \in New[x]
    BY <1>1
  <2>1. x >= i /\ x # i
    BY <1>3
  <2> QED
    BY <2>1 DEF HashesCover
<1> QED
  BY <1>1, <1>4, <1>5, <1>6, <1>7, <1>8, <1>9 DEF HashesCover

\* The hashes of a change of leaf i stand for the leaves, i changed.
LEMMA UpdateHashesCover ==
  ASSUME NEW t, TreeShape(t), NEW i \in Positions(t.depth),
         NEW May, HashesCover(t, May), NEW v \in LeafValues,
         NEW New, v \in New[i], \A x \in Nat : x # i => May[x] \subseteq New[x]
  PROVE  \A k \in 0 .. t.depth :
           NodeCovers(update_hashes(t, i, v)[k], k, ancestors(i)[k], New)
<1> DEFINE path == get_merkle_path(t, i)
<1>1. PathOK(path, i, t.depth, New)
  BY ServedPathOK
<1>2. t.depth \in 0 .. MaxTreeDepth /\ i \in Nat
  BY ShapeFacts
<1> HIDE DEF path
<1>3. \A k \in 0 .. t.depth : NodeCovers(path_hashes(v, path)[k], k, ancestors(i)[k], New)
  BY <1>1, <1>2, PathCovers
<1> QED
  BY <1>3 DEF update_hashes, path

\* A removal: the hashes stand for the leaves, where the removed one may now also
\* be zero.
LEMMA RemovedCovers ==
  ASSUME NEW t, TreeShape(t), NEW i \in Positions(t.depth),
         NEW May, HashesCover(t, May),
         NEW New, Zero \in New[i], \A x \in Nat : May[x] \subseteq New[x],
         NEW u, u = removed(t, i)
  PROVE  HashesCover(u, New) /\ current_root(u) = update_hashes(t, i, Zero)[t.depth]
<1> DEFINE h == update_hashes(t, i, Zero)
<1>1. /\ u.depth = t.depth
      /\ u.next_leaf_index = t.next_leaf_index
      /\ u.filled_subtrees = t.filled_subtrees
      /\ u.leaf_value = [t.leaf_value EXCEPT ![i] = Zero]
      /\ u.node_hash = rewritten(t, i, h)
      /\ u.roots = pushed(t, h[t.depth])
  <2>1. DOMAIN t = TreeFields
    BY DEF TreeShape
  <2>2. Removal(t, i, u)
    BY <2>1, RemovedFields
  <2> QED
    BY <2>2 DEF Removal
<1>2. \A k \in 0 .. t.depth : NodeCovers(h[k], k, ancestors(i)[k], New)
  BY UpdateHashesCover DEF LeafValues
<1>3. /\ t.depth \in 1 .. MaxTreeDepth /\ t.depth \in 0 .. MaxTreeDepth /\ t.depth \in 0 .. t.depth
      /\ t.next_leaf_index \in Nat /\ Positions(t.depth) \subseteq Nat
      /\ t.leaf_value \in [Positions(t.depth) -> LeafValues]
      /\ DOMAIN t.node_hash = Nodes(t.depth)
  BY ShapeFacts
<1>4. NodeCovers(h[t.depth], t.depth, 0, New)
  BY <1>2, <1>3, AncestorInTree
<1>5. current_root(u) = h[t.depth]
  <2>1. h[t.depth] \in NodeValues(t.depth)
    BY <1>4 DEF NodeCovers, Covers, NodeValues
  <2>2. t.roots \in Seq(NodeValues(t.depth)) /\ Len(t.roots) \in 1 .. MaxRootHistory
    BY DEF TreeShape, TreeOK
  <2> HIDE DEF h
  <2>3. u.roots[Len(u.roots)] = h[t.depth]
    BY <1>1, <2>1, <2>2, Pushed
  <2> QED
    BY <2>3 DEF current_root
<1>6. \A n \in Nodes(u.depth) : NodeCovers(u.node_hash[n], n[1], n[2], New)
  <2>1. \A n \in Nodes(t.depth) : NodeCovers(t.node_hash[n], n[1], n[2], May)
    BY DEF HashesCover
  <2> HIDE DEF h
  <2>2. \A n \in Nodes(t.depth) : NodeCovers(rewritten(t, i, h)[n], n[1], n[2], New)
    BY <1>2, <1>3, <2>1, RewrittenCovers
  <2> QED
    BY <1>1, <2>2
<1>7. ASSUME NEW k \in 1 .. t.depth, ~is_left(ancestors(t.next_leaf_index)[k - 1])
      PROVE  NodeCovers(t.filled_subtrees[k], k - 1, ancestors(t.next_leaf_index)[k - 1] - 1, New)
  <2> DEFINE a == ancestors(t.next_leaf_index)[k - 1]
  <2>1. NodeCovers(t.filled_subtrees[k], k - 1, a - 1, May)
    BY <1>7 DEF HashesCover
  <2>2. k - 1 \in 0 .. MaxTreeDepth
    BY <1>3, LevelBelow
  <2>3. a \in Nat
    BY <1>3, <2>2, Ancestors
  <2>4. a - 1 \in Nat
    BY <1>7, <2>3 DEF is_left
  <2> QED
    BY <2>1, <2>2, <2>4, NodeCoversChange
<1>8. \A x \in Positions(u.depth) : u.leaf_value[x] \in New[x]
  <2> SUFFICES ASSUME NEW x \in Positions(t.depth) PROVE u.leaf_value[x] \in New[x]
    BY <1>1
  <2>1. t.leaf_value[x] \in May[x] /\ x \in Nat
    BY <1>3 DEF HashesCover
  <2> QED
    BY <2>1, <1>1, <1>3
<1>9. \A x \in Nat : x >= t.next_leaf_index => Zero \in New[x]
  BY DEF HashesCover
<1>10. \A k \in 1 .. u.depth : ~is_left(ancestors(u.next_leaf_index)[k - 1]) =>
         NodeCovers(u.filled_subtrees[k], k - 1, ancestors(u.next_leaf_index)[k - 1] - 1, New)
  BY <1>1, <1>7
<1> QED
  BY <1>1, <1>4, <1>5, <1>6, <1>8, <1>9, <1>10 DEF HashesCover

(***************************************************************************)
(* The invariant's parts, one by one.                                      *)
(***************************************************************************)
LEMMA NodeCoversType ==
  ASSUME NEW v, NEW k, NEW j, NEW May, NodeCovers(v, k, j, May)
  PROVE  v \in NodeValues(k)
BY DEF NodeCovers, Covers, NodeValues

\* Pushing a root: it has the newest index.
LEMMA PushedRootIndices ==
  ASSUME NEW t, RootIndicesOK(t), TreeShape(t), NEW root, NEW u,
         current_root(u) = root,
         u.root_index = put(t.root_index, root, t.next_root_index),
         u.next_root_index = t.next_root_index + 1,
         u.min_valid_root_idx \in {t.min_valid_root_idx, t.next_root_index},
         u.next_leaf_index \in {t.next_leaf_index, t.next_leaf_index + 1}
  PROVE  RootIndicesOK(u) /\ curr_idx(u) = t.next_root_index
<1> DEFINE n == t.next_root_index
<1>1. /\ n \in Nat /\ t.min_valid_root_idx \in Nat /\ t.next_leaf_index \in Nat
      /\ \A r \in DOMAIN t.root_index : t.root_index[r] \in Nat
      /\ t.roots[Len(t.roots)] \in DOMAIN t.root_index
  <2>1. /\ t.next_leaf_index \in Nat
        /\ Len(t.roots) \in 1 .. MaxRootHistory /\ t.roots \in Seq(NodeValues(t.depth))
    BY ShapeFacts DEF TreeShape, TreeOK
  <2>2. Len(t.roots) \in DOMAIN t.roots
    BY <2>1, TreeAssumption
  <2> QED
    BY <2>1, <2>2 DEF TreeShape, TreeOK
<1>2. curr_idx(t) \in Nat
  BY <1>1 DEF curr_idx, root_idx, current_root
<1>3. /\ n > 0 => curr_idx(t) = n - 1
      /\ n = 0 => curr_idx(t) = 0
      /\ \A r \in DOMAIN t.root_index : t.root_index[r] <= curr_idx(t)
      /\ t.min_valid_root_idx <= curr_idx(t)
      /\ t.next_leaf_index <= n
  BY DEF RootIndicesOK
<1>4. curr_idx(t) <= n
  BY <1>1, <1>2, <1>3
<1>5. curr_idx(u) = n
  BY DEF put, curr_idx, root_idx
<1>6. \A r \in DOMAIN u.root_index : u.root_index[r] <= n
  <2> TAKE r \in DOMAIN u.root_index
  <2>1. CASE r = root
    BY <2>1, <1>1 DEF put
  <2>2. CASE r # root
    <3>1. r \in DOMAIN t.root_index /\ u.root_index[r] = t.root_index[r]
      BY <2>2 DEF put
    <3> QED
      BY <3>1, <1>1, <1>2, <1>3, <1>4
  <2> QED
    BY <2>1, <2>2
<1>7. u.min_valid_root_idx <= n
  BY <1>1, <1>2, <1>3, <1>4
<1> QED
  BY <1>1, <1>3, <1>5, <1>6, <1>7 DEF RootIndicesOK

\* Pushing a root: the shape of the history and of the indices.
LEMMA PushedShape ==
  ASSUME NEW t, TreeShape(t), NEW root \in NodeValues(t.depth), NEW u,
         u.roots = pushed(t, root),
         u.root_index = put(t.root_index, root, t.next_root_index)
  PROVE  /\ u.roots \in Seq(NodeValues(t.depth))
         /\ Len(u.roots) \in 1 .. MaxRootHistory
         /\ \A i \in DOMAIN u.roots : u.roots[i] \in DOMAIN u.root_index
         /\ \A r \in DOMAIN u.root_index :
              r \in NodeValues(t.depth) /\ u.root_index[r] \in Nat
<1>1. /\ t.roots \in Seq(NodeValues(t.depth))
      /\ Len(t.roots) \in 1 .. MaxRootHistory
      /\ \A i \in DOMAIN t.roots : t.roots[i] \in DOMAIN t.root_index
      /\ \A r \in DOMAIN t.root_index : r \in NodeValues(t.depth) /\ t.root_index[r] \in Nat
      /\ t.next_root_index \in Nat
  BY DEF TreeShape, TreeOK
<1>2. /\ u.roots \in Seq(NodeValues(t.depth))
      /\ Len(u.roots) \in 1 .. MaxRootHistory
      /\ \A i \in DOMAIN u.roots :
           u.roots[i] = root \/ \E j \in DOMAIN t.roots : u.roots[i] = t.roots[j]
  BY <1>1, Pushed
<1>3. DOMAIN u.root_index = DOMAIN t.root_index \cup {root}
  BY DEF put
<1>4. /\ u.root_index[root] = t.next_root_index
      /\ \A r \in DOMAIN t.root_index : r # root => u.root_index[r] = t.root_index[r]
  BY DEF put
<1>5. \A i \in DOMAIN u.roots : u.roots[i] \in DOMAIN u.root_index
  BY <1>1, <1>2, <1>3
<1>6. \A r \in DOMAIN u.root_index : r \in NodeValues(t.depth) /\ u.root_index[r] \in Nat
  BY <1>1, <1>3, <1>4
<1> QED
  BY <1>2, <1>5, <1>6

\* Commitments only come to be registered, so every root of the history goes on
\* standing for registered ones.
LEMMA PushedHistory ==
  ASSUME NEW t, TreeShape(t), NEW root, NEW u,
         u.depth = t.depth, u.roots = pushed(t, root),
         \A r \in DOMAIN t.roots : NodeCovers(t.roots[r], t.depth, 0, Registered(t)),
         \A x \in Nat : Registered(t)[x] \subseteq Registered(u)[x],
         NodeCovers(root, t.depth, 0, Registered(u))
  PROVE  \A r \in DOMAIN u.roots : NodeCovers(u.roots[r], u.depth, 0, Registered(u))
<1>1. /\ t.roots \in Seq(NodeValues(t.depth))
      /\ Len(t.roots) \in 1 .. MaxRootHistory
      /\ root \in NodeValues(t.depth)
  BY NodeCoversType DEF TreeShape, TreeOK
<1>2. \A i \in DOMAIN u.roots :
        u.roots[i] = root \/ \E j \in DOMAIN t.roots : u.roots[i] = t.roots[j]
  BY <1>1, Pushed
<1>3. \A j \in DOMAIN t.roots : NodeCovers(t.roots[j], t.depth, 0, Registered(u))
  BY ShapeFacts, NodeCoversChange
<1> QED
  BY <1>2, <1>3

\* What is live is registered.
LEMMA LiveIsRegistered ==
  ASSUME NEW t, LeavesOK(t)
  PROVE  \A x \in Nat : LiveOrRegistered(t)[x] \subseteq Registered(t)[x]
<1> SUFFICES ASSUME NEW x \in Nat, ~(Zero \in Stored(t)[x])
             PROVE  Stored(t)[x] \subseteq Registered(t)[x]
  BY DEF LiveOrRegistered
<1>1. x \in Positions(t.depth) /\ Stored(t)[x] = {t.leaf_value[x]} /\ t.leaf_value[x] # Zero
  BY DEF Stored
<1>2. t.leaf_value[x] \in DOMAIN t.leaf_index /\ t.leaf_index[t.leaf_value[x]] = x
  BY <1>1 DEF LeavesOK
<1> QED
  BY <1>1, <1>2 DEF Registered

(***************************************************************************)
(* Registration.                                                           *)
(***************************************************************************)

\* What a registration changes of what may stand for a leaf: only the new leaf's.
LEMMA RegisteredMay ==
  ASSUME NEW t, TreeShape(t), NEW c \in Leaf, NEW m \in Address, can_register(t, c, m),
         NEW u, u = registered(t, c, m)
  PROVE  /\ \A x \in Nat : Registered(t)[x] \subseteq Registered(u)[x]
         /\ c \in Registered(u)[t.next_leaf_index]
         /\ \A x \in Nat : x # t.next_leaf_index => Stored(t)[x] = Stored(u)[x]
         /\ c \in Stored(u)[t.next_leaf_index]
         /\ \A x \in Nat : x # t.next_leaf_index
                             => LiveOrRegistered(t)[x] \subseteq LiveOrRegistered(u)[x]
         /\ c \in LiveOrRegistered(u)[t.next_leaf_index]
<1> DEFINE i == t.next_leaf_index
<1>1. /\ u.depth = t.depth
      /\ u.leaf_index = put(t.leaf_index, c, i)
      /\ u.leaf_value = [t.leaf_value EXCEPT ![i] = c]
  <2>1. DOMAIN t = TreeFields
    BY DEF TreeShape
  <2>2. Registration(t, c, m, u)
    BY <2>1, RegisteredFields
  <2> QED
    BY <2>2 DEF Registration
<1>2. /\ i \in Nat /\ i \in Positions(t.depth)
      /\ t.leaf_value \in [Positions(t.depth) -> LeafValues]
      /\ c \notin DOMAIN t.leaf_index
  BY ShapeFacts DEF Positions, can_register
<1>3. \A x \in Nat : Registered(t)[x] \subseteq Registered(u)[x]
  <2> SUFFICES ASSUME NEW x \in Nat, NEW e \in Registered(t)[x]
               PROVE  e \in Registered(u)[x]
    OBVIOUS
  <2>1. CASE e = Zero
    BY <2>1 DEF Registered
  <2>2. CASE e # Zero
    <3>1. e \in DOMAIN t.leaf_index /\ t.leaf_index[e] = x
      BY <2>2 DEF Registered
    <3>2. e \in DOMAIN u.leaf_index /\ u.leaf_index[e] = x
      BY <3>1, <1>1, <1>2 DEF put
    <3> QED
      BY <3>2 DEF Registered
  <2> QED
    BY <2>1, <2>2
<1>4. c \in Registered(u)[i]
  <2>1. c \in DOMAIN u.leaf_index /\ u.leaf_index[c] = i
    BY <1>1 DEF put
  <2> QED
    BY <2>1, <1>2 DEF Registered
<1>5. \A x \in Nat : x # i => Stored(t)[x] = Stored(u)[x]
  BY <1>1, <1>2 DEF Stored
<1>6. Stored(u)[i] = {c}
  BY <1>1, <1>2 DEF Stored
<1>7. \A x \in Nat : x # i => LiveOrRegistered(t)[x] \subseteq LiveOrRegistered(u)[x]
  BY <1>3, <1>5 DEF LiveOrRegistered
<1>8. c \in LiveOrRegistered(u)[i]
  BY <1>2, <1>4, <1>6 DEF LiveOrRegistered
<1> QED
  BY <1>3, <1>4, <1>5, <1>6, <1>7, <1>8

\* A registration gives a fresh leaf to a member and a commitment without one.
LEMMA RegisteredLeavesOK ==
  ASSUME NEW t, TreeShape(t), LeavesOK(t),
         NEW c \in Leaf, NEW m \in Address, can_register(t, c, m),
         NEW u, u = registered(t, c, m)
  PROVE  LeavesOK(u)
<1> DEFINE i == t.next_leaf_index
<1>1. /\ u.depth = t.depth
      /\ u.next_leaf_index = i + 1
      /\ u.leaf_index = put(t.leaf_index, c, i)
      /\ u.member_leaf_index = put(t.member_leaf_index, m, i)
      /\ u.leaf_value = [t.leaf_value EXCEPT ![i] = c]
  <2>1. DOMAIN t = TreeFields
    BY DEF TreeShape
  <2>2. Registration(t, c, m, u)
    BY <2>1, RegisteredFields
  <2> QED
    BY <2>2 DEF Registration
<1>2. /\ i \in Nat /\ i \in Positions(t.depth) /\ Positions(t.depth) \subseteq Nat
      /\ t.leaf_value \in [Positions(t.depth) -> LeafValues]
      /\ c \notin DOMAIN t.leaf_index
      /\ m \notin DOMAIN t.member_leaf_index
      /\ \A x \in DOMAIN t.member_leaf_index : t.member_leaf_index[x] \in 0 .. i - 1
  <2>1. /\ i \in Nat /\ Positions(t.depth) \subseteq Nat
        /\ t.leaf_value \in [Positions(t.depth) -> LeafValues]
        /\ capacity[t.depth] \in Nat
    BY ShapeFacts
  <2>2. i \in Positions(t.depth)
    BY <2>1 DEF Positions, can_register
  <2>3. \A x \in DOMAIN t.member_leaf_index : t.member_leaf_index[x] \in 0 .. i - 1
    BY DEF TreeShape, TreeOK
  <2> QED
    BY <2>1, <2>2, <2>3 DEF can_register
<1> DEFINE mli == t.member_leaf_index
           new == u.member_leaf_index
<1>3. /\ DOMAIN new = DOMAIN mli \cup {m}
      /\ new[m] = i
      /\ \A x \in DOMAIN mli : new[x] = mli[x] /\ mli[x] # i
  BY <1>1, <1>2 DEF put
<1>4. \A x, y \in DOMAIN mli : mli[x] = mli[y] => x = y
  BY DEF LeavesOK
<1> HIDE DEF mli, new
<1>5. \A x, y \in DOMAIN new : new[x] = new[y] => x = y
  BY <1>3, <1>4
<1>6. ASSUME NEW x \in Positions(u.depth), u.leaf_value[x] # Zero
      PROVE  /\ x < u.next_leaf_index
             /\ \E y \in DOMAIN new : new[y] = x
             /\ u.leaf_value[x] \in DOMAIN u.leaf_index
             /\ u.leaf_index[u.leaf_value[x]] = x
  <2>1. CASE x = i
    <3>1. u.leaf_value[x] = c
      BY <2>1, <1>1, <1>2
    <3> QED
      BY <2>1, <3>1, <1>1, <1>2, <1>3 DEF put
  <2>2. CASE x # i
    <3>1. x \in Positions(t.depth) /\ u.leaf_value[x] = t.leaf_value[x] /\ t.leaf_value[x] # Zero
      BY <2>2, <1>1, <1>2, <1>6
    <3>2. /\ x < i /\ x \in Nat
          /\ \E y \in DOMAIN mli : mli[y] = x
          /\ t.leaf_value[x] \in DOMAIN t.leaf_index
          /\ t.leaf_index[t.leaf_value[x]] = x
      BY <3>1, <1>2 DEF LeavesOK, mli
    <3>3. \E y \in DOMAIN new : new[y] = x
      BY <3>2, <1>3
    <3>4. u.leaf_value[x] \in DOMAIN u.leaf_index /\ u.leaf_index[u.leaf_value[x]] = x
      BY <3>1, <3>2, <1>1, <1>2 DEF put
    <3> QED
      BY <3>2, <3>3, <3>4, <1>1, <1>2
  <2> QED
    BY <2>1, <2>2
<1> QED
  BY <1>5, <1>6 DEF LeavesOK, new

\* A registration keeps the shape of the tree.
LEMMA RegisteredShape ==
  ASSUME NEW t, TreeShape(t), NEW c \in Leaf, NEW m \in Address, can_register(t, c, m),
         NEW u, u = registered(t, c, m),
         NEW May, HashesCover(u, May), NEW Old, HashesCover(t, Old),
         \A x \in Nat : x # t.next_leaf_index => Old[x] \subseteq May[x],
         c \in May[t.next_leaf_index]
  PROVE  TreeShape(u)
<1> DEFINE i == t.next_leaf_index
           h == insert_hashes(t, c)
<1>1. /\ DOMAIN u = TreeFields
      /\ u.depth = t.depth
      /\ u.next_leaf_index = i + 1
      /\ u.filled_subtrees = refilled(t, c)
      /\ u.leaf_index = put(t.leaf_index, c, i)
      /\ u.member_leaf_index = put(t.member_leaf_index, m, i)
      /\ u.leaf_value = [t.leaf_value EXCEPT ![i] = c]
      /\ u.node_hash = rewritten(t, i, h)
      /\ u.min_valid_root_idx = t.min_valid_root_idx
      /\ u.roots = pushed(t, h[t.depth])
      /\ u.root_index = put(t.root_index, h[t.depth], t.next_root_index)
      /\ u.next_root_index = t.next_root_index + 1
  <2>1. DOMAIN t = TreeFields
    BY DEF TreeShape
  <2>2. Registration(t, c, m, u)
    BY <2>1, RegisteredFields
  <2> QED
    BY <2>2 DEF Registration
<1>2. /\ t.depth \in 1 .. MaxTreeDepth /\ t.depth \in 0 .. t.depth /\ t.depth \in Nat
      /\ i \in Nat /\ i < capacity[t.depth] /\ capacity[t.depth] \in Nat
      /\ t.leaf_value \in [Positions(t.depth) -> LeafValues]
      /\ DOMAIN t.node_hash = Nodes(t.depth)
      /\ c \in LeafValues
      /\ i < capacity[t.depth]
  BY ShapeFacts DEF can_register, LeafValues
<1>3. \A k \in 0 .. t.depth : h[k] \in NodeValues(k)
  <2>1. \A k \in 0 .. t.depth : NodeCovers(h[k], k, ancestors(i)[k], May)
    BY <1>2, InsertHashesCover
  <2> QED
    BY <2>1, NodeCoversType
<1> HIDE DEF h
<1>4. /\ u.roots \in Seq(NodeValues(t.depth))
      /\ Len(u.roots) \in 1 .. MaxRootHistory
      /\ \A r \in DOMAIN u.roots : u.roots[r] \in DOMAIN u.root_index
      /\ \A r \in DOMAIN u.root_index : r \in NodeValues(t.depth) /\ u.root_index[r] \in Nat
  BY <1>1, <1>2, <1>3, PushedShape
<1>5. /\ u.filled_subtrees \in [1 .. t.depth -> Seq(LeafValues)]
      /\ Len(u.filled_subtrees) = t.depth
      /\ \A k \in 1 .. t.depth : u.filled_subtrees[k] \in NodeValues(k - 1)
  <2>1. ASSUME NEW k \in 1 .. t.depth
        PROVE  u.filled_subtrees[k] \in NodeValues(k - 1)
    <3>1. k - 1 \in 0 .. t.depth
      BY <1>2, LevelBelow
    <3>2. h[k - 1] \in NodeValues(k - 1) /\ t.filled_subtrees[k] \in NodeValues(k - 1)
      BY <1>3, <3>1 DEF TreeShape, TreeOK
    <3>3. u.filled_subtrees[k] \in {h[k - 1], t.filled_subtrees[k]}
      BY <1>1 DEF refilled, h
    <3> QED
      BY <3>2, <3>3
  <2>2. ASSUME NEW k \in 1 .. t.depth
        PROVE  u.filled_subtrees[k] \in Seq(LeafValues)
    <3>1. k - 1 \in 0 .. MaxTreeDepth
      BY <1>2, LevelBelow
    <3>2. capacity[k - 1] \in Nat
      BY <3>1, Capacity
    <3>3. u.filled_subtrees[k] \in [1 .. capacity[k - 1] -> LeafValues]
      BY <2>1 DEF NodeValues
    <3> QED
      BY <3>2, <3>3
  <2>3. DOMAIN u.filled_subtrees = 1 .. t.depth
        /\ u.filled_subtrees = [k \in DOMAIN u.filled_subtrees |-> u.filled_subtrees[k]]
    BY <1>1 DEF refilled
  <2>4. u.filled_subtrees \in [1 .. t.depth -> Seq(LeafValues)]
    BY <2>2, <2>3
  <2>5. Len(u.filled_subtrees) = t.depth
    BY <2>4, <1>2
  <2> QED
    BY <2>1, <2>4, <2>5
<1>6. /\ u.next_leaf_index \in 0 .. capacity[u.depth]
      /\ u.next_root_index \in Nat
      /\ u.min_valid_root_idx \in Nat
  BY <1>1, <1>2 DEF TreeShape, TreeOK
<1>7. /\ DOMAIN u.leaf_index \subseteq Leaf
      /\ \A x \in DOMAIN u.leaf_index : u.leaf_index[x] \in 0 .. u.next_leaf_index - 1
  <2>1. /\ DOMAIN t.leaf_index \subseteq Leaf
        /\ \A x \in DOMAIN t.leaf_index : t.leaf_index[x] \in 0 .. i - 1
    BY DEF TreeShape, TreeOK
  <2>2. /\ DOMAIN u.leaf_index = DOMAIN t.leaf_index \cup {c}
        /\ \A x \in DOMAIN u.leaf_index : u.leaf_index[x] = IF x = c THEN i ELSE t.leaf_index[x]
    BY <1>1 DEF put
  <2> QED
    BY <1>1, <1>2, <2>1, <2>2
<1>8. /\ DOMAIN u.member_leaf_index \subseteq Address
      /\ \A x \in DOMAIN u.member_leaf_index :
           u.member_leaf_index[x] \in 0 .. u.next_leaf_index - 1
  <2>1. /\ DOMAIN t.member_leaf_index \subseteq Address
        /\ \A x \in DOMAIN t.member_leaf_index : t.member_leaf_index[x] \in 0 .. i - 1
    BY DEF TreeShape, TreeOK
  <2>2. /\ DOMAIN u.member_leaf_index = DOMAIN t.member_leaf_index \cup {m}
        /\ \A x \in DOMAIN u.member_leaf_index :
             u.member_leaf_index[x] = IF x = m THEN i ELSE t.member_leaf_index[x]
    BY <1>1 DEF put
  <2> QED
    BY <1>1, <1>2, <2>1, <2>2
<1>9. u.leaf_value \in [Positions(u.depth) -> LeafValues]
  BY <1>1, <1>2
<1>10. DOMAIN u.node_hash = Nodes(u.depth)
       /\ \A n \in Nodes(u.depth) : u.node_hash[n] \in NodeValues(n[1])
  <2>1. \A n \in Nodes(u.depth) : NodeCovers(u.node_hash[n], n[1], n[2], May)
    BY DEF HashesCover
  <2>2. DOMAIN u.node_hash = Nodes(u.depth)
    BY <1>1, <1>2 DEF rewritten
  <2> QED
    BY <2>1, <2>2, NodeCoversType
<1>11. TreeOK(u)
  BY <1>1, <1>2, <1>4, <1>5, <1>6, <1>7, <1>8, <1>9, <1>10 DEF TreeOK
<1> QED
  BY <1>1, <1>4, <1>5, <1>11 DEF TreeShape

\* A registration keeps the invariant.
LEMMA RegisteredInv ==
  ASSUME NEW t, TreeInv(t), NEW c \in Leaf, NEW m \in Address, can_register(t, c, m),
         NEW u, u = registered(t, c, m)
  PROVE  TreeInv(u)
<1> DEFINE i == t.next_leaf_index
           root == insert_hashes(t, c)[t.depth]
<1>1. TreeShape(t) /\ RootIndicesOK(t) /\ LeavesOK(t) /\ HashesCover(t, LiveOrRegistered(t))
  BY DEF TreeInv
<1>2. i < capacity[t.depth] /\ c \in LeafValues
  BY DEF can_register, LeafValues
<1>3. /\ u.depth = t.depth
      /\ u.next_leaf_index = i + 1
      /\ u.min_valid_root_idx = t.min_valid_root_idx
      /\ u.roots = pushed(t, root)
      /\ u.root_index = put(t.root_index, root, t.next_root_index)
      /\ u.next_root_index = t.next_root_index + 1
  <2>1. DOMAIN t = TreeFields
    BY <1>1 DEF TreeShape
  <2>2. Registration(t, c, m, u)
    BY <2>1, RegisteredFields
  <2> QED
    BY <2>2 DEF Registration
<1>4. /\ \A x \in Nat : Registered(t)[x] \subseteq Registered(u)[x]
      /\ \A x \in Nat : x # i => Stored(t)[x] \subseteq Stored(u)[x]
      /\ c \in Stored(u)[i]
      /\ \A x \in Nat : x # i => LiveOrRegistered(t)[x] \subseteq LiveOrRegistered(u)[x]
      /\ c \in LiveOrRegistered(u)[i]
  BY <1>1, RegisteredMay
<1>5. HashesCover(u, LiveOrRegistered(u)) /\ current_root(u) = root
  BY <1>1, <1>2, <1>4, RegisteredCovers
<1>6. LeavesOK(u)
  BY <1>1, RegisteredLeavesOK
<1>7. TreeShape(u)
  BY <1>1, <1>4, <1>5, RegisteredShape
<1> HIDE DEF root
<1>8. RootIndicesOK(u)
  BY <1>1, <1>3, <1>5, PushedRootIndices
<1>9. \A r \in DOMAIN u.roots : NodeCovers(u.roots[r], u.depth, 0, Registered(u))
  <2>1. NodeCovers(root, t.depth, 0, LiveOrRegistered(u))
    BY <1>3, <1>5 DEF HashesCover
  <2>2. \A x \in Nat : LiveOrRegistered(u)[x] \subseteq Registered(u)[x]
    BY <1>6, LiveIsRegistered
  <2>3. NodeCovers(root, t.depth, 0, Registered(u))
    BY <2>1, <2>2, <1>1, ShapeFacts, NodeCoversChange
  <2>4. \A r \in DOMAIN t.roots : NodeCovers(t.roots[r], t.depth, 0, Registered(t))
    BY DEF TreeInv
  <2> QED
    BY <1>1, <1>3, <1>4, <2>3, <2>4, PushedHistory
<1>10. u.min_valid_root_idx = 0 => HashesCover(u, Stored(u))
  <2> SUFFICES ASSUME t.min_valid_root_idx = 0 PROVE HashesCover(u, Stored(u))
    BY <1>3
  <2>1. HashesCover(t, Stored(t))
    BY DEF TreeInv
  <2> QED
    BY <2>1, <1>1, <1>2, <1>4, RegisteredCovers
<1> QED
  BY <1>5, <1>6, <1>7, <1>8, <1>9, <1>10 DEF TreeInv

(***************************************************************************)
(* Removal.                                                                *)
(***************************************************************************)

\* What a removal changes of what may stand for a leaf: the removed one may be
\* zero.
LEMMA RemovedMay ==
  ASSUME NEW t, TreeShape(t), LeavesOK(t),
         NEW i \in Positions(t.depth), t.leaf_value[i] # Zero,
         NEW u, u = removed(t, i)
  PROVE  /\ \A x \in Nat : Registered(u)[x] = Registered(t)[x]
         /\ Zero \in LiveOrRegistered(u)[i]
         /\ \A x \in Nat : LiveOrRegistered(t)[x] \subseteq LiveOrRegistered(u)[x]
<1>1. /\ u.depth = t.depth
      /\ u.leaf_index = t.leaf_index
      /\ u.leaf_value = [t.leaf_value EXCEPT ![i] = Zero]
  <2>1. DOMAIN t = TreeFields
    BY DEF TreeShape
  <2>2. Removal(t, i, u)
    BY <2>1, RemovedFields
  <2> QED
    BY <2>2 DEF Removal
<1>2. /\ i \in Nat /\ t.leaf_value \in [Positions(t.depth) -> LeafValues]
  BY ShapeFacts
<1>3. \A x \in Nat : Registered(u)[x] = Registered(t)[x]
  BY <1>1 DEF Registered
<1>4. \A x \in Nat : x # i => Stored(t)[x] = Stored(u)[x]
  BY <1>1, <1>2 DEF Stored
<1>5. Stored(u)[i] = {Zero}
  BY <1>1, <1>2 DEF Stored
<1>6. \A x \in Nat : x # i => LiveOrRegistered(t)[x] = LiveOrRegistered(u)[x]
  BY <1>3, <1>4 DEF LiveOrRegistered
<1>7. LiveOrRegistered(u)[i] = Registered(t)[i]
  BY <1>2, <1>3, <1>5 DEF LiveOrRegistered
<1>8. Zero \in Registered(t)[i]
  BY <1>2 DEF Registered
<1>9. LiveOrRegistered(t)[i] \subseteq Registered(t)[i]
  BY <1>2, LiveIsRegistered
<1> QED
  BY <1>3, <1>6, <1>7, <1>8, <1>9

\* A removal leaves every other leaf with its member and commitment.
LEMMA RemovedLeavesOK ==
  ASSUME NEW t, TreeShape(t), LeavesOK(t), NEW i \in Positions(t.depth),
         NEW u, u = removed(t, i)
  PROVE  LeavesOK(u)
<1>1. /\ u.depth = t.depth
      /\ u.next_leaf_index = t.next_leaf_index
      /\ u.leaf_index = t.leaf_index
      /\ u.member_leaf_index = t.member_leaf_index
      /\ u.leaf_value = [t.leaf_value EXCEPT ![i] = Zero]
  <2>1. DOMAIN t = TreeFields
    BY DEF TreeShape
  <2>2. Removal(t, i, u)
    BY <2>1, RemovedFields
  <2> QED
    BY <2>2 DEF Removal
<1>2. t.leaf_value \in [Positions(t.depth) -> LeafValues]
  BY ShapeFacts
<1>3. \A x \in Positions(t.depth) : u.leaf_value[x] # Zero =>
        u.leaf_value[x] = t.leaf_value[x]
  BY <1>1, <1>2
<1> QED
  BY <1>1, <1>3 DEF LeavesOK

\* A removal keeps the shape of the tree.
LEMMA RemovedShape ==
  ASSUME NEW t, TreeShape(t), NEW i \in Positions(t.depth),
         NEW u, u = removed(t, i), NEW May, HashesCover(u, May),
         current_root(u) = update_hashes(t, i, Zero)[t.depth]
  PROVE  TreeShape(u)
<1> DEFINE h == update_hashes(t, i, Zero)
<1>1. /\ DOMAIN u = TreeFields
      /\ u.depth = t.depth
      /\ u.next_leaf_index = t.next_leaf_index
      /\ u.filled_subtrees = t.filled_subtrees
      /\ u.leaf_index = t.leaf_index
      /\ u.member_leaf_index = t.member_leaf_index
      /\ u.leaf_value = [t.leaf_value EXCEPT ![i] = Zero]
      /\ u.node_hash = rewritten(t, i, h)
      /\ u.min_valid_root_idx = t.next_root_index
      /\ u.roots = pushed(t, h[t.depth])
      /\ u.root_index = put(t.root_index, h[t.depth], t.next_root_index)
      /\ u.next_root_index = t.next_root_index + 1
  <2>1. DOMAIN t = TreeFields
    BY DEF TreeShape
  <2>2. Removal(t, i, u)
    BY <2>1, RemovedFields
  <2> QED
    BY <2>2 DEF Removal
<1>2. /\ t.leaf_value \in [Positions(t.depth) -> LeafValues]
      /\ DOMAIN t.node_hash = Nodes(t.depth)
  BY ShapeFacts
<1>3. h[t.depth] \in NodeValues(t.depth)
  BY <1>1, NodeCoversType DEF HashesCover
<1> HIDE DEF h
<1>4. /\ u.roots \in Seq(NodeValues(t.depth))
      /\ Len(u.roots) \in 1 .. MaxRootHistory
      /\ \A r \in DOMAIN u.roots : u.roots[r] \in DOMAIN u.root_index
      /\ \A r \in DOMAIN u.root_index : r \in NodeValues(t.depth) /\ u.root_index[r] \in Nat
  BY <1>1, <1>3, PushedShape
<1>5. u.leaf_value \in [Positions(u.depth) -> LeafValues]
  BY <1>1, <1>2 DEF LeafValues
<1>6. DOMAIN u.node_hash = Nodes(u.depth)
      /\ \A n \in Nodes(u.depth) : u.node_hash[n] \in NodeValues(n[1])
  <2>1. \A n \in Nodes(u.depth) : NodeCovers(u.node_hash[n], n[1], n[2], May)
    BY DEF HashesCover
  <2>2. DOMAIN u.node_hash = Nodes(u.depth)
    BY <1>1, <1>2 DEF rewritten
  <2> QED
    BY <2>1, <2>2, NodeCoversType
<1>7. u.next_root_index \in Nat /\ u.min_valid_root_idx \in Nat
  BY <1>1 DEF TreeShape, TreeOK
<1>8. TreeOK(u)
  BY <1>1, <1>4, <1>5, <1>6, <1>7 DEF TreeShape, TreeOK
<1> QED
  BY <1>1, <1>4, <1>8 DEF TreeShape

\* A removal keeps the invariant.
LEMMA RemovedInv ==
  ASSUME NEW t, TreeInv(t), NEW i \in Positions(t.depth), t.leaf_value[i] # Zero,
         NEW u, u = removed(t, i)
  PROVE  TreeInv(u)
<1> DEFINE root == update_hashes(t, i, Zero)[t.depth]
<1>1. TreeShape(t) /\ RootIndicesOK(t) /\ LeavesOK(t) /\ HashesCover(t, LiveOrRegistered(t))
  BY DEF TreeInv
<1>2. /\ u.depth = t.depth
      /\ u.next_leaf_index = t.next_leaf_index
      /\ u.min_valid_root_idx = t.next_root_index
      /\ u.roots = pushed(t, root)
      /\ u.root_index = put(t.root_index, root, t.next_root_index)
      /\ u.next_root_index = t.next_root_index + 1
  <2>1. DOMAIN t = TreeFields
    BY <1>1 DEF TreeShape
  <2>2. Removal(t, i, u)
    BY <2>1, RemovedFields
  <2> QED
    BY <2>2 DEF Removal
<1>3. /\ \A x \in Nat : Registered(u)[x] = Registered(t)[x]
      /\ Zero \in LiveOrRegistered(u)[i]
      /\ \A x \in Nat : LiveOrRegistered(t)[x] \subseteq LiveOrRegistered(u)[x]
  BY <1>1, RemovedMay
<1>4. HashesCover(u, LiveOrRegistered(u)) /\ current_root(u) = root
  BY <1>1, <1>3, RemovedCovers
<1>5. LeavesOK(u)
  BY <1>1, RemovedLeavesOK
<1>6. TreeShape(u)
  BY <1>1, <1>4, RemovedShape
<1> HIDE DEF root
<1>7. RootIndicesOK(u)
  BY <1>1, <1>2, <1>4, PushedRootIndices
<1>8. \A r \in DOMAIN u.roots : NodeCovers(u.roots[r], u.depth, 0, Registered(u))
  <2>1. NodeCovers(root, t.depth, 0, LiveOrRegistered(u))
    BY <1>2, <1>4 DEF HashesCover
  <2>2. \A x \in Nat : LiveOrRegistered(u)[x] \subseteq Registered(u)[x]
    BY <1>5, LiveIsRegistered
  <2>3. NodeCovers(root, t.depth, 0, Registered(u))
    BY <2>1, <2>2, <1>1, ShapeFacts, NodeCoversChange
  <2>4. \A r \in DOMAIN t.roots : NodeCovers(t.roots[r], t.depth, 0, Registered(t))
    BY DEF TreeInv
  <2>5. \A x \in Nat : Registered(t)[x] \subseteq Registered(u)[x]
    BY <1>3
  <2> QED
    BY <1>1, <1>2, <2>3, <2>4, <2>5, PushedHistory
<1>9. u.min_valid_root_idx # 0
  <2>1. i < t.next_leaf_index /\ t.next_leaf_index <= t.next_root_index /\ i \in Nat
    BY <1>1, ShapeFacts DEF LeavesOK, RootIndicesOK
  <2>2. t.next_leaf_index \in Nat /\ t.next_root_index \in Nat
    BY <1>1, ShapeFacts DEF TreeShape, TreeOK
  <2> QED
    BY <1>2, <2>1, <2>2
<1> QED
  BY <1>4, <1>5, <1>6, <1>7, <1>8, <1>9 DEF TreeInv

(***************************************************************************)
(* Reinstatement and the empty tree.                                       *)
(***************************************************************************)

\* The tree reinstate_member leaves.
reinstated(t, member) ==
  [t EXCEPT !.member_leaf_index =
     [m \in DOMAIN t.member_leaf_index \ {member} |-> t.member_leaf_index[m]]]

\* A reinstatement drops one member's index and writes nothing else.
LEMMA ReinstatedFields ==
  ASSUME NEW t, DOMAIN t = TreeFields, NEW member, NEW u, u = reinstated(t, member)
  PROVE  /\ DOMAIN u = TreeFields
         /\ u.depth = t.depth
         /\ u.next_leaf_index = t.next_leaf_index
         /\ u.filled_subtrees = t.filled_subtrees
         /\ u.roots = t.roots
         /\ u.leaf_index = t.leaf_index
         /\ u.leaf_value = t.leaf_value
         /\ u.next_root_index = t.next_root_index
         /\ u.root_index = t.root_index
         /\ u.node_hash = t.node_hash
         /\ u.min_valid_root_idx = t.min_valid_root_idx
         /\ DOMAIN u.member_leaf_index = DOMAIN t.member_leaf_index \ {member}
         /\ \A m \in DOMAIN u.member_leaf_index :
              u.member_leaf_index[m] = t.member_leaf_index[m]
BY DEF reinstated, TreeFields

\* A reinstatement keeps the invariant: the leaf left without a member is zero.
LEMMA ReinstatedInv ==
  ASSUME NEW t, TreeInv(t), NEW member \in DOMAIN t.member_leaf_index,
         t.leaf_value[t.member_leaf_index[member]] = Zero,
         NEW u, u = reinstated(t, member)
  PROVE  TreeInv(u)
<1>1. TreeShape(t) /\ RootIndicesOK(t) /\ LeavesOK(t) /\ HashesCover(t, LiveOrRegistered(t))
  BY DEF TreeInv
<1>2. /\ DOMAIN u = TreeFields
      /\ u.depth = t.depth
      /\ u.next_leaf_index = t.next_leaf_index
      /\ u.filled_subtrees = t.filled_subtrees
      /\ u.roots = t.roots
      /\ u.leaf_index = t.leaf_index
      /\ u.leaf_value = t.leaf_value
      /\ u.next_root_index = t.next_root_index
      /\ u.root_index = t.root_index
      /\ u.node_hash = t.node_hash
      /\ u.min_valid_root_idx = t.min_valid_root_idx
      /\ DOMAIN u.member_leaf_index = DOMAIN t.member_leaf_index \ {member}
      /\ \A m \in DOMAIN u.member_leaf_index :
           u.member_leaf_index[m] = t.member_leaf_index[m]
  <2>1. DOMAIN t = TreeFields
    BY <1>1 DEF TreeShape
  <2> QED
    BY <2>1, ReinstatedFields
<1>3. TreeOK(u)
  BY <1>1, <1>2 DEF TreeShape, TreeOK
<1>4. TreeShape(u)
  BY <1>1, <1>2, <1>3 DEF TreeShape
<1>5. RootIndicesOK(u)
  BY <1>1, <1>2 DEF RootIndicesOK, curr_idx, root_idx, current_root
<1>6. LeavesOK(u)
  <2>1. \A m, n \in DOMAIN u.member_leaf_index :
          u.member_leaf_index[m] = u.member_leaf_index[n] => m = n
    BY <1>1, <1>2 DEF LeavesOK
  <2>2. ASSUME NEW i \in Positions(t.depth), t.leaf_value[i] # Zero
        PROVE  /\ i < t.next_leaf_index
               /\ \E m \in DOMAIN u.member_leaf_index : u.member_leaf_index[m] = i
               /\ t.leaf_value[i] \in DOMAIN t.leaf_index
               /\ t.leaf_index[t.leaf_value[i]] = i
    <3>1. PICK m \in DOMAIN t.member_leaf_index : t.member_leaf_index[m] = i
      BY <1>1, <2>2 DEF LeavesOK
    <3>2. m # member
      BY <2>2, <3>1
    <3>3. m \in DOMAIN u.member_leaf_index /\ u.member_leaf_index[m] = i
      BY <1>2, <3>1, <3>2
    <3> QED
      BY <1>1, <2>2, <3>3 DEF LeavesOK
  <2> QED
    BY <1>2, <2>1, <2>2 DEF LeavesOK
<1>7. /\ Registered(u) = Registered(t)
      /\ Stored(u) = Stored(t)
  BY <1>2 DEF Registered, Stored
<1>8. LiveOrRegistered(u) = LiveOrRegistered(t)
  BY <1>7 DEF LiveOrRegistered
<1>9. \A May : HashesCover(t, May) => HashesCover(u, May)
  BY <1>2 DEF HashesCover, current_root
<1> QED
  BY <1>1, <1>2, <1>4, <1>5, <1>6, <1>7, <1>8, <1>9 DEF TreeInv

\* The zero of a level stands for any empty node.
LEMMA ZeroCovers ==
  ASSUME NEW k \in 0 .. MaxTreeDepth, NEW j \in Nat, NEW May,
         \A x \in Nat : Zero \in May[x]
  PROVE  NodeCovers(zero_at_level(k), k, j, May) /\ zero_at_level(k) \in NodeValues(k)
<1>1. capacity[k] \in Nat
  BY Capacity
<1>2. j * capacity[k] \in Nat
  BY <1>1
<1>3. Covers(zero_at_level(k), j * capacity[k], capacity[k], May)
  BY <1>2, CoversZero
<1> QED
  BY <1>3, NodeCoversType DEF NodeCovers

\* The invariant holds of an empty tree.
LEMMA EmptyTreeInv ==
  ASSUME NEW depth \in 1 .. MaxTreeDepth, NEW t, t = empty_tree(depth)
  PROVE  TreeInv(t)
<1> DEFINE root == zero_at_level(depth)
<1>1. /\ DOMAIN t = TreeFields
      /\ t.depth = depth
      /\ t.next_leaf_index = 0
      /\ t.filled_subtrees = [k \in 1 .. depth |-> zero_at_level(k - 1)]
      /\ t.roots = <<root>>
      /\ t.leaf_index = << >>
      /\ t.member_leaf_index = << >>
      /\ t.leaf_value = [i \in Positions(depth) |-> Zero]
      /\ t.next_root_index = 0
      /\ t.root_index = [r \in {root} |-> 0]
      /\ t.node_hash = [n \in Nodes(depth) |-> zero_at_level(n[1])]
      /\ t.min_valid_root_idx = 0
  BY DEF empty_tree, TreeFields
<1>2. /\ depth \in 0 .. MaxTreeDepth /\ depth \in Nat /\ 0 \in 0 .. MaxTreeDepth
      /\ MaxRootHistory \in Nat \ {0} /\ MaxTreeDepth \in Nat
  BY TreeAssumption
<1>3. capacity[depth] \in Nat
  BY <1>2, Capacity
<1> DEFINE Anything == [i \in Nat |-> LeafValues]
<1>4. \A x \in Nat : Zero \in Anything[x]
  BY DEF LeafValues
<1>5. \A k \in 0 .. MaxTreeDepth : zero_at_level(k) \in NodeValues(k)
  BY <1>4, ZeroCovers
<1> HIDE DEF Anything, root
<1>6. /\ DOMAIN t.leaf_index = {} /\ DOMAIN t.member_leaf_index = {}
      /\ DOMAIN t.root_index = {root} /\ t.root_index[root] = 0
  BY <1>1
<1>7. root \in NodeValues(depth)
  BY <1>2, <1>5 DEF root
<1>8. t.roots \in Seq(NodeValues(depth)) /\ Len(t.roots) = 1 /\ t.roots[1] = root /\ DOMAIN t.roots = {1}
  BY <1>1, <1>7
<1>9. current_root(t) = root /\ curr_idx(t) = 0
  BY <1>6, <1>8 DEF current_root, curr_idx, root_idx
<1>10. ASSUME NEW May, \A x \in Nat : Zero \in May[x]
       PROVE  HashesCover(t, May)
  <2>1. \A n \in Nodes(t.depth) : NodeCovers(t.node_hash[n], n[1], n[2], May)
    <3> TAKE n \in Nodes(t.depth)
    <3>1. n \in Nodes(depth) /\ t.node_hash[n] = zero_at_level(n[1])
      BY <1>1
    <3>2. n[1] \in 0 .. MaxTreeDepth /\ n[2] \in Nat
      BY <1>2, <3>1, NodeInTree
    <3> QED
      BY <1>10, <3>1, <3>2, ZeroCovers
  <2>2. ASSUME NEW k \in 1 .. t.depth
        PROVE  is_left(ancestors(t.next_leaf_index)[k - 1])
    <3>1. k - 1 \in 0 .. MaxTreeDepth
      BY <1>1, LevelBelow
    <3>2. ancestors(0)[k - 1] = 0
      BY <3>1, FirstAncestors
    <3> QED
      BY <1>1, <3>2 DEF is_left
  <2>3. NodeCovers(current_root(t), t.depth, 0, May)
    BY <1>1, <1>2, <1>9, <1>10, ZeroCovers DEF root
  <2>4. \A i \in Positions(t.depth) : t.leaf_value[i] \in May[i]
    BY <1>1, <1>3, <1>10 DEF Positions
  <2> QED
    BY <1>10, <2>1, <2>2, <2>3, <2>4 DEF HashesCover
<1>11. /\ \A x \in Nat : Zero \in Registered(t)[x]
       /\ \A x \in Nat : Zero \in Stored(t)[x]
       /\ \A x \in Nat : Zero \in LiveOrRegistered(t)[x]
  <2>1. \A x \in Nat : Zero \in Registered(t)[x]
    BY DEF Registered
  <2>2. \A x \in Nat : Zero \in Stored(t)[x]
    BY <1>1 DEF Stored
  <2> QED
    BY <2>1, <2>2 DEF LiveOrRegistered
<1>12. TreeShape(t)
  <2>1. /\ t.filled_subtrees \in [1 .. depth -> Seq(LeafValues)]
        /\ Len(t.filled_subtrees) = depth
        /\ \A k \in 1 .. depth : t.filled_subtrees[k] \in NodeValues(k - 1)
    <3>1. ASSUME NEW k \in 1 .. depth
          PROVE  zero_at_level(k - 1) \in Seq(LeafValues) /\ zero_at_level(k - 1) \in NodeValues(k - 1)
      <4>1. k - 1 \in 0 .. MaxTreeDepth
        BY LevelBelow
      <4>2. capacity[k - 1] \in Nat /\ zero_at_level(k - 1) \in [1 .. capacity[k - 1] -> LeafValues]
        BY <1>5, <4>1, Capacity DEF NodeValues
      <4> QED
        BY <4>2 DEF NodeValues
    <3>2. t.filled_subtrees \in [1 .. depth -> Seq(LeafValues)]
      BY <3>1, <1>1
    <3> QED
      BY <3>1, <3>2, <1>1, <1>2
  <2>2. \A n \in Nodes(depth) : t.node_hash[n] \in NodeValues(n[1])
    BY <1>1, <1>2, <1>5, NodeInTree
  <2>3. t.leaf_value \in [Positions(depth) -> LeafValues]
    BY <1>1 DEF LeafValues
  <2>4. DOMAIN t.node_hash = Nodes(depth)
    BY <1>1
  <2>5. 0 \in 0 .. capacity[depth]
    BY <1>3
  <2>6. TreeOK(t)
    BY <1>1, <1>2, <1>6, <1>7, <1>8, <2>1, <2>2, <2>3, <2>4, <2>5 DEF TreeOK
  <2> QED
    BY <1>1, <1>8, <2>1, <2>6 DEF TreeShape
<1>13. RootIndicesOK(t)
  BY <1>1, <1>6, <1>9 DEF RootIndicesOK
<1>14. LeavesOK(t)
  BY <1>1, <1>6 DEF LeavesOK
<1>15. \A r \in DOMAIN t.roots : NodeCovers(t.roots[r], t.depth, 0, Registered(t))
  <2>1. NodeCovers(root, depth, 0, Registered(t))
    BY <1>2, <1>11, ZeroCovers DEF root
  <2> QED
    BY <1>1, <1>8, <2>1
<1> QED
  BY <1>10, <1>11, <1>12, <1>13, <1>14, <1>15 DEF TreeInv

(***************************************************************************)
(* The steps of the tree's specification.                                  *)
(***************************************************************************)

\* What a transaction may do to the tree t of one DAO.
Untouched(t, u) == u = t
Begins(t, u) ==
  /\ t = NoTree
  /\ \E depth \in 1 .. MaxTreeDepth :
       \/ u = empty_tree(depth)
       \/ \E c \in Leaf, m \in Address :
            /\ can_register(empty_tree(depth), c, m)
            /\ u = registered(empty_tree(depth), c, m)
Registers(t, u) ==
  /\ t # NoTree
  /\ \E c \in Leaf, m \in Address : can_register(t, c, m) /\ u = registered(t, c, m)
Removes(t, u) ==
  /\ t # NoTree
  /\ \E member \in DOMAIN t.member_leaf_index :
       /\ t.leaf_value[t.member_leaf_index[member]] # Zero
       /\ u = removed(t, t.member_leaf_index[member])
Reinstates(t, u) ==
  /\ t # NoTree
  /\ \E member \in DOMAIN t.member_leaf_index :
       /\ t.leaf_value[t.member_leaf_index[member]] = Zero
       /\ u = reinstated(t, member)

MayBecome(t, u) ==
  Untouched(t, u) \/ Begins(t, u) \/ Registers(t, u) \/ Removes(t, u) \/ Reinstates(t, u)

RegistrantOK ==
  /\ DOMAIN registrant = DaoId
  /\ \A d \in DaoId : \A c \in DOMAIN registrant[d] : registrant[d][c] \in Address

TreesOK ==
  /\ DOMAIN tree = DaoId
  /\ \A d \in Trees : TreeInv(tree[d])
  /\ RegistrantOK

TreesStep ==
  /\ DOMAIN tree' = DaoId
  /\ \A d \in DaoId : MayBecome(tree[d], tree'[d])
  /\ RegistrantOK'

\* Registration changes one tree and notes the registrant.
LEMMA RegisterStep ==
  ASSUME TreesOK, NEW d \in DaoId, NEW c \in Leaf, NEW m \in Address, register(d, c, m)
  PROVE  TreesStep
<1>1. /\ tree[d] # NoTree
      /\ can_register(tree[d], c, m)
      /\ tree' = [tree EXCEPT ![d] = registered(tree[d], c, m)]
      /\ registrant' = [registrant EXCEPT ![d] = put(registrant[d], c, m)]
  BY DEF register, tree_initialized
<1>2. /\ DOMAIN tree' = DaoId
      /\ tree'[d] = registered(tree[d], c, m)
      /\ \A e \in DaoId \ {d} : tree'[e] = tree[e]
  BY <1>1 DEF TreesOK
<1>3. Registers(tree[d], tree'[d])
  BY <1>1, <1>2 DEF Registers
<1>4. RegistrantOK'
  <2>1. /\ DOMAIN registrant' = DaoId
        /\ registrant'[d] = put(registrant[d], c, m)
        /\ \A e \in DaoId \ {d} : registrant'[e] = registrant[e]
    BY <1>1 DEF TreesOK, RegistrantOK
  <2> QED
    BY <2>1 DEF TreesOK, RegistrantOK, put
<1> QED
  BY <1>2, <1>3, <1>4 DEF TreesStep, MayBecome, Untouched

\* Creation begins one tree.
LEMMA InitTreeStep ==
  ASSUME TreesOK, NEW d \in DaoId, NEW depth, init_tree_from_registry(d, depth)
  PROVE  TreesStep
<1>1. /\ depth \in 1 .. MaxTreeDepth
      /\ tree[d] = NoTree
      /\ tree' = [tree EXCEPT ![d] = empty_tree(depth)]
      /\ registrant' = registrant
  BY DEF init_tree_from_registry, tree_initialized
<1>2. /\ DOMAIN tree' = DaoId
      /\ tree'[d] = empty_tree(depth)
      /\ \A e \in DaoId \ {d} : tree'[e] = tree[e]
  BY <1>1 DEF TreesOK
<1>3. Begins(tree[d], tree'[d])
  BY <1>1, <1>2 DEF Begins
<1> QED
  BY <1>1, <1>2, <1>3 DEF TreesStep, TreesOK, RegistrantOK, MayBecome, Untouched

\* Creation with a first registration begins one tree.
LEMMA InitAndRegisterStep ==
  ASSUME TreesOK, NEW d \in DaoId, NEW depth, NEW c \in Leaf, NEW m \in Address,
         init_and_register_from_registry(d, depth, c, m)
  PROVE  TreesStep
<1>1. /\ depth \in 1 .. MaxTreeDepth
      /\ tree[d] = NoTree
      /\ can_register(empty_tree(depth), c, m)
      /\ tree' = [tree EXCEPT ![d] = registered(empty_tree(depth), c, m)]
      /\ registrant' = [registrant EXCEPT ![d] = put(registrant[d], c, m)]
  BY DEF init_and_register_from_registry, tree_initialized
<1>2. /\ DOMAIN tree' = DaoId
      /\ tree'[d] = registered(empty_tree(depth), c, m)
      /\ \A e \in DaoId \ {d} : tree'[e] = tree[e]
  BY <1>1 DEF TreesOK
<1>3. Begins(tree[d], tree'[d])
  BY <1>1, <1>2 DEF Begins
<1>4. RegistrantOK'
  <2>1. /\ DOMAIN registrant' = DaoId
        /\ registrant'[d] = put(registrant[d], c, m)
        /\ \A e \in DaoId \ {d} : registrant'[e] = registrant[e]
    BY <1>1 DEF TreesOK, RegistrantOK
  <2> QED
    BY <2>1 DEF TreesOK, RegistrantOK, put
<1> QED
  BY <1>2, <1>3, <1>4 DEF TreesStep, MayBecome, Untouched

\* Removal changes one tree.
LEMMA RemoveStep ==
  ASSUME TreesOK, NEW d \in DaoId, NEW m, NEW admin, remove_member(d, m, admin)
  PROVE  TreesStep /\ revoke(d, m, admin)
<1> DEFINE i == tree[d].member_leaf_index[m]
<1>1. /\ tree[d] # NoTree
      /\ m \in DOMAIN tree[d].member_leaf_index
      /\ tree[d].leaf_value[i] # Zero
      /\ tree' = [tree EXCEPT ![d] = removed(tree[d], i)]
      /\ registrant' = registrant
      /\ revoke(d, m, admin)
  BY DEF remove_member, tree_initialized, removed
<1>2. /\ DOMAIN tree' = DaoId
      /\ tree'[d] = removed(tree[d], i)
      /\ \A e \in DaoId \ {d} : tree'[e] = tree[e]
  BY <1>1 DEF TreesOK
<1>3. Removes(tree[d], tree'[d])
  BY <1>1, <1>2 DEF Removes
<1> QED
  BY <1>1, <1>2, <1>3 DEF TreesStep, TreesOK, RegistrantOK, MayBecome, Untouched

\* Reinstatement changes one tree.
LEMMA ReinstateStep ==
  ASSUME TreesOK, NEW d \in DaoId, NEW m, NEW admin, reinstate_member(d, m, admin)
  PROVE  TreesStep
<1>1. /\ tree[d] # NoTree
      /\ m \in DOMAIN tree[d].member_leaf_index
      /\ tree[d].leaf_value[tree[d].member_leaf_index[m]] = Zero
      /\ tree' = [tree EXCEPT ![d] = reinstated(tree[d], m)]
      /\ registrant' = registrant
  BY DEF reinstate_member, tree_initialized, reinstated
<1>2. /\ DOMAIN tree' = DaoId
      /\ tree'[d] = reinstated(tree[d], m)
      /\ \A e \in DaoId \ {d} : tree'[e] = tree[e]
  BY <1>1 DEF TreesOK
<1>3. Reinstates(tree[d], tree'[d])
  BY <1>1, <1>2 DEF Reinstates
<1> QED
  BY <1>1, <1>2, <1>3 DEF TreesStep, TreesOK, RegistrantOK, MayBecome, Untouched

\* Every transaction does one of these things to every tree.
LEMMA TreeTransactionStep ==
  ASSUME TreesOK, TreeTransaction
  PROVE  /\ TreesStep
         /\ \/ UNCHANGED sbt_vars
            \/ \E d \in DaoId, a \in Address : set_revoked(d, a)
<1>1. PICK d \in DaoId, a \in Address :
        \/ \E depth \in Depth : init_tree(d, depth, a) /\ UNCHANGED sbt_vars
        \/ \E depth \in Depth : init_tree_from_registry(d, depth) /\ UNCHANGED sbt_vars
        \/ \E c \in Leaf : register_from_registry(d, c, a) /\ UNCHANGED sbt_vars
        \/ \E c \in Leaf : register_with_caller(d, c, a) /\ UNCHANGED sbt_vars
        \/ \E c \in Leaf : self_register(d, c, a) /\ UNCHANGED sbt_vars
        \/ \E admin \in Address : remove_member(d, a, admin)
        \/ \E admin \in Address : reinstate_member(d, a, admin) /\ UNCHANGED sbt_vars
  BY DEF TreeTransaction
<1>2. CASE \E depth \in Depth :
             \/ init_tree(d, depth, a) /\ UNCHANGED sbt_vars
             \/ init_tree_from_registry(d, depth) /\ UNCHANGED sbt_vars
  BY <1>2, InitTreeStep DEF init_tree
<1>3. CASE \E c \in Leaf :
             \/ register_from_registry(d, c, a) /\ UNCHANGED sbt_vars
             \/ register_with_caller(d, c, a) /\ UNCHANGED sbt_vars
             \/ self_register(d, c, a) /\ UNCHANGED sbt_vars
  BY <1>3, RegisterStep DEF register_from_registry, register_with_caller, self_register
<1>4. CASE \E admin \in Address : remove_member(d, a, admin)
  BY <1>4, RemoveStep DEF revoke
<1>5. CASE \E admin \in Address : reinstate_member(d, a, admin) /\ UNCHANGED sbt_vars
  BY <1>5, ReinstateStep
<1> QED
  BY <1>1, <1>2, <1>3, <1>4, <1>5

\* A step that leaves the trees alone.
LEMMA TreesUntouched ==
  ASSUME TreesOK, UNCHANGED tree_vars
  PROVE  TreesStep
BY DEF TreesOK, RegistrantOK, tree_vars, TreesStep, MayBecome, Untouched

\* A member's leaf is a leaf of the tree.
LEMMA MemberLeafInTree ==
  ASSUME NEW t, TreeInv(t), NEW member \in DOMAIN t.member_leaf_index
  PROVE  t.member_leaf_index[member] \in Positions(t.depth)
<1>1. TreeShape(t)
  BY DEF TreeInv
<1>2. /\ t.next_leaf_index \in 0 .. capacity[t.depth]
      /\ t.member_leaf_index[member] \in 0 .. t.next_leaf_index - 1
  BY <1>1 DEF TreeShape, TreeOK
<1>3. capacity[t.depth] \in Nat
  BY <1>1, ShapeFacts
<1> QED
  BY <1>2, <1>3 DEF Positions

\* What a tree becomes has the invariant.
LEMMA ChangedInv ==
  ASSUME NEW t, t # NoTree => TreeInv(t), NEW u, MayBecome(t, u), ~Untouched(t, u)
  PROVE  TreeInv(u)
<1>2. CASE Begins(t, u)
  <2>1. PICK depth \in 1 .. MaxTreeDepth :
          \/ u = empty_tree(depth)
          \/ \E c \in Leaf, m \in Address :
               /\ can_register(empty_tree(depth), c, m)
               /\ u = registered(empty_tree(depth), c, m)
    BY <1>2 DEF Begins
  <2>2. TreeInv(empty_tree(depth))
    BY EmptyTreeInv
  <2> QED
    BY <2>1, <2>2, RegisteredInv
<1>3. CASE Registers(t, u)
  BY <1>3, RegisteredInv DEF Registers
<1>4. CASE Removes(t, u)
  <2>1. PICK member \in DOMAIN t.member_leaf_index :
          /\ t.leaf_value[t.member_leaf_index[member]] # Zero
          /\ u = removed(t, t.member_leaf_index[member])
    BY <1>4 DEF Removes
  <2>2. TreeInv(t)
    BY <1>4 DEF Removes
  <2>3. t.member_leaf_index[member] \in Positions(t.depth)
    BY <2>2, MemberLeafInTree
  <2> QED
    BY <2>1, <2>2, <2>3, RemovedInv
<1>5. CASE Reinstates(t, u)
  BY <1>5, ReinstatedInv DEF Reinstates
<1> QED
  BY <1>2, <1>3, <1>4, <1>5 DEF MayBecome

\* What a tree may become has the invariant.
LEMMA MayBecomeInv ==
  ASSUME NEW t, t # NoTree => TreeInv(t), NEW u, MayBecome(t, u), u # NoTree
  PROVE  TreeInv(u)
BY ChangedInv DEF Untouched

\* Every step keeps the invariant of the trees.
LEMMA TreesNextInv ==
  ASSUME TreesOK, TreesStep
  PROVE  TreesOK'
<1>1. ASSUME NEW d \in DaoId, tree'[d] # NoTree PROVE TreeInv(tree'[d])
  <2>1. MayBecome(tree[d], tree'[d]) /\ (tree[d] # NoTree => TreeInv(tree[d]))
    BY DEF TreesStep, TreesOK, Trees, tree_initialized
  <2> QED
    BY <1>1, <2>1, MayBecomeInv
<1> QED
  BY <1>1 DEF TreesStep, TreesOK, Trees, tree_initialized

\* The current root is in the history, with the newest index.
LEMMA CurrentRootFacts ==
  ASSUME NEW t, TreeInv(t)
  PROVE  /\ Accepted(t, current_root(t))
         /\ current_root(t) \in DOMAIN t.root_index
         /\ current_root(t) \in NodeValues(t.depth)
         /\ curr_idx(t) \in Nat
         /\ \A r \in DOMAIN t.root_index : t.root_index[r] <= curr_idx(t)
         /\ t.next_root_index > 0 => curr_idx(t) = t.next_root_index - 1
<1>1. TreeShape(t) /\ RootIndicesOK(t)
  BY DEF TreeInv
<1>2. Len(t.roots) \in 1 .. MaxRootHistory /\ t.roots \in Seq(NodeValues(t.depth))
  BY <1>1 DEF TreeShape, TreeOK
<1>3. Len(t.roots) \in DOMAIN t.roots
  BY <1>2, LenProperties
<1>4. root_ok(t, current_root(t)) /\ current_root(t) \in DOMAIN t.root_index
  BY <1>1, <1>3 DEF root_ok, current_root, TreeShape, TreeOK
<1>5. current_root(t) \in NodeValues(t.depth) /\ curr_idx(t) \in Nat
  BY <1>1, <1>4 DEF TreeShape, TreeOK, curr_idx, root_idx
<1> QED
  BY <1>1, <1>4, <1>5 DEF RootIndicesOK, Accepted, curr_idx, root_idx

\* A tree stays a tree, and its newest index never goes back.
LEMMA TreeGrows ==
  ASSUME NEW t, TreeInv(t), NEW u, MayBecome(t, u)
  PROVE  TreeInv(u) /\ t # NoTree /\ u # NoTree /\ curr_idx(t) <= curr_idx(u)
<1>1. TreeShape(t) /\ RootIndicesOK(t)
  BY DEF TreeInv
<1>2. t # NoTree
  <2>1. t.depth \in 1 .. MaxTreeDepth
    BY <1>1, ShapeFacts
  <2> QED
    BY <2>1 DEF NoTree
<1>3. /\ DOMAIN t = TreeFields
      /\ t.next_root_index \in Nat
      /\ curr_idx(t) \in Nat
      /\ curr_idx(t) <= t.next_root_index
  <2>1. DOMAIN t = TreeFields /\ t.next_root_index \in Nat
    BY <1>1 DEF TreeShape, TreeOK
  <2>2. curr_idx(t) \in Nat /\ (t.next_root_index > 0 => curr_idx(t) = t.next_root_index - 1)
    BY CurrentRootFacts
  <2>3. t.next_root_index = 0 => curr_idx(t) = 0
    BY <1>1 DEF RootIndicesOK
  <2> QED
    BY <2>1, <2>2, <2>3
<1>4. \/ u.next_root_index = t.next_root_index + 1
      \/ u.roots = t.roots /\ u.root_index = t.root_index
  <2>1. CASE Untouched(t, u)
    BY <2>1 DEF Untouched
  <2>2. CASE Registers(t, u)
    <3>1. PICK c \in Leaf, m \in Address : u = registered(t, c, m)
      BY <2>2 DEF Registers
    <3>2. Registration(t, c, m, u)
      BY <1>3, <3>1, RegisteredFields
    <3> QED
      BY <3>2 DEF Registration
  <2>3. CASE Removes(t, u)
    <3>1. PICK i : u = removed(t, i)
      BY <2>3 DEF Removes
    <3>2. Removal(t, i, u)
      BY <1>3, <3>1, RemovedFields
    <3> QED
      BY <3>2 DEF Removal
  <2>4. CASE Reinstates(t, u)
    <3>1. PICK member : u = reinstated(t, member)
      BY <2>4 DEF Reinstates
    <3> QED
      BY <1>3, <3>1, ReinstatedFields
  <2> QED
    BY <1>2, <2>1, <2>2, <2>3, <2>4 DEF MayBecome, Begins
<1>5. TreeInv(u) /\ u # NoTree
  <2>1. CASE Untouched(t, u)
    BY <1>2, <2>1 DEF Untouched
  <2>2. CASE ~Untouched(t, u)
    <3>1. TreeInv(u)
      BY <1>2, <2>2, ChangedInv
    <3>2. u.depth \in 1 .. MaxTreeDepth
      BY <3>1, ShapeFacts DEF TreeInv
    <3> QED
      BY <3>1, <3>2 DEF NoTree
  <2> QED
    BY <2>1, <2>2
<1>6. CASE u.next_root_index = t.next_root_index + 1
  <2>1. curr_idx(u) = u.next_root_index - 1
    BY <1>3, <1>5, <1>6, CurrentRootFacts
  <2> QED
    BY <1>2, <1>3, <1>5, <1>6, <2>1
<1>7. CASE u.roots = t.roots /\ u.root_index = t.root_index
  BY <1>2, <1>3, <1>5, <1>7 DEF curr_idx, root_idx, current_root
<1> QED
  BY <1>4, <1>6, <1>7

(***************************************************************************)
(* What the invariant says of one tree.                                    *)
(***************************************************************************)

\* A root that stands for the leaves has each leaf's value at its place.
LEMMA RootLeaf ==
  ASSUME NEW depth \in 0 .. MaxTreeDepth, NEW root, NEW May, NodeCovers(root, depth, 0, May),
         NEW i \in Positions(depth)
  PROVE  /\ root[i + 1] \in May[i]
         /\ root \in [1 .. capacity[depth] -> LeafValues]
         /\ i + 1 \in 1 .. capacity[depth]
<1>1. capacity[depth] \in Nat
  BY Capacity
<1>2. i \in Nat /\ i + 1 \in 1 .. capacity[depth]
  BY <1>1 DEF Positions
<1>3. Covers(root, 0, capacity[depth], May)
  <2>1. 0 * capacity[depth] = 0
    BY <1>1
  <2> QED
    BY <2>1 DEF NodeCovers
<1>4. 0 + (i + 1) - 1 = i
  BY <1>2
<1>5. root[i + 1] \in May[0 + (i + 1) - 1]
  BY <1>2, <1>3 DEF Covers
<1> QED
  BY <1>2, <1>3, <1>4, <1>5 DEF Covers

\* The hash along a served path stands for the leaves the current root stands for;
\* when those are the stored leaves, it is the current root.
LEMMA ServedPathLeads ==
  ASSUME NEW t, TreeInv(t), t.min_valid_root_idx = 0, NEW i \in Positions(t.depth)
  PROVE  fold_path(t.leaf_value[i], get_merkle_path(t, i)) = current_root(t)
<1> DEFINE path == get_merkle_path(t, i)
           h == path_hashes(t.leaf_value[i], path)
           May == Stored(t)
<1>1. TreeShape(t) /\ HashesCover(t, May)
  BY DEF TreeInv
<1>2. /\ t.depth \in 0 .. MaxTreeDepth /\ t.depth \in Nat
      /\ capacity[t.depth] \in Nat /\ i \in Nat
      /\ t.leaf_value[i] \in LeafValues
  BY <1>1, ShapeFacts
<1>3. t.leaf_value[i] \in May[i] /\ NodeCovers(current_root(t), t.depth, 0, May)
  BY <1>1 DEF HashesCover
<1> HIDE DEF May
<1>4. PathOK(path, i, t.depth, May)
  BY <1>1, ServedPathOK
<1>5. Len(path) = t.depth
  BY <1>4 DEF PathOK
<1> HIDE DEF path
<1>6. \A k \in 0 .. t.depth : NodeCovers(h[k], k, ancestors(i)[k], May)
  BY <1>2, <1>3, <1>4, PathCovers
<1>7. t.depth \in 0 .. t.depth /\ ancestors(i)[t.depth] = 0
  BY <1>2, AncestorInTree
<1>8. NodeCovers(h[t.depth], t.depth, 0, May)
  BY <1>6, <1>7
<1>9. /\ 0 * capacity[t.depth] \in Nat
      /\ \A j \in Nat : \A x, y \in May[j] : x = y
  BY <1>2 DEF May, Stored
<1>10. h[t.depth] = current_root(t)
  BY <1>2, <1>3, <1>8, <1>9, CoversOnce DEF NodeCovers
<1> QED
  BY <1>5, <1>10 DEF fold_path, path

\* The state predicates the runs check follow from the invariant.
LEMMA TreesFacts ==
  ASSUME TreesOK
  PROVE  /\ OneMemberPerLeaf
         /\ RootsVouchForRegistered
         /\ LiveLeavesInCurrentRoot
         /\ CurrentRootIsNewest
         /\ PathsVerifyUntilRemoval
<1>1. ASSUME NEW d \in Trees
      PROVE  LET t == tree[d] IN
             /\ TreeInv(t) /\ TreeShape(t)
             /\ t.depth \in 0 .. MaxTreeDepth
             /\ \A i \in 0 .. t.next_leaf_index - 1 : i \in Positions(t.depth)
             /\ \A i \in Positions(t.depth) : i \in Nat
  <2> DEFINE t == tree[d]
  <2>1. TreeInv(t) /\ TreeShape(t)
    BY DEF TreesOK, TreeInv
  <2> HIDE DEF t
  <2>2. t.next_leaf_index \in 0 .. capacity[t.depth]
    BY <2>1 DEF TreeShape, TreeOK
  <2>3. capacity[t.depth] \in Nat /\ t.depth \in 0 .. MaxTreeDepth
    BY <2>1, ShapeFacts
  <2> QED
    BY <2>1, <2>2, <2>3 DEF t, Positions
<1>2. OneMemberPerLeaf
  BY <1>1 DEF OneMemberPerLeaf, TreeInv, LeavesOK
<1>3. RootsVouchForRegistered
  <2> SUFFICES ASSUME NEW d \in Trees, NEW r \in DOMAIN tree[d].roots,
                      NEW i \in Positions(tree[d].depth)
               PROVE  LET c == tree[d].roots[r][i + 1]
                      IN  c = Zero \/ (c \in DOMAIN tree[d].leaf_index /\ tree[d].leaf_index[c] = i)
    BY DEF RootsVouchForRegistered
  <2>1. NodeCovers(tree[d].roots[r], tree[d].depth, 0, Registered(tree[d]))
    BY <1>1 DEF TreeInv
  <2>2. tree[d].roots[r][i + 1] \in Registered(tree[d])[i]
    BY <1>1, <2>1, RootLeaf
  <2> QED
    BY <1>1, <2>2 DEF Registered
<1>4. LiveLeavesInCurrentRoot
  <2> SUFFICES ASSUME NEW d \in Trees, NEW i \in Positions(tree[d].depth),
                      tree[d].leaf_value[i] # Zero
               PROVE  current_root(tree[d])[i + 1] = tree[d].leaf_value[i]
    BY DEF LiveLeavesInCurrentRoot
  <2>1. NodeCovers(current_root(tree[d]), tree[d].depth, 0, LiveOrRegistered(tree[d]))
    BY <1>1 DEF TreeInv, HashesCover
  <2>2. current_root(tree[d])[i + 1] \in LiveOrRegistered(tree[d])[i]
    BY <1>1, <2>1, RootLeaf
  <2> QED
    BY <1>1, <2>2 DEF LiveOrRegistered, Stored
<1>5. CurrentRootIsNewest
  BY <1>1, CurrentRootFacts DEF CurrentRootIsNewest
<1>6. PathsVerifyUntilRemoval
  BY <1>1, ServedPathLeads DEF PathsVerifyUntilRemoval
<1> QED
  BY <1>2, <1>3, <1>4, <1>5, <1>6

(***************************************************************************)
(* What a step does to one tree.                                           *)
(***************************************************************************)

\* A removal's new root has zero at the removed leaf, and every other root is older
\* than min_valid_root_idx.
LEMMA RemovedRoots ==
  ASSUME NEW t, TreeInv(t), NEW i \in Positions(t.depth), t.leaf_value[i] # Zero,
         NEW u, u = removed(t, i), NEW r \in DOMAIN u.roots, Accepted(u, u.roots[r])
  PROVE  u.roots[r][i + 1] = Zero
<1> DEFINE root == update_hashes(t, i, Zero)[t.depth]
           New == [x \in Nat |-> IF x = i THEN {Zero} ELSE LiveOrRegistered(t)[x]]
           May == LiveOrRegistered(t)
<1>1. TreeShape(t) /\ RootIndicesOK(t) /\ LeavesOK(t) /\ HashesCover(t, May)
  BY DEF TreeInv
<1>2. /\ u.depth = t.depth
      /\ u.min_valid_root_idx = t.next_root_index
      /\ u.roots = pushed(t, root)
      /\ u.root_index = put(t.root_index, root, t.next_root_index)
  <2>1. Removal(t, i, u)
    BY <1>1, RemovedFields DEF TreeShape
  <2> QED
    BY <2>1 DEF Removal
<1>3. /\ t.depth \in 0 .. MaxTreeDepth /\ t.depth \in Nat /\ i \in Nat
      /\ t.next_leaf_index \in Nat
  BY <1>1, ShapeFacts
<1>4. root[i + 1] = Zero /\ root \in NodeValues(t.depth)
  <2> HIDE DEF root
  <2>1. Zero \in New[i] /\ \A x \in Nat : x # i => May[x] \subseteq New[x]
    BY <1>3
  <2> HIDE DEF New, May
  <2>2. Zero \in LeafValues
    BY DEF LeafValues
  <2>3. \A k \in 0 .. t.depth :
          NodeCovers(update_hashes(t, i, Zero)[k], k, ancestors(i)[k], New)
    BY <1>1, <2>1, <2>2, UpdateHashesCover
  <2>4. t.depth \in 0 .. t.depth /\ ancestors(i)[t.depth] = 0
    BY <1>3, AncestorInTree
  <2>5. NodeCovers(root, t.depth, 0, New)
    BY <2>3, <2>4 DEF root
  <2>6. root[i + 1] \in New[i]
    BY <1>3, <2>5, RootLeaf
  <2> QED
    BY <1>3, <2>5, <2>6, NodeCoversType DEF New
<1> HIDE DEF root, New, May
<1>5. u.roots[r] = root \/ \E j \in DOMAIN t.roots : u.roots[r] = t.roots[j]
  <2>1. /\ t.roots \in Seq(NodeValues(t.depth))
        /\ Len(t.roots) \in 1 .. MaxRootHistory
    BY <1>1 DEF TreeShape, TreeOK
  <2> QED
    BY <1>2, <1>4, <2>1, Pushed
<1>6. SUFFICES ASSUME NEW j \in DOMAIN t.roots, u.roots[r] = t.roots[j], u.roots[r] # root
               PROVE  FALSE
  BY <1>4, <1>5
<1>7. /\ t.roots[j] \in DOMAIN t.root_index
      /\ t.root_index[t.roots[j]] \in Nat
      /\ t.next_root_index \in Nat
  BY <1>1 DEF TreeShape, TreeOK
<1>8. root_idx(u, u.roots[r]) = t.root_index[t.roots[j]]
  BY <1>2, <1>6, <1>7 DEF root_idx, put
<1>9. t.root_index[t.roots[j]] >= t.next_root_index
  BY <1>2, <1>8 DEF Accepted
<1>10. t.next_root_index > 0
  BY <1>1, <1>3, <1>7 DEF LeavesOK, RootIndicesOK
<1>11. t.root_index[t.roots[j]] <= t.next_root_index - 1
  BY <1>1, <1>7, <1>10 DEF RootIndicesOK
<1> QED
  BY <1>7, <1>9, <1>11

\* Removal in one step of one tree.
LEMMA ZeroedLeaf ==
  ASSUME NEW t, TreeInv(t), t # NoTree, NEW u, MayBecome(t, u),
         NEW i \in Positions(t.depth), t.leaf_value[i] # Zero, u.leaf_value[i] = Zero
  PROVE  u = removed(t, i)
<1>1. TreeShape(t) /\ LeavesOK(t)
  BY DEF TreeInv
<1>2. /\ t.leaf_value \in [Positions(t.depth) -> LeafValues]
      /\ i < t.next_leaf_index /\ t.next_leaf_index \in Nat /\ i \in Nat
      /\ DOMAIN t = TreeFields
  BY <1>1, ShapeFacts DEF LeavesOK, TreeShape
<1>3. ~Untouched(t, u) /\ ~Begins(t, u)
  BY DEF Untouched, Begins
<1>4. CASE Registers(t, u)
  <2>1. PICK c \in Leaf, m \in Address : u = registered(t, c, m)
    BY <1>4 DEF Registers
  <2>2. Registration(t, c, m, u)
    BY <1>2, <2>1, RegisteredFields
  <2>3. u.leaf_value = [t.leaf_value EXCEPT ![t.next_leaf_index] = c]
    BY <2>2 DEF Registration
  <2> QED
    BY <1>2, <2>3
<1>5. CASE Removes(t, u)
  <2>1. PICK member \in DOMAIN t.member_leaf_index :
          u = removed(t, t.member_leaf_index[member])
    BY <1>5 DEF Removes
  <2> DEFINE j == t.member_leaf_index[member]
  <2>2. u.leaf_value = [t.leaf_value EXCEPT ![j] = Zero]
    <3> HIDE DEF j
    <3>1. Removal(t, j, u)
      BY <1>2, <2>1, RemovedFields DEF j
    <3> QED
      BY <3>1 DEF Removal
  <2>3. j = i
    BY <1>2, <2>2
  <2> QED
    BY <2>1, <2>3
<1>6. CASE Reinstates(t, u)
  <2>1. PICK member : u = reinstated(t, member)
    BY <1>6 DEF Reinstates
  <2>2. u.leaf_value = t.leaf_value
    BY <1>2, <2>1, ReinstatedFields
  <2> QED
    BY <2>2
<1> QED
  BY <1>3, <1>4, <1>5, <1>6 DEF MayBecome

\* A registered commitment keeps its position, and is not live again once zeroed.
LEMMA CommitmentStaysOut ==
  ASSUME NEW t, TreeInv(t), t # NoTree, NEW u, MayBecome(t, u),
         NEW c \in DOMAIN t.leaf_index, c # Zero
  PROVE  /\ c \in DOMAIN u.leaf_index
         /\ t.leaf_value[t.leaf_index[c]] = Zero =>
              \A i \in Positions(t.depth) : u.leaf_value[i] # c
<1>1. TreeShape(t) /\ LeavesOK(t)
  BY DEF TreeInv
<1>2. /\ t.leaf_value \in [Positions(t.depth) -> LeafValues]
      /\ DOMAIN t = TreeFields
  BY <1>1, ShapeFacts DEF TreeShape
<1>3. t.leaf_value[t.leaf_index[c]] = Zero =>
        \A i \in Positions(t.depth) : t.leaf_value[i] # c
  BY <1>1 DEF LeavesOK
<1>4. CASE Untouched(t, u)
  BY <1>3, <1>4 DEF Untouched
<1>5. CASE Registers(t, u)
  <2>1. PICK e \in Leaf, m \in Address : can_register(t, e, m) /\ u = registered(t, e, m)
    BY <1>5 DEF Registers
  <2>2. Registration(t, e, m, u)
    BY <1>2, <2>1, RegisteredFields
  <2>3. /\ u.leaf_value = [t.leaf_value EXCEPT ![t.next_leaf_index] = e]
        /\ u.leaf_index = put(t.leaf_index, e, t.next_leaf_index)
    BY <2>2 DEF Registration
  <2>4. e # c
    BY <2>1 DEF can_register
  <2> QED
    BY <1>2, <1>3, <2>3, <2>4 DEF put
<1>6. CASE Removes(t, u)
  <2>1. PICK member \in DOMAIN t.member_leaf_index :
          u = removed(t, t.member_leaf_index[member])
    BY <1>6 DEF Removes
  <2> DEFINE j == t.member_leaf_index[member]
  <2>2. u.leaf_value = [t.leaf_value EXCEPT ![j] = Zero] /\ u.leaf_index = t.leaf_index
    <3> HIDE DEF j
    <3>1. Removal(t, j, u)
      BY <1>2, <2>1, RemovedFields DEF j
    <3> QED
      BY <3>1 DEF Removal
  <2> HIDE DEF j
  <2> QED
    BY <1>2, <1>3, <2>2
<1>7. CASE Reinstates(t, u)
  <2>1. PICK member : u = reinstated(t, member)
    BY <1>7 DEF Reinstates
  <2>2. u.leaf_value = t.leaf_value /\ u.leaf_index = t.leaf_index
    BY <1>2, <2>1, ReinstatedFields
  <2> QED
    BY <1>3, <2>2
<1>8. ~Begins(t, u)
  BY DEF Begins
<1> QED
  BY <1>4, <1>5, <1>6, <1>7, <1>8 DEF MayBecome

\* The two action properties hold of every step.
LEMMA TreesStepFacts ==
  ASSUME TreesOK, TreesStep
  PROVE  RemovalLeavesNoRoot /\ NoCommitmentReturns
<1>1. ASSUME NEW d \in Trees
      PROVE  TreeInv(tree[d]) /\ tree[d] # NoTree /\ MayBecome(tree[d], tree'[d])
  BY DEF TreesOK, TreesStep, Trees, tree_initialized
<1>2. RemovalLeavesNoRoot
  <2> SUFFICES ASSUME NEW d \in Trees, NEW i \in Positions(tree[d].depth),
                      tree[d].leaf_value[i] # Zero, tree'[d].leaf_value[i] = Zero,
                      NEW r \in DOMAIN tree'[d].roots,
                      Accepted(tree'[d], tree'[d].roots[r])
               PROVE  tree'[d].roots[r][i + 1] = Zero
    BY DEF RemovalLeavesNoRoot
  <2>1. tree'[d] = removed(tree[d], i)
    BY <1>1, ZeroedLeaf
  <2> QED
    BY <1>1, <2>1, RemovedRoots
<1>3. NoCommitmentReturns
  BY <1>1, CommitmentStaysOut DEF NoCommitmentReturns
<1> QED
  BY <1>2, <1>3

(***************************************************************************)
(* The theorems.                                                           *)
(***************************************************************************)
TreeSystemInv == RegistryAndSbtInv /\ TreesOK

\* No DAO has a tree at first.
LEMMA TreesInit == TreeInit => TreesOK
BY DEF TreeInit, TreesOK, RegistrantOK, Trees, tree_initialized

\* A token transaction or its part of a removal keeps the invariant of the token.
LEMMA TreeSbtStep ==
  ASSUME RegistryAndSbtInv, UNCHANGED registry_vars,
         \/ UNCHANGED sbt_vars
         \/ \E d \in DaoId, a \in Address : set_revoked(d, a)
  PROVE  RegistryAndSbtInv'
<1>1. CASE UNCHANGED sbt_vars
  BY <1>1, RegistryAndSbtStutter
<1>2. CASE \E d \in DaoId, a \in Address : set_revoked(d, a)
  <2>1. SbtInv'
    BY <1>2, SetRevokedStep DEF RegistryAndSbtInv
  <2> QED
    BY <2>1 DEF RegistryAndSbtInv, registry_vars, RegistryTypeOK
<1> QED
  BY <1>1, <1>2

\* Every step keeps the invariant.
LEMMA TreeSystemStep ==
  ASSUME TreeSystemInv, [TreeNext]_tree_spec_vars
  PROVE  RegistryAndSbtInv' /\ TreesStep
<1>1. RegistryAndSbtInv /\ TreesOK
  BY DEF TreeSystemInv
<1>2. CASE SbtNext /\ UNCHANGED tree_vars
  BY <1>1, <1>2, SbtNextStep, TreesUntouched DEF RegistryAndSbtInv
<1>3. CASE TreeTransaction /\ UNCHANGED registry_vars
  BY <1>1, <1>3, TreeTransactionStep, TreeSbtStep
<1>4. CASE UNCHANGED tree_spec_vars
  <2>1. UNCHANGED <<registry_vars, sbt_vars>> /\ UNCHANGED tree_vars
    BY <1>4 DEF tree_spec_vars
  <2> QED
    BY <1>1, <2>1, RegistryAndSbtStutter, TreesUntouched
<1> QED
  BY <1>2, <1>3, <1>4 DEF TreeNext

\* The inductive invariant of registry, token and trees.
THEOREM TreeInvariant == TreeSpec => []TreeSystemInv
<1>1. LowerInit => TreeSystemInv
  <2>1. LowerInit => RegistryAndSbtInv
    BY SbtInitInv DEF LowerInit, MembershipInit, RegistryAndSbtInv
  <2> QED
    BY <2>1, TreesInit DEF LowerInit, TreeSystemInv
<1>2. TreeSystemInv /\ [TreeNext]_tree_spec_vars => TreeSystemInv'
  BY TreeSystemStep, TreesNextInv DEF TreeSystemInv
<1> QED
  BY <1>1, <1>2, PTL DEF TreeSpec

\* Trees, roots and indices keep their types and the history its bound.
THEOREM TreeTypeCorrect == TreeSpec => []TreeTypeOK
<1>1. TreeSystemInv => TreeTypeOK
  BY DEF TreeSystemInv, TreesOK, RegistrantOK, TreeInv, TreeShape, TreeTypeOK,
         RegistryAndSbtInv, SbtInv, TokenTypeOK, SbtTypeOK
<1> QED
  BY <1>1, TreeInvariant, PTL

\* A live leaf belongs to one member and holds the commitment registered there.
THEOREM OneMemberPerLeafAlways == TreeSpec => []OneMemberPerLeaf
<1>1. TreeSystemInv => OneMemberPerLeaf
  BY TreesFacts DEF TreeSystemInv
<1> QED
  BY <1>1, TreeInvariant, PTL

\* No root of the history vouches for a commitment that was never registered.
THEOREM RootsVouchForRegisteredAlways == TreeSpec => []RootsVouchForRegistered
<1>1. TreeSystemInv => RootsVouchForRegistered
  BY TreesFacts DEF TreeSystemInv
<1> QED
  BY <1>1, TreeInvariant, PTL

\* The current root has every live leaf, whatever insertions and removals made it.
THEOREM LiveLeavesInCurrentRootAlways == TreeSpec => []LiveLeavesInCurrentRoot
<1>1. TreeSystemInv => LiveLeavesInCurrentRoot
  BY TreesFacts DEF TreeSystemInv
<1> QED
  BY <1>1, TreeInvariant, PTL

\* The current root is accepted and has the newest index.
THEOREM CurrentRootIsNewestAlways == TreeSpec => []CurrentRootIsNewest
<1>1. TreeSystemInv => CurrentRootIsNewest
  BY TreesFacts DEF TreeSystemInv
<1> QED
  BY <1>1, TreeInvariant, PTL

\* Until the first removal the served paths fold to the current root.
THEOREM PathsVerifyUntilRemovalAlways == TreeSpec => []PathsVerifyUntilRemoval
<1>1. TreeSystemInv => PathsVerifyUntilRemoval
  BY TreesFacts DEF TreeSystemInv
<1> QED
  BY <1>1, TreeInvariant, PTL

\* The step that zeroes a leaf leaves no accepted root with it.
THEOREM RemovalTakesEffectAlways == TreeSpec => RemovalTakesEffect
<1>1. TreeSystemInv /\ [TreeNext]_tree_spec_vars => [RemovalLeavesNoRoot]_tree_spec_vars
  BY TreeSystemStep, TreesStepFacts DEF TreeSystemInv
<1> QED
  BY <1>1, TreeInvariant, PTL DEF TreeSpec, RemovalTakesEffect

\* A removed commitment is never live again.
THEOREM RemovedCommitmentStaysOutAlways == TreeSpec => RemovedCommitmentStaysOut
<1>1. TreeSystemInv /\ [TreeNext]_tree_spec_vars => [NoCommitmentReturns]_tree_spec_vars
  BY TreeSystemStep, TreesStepFacts DEF TreeSystemInv
<1> QED
  BY <1>1, TreeInvariant, PTL DEF TreeSpec, RemovedCommitmentStaysOut
=============================================================================
