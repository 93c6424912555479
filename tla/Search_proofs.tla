---------------------------- MODULE Search_proofs -----------------------------
(***************************************************************************)
(* compute_path, for every finite graph and question, and its agreement    *)
(* with compute_distance.                                                  *)
(*                                                                         *)
(* The parents of a side lead from a node to one of the ring before, until *)
(* the root (Chained): climbing them from ring i reaches the root in i     *)
(* steps (ClimbReaches).  The node the sides meet in lies i hops from one  *)
(* end and j from the other, and no route is shorter than i + j, so the    *)
(* two climbs are a shortest route (RouteIsShortest).                      *)
(***************************************************************************)
EXTENDS Search, Bfs_proofs

-------------------------------------------------------------------------------
(* Climbing from a node to the root of its side, by the recorded parents.      *)

\* Every recorded parent is one step nearer, and has a parent itself or is the root.
Chained(G, a, parent) ==
    \A v \in DOMAIN parent : \E m \in Nat :
        /\ v \in Ring(G, a, m + 1) /\ parent[v] \in Ring(G, a, m) /\ v \in G[parent[v]]
        /\ m > 0 => parent[v] \in DOMAIN parent

ClimbFrom(parent, v) == IF v \in DOMAIN parent THEN parent[v] ELSE v

IsClimb(parent, start, max, C) ==
    C = [k \in 0..max |-> IF k = 0 THEN start ELSE ClimbFrom(parent, C[k - 1])]

LEMMA ClimbLevels ==
    ASSUME NEW parent, NEW start, NEW max \in Nat, NEW C, IsClimb(parent, start, max, C)
    PROVE  /\ C[0] = start
           /\ \A n \in 1..max : C[n] = ClimbFrom(parent, C[n - 1])
<1> DEFINE E == [k \in 0..max |-> IF k = 0 THEN start ELSE ClimbFrom(parent, C[k - 1])]
<1>1. C = E
  BY Zenon DEF IsClimb
<1>2. E[0] = start
  OBVIOUS
<1>3. \A n \in 1..max : E[n] = ClimbFrom(parent, C[n - 1])
  OBVIOUS
<1> HIDE DEF E
<1> QED  BY <1>1, <1>2, <1>3

LEMMA ClimbExists ==
    ASSUME NEW parent, NEW start
    PROVE  \A max \in Nat : \E C : IsClimb(parent, start, max, C)
<1> DEFINE P(m) == \E C : IsClimb(parent, start, m, C)
           S == {m \in Nat : P(m)}
<1>1. P(0)
  <2> DEFINE C == [k \in 0..0 |-> start]
             E == [k \in 0..0 |-> IF k = 0 THEN start ELSE ClimbFrom(parent, C[k - 1])]
  <2>1. C = E
    OBVIOUS
  <2>2. IsClimb(parent, start, 0, C)
    BY <2>1, Zenon DEF IsClimb
  <2> QED  BY <2>2, Zenon
<1>2. ASSUME NEW m \in Nat, P(m) PROVE P(m + 1)
  <2>1. PICK C : IsClimb(parent, start, m, C)
    BY <1>2
  <2> DEFINE V == [k \in 0..(m + 1) |-> IF k = 0 THEN start ELSE ClimbFrom(parent, C[k - 1])]
             U == [k \in 0..(m + 1) |-> IF k = 0 THEN start ELSE ClimbFrom(parent, V[k - 1])]
  <2>2. C[0] = start /\ \A n \in 1..m : C[n] = ClimbFrom(parent, C[n - 1])
    BY <2>1, ClimbLevels
  <2>3. \A k \in 0..m : V[k] = C[k]
    BY <2>2
  <2>4. \A k \in 0..(m + 1) : k # 0 => k - 1 \in 0..m
    OBVIOUS
  <2>5. \A k \in 0..(m + 1) : U[k] = V[k]
    <3> SUFFICES ASSUME NEW k \in 0..(m + 1) PROVE U[k] = V[k]
      OBVIOUS
    <3>1. CASE k = 0
      BY <3>1
    <3>2. CASE k # 0
      <4>1. V[k - 1] = C[k - 1]
        BY <2>3, <2>4, <3>2
      <4>2. U[k] = ClimbFrom(parent, V[k - 1]) /\ V[k] = ClimbFrom(parent, C[k - 1])
        BY <3>2
      <4> QED  BY <4>1, <4>2
    <3> QED  BY <3>1, <3>2
  <2>6. V = U
    BY <2>5, Zenon
  <2>7. IsClimb(parent, start, m + 1, V)
    BY <2>6, Zenon DEF IsClimb
  <2> QED  BY <2>7, Zenon
<1> HIDE DEF P
<1>3. 0 \in S /\ \A n \in Nat : n \in S => n + 1 \in S
  BY <1>1, <1>2
<1>4. \A n \in Nat : n \in S
  <2> HIDE DEF S
  <2> QED  BY <1>3, NatInduct
<1>5. \A n \in Nat : P(n)
  BY <1>4
<1> QED  BY <1>5, Zenon DEF P

\* A node i levels from the root reaches it in i steps, and not before.
LEMMA ClimbReaches ==
    ASSUME NEW G, NEW a, NEW parent, Chained(G, a, parent),
           NEW i \in Nat, NEW start \in Ring(G, a, i), i > 0 => start \in DOMAIN parent,
           NEW max \in Nat, i <= max, NEW C, IsClimb(parent, start, max, C)
    PROVE  /\ C[0] = start /\ C[i] = a
           /\ \A k \in 0..i : C[k] \in Ring(G, a, i - k)
           /\ \A k \in 0..(i - 1) : C[k] \in G[C[k + 1]]
           /\ \A k \in 0..(i - 1) : C[k] # a
<1>1. C[0] = start /\ \A n \in 1..max : C[n] = ClimbFrom(parent, C[n - 1])
  <2>1. C[0] = start
    BY ClimbLevels
  <2>2. \A n \in 1..max : C[n] = ClimbFrom(parent, C[n - 1])
    BY ClimbLevels
  <2> QED  BY <2>1, <2>2
<1> DEFINE P(k) == k <= i => /\ C[k] \in Ring(G, a, i - k)
                             /\ i - k > 0 => C[k] \in DOMAIN parent
           S == {k \in Nat : P(k)}
<1>2. P(0)
  BY <1>1
<1>3. ASSUME NEW k \in Nat, k < i, C[k] \in Ring(G, a, i - k), C[k] \in DOMAIN parent
      PROVE  /\ C[k + 1] \in Ring(G, a, i - (k + 1)) /\ C[k] \in G[C[k + 1]]
             /\ i - (k + 1) > 0 => C[k + 1] \in DOMAIN parent
  <2>1. k + 1 \in 1..max /\ (k + 1) - 1 = k /\ i - k \in Nat
    BY <1>3
  <2>2. C[k + 1] = parent[C[k]]
    BY <1>1, <1>3, <2>1 DEF ClimbFrom
  <2>3. PICK m \in Nat : /\ C[k] \in Ring(G, a, m + 1) /\ parent[C[k]] \in Ring(G, a, m)
                         /\ C[k] \in G[parent[C[k]]]
                         /\ m > 0 => parent[C[k]] \in DOMAIN parent
    BY <1>3 DEF Chained
  <2>4. m + 1 = i - k
    <3>1. m + 1 \in Nat
      OBVIOUS
    <3> QED  BY <1>3, <2>1, <2>3, <3>1, RingUnique
  <2>5. m = i - (k + 1)
    BY <2>4
  <2> QED  BY <2>2, <2>3, <2>5
<1>4. ASSUME NEW k \in Nat, P(k) PROVE P(k + 1)
  <2> SUFFICES ASSUME k + 1 <= i
               PROVE  /\ C[k + 1] \in Ring(G, a, i - (k + 1))
                      /\ i - (k + 1) > 0 => C[k + 1] \in DOMAIN parent
    OBVIOUS
  <2>1. k < i /\ k <= i /\ i - k > 0
    OBVIOUS
  <2>2. C[k] \in Ring(G, a, i - k) /\ C[k] \in DOMAIN parent
    BY <1>4, <2>1
  <2> QED  BY <1>3, <2>1, <2>2
<1> HIDE DEF P
<1>5. 0 \in S /\ \A k \in Nat : k \in S => k + 1 \in S
  BY <1>2, <1>4
<1>6. \A k \in Nat : k \in S
  <2> HIDE DEF S
  <2> QED  BY <1>5, NatInduct
<1>7. \A k \in Nat : P(k)
  BY <1>6
<1>8. \A k \in 0..i : /\ C[k] \in Ring(G, a, i - k)
                      /\ i - k > 0 => C[k] \in DOMAIN parent
  BY <1>7 DEF P
<1>9. ASSUME NEW k \in 0..(i - 1) PROVE C[k] \in G[C[k + 1]] /\ C[k] # a
  <2>1. k \in Nat /\ k < i /\ k \in 0..i /\ i - k > 0 /\ i - k \in Nat /\ i - k # 0
    OBVIOUS
  <2>2. C[k] \in Ring(G, a, i - k) /\ C[k] \in DOMAIN parent
    BY <1>8, <2>1
  <2>3. C[k] \in G[C[k + 1]]
    BY <1>3, <2>1, <2>2
  <2>4. a \in Ring(G, a, 0)
    BY RingStart
  <2> QED  BY <2>1, <2>2, <2>3, <2>4, RingUnique
<1>10. C[i] = a
  <2>1. i \in 0..i /\ i - i = 0
    OBVIOUS
  <2>2. C[i] \in Ring(G, a, 0)
    BY <1>8, <2>1
  <2> QED  BY <2>2, RingStart
<1> QED  BY <1>1, <1>8, <1>9, <1>10

\* The levels of a finite graph are no more than its nodes.
LEMMA RingBound ==
    ASSUME NEW G, IsGraph(Node, G), NEW a \in Node, NEW n \in Nat, NEW v \in Ring(G, a, n)
    PROVE  n <= Cardinality(Node)
<1>1. ASSUME NEW m \in Nat, m <= n PROVE Ring(G, a, m) # {}
  <2>1. PICK w : w \in Walks(Node, G, a, v, n)
    BY WalkExists
  <2>2. v \in Node
    BY BallType DEF Ring
  <2>3. IsGraph(Node, [x \in Node |-> {y \in Node : x \in G[y]}])
        /\ Mirrors(Node, G, [x \in Node |-> {y \in Node : x \in G[y]}])
    BY DEF IsGraph, Mirrors
  <2>4. m \in 0..n
    BY <1>1
  <2>5. w[m] \in Ring(G, a, m)
    BY <2>1, <2>2, <2>3, <2>4, ShortestWalk
  <2> QED  BY <2>5
<1> DEFINE F == [m \in 0..n |-> CHOOSE x \in Ring(G, a, m) : TRUE]
<1>2. \A m \in 0..n : F[m] \in Ring(G, a, m)
  BY <1>1
<1>3. F \in [0..n -> Node]
  <2>1. \A m \in 0..n : F[m] \in Node
    BY <1>2, BallType DEF Ring
  <2>2. F = [m \in 0..n |-> F[m]]
    OBVIOUS
  <2> HIDE DEF F
  <2> QED  BY <2>1, <2>2
<1> HIDE DEF F
<1>4. \A k, m \in 0..n : F[k] = F[m] => k = m
  BY <1>2, RingUnique
<1>5. F \in Injection(0..n, Node)
  BY <1>3, <1>4 DEF Injection, IsInjective
<1>6. Cardinality(0..n) <= Cardinality(Node)
  BY <1>5, NodeAssumption, FS_Injection
<1>7. Cardinality(0..n) = n + 1
  BY FS_Interval
<1>8. Cardinality(Node) \in Nat
  BY NodeAssumption, FS_CardinalityType
<1> QED  BY <1>6, <1>7, <1>8

-------------------------------------------------------------------------------
(* A side of compute_path, and what a level of it does.                        *)

PathSide(G, a, n, parent, current) ==
    /\ DOMAIN parent = Ball(G, a, n) \ {a}
    /\ Chained(G, a, parent)
    /\ current = Ring(G, a, n)

LEMMA PathSideStart ==
    ASSUME NEW G, NEW a
    PROVE  PathSide(G, a, 0, <<>>, {a})
<1>1. Ball(G, a, 0) = {a} /\ Ring(G, a, 0) = {a}
  BY BallStart, RingStart
<1>2. DOMAIN <<>> = {}
  OBVIOUS
<1> QED  BY <1>1, <1>2 DEF PathSide, Chained

LEMMA VisitedOfSide ==
    ASSUME NEW G, NEW a, NEW n \in Nat, NEW parent, NEW current, PathSide(G, a, n, parent, current)
    PROVE  DOMAIN parent \cup {a} = Ball(G, a, n)
<1>1. a \in Ball(G, a, 0)
  BY BallStart
<1>2. Ball(G, a, 0) \subseteq Ball(G, a, n)
  BY BallMonotone
<1> QED  BY <1>1, <1>2 DEF PathSide

One(e) == [v \in {e[2]} |-> e[1]]

\* The node the sides meet in lies between them, and its parents lead to both ends.
LEMMA PathMeets ==
    ASSUME NEW G, IsGraph(Node, G), NEW H, IsGraph(Node, H), Mirrors(Node, G, H),
           NEW a \in Node, NEW b \in Node, NEW n \in Nat, NEW m \in Nat,
           b \notin Ball(G, a, n + m),
           NEW parent, NEW current, PathSide(G, a, n, parent, current),
           NEW e \in Path!Edges(current, G, Ball(H, b, m)),
           NEW parent1, parent1 = Path!Extend(parent, One(e))
    PROVE  /\ Chained(G, a, parent1) /\ e[2] \in DOMAIN parent1
           /\ e[2] \in Ring(G, a, n + 1) /\ e[2] \in Ring(H, b, m)
           /\ b \in Ring(G, a, n + m + 1)
<1> DEFINE x == e[1]
           y == e[2]
<1>1. x \in Ring(G, a, n) /\ y \in Ball(H, b, m) /\ y \in G[x]
  BY DEF Path!Edges, PathSide
<1>2. /\ DOMAIN parent1 = DOMAIN parent \cup {y}
      /\ \A v \in DOMAIN parent1 : parent1[v] = IF v = y THEN x ELSE parent[v]
  BY DEF Path!Extend, One
<1> HIDE DEF x, y
<1>3. y \in Ring(H, b, m) /\ y \in Ring(G, a, n + 1)
  BY <1>1, FirstEdge
<1>4. b \in Ring(G, a, n + m + 1)
  <2>1. <<x, y>> \in {e1 \in Ring(G, a, n) \X Ring(H, b, m) : e1[2] \in G[e1[1]]}
    BY <1>1, <1>3
  <2>2. Crossing(G, a, n, H, b, m) # {}
    BY <2>1 DEF Crossing
  <2> QED  BY <2>2, CrossingFound
<1>5. n > 0 => x \in DOMAIN parent /\ x # y
  <2> SUFFICES ASSUME n > 0 PROVE x \in DOMAIN parent /\ x # y
    OBVIOUS
  <2>1. a \in Ring(G, a, 0)
    BY RingStart
  <2>2. x # a
    BY <1>1, <2>1, RingUnique
  <2>3. n # n + 1 /\ n + 1 \in Nat
    OBVIOUS
  <2>4. x # y
    BY <1>1, <1>3, <2>3, RingUnique
  <2> QED  BY <1>1, <2>2, <2>4 DEF PathSide, Ring
<1>6. ASSUME NEW v \in DOMAIN parent1
      PROVE  \E k \in Nat : /\ v \in Ring(G, a, k + 1) /\ parent1[v] \in Ring(G, a, k)
                            /\ v \in G[parent1[v]]
                            /\ k > 0 => parent1[v] \in DOMAIN parent1
  <2>1. CASE v = y
    BY <1>1, <1>2, <1>3, <1>5, <2>1
  <2>2. CASE v # y
    <3>1. v \in DOMAIN parent /\ parent1[v] = parent[v]
      BY <1>2, <2>2
    <3> QED  BY <1>2, <3>1 DEF PathSide, Chained
  <2> QED  BY <2>1, <2>2
<1> QED  BY <1>2, <1>3, <1>4, <1>6 DEF Chained, y

\* A level that meets nothing extends the side by a ring.
LEMMA PathGrows ==
    ASSUME NEW G, IsGraph(Node, G), NEW H, IsGraph(Node, H), Mirrors(Node, G, H),
           NEW a \in Node, NEW b \in Node, NEW n \in Nat, NEW m \in Nat,
           b \notin Ball(G, a, n + m),
           NEW parent, NEW current, PathSide(G, a, n, parent, current),
           Path!Edges(current, G, Ball(H, b, m)) = {},
           NEW p \in Path!Parents(current, G, Ball(G, a, n))
    PROVE  /\ PathSide(G, a, n + 1, Path!Extend(parent, p), DOMAIN p)
           /\ b \notin Ball(G, a, n + m + 1)
<1> DEFINE new == (UNION {G[x] : x \in current}) \ Ball(G, a, n)
           parent1 == Path!Extend(parent, p)
<1>1. p \in [new -> current] /\ \A v \in new : v \in G[p[v]]
  BY DEF Path!Parents
<1>2. current = Ring(G, a, n) /\ DOMAIN parent = Ball(G, a, n) \ {a} /\ Chained(G, a, parent)
  BY DEF PathSide
<1>3. new = Ring(G, a, n + 1)
  <2>1. Ring(G, a, n + 1) = Ball(G, a, n + 1) \ Ball(G, a, n)
    BY RingStep
  <2>2. Ball(G, a, n + 1) = Ball(G, a, n) \cup UNION {G[x] : x \in Ring(G, a, n)}
    BY BallGrows
  <2>3. \A v : v \in new <=> v \notin Ball(G, a, n) /\ \E x \in Ring(G, a, n) : v \in G[x]
    BY <1>2
  <2>4. \A v : v \in Ball(G, a, n + 1)
                 <=> v \in Ball(G, a, n) \/ \E x \in Ring(G, a, n) : v \in G[x]
    BY <2>2
  <2> HIDE DEF new
  <2> QED  BY <2>1, <2>3, <2>4
<1> HIDE DEF new
<1>4. /\ DOMAIN parent1 = DOMAIN parent \cup new
      /\ \A v \in DOMAIN parent1 : parent1[v] = IF v \in new THEN p[v] ELSE parent[v]
  BY <1>1 DEF Path!Extend
<1> HIDE DEF parent1
<1>5. a \in Ball(G, a, n)
  <2>1. a \in Ball(G, a, 0)
    BY BallStart
  <2>2. Ball(G, a, 0) \subseteq Ball(G, a, n)
    BY BallMonotone
  <2> QED  BY <2>1, <2>2
<1>6. Ring(G, a, n + 1) = Ball(G, a, n + 1) \ Ball(G, a, n) /\ Ball(G, a, n) \subseteq Ball(G, a, n + 1)
  BY RingStep, BallMonotone
<1>7. DOMAIN parent1 = Ball(G, a, n + 1) \ {a}
  BY <1>2, <1>3, <1>4, <1>5, <1>6
<1>8. ASSUME NEW v \in DOMAIN parent1
      PROVE  \E k \in Nat : /\ v \in Ring(G, a, k + 1) /\ parent1[v] \in Ring(G, a, k)
                            /\ v \in G[parent1[v]]
                            /\ k > 0 => parent1[v] \in DOMAIN parent1
  <2>1. CASE v \in new
    <3>1. parent1[v] = p[v] /\ p[v] \in Ring(G, a, n) /\ v \in G[p[v]]
      BY <1>1, <1>2, <1>4, <2>1
    <3>2. n > 0 => p[v] \in DOMAIN parent
      <4> SUFFICES ASSUME n > 0 PROVE p[v] \in DOMAIN parent
        OBVIOUS
      <4>1. a \in Ring(G, a, 0)
        BY RingStart
      <4>2. p[v] # a
        BY <3>1, <4>1, RingUnique
      <4> QED  BY <1>2, <3>1, <4>2 DEF Ring
    <3> QED  BY <1>3, <1>4, <2>1, <3>1, <3>2
  <2>2. CASE v \notin new
    <3>1. v \in DOMAIN parent /\ parent1[v] = parent[v]
      BY <1>4, <2>2
    <3> QED  BY <1>2, <1>4, <3>1 DEF Chained
  <2> QED  BY <2>1, <2>2
<1>9. DOMAIN p = Ring(G, a, n + 1)
  BY <1>1, <1>3
<1>10. PathSide(G, a, n + 1, parent1, DOMAIN p)
  BY <1>7, <1>8, <1>9 DEF PathSide, Chained
<1>11. Crossing(G, a, n, H, b, m) = {}
  <2>1. ASSUME NEW e \in Ring(G, a, n) \X Ring(H, b, m), e[2] \in G[e[1]] PROVE FALSE
    <3>1. e \in current \X Ball(H, b, m)
      BY <1>2 DEF Ring
    <3> QED  BY <2>1, <3>1 DEF Path!Edges
  <2> QED  BY <2>1 DEF Crossing
<1>12. b \notin Ball(G, a, n + m + 1)
  BY <1>11, CrossingFound
<1> QED  BY <1>10, <1>12 DEF parent1

-------------------------------------------------------------------------------
(* The route rebuilt from the parents.                                         *)

LEMMA PathCardinality == Path!Cardinality(Node) = Cardinality(Node)
BY DEF Path!Cardinality, Cardinality

LEMMA UpIsClimb == IsClimb(fwd_parent, meeting_node, Cardinality(Node), Path!Up)
<1> DEFINE Q(f) == f = [k \in 0..Path!Cardinality(Node) |->
                          IF k = 0 THEN meeting_node
                          ELSE IF f[k - 1] \in DOMAIN fwd_parent THEN fwd_parent[f[k - 1]]
                               ELSE f[k - 1]]
<1>1. \A f : Q(f) <=> IsClimb(fwd_parent, meeting_node, Path!Cardinality(Node), f)
  BY Zenon DEF IsClimb, ClimbFrom
<1>2. Path!Up = CHOOSE f : Q(f)
  BY DEF Path!Up
<1>3. Path!Cardinality(Node) \in Nat
  BY PathCardinality, NodeAssumption, FS_CardinalityType
<1>4. \E f : IsClimb(fwd_parent, meeting_node, Path!Cardinality(Node), f)
  BY <1>3, ClimbExists
<1> HIDE DEF Q
<1>5. Q(Path!Up)
  BY <1>1, <1>2, <1>4, Zenon
<1> QED  BY <1>1, <1>5, PathCardinality

LEMMA DownIsClimb == IsClimb(bwd_parent, meeting_node, Cardinality(Node), Path!Down)
<1> DEFINE Q(f) == f = [k \in 0..Path!Cardinality(Node) |->
                          IF k = 0 THEN meeting_node
                          ELSE IF f[k - 1] \in DOMAIN bwd_parent THEN bwd_parent[f[k - 1]]
                               ELSE f[k - 1]]
<1>1. \A f : Q(f) <=> IsClimb(bwd_parent, meeting_node, Path!Cardinality(Node), f)
  BY Zenon DEF IsClimb, ClimbFrom
<1>2. Path!Down = CHOOSE f : Q(f)
  BY DEF Path!Down
<1>3. Path!Cardinality(Node) \in Nat
  BY PathCardinality, NodeAssumption, FS_CardinalityType
<1>4. \E f : IsClimb(bwd_parent, meeting_node, Path!Cardinality(Node), f)
  BY <1>3, ClimbExists
<1> HIDE DEF Q
<1>5. Q(Path!Down)
  BY <1>1, <1>2, <1>4, Zenon
<1> QED  BY <1>1, <1>5, PathCardinality

LEMMA StepsOfClimb ==
    ASSUME NEW C, NEW a, NEW i \in 0..Cardinality(Node), C[i] = a, \A k \in 0..(i - 1) : C[k] # a
    PROVE  Path!Steps(C, a) = i
<1>1. Cardinality(Node) \in Nat
  BY NodeAssumption, FS_CardinalityType
<1> DEFINE T == {k \in 0..Path!Cardinality(Node) : C[k] = a /\ \A l \in 0..(k - 1) : C[l] # a}
<1>2. ASSUME NEW k \in T PROVE k = i
  <2>1. ~(k < i)
    BY <1>1, PathCardinality
  <2>2. ~(i < k)
    BY <1>1, PathCardinality
  <2> QED  BY <1>1, <2>1, <2>2, PathCardinality
<1>3. i \in T
  BY PathCardinality
<1>4. Path!Steps(C, a) \in T
  BY <1>3 DEF Path!Steps
<1> QED  BY <1>2, <1>4

Legs(U, D, i, p, j) == [k \in 1..p |-> U[i - k]] \o [k \in 1..(j - 1) |-> D[k]]
Joins(L, U, D, i, n) == \A k \in 1..n : L[k] = IF k <= i THEN U[i - k] ELSE D[k - i]

\* The reversed first half and the second make the inner part of the walk.
LEMMA LegsJoin ==
    ASSUME NEW U, NEW D, NEW i \in Nat, NEW j \in Nat, i + j > 0,
           \A k \in 0..i : U[k] \in Node, \A k \in 0..j : D[k] \in Node,
           NEW p, p = i - (IF j = 0 THEN 1 ELSE 0)
    PROVE  /\ Legs(U, D, i, p, j) \in [1..(i + j - 1) -> Node]
           /\ Len(Legs(U, D, i, p, j)) = i + j - 1
           /\ Joins(Legs(U, D, i, p, j), U, D, i, i + j - 1)
<1> DEFINE q == IF j = 0 THEN 0 ELSE j - 1
           s == [k \in 1..p |-> U[i - k]]
           t == [k \in 1..(j - 1) |-> D[k]]
<1>1. p \in Nat /\ q \in Nat /\ p + q = i + j - 1 /\ p <= i
  OBVIOUS
<1>2. 1..(j - 1) = 1..q
  OBVIOUS
<1>3. s \in [1..p -> Node] /\ \A k \in 1..p : s[k] = U[i - k]
  <2>1. \A k \in 1..p : i - k \in 0..i
    BY <1>1
  <2> QED  BY <2>1
<1>4. t \in [1..q -> Node] /\ \A k \in 1..q : t[k] = D[k]
  <2>1. \A k \in 1..(j - 1) : k \in 0..j
    OBVIOUS
  <2>2. t \in [1..(j - 1) -> Node] /\ \A k \in 1..(j - 1) : t[k] = D[k]
    BY <2>1
  <2> HIDE DEF q, t
  <2> QED  BY <1>2, <2>2
<1>5. Legs(U, D, i, p, j) = s \o t
  BY DEF Legs
<1>6. (j > 0 => p = i) /\ (j = 0 => q = 0)
  OBVIOUS
<1> HIDE DEF q, s, t
<1>7. s \in Seq(Node) /\ Len(s) = p /\ t \in Seq(Node) /\ Len(t) = q
  <2>1. s \in Seq(Node) /\ t \in Seq(Node)
    BY <1>1, <1>3, <1>4, SeqDef
  <2>2. DOMAIN s = 1..p /\ DOMAIN t = 1..q
    BY <1>3, <1>4
  <2> QED  BY <1>1, <2>1, <2>2, LenProperties
<1>8. /\ s \o t \in Seq(Node) /\ Len(s \o t) = p + q
      /\ \A k \in 1..(p + q) : (s \o t)[k] = IF k <= p THEN s[k] ELSE t[k - p]
  <2>1. /\ s \o t \in Seq(Node) /\ Len(s \o t) = Len(s) + Len(t)
        /\ \A k \in 1..(Len(s) + Len(t)) :
              (s \o t)[k] = IF k <= Len(s) THEN s[k] ELSE t[k - Len(s)]
    <3>1. s \in Seq(Node) /\ t \in Seq(Node)
      BY <1>7
    <3>2. s \o t \in Seq(Node)
      BY <3>1, ConcatProperties
    <3>3. Len(s \o t) = Len(s) + Len(t)
      BY <3>1, ConcatProperties
    <3>4. \A k \in 1..(Len(s) + Len(t)) :
              (s \o t)[k] = IF k <= Len(s) THEN s[k] ELSE t[k - Len(s)]
      BY <3>1, ConcatProperties
    <3> QED  BY <3>2, <3>3, <3>4
  <2> QED  BY <1>7, <2>1
<1>9. s \o t \in [1..(p + q) -> Node]
  BY <1>8, LenProperties
<1>10. ASSUME NEW k \in 1..(i + j - 1)
       PROVE  Legs(U, D, i, p, j)[k] = IF k <= i THEN U[i - k] ELSE D[k - i]
  <2>1. CASE k <= p
    <3>1. k <= i /\ k \in 1..p
      BY <1>1, <2>1
    <3> QED  BY <1>1, <1>3, <1>5, <1>8, <2>1, <3>1
  <2>2. CASE ~(k <= p)
    <3>1. j > 0 /\ p = i /\ ~(k <= i) /\ k - p \in 1..q /\ k - p = k - i
      BY <1>1, <1>6, <2>2
    <3> QED  BY <1>1, <1>4, <1>5, <1>8, <2>2, <3>1
  <2> QED  BY <2>1, <2>2
<1>11. Joins(Legs(U, D, i, p, j), U, D, i, i + j - 1)
  BY <1>10 DEF Joins
<1> QED  BY <1>1, <1>5, <1>8, <1>9, <1>11

\* Where the sides met, and the parents that lead from there to both ends.
MetAt(G, a, i, H, b, j) ==
    /\ meeting_node \in Ring(G, a, i) /\ meeting_node \in Ring(H, b, j)
    /\ b \in Ring(G, a, i + j)
    /\ Chained(G, a, fwd_parent) /\ Chained(H, b, bwd_parent)
    /\ i > 0 => meeting_node \in DOMAIN fwd_parent
    /\ j > 0 => meeting_node \in DOMAIN bwd_parent

LEMMA RouteIsShortest ==
    ASSUME NEW G, IsGraph(Node, G), NEW H, IsGraph(Node, H),
           Mirrors(Node, G, H), Mirrors(Node, H, G),
           NEW a \in Node, NEW b \in Node, a # b, NEW i \in Nat, NEW j \in Nat,
           MetAt(G, a, i, H, b, j), path_query.from = a, path_query.to = b
    PROVE  Path!Route \in RoutesOf(G, a, b, i + j)
<1> DEFINE N == Cardinality(Node)
           U == Path!Up
           D == Path!Down
           n == i + j
           W == [k \in 0..n |-> IF k <= i THEN U[i - k] ELSE D[k - i]]
<1>1. N \in Nat
  BY NodeAssumption, FS_CardinalityType
<1>2. i <= N /\ j <= N
  BY RingBound DEF MetAt
<1>3. /\ U[0] = meeting_node /\ U[i] = a
      /\ \A k \in 0..i : U[k] \in Ring(G, a, i - k)
      /\ \A k \in 0..(i - 1) : U[k] \in G[U[k + 1]]
      /\ \A k \in 0..(i - 1) : U[k] # a
  <2>1. IsClimb(fwd_parent, meeting_node, N, U)
    BY UpIsClimb
  <2> HIDE DEF N, U
  <2> QED  BY <1>1, <1>2, <2>1, ClimbReaches DEF MetAt
<1>4. /\ D[0] = meeting_node /\ D[j] = b
      /\ \A k \in 0..j : D[k] \in Ring(H, b, j - k)
      /\ \A k \in 0..(j - 1) : D[k] \in H[D[k + 1]]
      /\ \A k \in 0..(j - 1) : D[k] # b
  <2>1. IsClimb(bwd_parent, meeting_node, N, D)
    BY DownIsClimb
  <2> HIDE DEF N, D
  <2> QED  BY <1>1, <1>2, <2>1, ClimbReaches DEF MetAt
<1>5. Path!Steps(U, a) = i
  <2> HIDE DEF U
  <2> QED  BY <1>1, <1>2, <1>3, StepsOfClimb
<1>6. Path!Steps(D, b) = j
  <2> HIDE DEF D
  <2> QED  BY <1>1, <1>2, <1>4, StepsOfClimb
<1>7. meeting_node = b <=> j = 0
  <2>1. b \in Ring(H, b, 0) /\ Ring(H, b, 0) = {b}
    BY RingStart
  <2> QED  BY <2>1, RingUnique DEF MetAt
<1>8. n \in Nat \ {0}
  <2>1. Ring(G, a, 0) = {a}
    BY RingStart
  <2>2. n # 0
    BY <2>1 DEF MetAt
  <2> QED  BY <2>2
<1> DEFINE p == i - (IF j = 0 THEN 1 ELSE 0)
<1>9. Path!Route = Legs(U, D, i, p, j)
  <2>1. Path!Route = Legs(U, D, Path!Steps(U, a),
             Path!Steps(U, a) - (IF meeting_node = b THEN 1 ELSE 0), Path!Steps(D, b))
    BY DEF Path!Route, Legs
  <2> HIDE DEF U, D
  <2> QED  BY <1>5, <1>6, <1>7, <2>1
<1> HIDE DEF U, D
<1>10. (\A k \in 0..i : U[k] \in Node) /\ (\A k \in 0..j : D[k] \in Node)
  <2>1. ASSUME NEW k \in 0..i PROVE U[k] \in Node
    <3>1. i - k \in Nat
      OBVIOUS
    <3>2. Ball(G, a, i - k) \subseteq Node
      BY <3>1, BallType
    <3> QED  BY <1>3, <3>2 DEF Ring
  <2>2. ASSUME NEW k \in 0..j PROVE D[k] \in Node
    <3>1. j - k \in Nat
      OBVIOUS
    <3>2. Ball(H, b, j - k) \subseteq Node
      BY <3>1, BallType
    <3> QED  BY <1>4, <3>2 DEF Ring
  <2> QED  BY <2>1, <2>2
<1>11. /\ Path!Route \in [1..(n - 1) -> Node] /\ Len(Path!Route) = n - 1
       /\ \A k \in 1..(n - 1) : Path!Route[k] = IF k <= i THEN U[i - k] ELSE D[k - i]
  <2>1. p = i - (IF j = 0 THEN 1 ELSE 0) /\ i + j > 0 /\ n = i + j
    BY <1>8
  <2> HIDE DEF p, n
  <2>2. /\ Legs(U, D, i, p, j) \in [1..(i + j - 1) -> Node]
        /\ Len(Legs(U, D, i, p, j)) = i + j - 1
    BY <1>10, <2>1, LegsJoin
  <2>3. Joins(Legs(U, D, i, p, j), U, D, i, i + j - 1)
    BY <1>10, <2>1, LegsJoin
  <2>4. /\ Path!Route \in [1..(n - 1) -> Node] /\ Len(Path!Route) = n - 1
        /\ Joins(Path!Route, U, D, i, n - 1)
    BY <1>9, <2>1, <2>2, <2>3
  <2> QED  BY <2>4 DEF Joins
<1>12. W \in [0..n -> Node]
  <2>1. \A k \in 0..n : (k <= i => i - k \in 0..i) /\ (~(k <= i) => k - i \in 0..j)
    OBVIOUS
  <2> QED  BY <1>10, <2>1
<1>13. W[0] = a /\ W[n] = b
  <2>1. W[0] = U[i]
    OBVIOUS
  <2>2. W[n] = IF j = 0 THEN U[0] ELSE D[j]
    OBVIOUS
  <2>3. j = 0 => U[0] = b
    BY <1>3, <1>7
  <2> QED  BY <1>3, <1>4, <2>1, <2>2, <2>3
<1>14. ASSUME NEW k \in 0..(n - 1) PROVE W[k + 1] \in G[W[k]]
  <2>1. CASE k < i
    <3>1. i - (k + 1) \in 0..(i - 1) /\ (i - (k + 1)) + 1 = i - k
      BY <2>1
    <3>2. U[i - (k + 1)] \in G[U[i - k]]
      BY <1>3, <3>1
    <3>3. W[k + 1] = U[i - (k + 1)] /\ W[k] = U[i - k]
      BY <2>1
    <3> QED  BY <3>2, <3>3
  <2>2. CASE ~(k < i)
    <3>1. k - i \in 0..(j - 1) /\ (k - i) + 1 = (k + 1) - i /\ (k - i) \in 0..j /\ (k + 1) - i \in 0..j
      BY <2>2
    <3>2. D[k - i] \in H[D[(k + 1) - i]]
      BY <1>4, <3>1
    <3>3. D[k - i] \in Node /\ D[(k + 1) - i] \in Node
      BY <1>10, <3>1
    <3>4. D[(k + 1) - i] \in G[D[k - i]]
      BY <3>2, <3>3 DEF Mirrors
    <3>5. W[k + 1] = D[(k + 1) - i]
      BY <2>2
    <3>6. W[k] = D[k - i]
      <4>1. CASE k = i
        BY <1>3, <1>4, <4>1
      <4>2. CASE k # i
        BY <2>2, <4>2
      <4> QED  BY <4>1, <4>2
    <3> QED  BY <3>4, <3>5, <3>6
  <2> QED  BY <2>1, <2>2
<1>15. \A k \in 1..(n - 1) : Path!Route[k] = W[k]
  BY <1>11
<1> HIDE DEF W
<1>16. W \in Walks(Node, G, a, b, n)
  BY <1>12, <1>13, <1>14 DEF Walks, Walk
<1> DEFINE R == Path!Route
<1> HIDE DEF R
<1>17. R \in [1..(n - 1) -> Node] /\ Len(R) = n - 1 /\ \A k \in 1..(n - 1) : R[k] = W[k]
  BY <1>11, <1>15 DEF R
<1> HIDE DEF n
<1>18. \A k \in 0..n : Full(R, a, b, n)[k] = W[k]
  <2> SUFFICES ASSUME NEW k \in 0..n PROVE Stop(R, a, b, k) = W[k]
    BY DEF Full
  <2>1. CASE k = 0
    BY <1>13, <2>1 DEF Stop
  <2>2. CASE k = n
    BY <1>8, <1>13, <1>17, <2>2 DEF Stop
  <2>3. CASE k # 0 /\ k # n
    <3>1. k \in 1..(n - 1)
      BY <1>8, <2>3
    <3> QED  BY <1>8, <1>17, <3>1 DEF Stop
  <2> QED  BY <2>1, <2>2, <2>3
<1>19. Full(R, a, b, n) = W
  <2>1. Full(R, a, b, n) = [k \in 0..n |-> Full(R, a, b, n)[k]]
    BY DEF Full
  <2>2. W = [k \in 0..n |-> W[k]]
    BY <1>12
  <2> QED  BY <1>18, <2>1, <2>2
<1>20. R \in RoutesOf(G, a, b, n)
  BY <1>8, <1>16, <1>17, <1>19, RouteOfWalk
<1> QED  BY <1>20 DEF R, n

-------------------------------------------------------------------------------
(* Path's own copies of the operators it shares with Bfs.                      *)

LEMMA PathOperators ==
    /\ Path!followers = followers
    /\ \A q : Path!Known(q) <=> Known(q)
    /\ \A G, a, b, n : Path!RoutesOf(G, a, b, n) = RoutesOf(G, a, b, n)
    /\ \A G, a, b, n : Path!Distance(G, a, b, n) = Distance(G, a, b, n)
    /\ Path!None = None
<1>1. Path!followers = followers
  BY DEF Path!followers, followers
<1>2. \A q : Path!Known(q) <=> Known(q)
  BY DEF Path!Known, Known
<1>3. \A G, a, b, n : Path!RoutesOf(G, a, b, n) = RoutesOf(G, a, b, n)
  BY DEF Path!RoutesOf, RoutesOf, Path!IsRoute, IsRoute, Path!Stop, Stop
<1>4. \A G, a, b, n : Path!Distance(G, a, b, n) = Distance(G, a, b, n)
  BY DEF Path!Distance, Distance, Path!Within, Within, Path!Min, Min, Path!None, None
<1>5. Path!None = None
  BY DEF Path!None, None
<1> QED  BY <1>1, <1>2, <1>3, <1>4, <1>5

-------------------------------------------------------------------------------
(* The invariant of the path search.                                           *)

PathRight(G, q, p) ==
    /\ q.from = q.to => p = <<>>
    /\ q.from # q.to =>
          LET hops == Distance(G, q.from, q.to, q.max_hops) IN
          IF ~Known(q) \/ hops = None THEN p = Path!NoPath
          ELSE p # Path!NoPath /\ p \in RoutesOf(G, q.from, q.to, hops)

\* Nothing met yet: two sides, and no route as short as their levels together.
PathApart ==
    /\ meeting_node = Path!NoNode
    /\ PathSide(follows, path_query.from, path_fwd_dist, fwd_parent, path_fwd_current)
    /\ PathSide(followers, path_query.to, path_bwd_dist, bwd_parent, path_bwd_current)
    /\ path_query.to \notin Ball(follows, path_query.from, path_fwd_dist + path_bwd_dist)

PathJoined ==
    /\ MetAt(follows, path_query.from, path_fwd_dist, followers, path_query.to, path_bwd_dist)
    /\ path_fwd_dist + path_bwd_dist <= path_query.max_hops

PathSearching ==
    /\ Known(path_query) /\ path_query.from # path_query.to
    /\ path_fwd_dist \in Nat /\ path_bwd_dist \in Nat
    /\ PathApart \/ PathJoined

PInv ==
    /\ path_pc = "idle" => meeting_node = Path!NoNode
    /\ path_pc # "idle" => pc = "done" /\ path_query = query /\ query \in Query
    /\ path_pc = "search" => PathSearching
    /\ path_pc = "done" => PathRight(follows, path_query, path)

LEMMA PathDirect ==
    ASSUME NEW G, IsGraph(Node, G), NEW q \in Query, q.from # q.to, Known(q),
           q.max_hops > 0, q.to \in G[q.from]
    PROVE  PathRight(G, q, <<>>)
<1>1. q.from \in Node /\ q.to \in Node /\ q.max_hops \in Nat /\ 1 <= q.max_hops
  BY QueryAssumption DEF Known
<1>2. q.to \in Ring(G, q.from, 1)
  BY <1>1, DirectRoute
<1>3. Distance(G, q.from, q.to, q.max_hops) = 1
  BY <1>1, <1>2, DistanceOfRing
<1>4. <<>> \in RoutesOf(G, q.from, q.to, 1)
  <2>1. <<>> \in [1..(1 - 1) -> DOMAIN G] /\ Len(<<>>) = 0
    OBVIOUS
  <2>2. IsRoute(G, q.from, q.to, <<>>)
    <3>1. \A i \in 0..Len(<<>>) : i = 0
      BY <2>1
    <3>2. Stop(<<>>, q.from, q.to, 0) = q.from /\ Stop(<<>>, q.from, q.to, 0 + 1) = q.to
      BY <2>1 DEF Stop
    <3> QED  BY <3>1, <3>2 DEF IsRoute
  <2> QED  BY <2>1, <2>2 DEF RoutesOf
<1>5. <<>> # Path!NoPath /\ 1 # None
  BY DEF Path!NoPath, None
<1> QED  BY <1>3, <1>4, <1>5 DEF PathRight

\* A level of one side, seen from that side.
LEMMA PathLevel ==
    ASSUME NEW G, IsGraph(Node, G), NEW H, IsGraph(Node, H), Mirrors(Node, G, H),
           NEW a \in Node, NEW b \in Node, NEW n \in Nat, NEW m \in Nat,
           b \notin Ball(G, a, n + m), meeting_node = Path!NoNode,
           NEW parent, NEW current, PathSide(G, a, n, parent, current),
           NEW other, NEW frontier, PathSide(H, b, m, other, frontier),
           NEW parent1, NEW current1,
           Path!Expand(current, G, Ball(G, a, n), Ball(H, b, m), parent, parent1, current1)
    PROVE  \/ /\ meeting_node' = Path!NoNode
              /\ PathSide(G, a, n + 1, parent1, current1)
              /\ b \notin Ball(G, a, n + m + 1)
           \/ /\ Chained(G, a, parent1) /\ meeting_node' \in DOMAIN parent1
              /\ meeting_node' \in Ring(G, a, n + 1) /\ meeting_node' \in Ring(H, b, m)
              /\ m > 0 => meeting_node' \in DOMAIN other
              /\ b \in Ring(G, a, n + m + 1)
<1> DEFINE edges == Path!Edges(current, G, Ball(H, b, m))
<1>1. CASE \E e \in edges : /\ meeting_node' = e[2]
                            /\ parent1 = Path!Extend(parent, One(e))
  <2>1. PICK e \in edges : /\ meeting_node' = e[2]
                           /\ parent1 = Path!Extend(parent, One(e))
    BY <1>1
  <2>2. /\ Chained(G, a, parent1) /\ e[2] \in DOMAIN parent1
        /\ e[2] \in Ring(G, a, n + 1) /\ e[2] \in Ring(H, b, m)
        /\ b \in Ring(G, a, n + m + 1)
    BY <2>1, PathMeets
  <2>3. ASSUME m > 0 PROVE e[2] \in DOMAIN other
    <3>1. b \in Ring(H, b, 0)
      BY RingStart
    <3>2. e[2] # b
      BY <2>2, <2>3, <3>1, RingUnique
    <3> QED  BY <2>2, <3>2 DEF PathSide, Ring
  <2> QED  BY <2>1, <2>2, <2>3
<1>2. CASE /\ edges = {}
           /\ \E p \in Path!Parents(current, G, Ball(G, a, n)) :
                parent1 = Path!Extend(parent, p) /\ current1 = DOMAIN p
           /\ UNCHANGED meeting_node
  <2>1. PICK p \in Path!Parents(current, G, Ball(G, a, n)) :
                parent1 = Path!Extend(parent, p) /\ current1 = DOMAIN p
    BY <1>2
  <2>2. /\ PathSide(G, a, n + 1, Path!Extend(parent, p), DOMAIN p)
        /\ b \notin Ball(G, a, n + m + 1)
    BY <1>2, PathGrows
  <2> QED  BY <1>2, <2>1, <2>2
<1> QED  BY <1>1, <1>2 DEF Path!Expand, One

LEMMA PathForward ==
    ASSUME follows \in [Node -> SUBSET Node], path_query \in Query, PathSearching,
           Path!ExpandForward
    PROVE  PathSearching'
<1> DEFINE G == follows
           H == followers
           a == path_query.from
           b == path_query.to
           i == path_fwd_dist
           j == path_bwd_dist
<1>1. /\ a \in Node /\ b \in Node /\ a # b /\ i \in Nat /\ j \in Nat
      /\ path_query.max_hops \in Nat /\ Known(path_query)
  BY QueryAssumption DEF PathSearching, Known
<1>2. IsGraph(Node, G) /\ IsGraph(Node, H) /\ Mirrors(Node, G, H) /\ Mirrors(Node, H, G)
  BY FollowersMirror
<1>3. /\ UNCHANGED <<follows, path_query, bwd_parent, path_bwd_current, path_bwd_dist>>
      /\ i' = i + 1 /\ meeting_node = Path!NoNode /\ i + j < path_query.max_hops
      /\ Path!Expand(path_fwd_current, follows, Path!fwd_visited, Path!bwd_visited,
                     fwd_parent, fwd_parent', path_fwd_current')
  BY <1>1 DEF Path!ExpandForward, Path!Finished
<1>4. H' = H
  BY <1>3 DEF followers
<1>5. meeting_node \notin Node
  BY <1>3, NoNodeAssumption
<1>6. PathApart
  <2>1. Ring(G, a, i) \subseteq Node
    BY <1>1, <1>2, BallType DEF Ring
  <2> QED  BY <1>5, <2>1 DEF PathSearching, PathJoined, MetAt
<1>7. /\ PathSide(G, a, i, fwd_parent, path_fwd_current)
      /\ PathSide(H, b, j, bwd_parent, path_bwd_current)
      /\ b \notin Ball(G, a, i + j)
  BY <1>6 DEF PathApart
<1>8. Path!fwd_visited = Ball(G, a, i) /\ Path!bwd_visited = Ball(H, b, j)
  BY <1>1, <1>7, VisitedOfSide DEF Path!fwd_visited, Path!bwd_visited
<1>9. \/ /\ meeting_node' = Path!NoNode
         /\ PathSide(G, a, i + 1, fwd_parent', path_fwd_current')
         /\ b \notin Ball(G, a, i + j + 1)
      \/ /\ Chained(G, a, fwd_parent') /\ meeting_node' \in DOMAIN fwd_parent'
         /\ meeting_node' \in Ring(G, a, i + 1) /\ meeting_node' \in Ring(H, b, j)
         /\ j > 0 => meeting_node' \in DOMAIN bwd_parent
         /\ b \in Ring(G, a, i + j + 1)
  <2>1. Path!Expand(path_fwd_current, G, Ball(G, a, i), Ball(H, b, j),
                    fwd_parent, fwd_parent', path_fwd_current')
    BY <1>3, <1>8
  <2> HIDE DEF G, H, a, b, i, j
  <2> QED  BY <1>1, <1>2, <1>3, <1>7, <2>1, PathLevel
<1>10. i + 1 + j = i + j + 1 /\ i + j + 1 <= path_query.max_hops /\ i + 1 \in Nat
  BY <1>1, <1>3
<1>11. CASE /\ meeting_node' = Path!NoNode
            /\ PathSide(G, a, i + 1, fwd_parent', path_fwd_current')
            /\ b \notin Ball(G, a, i + j + 1)
  <2>1. PathApart'
    BY <1>3, <1>4, <1>7, <1>10, <1>11 DEF PathApart, Path!NoNode
  <2> QED  BY <1>1, <1>3, <1>10, <2>1 DEF PathSearching, Known
<1>12. CASE /\ Chained(G, a, fwd_parent') /\ meeting_node' \in DOMAIN fwd_parent'
            /\ meeting_node' \in Ring(G, a, i + 1) /\ meeting_node' \in Ring(H, b, j)
            /\ j > 0 => meeting_node' \in DOMAIN bwd_parent
            /\ b \in Ring(G, a, i + j + 1)
  <2>1. PathJoined'
    BY <1>3, <1>4, <1>7, <1>10, <1>12 DEF PathJoined, MetAt, PathSide
  <2> QED  BY <1>1, <1>3, <1>10, <2>1 DEF PathSearching, Known
<1> QED  BY <1>9, <1>11, <1>12

LEMMA PathBackward ==
    ASSUME follows \in [Node -> SUBSET Node], path_query \in Query, PathSearching,
           Path!ExpandBackward
    PROVE  PathSearching'
<1> DEFINE G == follows
           H == followers
           a == path_query.from
           b == path_query.to
           i == path_fwd_dist
           j == path_bwd_dist
<1>1. /\ a \in Node /\ b \in Node /\ a # b /\ i \in Nat /\ j \in Nat
      /\ path_query.max_hops \in Nat /\ Known(path_query)
  BY QueryAssumption DEF PathSearching, Known
<1>2. IsGraph(Node, G) /\ IsGraph(Node, H) /\ Mirrors(Node, G, H) /\ Mirrors(Node, H, G)
  BY FollowersMirror
<1>3. /\ UNCHANGED <<follows, path_query, fwd_parent, path_fwd_current, path_fwd_dist>>
      /\ j' = j + 1 /\ meeting_node = Path!NoNode /\ i + j < path_query.max_hops
      /\ Path!Expand(path_bwd_current, Path!followers, Path!bwd_visited, Path!fwd_visited,
                     bwd_parent, bwd_parent', path_bwd_current')
  BY <1>1 DEF Path!ExpandBackward, Path!Finished
<1>4. H' = H
  BY <1>3 DEF followers
<1>5. meeting_node \notin Node
  BY <1>3, NoNodeAssumption
<1>6. PathApart
  <2>1. Ring(G, a, i) \subseteq Node
    BY <1>1, <1>2, BallType DEF Ring
  <2> QED  BY <1>5, <2>1 DEF PathSearching, PathJoined, MetAt
<1>7. /\ PathSide(G, a, i, fwd_parent, path_fwd_current)
      /\ PathSide(H, b, j, bwd_parent, path_bwd_current)
      /\ b \notin Ball(G, a, i + j)
  BY <1>6 DEF PathApart
<1>8. Path!fwd_visited = Ball(G, a, i) /\ Path!bwd_visited = Ball(H, b, j)
  BY <1>1, <1>7, VisitedOfSide DEF Path!fwd_visited, Path!bwd_visited
<1>9. /\ i + j + 1 = j + i + 1 /\ i + (j + 1) = i + j + 1 /\ i + j = j + i
      /\ i + j + 1 <= path_query.max_hops /\ j + 1 \in Nat /\ j + i \in Nat /\ j + i + 1 \in Nat
  BY <1>1, <1>3
<1>10. a \notin Ball(H, b, j + i)
  <2> HIDE DEF G, H, a, b, i, j
  <2> QED  BY <1>1, <1>2, <1>7, <1>9, BallMirror
<1>11. \/ /\ meeting_node' = Path!NoNode
          /\ PathSide(H, b, j + 1, bwd_parent', path_bwd_current')
          /\ a \notin Ball(H, b, j + i + 1)
       \/ /\ Chained(H, b, bwd_parent') /\ meeting_node' \in DOMAIN bwd_parent'
          /\ meeting_node' \in Ring(H, b, j + 1) /\ meeting_node' \in Ring(G, a, i)
          /\ i > 0 => meeting_node' \in DOMAIN fwd_parent
          /\ a \in Ring(H, b, j + i + 1)
  <2>1. Path!Expand(path_bwd_current, H, Ball(H, b, j), Ball(G, a, i),
                    bwd_parent, bwd_parent', path_bwd_current')
    BY <1>3, <1>8, PathOperators
  <2> HIDE DEF G, H, a, b, i, j
  <2> QED  BY <1>1, <1>2, <1>3, <1>7, <1>10, <2>1, PathLevel
<1>12. /\ a \notin Ball(H, b, j + i + 1) => b \notin Ball(G, a, i + j + 1)
       /\ a \in Ring(H, b, j + i + 1) => b \in Ring(G, a, i + j + 1)
  <2> HIDE DEF G, H, a, b, i, j
  <2> QED  BY <1>1, <1>2, <1>9, BallMirror, RingMirror
<1>13. CASE /\ meeting_node' = Path!NoNode
            /\ PathSide(H, b, j + 1, bwd_parent', path_bwd_current')
            /\ a \notin Ball(H, b, j + i + 1)
  <2>1. PathApart'
    BY <1>3, <1>4, <1>7, <1>9, <1>12, <1>13 DEF PathApart, Path!NoNode
  <2> QED  BY <1>1, <1>3, <1>9, <2>1 DEF PathSearching, Known
<1>14. CASE /\ Chained(H, b, bwd_parent') /\ meeting_node' \in DOMAIN bwd_parent'
            /\ meeting_node' \in Ring(H, b, j + 1) /\ meeting_node' \in Ring(G, a, i)
            /\ i > 0 => meeting_node' \in DOMAIN fwd_parent
            /\ a \in Ring(H, b, j + i + 1)
  <2>1. PathJoined'
    BY <1>3, <1>4, <1>7, <1>9, <1>12, <1>14 DEF PathJoined, MetAt, PathSide
  <2> QED  BY <1>1, <1>3, <1>9, <2>1 DEF PathSearching, Known
<1> QED  BY <1>11, <1>13, <1>14

LEMMA RouteNotNone ==
    ASSUME NEW G, IsGraph(Node, G), NEW a, NEW b, NEW n, NEW r \in RoutesOf(G, a, b, n)
    PROVE  r # Path!NoPath
<1>1. DOMAIN G = Node
  BY DEF IsGraph
<1>2. r \in [1..(n - 1) -> Node]
  BY <1>1 DEF RoutesOf
<1>3. ASSUME r = Path!NoPath PROVE FALSE
  <2>1. 1 \in DOMAIN r /\ r[1] = Path!NoNode
    BY <1>3 DEF Path!NoPath, Path!NoNode
  <2>2. \A k \in DOMAIN r : r[k] \in Node
    BY <1>2
  <2> QED  BY <2>1, <2>2, NoNodeAssumption
<1> QED  BY <1>3

LEMMA PathFinished ==
    ASSUME follows \in [Node -> SUBSET Node], path_query \in Query, PathSearching, Path!Finish
    PROVE  PathRight(follows, path_query, path')
<1> DEFINE G == follows
           H == followers
           a == path_query.from
           b == path_query.to
           i == path_fwd_dist
           j == path_bwd_dist
           max == path_query.max_hops
           hops == Distance(G, a, b, max)
<1>1. /\ a \in Node /\ b \in Node /\ a # b /\ i \in Nat /\ j \in Nat
      /\ max \in Nat /\ Known(path_query)
  BY QueryAssumption DEF PathSearching, Known
<1>2. IsGraph(Node, G) /\ IsGraph(Node, H) /\ Mirrors(Node, G, H) /\ Mirrors(Node, H, G)
  BY FollowersMirror
<1>3. CASE PathApart
  <2>1. path' = Path!NoPath
    BY <1>3 DEF Path!Finish, PathApart
  <2>2. b \notin Ball(G, a, i + j) /\ path_fwd_current = Ring(G, a, i) /\ path_bwd_current = Ring(H, b, j)
    BY <1>3 DEF PathApart, PathSide
  <2>3. path_fwd_current = {} \/ path_bwd_current = {} \/ i + j >= max
    BY <1>3 DEF Path!Finish, Path!Finished, PathApart
  <2>4. hops = None
    <3> HIDE DEF G, H, a, b, i, j, max
    <3> QED  BY <1>1, <1>2, <2>2, <2>3, NoneWithin
  <2> QED  BY <1>1, <2>1, <2>4 DEF PathRight
<1>4. CASE PathJoined
  <2>1. MetAt(G, a, i, H, b, j) /\ i + j <= max /\ i + j \in 0..max
    BY <1>1, <1>4 DEF PathJoined
  <2>2. meeting_node # Path!NoNode
    <3>1. Ring(G, a, i) \subseteq Node
      BY <1>1, <1>2, BallType DEF Ring
    <3> QED  BY <2>1, <3>1, NoNodeAssumption DEF MetAt
  <2>3. path' = Path!Route
    BY <2>2 DEF Path!Finish
  <2>4. Path!Route \in RoutesOf(G, a, b, i + j)
    BY <1>1, <1>2, <2>1, RouteIsShortest
  <2>5. hops = i + j
    <3>1. b \in Ring(G, a, i + j)
      BY <2>1 DEF MetAt
    <3> HIDE DEF G, a, b, i, j, max
    <3> QED  BY <1>1, <2>1, <3>1, DistanceOfRing
  <2>6. Path!Route # Path!NoPath
    BY <1>2, <2>4, RouteNotNone
  <2>7. hops # None
    BY <1>1, <2>5 DEF None
  <2> HIDE DEF hops
  <2>8. hops = Distance(G, a, b, max)
    BY DEF hops
  <2> QED  BY <1>1, <2>3, <2>4, <2>5, <2>6, <2>7, <2>8 DEF PathRight
<1> QED  BY <1>3, <1>4 DEF PathSearching

LEMMA PathAsk ==
    ASSUME IInv, PInv, AskBoth
    PROVE  PInv'
<1>1. /\ pc = "done" /\ UNCHANGED <<follows, pc, query>> /\ query \in Query
      /\ path_pc = "idle" /\ path_query' = query /\ UNCHANGED meeting_node
      /\ meeting_node = Path!NoNode
  BY DEF AskBoth, vars, Path!Ask, IInv, PInv
<1>2. IsGraph(Node, follows) /\ followers' = followers /\ IsGraph(Node, followers)
  BY <1>1, TypeParts, FollowersMirror DEF IInv, TypeOKParts, followers
<1>3. \/ /\ query.from = query.to \/ (Path!Known(query) /\ Path!Direct(query))
         /\ path_pc' = "done" /\ path' = <<>>
      \/ /\ query.from # query.to /\ ~Path!Known(query)
         /\ path_pc' = "done" /\ path' = Path!NoPath
      \/ /\ query.from # query.to /\ Path!Known(query) /\ ~Path!Direct(query)
         /\ path_pc' = "search" /\ Path!Start
  BY DEF AskBoth, Path!Ask
<1>4. CASE /\ query.from = query.to \/ (Path!Known(query) /\ Path!Direct(query))
           /\ path_pc' = "done" /\ path' = <<>>
  <2>1. PathRight(follows, query, <<>>)
    <3>1. CASE query.from = query.to
      BY <3>1 DEF PathRight
    <3>2. CASE query.from # query.to
      <4>1. Known(query) /\ query.max_hops > 0 /\ query.to \in follows[query.from]
        BY <1>4, <3>2, PathOperators DEF Path!Direct
      <4> QED  BY <1>1, <1>2, <3>2, <4>1, PathDirect
    <3> QED  BY <3>1, <3>2
  <2> QED  BY <1>1, <1>4, <2>1 DEF PInv
<1>5. CASE /\ query.from # query.to /\ ~Path!Known(query)
           /\ path_pc' = "done" /\ path' = Path!NoPath
  <2>1. PathRight(follows, query, Path!NoPath)
    BY <1>5, PathOperators DEF PathRight
  <2>2. Path!NoPath' = Path!NoPath
    BY DEF Path!NoPath
  <2> QED  BY <1>1, <1>5, <2>1, <2>2 DEF PInv
<1>6. CASE /\ query.from # query.to /\ Path!Known(query) /\ ~Path!Direct(query)
           /\ path_pc' = "search" /\ Path!Start
  <2>1. Known(query) /\ query.from \in Node /\ query.to \in Node
    BY <1>6, PathOperators DEF Known
  <2>2. /\ path_fwd_current' = {query.from} /\ path_bwd_current' = {query.to}
        /\ fwd_parent' = <<>> /\ bwd_parent' = <<>>
        /\ path_fwd_dist' = 0 /\ path_bwd_dist' = 0
    BY <1>1, <1>6 DEF Path!Start
  <2>3. /\ PathSide(follows, query.from, 0, <<>>, {query.from})
        /\ PathSide(followers, query.to, 0, <<>>, {query.to})
    BY PathSideStart
  <2>4. query.to \notin Ball(follows, query.from, 0)
    BY <1>6, BallStart
  <2>5. PathApart'
    BY <1>1, <1>2, <2>2, <2>3, <2>4 DEF PathApart, Path!NoNode
  <2>6. PathSearching'
    BY <1>1, <1>6, <2>1, <2>2, <2>5 DEF PathSearching, Known
  <2> QED  BY <1>1, <1>6, <2>6 DEF PInv
<1> QED  BY <1>3, <1>4, <1>5, <1>6

LEMMA PathStepInv ==
    ASSUME IInv, PInv, PathStep
    PROVE  PInv'
<1>1. UNCHANGED <<follows, pc, query>> /\ follows \in [Node -> SUBSET Node]
  BY TypeParts DEF PathStep, vars, IInv, TypeOKParts
<1>2. CASE Path!ExpandForward \/ Path!ExpandBackward
  <2>1. path_pc = "search" /\ UNCHANGED <<path_pc, path_query>>
    BY <1>2 DEF Path!ExpandForward, Path!ExpandBackward
  <2>2. PathSearching'
    BY <1>1, <1>2, <2>1, PathForward, PathBackward DEF PInv
  <2> QED  BY <1>1, <2>1, <2>2 DEF PInv
<1>3. CASE Path!Finish
  <2>1. path_pc = "search" /\ path_pc' = "done" /\ path_query' = path_query
    BY <1>3 DEF Path!Finish
  <2>2. PathRight(follows, path_query, path')
    BY <1>1, <1>3, <2>1, PathFinished DEF PInv
  <2> QED  BY <1>1, <2>1, <2>2 DEF PInv
<1>4. CASE Path!Return
  BY <1>4 DEF Path!Return, PInv, Path!NoNode
<1> QED  BY <1>2, <1>3, <1>4 DEF PathStep

LEMMA PathStutter ==
    ASSUME PInv, UNCHANGED <<vars, path_vars>>
    PROVE  PInv'
<1>1. followers' = followers /\ UNCHANGED <<follows, pc, query>>
  BY DEF vars, followers
<1>2. UNCHANGED <<path_pc, path_query, path, fwd_parent, bwd_parent>>
  BY DEF path_vars
<1>3. UNCHANGED <<path_fwd_current, path_bwd_current, path_fwd_dist, path_bwd_dist, meeting_node>>
  BY DEF path_vars
<1>4. PathSearching => PathSearching'
  BY <1>1, <1>2, <1>3 DEF PathSearching, PathApart, PathJoined, MetAt, Path!NoNode
<1> QED  BY <1>1, <1>2, <1>3, <1>4 DEF PInv, Path!NoNode

SearchIInv == IInv /\ PInv

LEMMA SearchInitIInv == SearchInit => SearchIInv
BY InitIInv DEF SearchInit, SearchIInv, PInv, Path!Init

LEMMA SearchNextIInv == SearchIInv /\ [SearchNext]_<<vars, path_vars>> => SearchIInv'
<1> SUFFICES ASSUME IInv, PInv, [SearchNext]_<<vars, path_vars>> PROVE IInv' /\ PInv'
  BY DEF SearchIInv
<1>1. CASE DistanceStep
  <2>1. IInv'
    BY <1>1, NextIInv DEF DistanceStep
  <2>2. path_pc = "idle" /\ UNCHANGED <<path_pc, meeting_node>>
    BY <1>1 DEF DistanceStep, path_vars
  <2> QED  BY <2>1, <2>2 DEF PInv, Path!NoNode
<1>2. CASE AskBoth
  <2>1. IInv'
    BY <1>2, NextIInv DEF AskBoth
  <2> QED  BY <1>2, <2>1, PathAsk
<1>3. CASE PathStep
  <2>1. IInv'
    BY <1>3, NextIInv DEF PathStep
  <2> QED  BY <1>3, <2>1, PathStepInv
<1>4. CASE UNCHANGED <<vars, path_vars>>
  <2>1. IInv'
    BY <1>4, NextIInv
  <2> QED  BY <1>4, <2>1, PathStutter
<1> QED  BY <1>1, <1>2, <1>3, <1>4 DEF SearchNext

LEMMA ShortestOfPInv == PInv => PathIsShortest
<1> SUFFICES ASSUME PInv, path_pc = "done", path_query.from # path_query.to
             PROVE  LET hops == Distance(follows, path_query.from, path_query.to, path_query.max_hops)
                    IN  IF ~Known(path_query) \/ hops = None THEN path = Path!NoPath
                        ELSE /\ path # Path!NoPath
                             /\ path \in RoutesOf(follows, path_query.from, path_query.to, hops)
  BY PathOperators DEF PathIsShortest, Path!PathIsShortest
<1> QED  BY DEF PInv, PathRight

LEMMA AgreeOfIInv == SearchIInv => EndpointsAgree
<1> SUFFICES ASSUME IInv, PInv, path_pc = "done"
             PROVE  /\ path = Path!NoPath <=> answer.hops = None
                    /\ path # Path!NoPath /\ query.from # query.to => Len(path) + 1 = answer.hops
  BY DEF SearchIInv, EndpointsAgree
<1>1. query \in Query /\ Right(follows, query, answer) /\ PathRight(follows, query, path)
  BY DEF IInv, PInv
<1>2. IsGraph(Node, follows)
  BY TypeParts, FollowersMirror DEF IInv, TypeOKParts
<1>3. query.max_hops \in Nat
  BY <1>1, QueryAssumption
<1>4. not_found.hops = None /\ same_node.hops = 0 /\ 0 # None /\ <<>> # Path!NoPath
  BY DEF not_found, same_node, Answer, None, Path!NoPath
<1> DEFINE hops == Distance(follows, query.from, query.to, query.max_hops)
<1>5. CASE query.from = query.to
  <2>1. path = <<>>
    BY <1>1, <1>5 DEF PathRight
  <2>2. Right(follows, query, same_node)
    BY <1>1, <1>5, SelfAnswer
  <2>3. answer.hops = same_node.hops
    BY <1>1, <1>5, <2>2 DEF Right
  <2> QED  BY <1>4, <1>5, <2>1, <2>3
<1>6. CASE query.from # query.to /\ ~Known(query)
  <2>1. path = Path!NoPath /\ answer = not_found
    BY <1>1, <1>6 DEF PathRight, Right
  <2> QED  BY <1>4, <2>1
<1>7. CASE query.from # query.to /\ Known(query)
  <2>1. answer.hops = hops
    BY <1>1, <1>7 DEF Right
  <2>2. CASE hops = None
    <3>1. path = Path!NoPath
      BY <1>1, <1>7, <2>2 DEF PathRight
    <3> QED  BY <2>1, <2>2, <3>1
  <2>3. CASE hops # None
    <3>1. path # Path!NoPath /\ path \in RoutesOf(follows, query.from, query.to, hops)
      BY <1>1, <1>7, <2>3 DEF PathRight
    <3>2. query.to \in Ball(follows, query.from, query.max_hops)
      BY <1>3, <2>3, DistanceNone
    <3>3. PICK m \in 0..query.max_hops : query.to \in Ring(follows, query.from, m)
      BY <1>3, <3>2, RingOfBall
    <3>4. hops = m
      BY <1>3, <3>3, DistanceOfRing
    <3>5. m # 0
      BY <1>7, <3>3, RingStart
    <3>6. m - 1 \in Nat
      BY <1>3, <3>3, <3>5
    <3> HIDE DEF hops
    <3>7. path \in [1..(m - 1) -> DOMAIN follows]
      BY <3>1, <3>4 DEF RoutesOf
    <3>8. path \in Seq(DOMAIN follows) /\ DOMAIN path = 1..(m - 1)
      BY <3>6, <3>7, SeqDef
    <3>9. Len(path) = m - 1
      BY <3>6, <3>8, LenProperties
    <3> QED  BY <2>1, <2>3, <3>1, <3>4, <3>6, <3>9
  <2> QED  BY <2>2, <2>3
<1> QED  BY <1>5, <1>6, <1>7

-------------------------------------------------------------------------------
(* The theorems.                                                               *)

LEMMA SearchInvCorrect == SearchSpec => []SearchIInv
BY SearchInitIInv, SearchNextIInv, PTL DEF SearchSpec

(* compute_path answers with the interior of a shortest route, and with null   *)
(* exactly when none is within max_hops, whichever meeting comes first and     *)
(* whichever parents the nodes got.                                            *)
THEOREM PathCorrect == SearchSpec => []PathIsShortest
<1>1. SearchIInv => PathIsShortest
  BY ShortestOfPInv DEF SearchIInv
<1> QED  BY <1>1, SearchInvCorrect, PTL

(* /path and /distance, two searches with their own meeting rules, never       *)
(* contradict each other on one graph.                                         *)
THEOREM EndpointsCorrect == SearchSpec => []EndpointsAgree
BY AgreeOfIInv, SearchInvCorrect, PTL

===============================================================================
