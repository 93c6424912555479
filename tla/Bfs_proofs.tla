------------------------------ MODULE Bfs_proofs ------------------------------
(***************************************************************************)
(* compute_distance, for every finite graph, every sequence of questions   *)
(* and every limit of the counts: each answer is that of an enumeration of *)
(* all routes.                                                             *)
(*                                                                         *)
(* First the definitions of Routes, for any graph.  Within is a recursive  *)
(* function: that one exists follows by induction over the natural numbers *)
(* (NatInduct, the well-foundedness of < read as induction over a set of   *)
(* numbers).  From its equation come the balls and rings round a node,     *)
(* that they look the same from the other end of the edges, Distance as    *)
(* the number of a ring, and that the shortest routes are the walks        *)
(* through all the rings between two nodes.                                *)
(*                                                                         *)
(* Then the search.  One side of it is a ball, each node with its ring and *)
(* the number of shortest walks to it, saturated (Side); a level extends   *)
(* it by a ring (VisitNext).  While no route is as short as the levels of  *)
(* both sides together, the meetings of a level are the edges between the  *)
(* last rings (MetIsCrossing); each shortest walk takes exactly one of     *)
(* them, so that the products of their counts add up to the number of      *)
(* routes (CrossingCounts), whichever side is extended when.               *)
(***************************************************************************)
EXTENDS Bfs, WellFoundedInduction, FiniteSetTheorems, SequenceTheorems, TLAPS

-------------------------------------------------------------------------------
(* Routes. *)

\* Induction over the natural numbers, for the set of those a claim holds of.
LEMMA NatInduct ==
    ASSUME NEW S, 0 \in S, \A n \in Nat : n \in S => n + 1 \in S
    PROVE  \A n \in Nat : n \in S
<1> DEFINE T == Nat \ S
<1> SUFFICES ASSUME T # {} PROVE FALSE
  OBVIOUS
<1>1. \E x \in T : \A y \in T : ~ (<<y, x>> \in OpToRel(<, Nat))
  BY NatLessThanWellFounded, WFMin
<1>2. PICK x \in T : \A y \in T : ~ (y < x)
  BY <1>1 DEF OpToRel
<1>3. x # 0 /\ x - 1 \in Nat
  OBVIOUS
<1>4. x - 1 \in S
  BY <1>2, <1>3
<1> QED
  BY <1>3, <1>4

LEMMA SameFunction ==
    ASSUME NEW D, NEW R, NEW f \in [D -> R], NEW g \in [D -> R], \A x \in D : f[x] = g[x]
    PROVE  f = g
OBVIOUS

\* Sets that a function puts in one-to-one correspondence have as many elements.
LEMMA SameCount ==
    ASSUME NEW S, IsFiniteSet(S), NEW T, NEW F \in [S -> T],
           \A s, t \in S : F[s] = F[t] => s = t,
           \A t \in T : \E s \in S : F[s] = t
    PROVE  IsFiniteSet(T) /\ Cardinality(T) = Cardinality(S)
<1>1. F \in Bijection(S, T)
  BY DEF Bijection, Injection, IsInjective, Surjection
<1>2. ExistsBijection(S, T)
  BY <1>1 DEF ExistsBijection
<1> QED  BY <1>2, FS_Bijection

\* The nodes at hand and those one hop further.
Onward(G, near) == near \cup UNION {G[v] : v \in near}

\* The equation the recursive function inside Within solves.
IsWithin(G, start, max, W) ==
    W = [n \in 0..max |-> IF n = 0 THEN start ELSE Onward(G, W[n - 1])]

LEMMA WithinLevels ==
    ASSUME NEW G, NEW start, NEW max \in Nat, NEW W, IsWithin(G, start, max, W)
    PROVE  /\ W[0] = start
           /\ \A n \in 1..max : W[n] = Onward(G, W[n - 1])
<1> DEFINE E == [n \in 0..max |-> IF n = 0 THEN start ELSE Onward(G, W[n - 1])]
<1>1. W = E
  BY Zenon DEF IsWithin
<1>2. E[0] = start /\ \A n \in 1..max : E[n] = Onward(G, W[n - 1])
  OBVIOUS
<1> QED  BY <1>1, <1>2, Zenon

LEMMA WithinExists ==
    ASSUME NEW G, NEW start
    PROVE  \A max \in Nat : \E W : IsWithin(G, start, max, W)
<1> DEFINE P(m) == \E W : IsWithin(G, start, m, W)
           S == {m \in Nat : P(m)}
<1>1. P(0)
  <2> IsWithin(G, start, 0, [n \in 0..0 |-> start])
    BY DEF IsWithin
  <2> QED  OBVIOUS
<1>2. ASSUME NEW m \in Nat, P(m) PROVE P(m + 1)
  <2>1. PICK W : IsWithin(G, start, m, W)
    BY <1>2
  <2> DEFINE V == [n \in 0..(m + 1) |-> IF n = 0 THEN start ELSE Onward(G, W[n - 1])]
             U == [n \in 0..(m + 1) |-> IF n = 0 THEN start ELSE Onward(G, V[n - 1])]
  <2>2. ASSUME NEW n \in 0..m PROVE V[n] = W[n]
    <3>1. W[0] = start /\ \A k \in 1..m : W[k] = Onward(G, W[k - 1])
      BY <2>1, WithinLevels
    <3> QED  BY <3>1
  <2>3. \A n \in 1..(m+1) : V[n - 1] = W[n - 1]
    <3> HIDE DEF V
    <3> QED  BY <2>2
  <2>4. ASSUME NEW n \in 0..(m + 1) PROVE U[n] = V[n]
    <3>1. CASE n = 0
      BY <3>1
    <3>2. CASE n # 0
      <4>1. n \in 1..(m + 1)
        BY <3>2
      <4>2. V[n] = Onward(G, W[n - 1]) /\ U[n] = Onward(G, V[n - 1])
        BY <3>2, Zenon
      <4> QED  BY <4>1, <4>2, <2>3, Zenon
    <3> QED  BY <3>1, <3>2
  <2>5. U = V
    BY <2>4, Zenon
  <2>6. IsWithin(G, start, m + 1, V)
    BY <2>5, Zenon DEF IsWithin
  <2> QED  BY <2>6, Zenon
<1> HIDE DEF P
<1>3. 0 \in S /\ \A n \in Nat : n \in S => n + 1 \in S
  BY <1>1, <1>2
<1>4. \A m \in Nat : m \in S
  <2> HIDE DEF S
  <2> QED  BY <1>3, NatInduct
<1>5. \A m \in Nat : P(m)
  BY <1>4
<1> QED  BY <1>5, Zenon DEF P

LEMMA WithinSpec ==
    ASSUME NEW G, NEW from, NEW max \in Nat
    PROVE  IsWithin(G, {from}, max, Within(G, from, max))
<1>1. \E W : IsWithin(G, {from}, max, W)
  BY WithinExists
<1>2. Within(G, from, max) = CHOOSE W : IsWithin(G, {from}, max, W)
  BY Zenon DEF Within, IsWithin, Onward
<1> QED
  BY <1>1, <1>2, Zenon

-------------------------------------------------------------------------------
(* Balls and rings: the nodes within n hops of a node, and at exactly n.      *)

Ball(G, a, n) == Within(G, a, n)[n]
Ring(G, a, n) == {v \in Ball(G, a, n) : \A m \in 0..(n - 1) : v \notin Ball(G, a, m)}

\* A bound on the levels does not change the levels below it.
LEMMA WithinIsBall ==
    ASSUME NEW G, NEW a
    PROVE  \A m \in Nat : \A max \in Nat : m <= max => Within(G, a, max)[m] = Ball(G, a, m)
<1> DEFINE P(m) == \A max \in Nat : m <= max => Within(G, a, max)[m] = Ball(G, a, m)
           S == {m \in Nat : P(m)}
<1>1. \A max \in Nat : /\ Within(G, a, max)[0] = {a}
                       /\ \A n \in 1..max : Within(G, a, max)[n]
                                                = Onward(G, Within(G, a, max)[n - 1])
  <2> TAKE max \in Nat
  <2>1. IsWithin(G, {a}, max, Within(G, a, max))
    BY WithinSpec
  <2> QED  BY <2>1, WithinLevels
<1>2. P(0)
  BY <1>1 DEF Ball
<1>3. ASSUME NEW m \in Nat, P(m) PROVE P(m + 1)
  <2> SUFFICES ASSUME NEW max \in Nat, m + 1 <= max
               PROVE  Within(G, a, max)[m + 1] = Within(G, a, m + 1)[m + 1]
    BY DEF Ball
  <2>1. Within(G, a, max)[m] = Within(G, a, m + 1)[m]
    BY <1>3
  <2>2. m + 1 \in 1..max /\ m + 1 \in 1..(m + 1) /\ (m + 1) - 1 = m /\ m + 1 \in Nat
    OBVIOUS
  <2>3. Within(G, a, max)[m + 1] = Onward(G, Within(G, a, max)[(m + 1) - 1])
    BY <1>1, <2>2
  <2>4. Within(G, a, m + 1)[m + 1] = Onward(G, Within(G, a, m + 1)[(m + 1) - 1])
    BY <1>1, <2>2
  <2> QED  BY <2>1, <2>2, <2>3, <2>4
<1> HIDE DEF P
<1>4. 0 \in S /\ \A n \in Nat : n \in S => n + 1 \in S
  BY <1>2, <1>3
<1>5. \A m \in Nat : m \in S
  <2> HIDE DEF S
  <2> QED  BY <1>4, NatInduct
<1>6. \A m \in Nat : P(m)
  BY <1>5
<1> QED  BY <1>6 DEF P

LEMMA BallLevels ==
    ASSUME NEW G, NEW a
    PROVE  /\ Ball(G, a, 0) = {a}
           /\ \A n \in Nat : Ball(G, a, n + 1) = Onward(G, Ball(G, a, n))
<1>1. ASSUME NEW max \in Nat
      PROVE  /\ Within(G, a, max)[0] = {a}
             /\ \A n \in 1..max : Within(G, a, max)[n] = Onward(G, Within(G, a, max)[n - 1])
  <2>1. IsWithin(G, {a}, max, Within(G, a, max))
    BY WithinSpec
  <2> QED  BY <2>1, WithinLevels
<1>2. Ball(G, a, 0) = {a}
  BY <1>1 DEF Ball
<1>3. ASSUME NEW n \in Nat PROVE Ball(G, a, n + 1) = Onward(G, Ball(G, a, n))
  <2>1. n + 1 \in 1..(n + 1) /\ (n + 1) - 1 = n /\ n + 1 \in Nat /\ n <= n + 1
    OBVIOUS
  <2>2. Within(G, a, n + 1)[n + 1] = Onward(G, Within(G, a, n + 1)[(n + 1) - 1])
    BY <1>1, <2>1
  <2>3. Within(G, a, n + 1)[n] = Ball(G, a, n)
    BY <2>1, WithinIsBall
  <2> QED  BY <2>1, <2>2, <2>3 DEF Ball
<1> QED  BY <1>2, <1>3

LEMMA BallStart ==
    ASSUME NEW G, NEW a
    PROVE  Ball(G, a, 0) = {a}
BY BallLevels

LEMMA BallStep ==
    ASSUME NEW G, NEW a, NEW n \in Nat
    PROVE  Ball(G, a, n + 1) = Onward(G, Ball(G, a, n))
BY BallLevels

LEMMA BallMember ==
    ASSUME NEW G, NEW a, NEW n \in Nat, NEW x
    PROVE  x \in Ball(G, a, n + 1)
             <=> x \in Ball(G, a, n) \/ \E w \in Ball(G, a, n) : x \in G[w]
<1>1. Ball(G, a, n + 1) = Onward(G, Ball(G, a, n))
  BY BallStep
<1> QED  BY <1>1 DEF Onward

LEMMA BallMonotone ==
    ASSUME NEW G, NEW a, NEW m \in Nat, NEW n \in Nat, m <= n
    PROVE  Ball(G, a, m) \subseteq Ball(G, a, n)
<1> DEFINE P(d) == Ball(G, a, m) \subseteq Ball(G, a, m + d)
           S == {d \in Nat : P(d)}
<1>1. P(0)
  OBVIOUS
<1>2. ASSUME NEW d \in Nat, P(d) PROVE P(d + 1)
  <2>1. (m + d) + 1 = m + (d + 1) /\ m + d \in Nat
    OBVIOUS
  <2>2. Ball(G, a, (m + d) + 1) = Onward(G, Ball(G, a, m + d))
    <3> PICK e \in Nat : e = m + d
      BY <2>1
    <3>1. Ball(G, a, e + 1) = Onward(G, Ball(G, a, e))
      BY BallStep
    <3> QED  BY <3>1
  <2>3. Ball(G, a, m) \subseteq Ball(G, a, m + d)
    BY <1>2
  <2>4. Ball(G, a, m) \subseteq Ball(G, a, m + (d + 1))
    BY <2>1, <2>2, <2>3 DEF Onward
  <2> QED  BY <2>4
<1> HIDE DEF P
<1>3. 0 \in S /\ \A d \in Nat : d \in S => d + 1 \in S
  BY <1>1, <1>2
<1>4. \A d \in Nat : d \in S
  <2> HIDE DEF S
  <2> QED  BY <1>3, NatInduct
<1>5. P(n - m)
  BY <1>4
<1>6. m + (n - m) = n
  OBVIOUS
<1> QED  BY <1>5, <1>6 DEF P

\* A route of p + q hops passes a node p hops from its start.
LEMMA BallSplit ==
    ASSUME NEW G, NEW a, NEW p \in Nat
    PROVE  \A q \in Nat : \A x :
             x \in Ball(G, a, p + q) <=> \E w \in Ball(G, a, p) : x \in Ball(G, w, q)
<1> DEFINE P(q) == \A x : x \in Ball(G, a, p + q) <=> \E w \in Ball(G, a, p) : x \in Ball(G, w, q)
           S == {q \in Nat : P(q)}
<1>1. P(0)
  BY BallStart
<1>2. ASSUME NEW q \in Nat, P(q) PROVE P(q + 1)
  <2> SUFFICES ASSUME NEW x
               PROVE  x \in Ball(G, a, p + (q + 1))
                        <=> \E w \in Ball(G, a, p) : x \in Ball(G, w, q + 1)
    OBVIOUS
  <2>1. (p + q) + 1 = p + (q + 1) /\ p + q \in Nat
    OBVIOUS
  <2>2. x \in Ball(G, a, (p + q) + 1)
          <=> x \in Ball(G, a, p + q) \/ \E u \in Ball(G, a, p + q) : x \in G[u]
    BY <2>1, BallMember
  <2>3. \A w : x \in Ball(G, w, q + 1)
                 <=> x \in Ball(G, w, q) \/ \E u \in Ball(G, w, q) : x \in G[u]
    BY BallMember
  <2> QED  BY <1>2, <2>1, <2>2, <2>3
<1> HIDE DEF P
<1>3. 0 \in S /\ \A q \in Nat : q \in S => q + 1 \in S
  BY <1>1, <1>2
<1>4. \A q \in Nat : q \in S
  <2> HIDE DEF S
  <2> QED  BY <1>3, NatInduct
<1>5. \A q \in Nat : P(q)
  BY <1>4
<1> QED  BY <1>5 DEF P

-------------------------------------------------------------------------------
(* Graphs over Nodes, and their mirrors.                                       *)

IsGraph(Nodes, G) == G \in [Nodes -> SUBSET Nodes]
Mirrors(Nodes, G, H) == \A v, w \in Nodes : w \in G[v] <=> v \in H[w]

LEMMA BallType ==
    ASSUME NEW Nodes, NEW G, IsGraph(Nodes, G), NEW a \in Nodes
    PROVE  \A n \in Nat : Ball(G, a, n) \subseteq Nodes
<1> DEFINE P(n) == Ball(G, a, n) \subseteq Nodes
           S == {n \in Nat : P(n)}
<1>1. P(0)
  BY BallStart
<1>2. ASSUME NEW n \in Nat, P(n) PROVE P(n + 1)
  BY <1>2, BallMember DEF IsGraph
<1> HIDE DEF P
<1>3. 0 \in S /\ \A n \in Nat : n \in S => n + 1 \in S
  BY <1>1, <1>2
<1>4. \A n \in Nat : n \in S
  <2> HIDE DEF S
  <2> QED  BY <1>3, NatInduct
<1>5. \A n \in Nat : P(n)
  BY <1>4
<1> QED  BY <1>5 DEF P

\* A node lies within n hops of t against the edges when t lies within n hops of it.
LEMMA BallMirror ==
    ASSUME NEW Nodes, NEW G, IsGraph(Nodes, G), NEW H, IsGraph(Nodes, H),
           Mirrors(Nodes, G, H), NEW t \in Nodes
    PROVE  \A n \in Nat : \A v \in Nodes : v \in Ball(H, t, n) <=> t \in Ball(G, v, n)
<1> DEFINE P(n) == \A v \in Nodes : v \in Ball(H, t, n) <=> t \in Ball(G, v, n)
           S == {n \in Nat : P(n)}
<1>1. P(0)
  BY BallStart
<1>2. ASSUME NEW n \in Nat, P(n) PROVE P(n + 1)
  <2> SUFFICES ASSUME NEW v \in Nodes
               PROVE  v \in Ball(H, t, n + 1) <=> t \in Ball(G, v, n + 1)
    OBVIOUS
  <2>1. v \in Ball(H, t, n + 1) <=> v \in Ball(H, t, n) \/ \E w \in Ball(H, t, n) : v \in H[w]
    BY BallMember
  <2>2. Ball(H, t, n) \subseteq Nodes
    BY BallType
  <2>3. v \in Ball(H, t, n + 1) <=> t \in Ball(G, v, n) \/ \E w \in G[v] : t \in Ball(G, w, n)
    BY <1>2, <2>1, <2>2 DEF Mirrors, IsGraph
  <2>4. t \in Ball(G, v, 1 + n) <=> \E w \in Ball(G, v, 1) : t \in Ball(G, w, n)
    BY BallSplit
  <2>5. \A w : w \in Ball(G, v, 0 + 1) <=> w = v \/ w \in G[v]
    <3>1. Ball(G, v, 0) = {v}
      BY BallStart
    <3>2. \A w : w \in Ball(G, v, 0 + 1)
                   <=> w \in Ball(G, v, 0) \/ \E u \in Ball(G, v, 0) : w \in G[u]
      BY BallMember
    <3> QED  BY <3>1, <3>2
  <2>6. 0 + 1 = 1 /\ 1 + n = n + 1
    OBVIOUS
  <2> QED  BY <2>3, <2>4, <2>5, <2>6
<1> HIDE DEF P
<1>3. 0 \in S /\ \A n \in Nat : n \in S => n + 1 \in S
  BY <1>1, <1>2
<1>4. \A n \in Nat : n \in S
  <2> HIDE DEF S
  <2> QED  BY <1>3, NatInduct
<1>5. \A n \in Nat : P(n)
  BY <1>4
<1> QED  BY <1>5 DEF P

-------------------------------------------------------------------------------
(* Rings.                                                                     *)

\* Every node of a ball is in exactly one ring.
LEMMA RingOfBall ==
    ASSUME NEW G, NEW a, NEW n \in Nat, NEW v \in Ball(G, a, n)
    PROVE  \E m \in 0..n : v \in Ring(G, a, m)
<1> DEFINE S == {m \in Nat : v \notin Ball(G, a, m) }
<1> SUFFICES ASSUME \A m \in 0..n : v \notin Ring(G, a, m)
             PROVE  FALSE
  OBVIOUS
<1> DEFINE T == {k \in Nat : k <= n => \A m \in 0..k : v \notin Ball(G, a, m)}
<1>1. 0 \in T
  BY DEF Ring
<1>2. ASSUME NEW k \in Nat, k \in T PROVE k + 1 \in T
  <2> SUFFICES ASSUME k + 1 <= n, NEW m \in 0..(k + 1)
               PROVE  v \notin Ball(G, a, m)
    OBVIOUS
  <2>1. \A j \in 0..k : v \notin Ball(G, a, j)
    BY <1>2
  <2>2. CASE m \in 0..k
    BY <2>1, <2>2
  <2>3. CASE m = k + 1
    BY <2>1, <2>3 DEF Ring
  <2> QED  BY <2>2, <2>3
<1>3. n \in T
  <2> HIDE DEF T
  <2> QED  BY <1>1, <1>2, NatInduct
<1> QED  BY <1>3

LEMMA RingsDisjoint ==
    ASSUME NEW G, NEW a, NEW m \in Nat, NEW n \in Nat,
           NEW v, v \in Ring(G, a, m), v \in Ball(G, a, n)
    PROVE  m <= n
BY DEF Ring

LEMMA RingUnique ==
    ASSUME NEW G, NEW a, NEW m \in Nat, NEW n \in Nat,
           NEW v, v \in Ring(G, a, m), v \in Ring(G, a, n)
    PROVE  m = n
BY DEF Ring

LEMMA RingStart ==
    ASSUME NEW G, NEW a
    PROVE  Ring(G, a, 0) = {a}
BY BallStart DEF Ring

\* What one level adds to the ball, and where it is reached from.
LEMMA RingStep ==
    ASSUME NEW G, NEW a, NEW n \in Nat
    PROVE  Ring(G, a, n + 1) = Ball(G, a, n + 1) \ Ball(G, a, n)
<1>1. \A m \in 0..n : Ball(G, a, m) \subseteq Ball(G, a, n)
  BY BallMonotone
<1> QED  BY <1>1 DEF Ring

LEMMA BallGrows ==
    ASSUME NEW G, NEW a, NEW n \in Nat
    PROVE  Ball(G, a, n + 1) = Ball(G, a, n) \cup UNION {G[v] : v \in Ring(G, a, n)}
<1>1. \A m \in 0..n : Ball(G, a, m) \subseteq Ball(G, a, n)
  BY BallMonotone
<1>2. ASSUME NEW x, x \in Ball(G, a, n + 1), x \notin Ball(G, a, n)
      PROVE  \E v \in Ring(G, a, n) : x \in G[v]
  <2>1. PICK v \in Ball(G, a, n) : x \in G[v]
    BY <1>2, BallMember
  <2>2. ASSUME NEW m \in 0..(n - 1), v \in Ball(G, a, m) PROVE FALSE
    <3>1. x \in Ball(G, a, m + 1)
      BY <2>1, <2>2, BallMember
    <3>2. m + 1 \in 0..n
      OBVIOUS
    <3> QED  BY <1>1, <1>2, <3>1, <3>2
  <2> QED  BY <2>1, <2>2 DEF Ring
<1>3. \A x : (\E v \in Ring(G, a, n) : x \in G[v]) => x \in Ball(G, a, n + 1)
  BY BallMember DEF Ring
<1>4. Ball(G, a, n) \subseteq Ball(G, a, n + 1)
  BY BallMember
<1> QED  BY <1>2, <1>3, <1>4

\* Past an empty ring nothing more is reached.
LEMMA EmptyRing ==
    ASSUME NEW G, NEW a, NEW n \in Nat, Ring(G, a, n) = {}
    PROVE  \A m \in Nat : Ball(G, a, m) \subseteq Ball(G, a, n)
<1>1. Ball(G, a, n + 1) = Ball(G, a, n)
  <2>1. Ball(G, a, n + 1) = Ball(G, a, n) \cup UNION {G[v] : v \in Ring(G, a, n)}
    BY BallGrows
  <2> QED  BY <2>1
<1>2. Onward(G, Ball(G, a, n)) = Ball(G, a, n)
  BY <1>1, BallStep
<1> DEFINE P(d) == Ball(G, a, n + d) = Ball(G, a, n)
           S == {d \in Nat : P(d)}
<1>3. P(0)
  OBVIOUS
<1>4. ASSUME NEW d \in Nat, P(d) PROVE P(d + 1)
  <2>1. (n + d) + 1 = n + (d + 1) /\ n + d \in Nat
    OBVIOUS
  <2>2. Ball(G, a, (n + d) + 1) = Onward(G, Ball(G, a, n + d))
    <3> PICK e \in Nat : e = n + d
      BY <2>1
    <3>1. Ball(G, a, e + 1) = Onward(G, Ball(G, a, e))
      BY BallStep
    <3> QED  BY <3>1
  <2>3. Ball(G, a, n + d) = Ball(G, a, n)
    BY <1>4
  <2>4. Ball(G, a, n + (d + 1)) = Ball(G, a, n)
    BY <1>2, <2>1, <2>2, <2>3
  <2> QED  BY <2>4
<1> HIDE DEF P
<1>5. 0 \in S /\ \A d \in Nat : d \in S => d + 1 \in S
  BY <1>3, <1>4
<1>6. \A d \in Nat : d \in S
  <2> HIDE DEF S
  <2> QED  BY <1>5, NatInduct
<1>7. \A d \in Nat : P(d)
  BY <1>6
<1> SUFFICES ASSUME NEW m \in Nat
             PROVE  Ball(G, a, m) \subseteq Ball(G, a, n)
  OBVIOUS
<1>8. CASE m <= n
  BY <1>8, BallMonotone
<1>9. CASE n <= m
  <2>1. m - n \in Nat /\ n + (m - n) = m
    BY <1>9
  <2>2. P(m - n)
    BY <1>7, <2>1
  <2> QED  BY <2>1, <2>2 DEF P
<1> QED  BY <1>8, <1>9

-------------------------------------------------------------------------------
(* Distance, from the rings.                                                  *)

LEMMA DistanceOfRing ==
    ASSUME NEW G, NEW a, NEW v, NEW max \in Nat, NEW n \in 0..max, v \in Ring(G, a, n)
    PROVE  Distance(G, a, v, max) = n
<1> DEFINE lengths == {k \in 0..max : v \in Within(G, a, max)[k]}
<1>1. \A k \in 0..max : Within(G, a, max)[k] = Ball(G, a, k)
  BY WithinIsBall
<1>2. lengths = {k \in 0..max : v \in Ball(G, a, k)}
  BY <1>1
<1>3. n \in lengths /\ \A k \in lengths : n <= k
  BY <1>2, RingsDisjoint DEF Ring
<1>4. Distance(G, a, v, max) = Min(lengths)
  BY <1>3 DEF Distance
<1>5. \A k \in lengths : k \in Int
  OBVIOUS
<1> HIDE DEF lengths
<1>6. \A k \in lengths : (\A j \in lengths : k <= j) => k = n
  BY <1>3, <1>5
<1> QED  BY <1>3, <1>4, <1>6 DEF Min

LEMMA DistanceNone ==
    ASSUME NEW G, NEW a, NEW v, NEW max \in Nat, v \notin Ball(G, a, max)
    PROVE  Distance(G, a, v, max) = None
<1> DEFINE lengths == {k \in 0..max : v \in Within(G, a, max)[k]}
<1>1. \A k \in 0..max : Within(G, a, max)[k] = Ball(G, a, k)
  BY WithinIsBall
<1>2. \A k \in 0..max : Ball(G, a, k) \subseteq Ball(G, a, max)
  BY BallMonotone
<1>3. lengths = {}
  BY <1>1, <1>2
<1> QED  BY <1>3 DEF Distance

-------------------------------------------------------------------------------
(* Walks: the routes of n hops from a to b, with their ends.                  *)

Walk(Nodes, G, n) == {w \in [0..n -> Nodes] : \A k \in 0..(n - 1) : w[k + 1] \in G[w[k]]}
Walks(Nodes, G, a, b, n) == {w \in Walk(Nodes, G, n) : w[0] = a /\ w[n] = b}

\* Where a set of walks is after k hops.
At(W, k) == {w[k] : w \in W}

\* Along a walk, each node is as near to an earlier one as the hops between them.
LEMMA WalkStaysNear ==
    ASSUME NEW Nodes, NEW G, NEW n \in Nat, NEW w \in Walk(Nodes, G, n), NEW i \in 0..n
    PROVE  \A d \in Nat : i + d <= n => w[i + d] \in Ball(G, w[i], d)
<1> DEFINE P(d) == i + d <= n => w[i + d] \in Ball(G, w[i], d)
           S == {d \in Nat : P(d)}
<1>1. P(0)
  BY BallStart
<1>2. ASSUME NEW d \in Nat, P(d) PROVE P(d + 1)
  <2> SUFFICES ASSUME i + (d + 1) <= n
               PROVE  w[i + (d + 1)] \in Ball(G, w[i], d + 1)
    OBVIOUS
  <2>1. i + d \in 0..(n - 1) /\ (i + d) + 1 = i + (d + 1)
    OBVIOUS
  <2>2. w[i + d] \in Ball(G, w[i], d)
    BY <1>2, <2>1
  <2>3. w[(i + d) + 1] \in G[w[i + d]]
    BY <2>1 DEF Walk
  <2> QED  BY <2>1, <2>2, <2>3, BallMember
<1> HIDE DEF P
<1>3. 0 \in S /\ \A d \in Nat : d \in S => d + 1 \in S
  BY <1>1, <1>2
<1>4. \A d \in Nat : d \in S
  <2> HIDE DEF S
  <2> QED  BY <1>3, NatInduct
<1>5. \A d \in Nat : P(d)
  BY <1>4
<1> QED  BY <1>5 DEF P

\* A shortest walk meets every ring of its start, and every ring of its end.
LEMMA ShortestWalk ==
    ASSUME NEW Nodes, NEW G, IsGraph(Nodes, G), NEW H, IsGraph(Nodes, H), Mirrors(Nodes, G, H),
           NEW a \in Nodes, NEW b \in Nodes, NEW n \in Nat, b \in Ring(G, a, n),
           NEW w \in Walks(Nodes, G, a, b, n), NEW k \in 0..n
    PROVE  w[k] \in Ring(G, a, k) /\ w[k] \in Ring(H, b, n - k)
<1>1. w \in Walk(Nodes, G, n) /\ w[0] = a /\ w[n] = b /\ w[k] \in Nodes
  BY DEF Walks, Walk
<1>2. w[0 + k] \in Ball(G, w[0], k)
  BY <1>1, WalkStaysNear
<1>3. w[k + (n - k)] \in Ball(G, w[k], n - k)
  BY <1>1, WalkStaysNear
<1>4. w[k] \in Ball(G, a, k) /\ b \in Ball(G, w[k], n - k)
  BY <1>1, <1>2, <1>3
<1>5. ASSUME NEW m \in Nat, NEW j \in Nat, m + j < n, w[k] \in Ball(G, a, m), b \in Ball(G, w[k], j)
      PROVE  FALSE
  <2>1. b \in Ball(G, a, m + j)
    BY <1>5, BallSplit
  <2> QED  BY <1>5, <2>1 DEF Ring
<1>6. w[k] \in Ring(G, a, k)
  <2>1. ASSUME NEW m \in 0..(k - 1), w[k] \in Ball(G, a, m) PROVE FALSE
    BY <1>4, <1>5, <2>1
  <2> QED  BY <1>4, <2>1 DEF Ring
<1>7. w[k] \in Ball(H, b, n - k)
  BY <1>1, <1>4, BallMirror
<1>8. ASSUME NEW m \in 0..((n - k) - 1), w[k] \in Ball(H, b, m) PROVE FALSE
  <2>1. b \in Ball(G, w[k], m)
    BY <1>1, <1>8, BallMirror
  <2> QED  BY <1>4, <1>5, <2>1
<1> QED  BY <1>6, <1>7, <1>8 DEF Ring

LEMMA WalkExists ==
    ASSUME NEW Nodes, NEW G, IsGraph(Nodes, G), NEW a \in Nodes
    PROVE  \A n \in Nat : \A b \in Ring(G, a, n) : Walks(Nodes, G, a, b, n) # {}
<1> DEFINE P(n) == \A b \in Ring(G, a, n) : Walks(Nodes, G, a, b, n) # {}
           S == {n \in Nat : P(n)}
<1>1. P(0)
  <2> SUFFICES ASSUME NEW b \in Ring(G, a, 0) PROVE \E w : w \in Walks(Nodes, G, a, b, 0)
    OBVIOUS
  <2>1. b = a
    BY RingStart
  <2>2. [k \in 0..0 |-> a] \in Walks(Nodes, G, a, b, 0)
    BY <2>1 DEF Walks, Walk
  <2> QED  BY <2>2
<1>2. ASSUME NEW n \in Nat, P(n) PROVE P(n + 1)
  <2> SUFFICES ASSUME NEW b \in Ring(G, a, n + 1)
               PROVE  \E w : w \in Walks(Nodes, G, a, b, n + 1)
    OBVIOUS
  <2>1. PICK u \in Ring(G, a, n) : b \in G[u]
    <3>1. Ring(G, a, n + 1) = Ball(G, a, n + 1) \ Ball(G, a, n)
      BY RingStep
    <3>2. Ball(G, a, n + 1) = Ball(G, a, n) \cup UNION {G[v] : v \in Ring(G, a, n)}
      BY BallGrows
    <3> QED  BY <3>1, <3>2
  <2>2. PICK w : w \in Walks(Nodes, G, a, u, n)
    BY <1>2
  <2>3. b \in Nodes
    BY BallType, n + 1 \in Nat DEF Ring
  <2> DEFINE x == [k \in 0..(n + 1) |-> IF k <= n THEN w[k] ELSE b]
  <2>4. w \in [0..n -> Nodes] /\ w[0] = a /\ w[n] = u /\ \A k \in 0..(n - 1) : w[k + 1] \in G[w[k]]
    BY <2>2 DEF Walks, Walk
  <2>5. x \in [0..(n + 1) -> Nodes] /\ x[0] = a /\ x[n + 1] = b
    BY <2>3, <2>4
  <2>6. ASSUME NEW k \in 0..((n + 1) - 1) PROVE x[k + 1] \in G[x[k]]
    <3>1. CASE k = n
      BY <2>1, <2>4, <3>1
    <3>2. CASE k # n
      <4>1. k \in 0..(n - 1) /\ x[k] = w[k] /\ x[k + 1] = w[k + 1]
        BY <3>2
      <4> QED  BY <2>4, <4>1
    <3> QED  BY <3>1, <3>2
  <2>7. x \in Walks(Nodes, G, a, b, n + 1)
    <3> HIDE DEF x
    <3> QED  BY <2>5, <2>6 DEF Walks, Walk
  <2> QED  BY <2>7, Zenon
<1> HIDE DEF P
<1>3. 0 \in S /\ \A n \in Nat : n \in S => n + 1 \in S
  BY <1>1, <1>2
<1>4. \A n \in Nat : n \in S
  <2> HIDE DEF S
  <2> QED  BY <1>3, NatInduct
<1>5. \A n \in Nat : P(n)
  BY <1>4
<1> QED  BY <1>5 DEF P

LEMMA WalksFinite ==
    ASSUME NEW Nodes, IsFiniteSet(Nodes)
    PROVE  \A n \in Nat : \A G, a, b : IsFiniteSet(Walks(Nodes, G, a, b, n))
<1> DEFINE P(n) == IsFiniteSet([0..n -> Nodes])
           S == {n \in Nat : P(n)}
<1>1. P(0)
  <2> DEFINE F == [v \in Nodes |-> [k \in 0..0 |-> v]]
  <2>1. ASSUME NEW w \in [0..0 -> Nodes] PROVE \E v \in Nodes : F[v] = w
    <3>1. w[0] \in Nodes /\ F[w[0]] = w
      OBVIOUS
    <3> QED  BY <3>1
  <2>2. F \in Surjection(Nodes, [0..0 -> Nodes])
    BY <2>1 DEF Surjection
  <2> QED  BY <2>2, FS_Surjection
<1>2. ASSUME NEW n \in Nat, P(n) PROVE P(n + 1)
  <2> DEFINE F == [p \in [0..n -> Nodes] \X Nodes |->
                     [k \in 0..(n + 1) |-> IF k <= n THEN p[1][k] ELSE p[2]]]
  <2>1. ASSUME NEW w \in [0..(n + 1) -> Nodes]
        PROVE  \E p \in [0..n -> Nodes] \X Nodes : F[p] = w
    <3> DEFINE v == [k \in 0..n |-> w[k]]
    <3>1. v \in [0..n -> Nodes] /\ w[n + 1] \in Nodes
      OBVIOUS
    <3>2. F[<<v, w[n + 1]>>] = w
      BY <3>1
    <3> QED  BY <3>1, <3>2
  <2>2. F \in [[0..n -> Nodes] \X Nodes -> [0..(n + 1) -> Nodes]]
    OBVIOUS
  <2>3. F \in Surjection([0..n -> Nodes] \X Nodes, [0..(n + 1) -> Nodes])
    <3> HIDE DEF F
    <3> QED  BY <2>1, <2>2 DEF Surjection
  <2>4. IsFiniteSet([0..n -> Nodes] \X Nodes)
    BY <1>2, FS_Product
  <2> QED  BY <2>3, <2>4, FS_Surjection
<1> HIDE DEF P
<1>3. 0 \in S /\ \A n \in Nat : n \in S => n + 1 \in S
  BY <1>1, <1>2
<1>4. \A n \in Nat : n \in S
  <2> HIDE DEF S
  <2> QED  BY <1>3, NatInduct
<1>5. \A n \in Nat : P(n)
  BY <1>4
<1> SUFFICES ASSUME NEW n \in Nat, NEW G, NEW a, NEW b
             PROVE  IsFiniteSet(Walks(Nodes, G, a, b, n))
  OBVIOUS
<1>6. Walks(Nodes, G, a, b, n) \in SUBSET [0..n -> Nodes]
  BY DEF Walks, Walk
<1> QED  BY <1>5, <1>6, FS_Subset DEF P

\* The walks that take the edge from x to y as their hop p + 1: any walk to x,
\* then any walk from y.
Through(Nodes, G, a, b, n, p, x, y) == {w \in Walks(Nodes, G, a, b, n) : w[p] = x /\ w[p + 1] = y}

LEMMA WalksThrough ==
    ASSUME NEW Nodes, IsFiniteSet(Nodes), NEW G, NEW a, NEW b, NEW x, NEW y,
           NEW p \in Nat, NEW q \in Nat, y \in G[x]
    PROVE  Cardinality(Through(Nodes, G, a, b, p + q + 1, p, x, y))
             = Cardinality(Walks(Nodes, G, a, x, p)) * Cardinality(Walks(Nodes, G, y, b, q))
<1> DEFINE A == Walks(Nodes, G, a, x, p)
           B == Walks(Nodes, G, y, b, q)
           T == Through(Nodes, G, a, b, p + q + 1, p, x, y)
           F == [s \in A \X B |-> [k \in 0..(p + q + 1) |->
                                     IF k <= p THEN s[1][k] ELSE s[2][k - p - 1]]]
<1>1. \A u : u \in A <=> /\ u \in [0..p -> Nodes] /\ u[0] = a /\ u[p] = x
                         /\ \A k \in 0..(p - 1) : u[k + 1] \in G[u[k]]
  BY DEF Walks, Walk
<1>2. \A u : u \in B <=> /\ u \in [0..q -> Nodes] /\ u[0] = y /\ u[q] = b
                         /\ \A k \in 0..(q - 1) : u[k + 1] \in G[u[k]]
  BY DEF Walks, Walk
<1>3. \A u : u \in T <=> /\ u \in [0..(p + q + 1) -> Nodes] /\ u[0] = a /\ u[p + q + 1] = b
                         /\ \A k \in 0..(p + q) : u[k + 1] \in G[u[k]]
                         /\ u[p] = x /\ u[p + 1] = y
  <2>1. (p + q + 1) - 1 = p + q
    OBVIOUS
  <2> QED  BY <2>1 DEF Through, Walks, Walk
<1> HIDE DEF A, B, T
<1>4. ASSUME NEW s \in A \X B PROVE F[s] \in T
  <2> DEFINE u == s[1]
             v == s[2]
             w == [k \in 0..(p + q + 1) |-> IF k <= p THEN u[k] ELSE v[k - p - 1]]
  <2>1. F[s] = w
    OBVIOUS
  <2>2. /\ u \in [0..p -> Nodes] /\ u[0] = a /\ u[p] = x
        /\ \A k \in 0..(p - 1) : u[k + 1] \in G[u[k]]
    BY <1>1
  <2>3. /\ v \in [0..q -> Nodes] /\ v[0] = y /\ v[q] = b
        /\ \A k \in 0..(q - 1) : v[k + 1] \in G[v[k]]
    BY <1>2
  <2> HIDE DEF u, v
  <2>4. \A k \in (p + 1)..(p + q + 1) : k - p - 1 \in 0..q
    OBVIOUS
  <2>5. w \in [0..(p + q + 1) -> Nodes]
    BY <2>2, <2>3, <2>4
  <2>6. w[0] = a /\ w[p] = x
    BY <2>2
  <2>7. w[p + 1] = y /\ w[p + q + 1] = b
    <3>1. /\ (p + 1) - p - 1 = 0 /\ (p + q + 1) - p - 1 = q
          /\ p + 1 \in 0..(p + q + 1) /\ p + q + 1 \in 0..(p + q + 1)
          /\ ~(p + 1 <= p) /\ ~(p + q + 1 <= p)
      OBVIOUS
    <3>2. w[p + 1] = v[0]
      BY <3>1
    <3>3. w[p + q + 1] = v[q]
      BY <3>1
    <3> QED  BY <2>3, <3>2, <3>3
  <2>8. ASSUME NEW k \in 0..(p + q) PROVE w[k + 1] \in G[w[k]]
    <3>1. CASE k < p
      <4>1. k \in 0..(p - 1) /\ w[k] = u[k] /\ w[k + 1] = u[k + 1]
        BY <3>1
      <4> QED  BY <2>2, <4>1
    <3>2. CASE k = p
      BY <2>6, <2>7, <3>2
    <3>3. CASE k > p
      <4>1. k - p - 1 \in 0..(q - 1) /\ (k + 1) - p - 1 = (k - p - 1) + 1
        BY <3>3
      <4>2. w[k] = v[k - p - 1] /\ w[k + 1] = v[(k - p - 1) + 1]
        BY <3>3, <4>1
      <4> QED  BY <2>3, <4>1, <4>2
    <3> QED  BY <3>1, <3>2, <3>3
  <2> HIDE DEF w
  <2> QED  BY <1>3, <2>1, <2>5, <2>6, <2>7, <2>8
<1>5. ASSUME NEW s \in A \X B, NEW t \in A \X B, F[s] = F[t] PROVE s = t
  <2>1. /\ s[1] \in [0..p -> Nodes] /\ t[1] \in [0..p -> Nodes]
        /\ s[2] \in [0..q -> Nodes] /\ t[2] \in [0..q -> Nodes]
    BY <1>1, <1>2
  <2>2. \A k \in 0..p : s[1][k] = F[s][k] /\ t[1][k] = F[t][k]
    OBVIOUS
  <2>3. ASSUME NEW k \in 0..q PROVE s[2][k] = F[s][k + p + 1] /\ t[2][k] = F[t][k + p + 1]
    <3>1. k + p + 1 \in 0..(p + q + 1) /\ ~(k + p + 1 <= p) /\ (k + p + 1) - p - 1 = k
      OBVIOUS
    <3> QED  BY <3>1
  <2> HIDE DEF F
  <2>4. s[1] = t[1]
    BY <1>5, <2>1, <2>2
  <2>5. s[2] = t[2]
    BY <1>5, <2>1, <2>3
  <2> QED  BY <2>4, <2>5
<1>6. ASSUME NEW w \in T PROVE \E s \in A \X B : F[s] = w
  <2> DEFINE u == [k \in 0..p |-> w[k]]
             v == [k \in 0..q |-> w[k + p + 1]]
  <2>1. /\ w \in [0..(p + q + 1) -> Nodes] /\ w[0] = a /\ w[p + q + 1] = b
        /\ \A k \in 0..(p + q) : w[k + 1] \in G[w[k]]
        /\ w[p] = x /\ w[p + 1] = y
    BY <1>3
  <2>2. u \in A
    <3>1. u \in [0..p -> Nodes] /\ u[0] = a /\ u[p] = x
      BY <2>1
    <3>2. ASSUME NEW k \in 0..(p - 1) PROVE u[k + 1] \in G[u[k]]
      <4>1. u[k] = w[k] /\ u[k + 1] = w[k + 1] /\ k \in 0..(p + q)
        OBVIOUS
      <4> QED  BY <2>1, <4>1
    <3> HIDE DEF u
    <3> QED  BY <1>1, <3>1, <3>2
  <2>3. v \in B
    <3>1. \A k \in 0..q : k + p + 1 \in 0..(p + q + 1)
      OBVIOUS
    <3>2. v \in [0..q -> Nodes]
      BY <2>1, <3>1
    <3>3. v[0] = y /\ v[q] = b
      <4>1. 0 + p + 1 = p + 1 /\ q + p + 1 = p + q + 1
        OBVIOUS
      <4> QED  BY <2>1, <4>1
    <3>4. ASSUME NEW k \in 0..(q - 1) PROVE v[k + 1] \in G[v[k]]
      <4>1. (k + 1) + p + 1 = (k + p + 1) + 1 /\ k + p + 1 \in 0..(p + q) /\ k \in 0..q /\ k + 1 \in 0..q
        OBVIOUS
      <4>2. v[k] = w[k + p + 1] /\ v[k + 1] = w[(k + p + 1) + 1]
        BY <4>1
      <4> QED  BY <2>1, <4>1, <4>2
    <3> HIDE DEF v
    <3> QED  BY <1>2, <3>2, <3>3, <3>4
  <2>4. ASSUME NEW k \in 0..(p + q + 1) PROVE F[<<u, v>>][k] = w[k]
    <3>1. F[<<u, v>>] = [j \in 0..(p + q + 1) |-> IF j <= p THEN u[j] ELSE v[j - p - 1]]
      <4> HIDE DEF u, v
      <4> QED  BY <2>2, <2>3
    <3>2. CASE k <= p
      <4>1. u[k] = w[k]
        BY <3>2
      <4> HIDE DEF F, u, v
      <4> QED  BY <3>1, <3>2, <4>1
    <3>3. CASE k > p
      <4>1. k - p - 1 \in 0..q /\ (k - p - 1) + p + 1 = k
        BY <3>3
      <4>2. v[k - p - 1] = w[k]
        BY <4>1
      <4> HIDE DEF v, F
      <4> QED  BY <3>1, <3>3, <4>2
    <3> QED  BY <3>2, <3>3
  <2>5. F[<<u, v>>] \in [0..(p + q + 1) -> Nodes]
    <3> HIDE DEF F, u, v
    <3>1. <<u, v>> \in A \X B
      BY <2>2, <2>3
    <3> QED  BY <1>3, <1>4, <3>1
  <2>6. F[<<u, v>>] = w
    <3> DEFINE D == 0..(p + q + 1)
               f == F[<<u, v>>]
    <3>1. w \in [D -> Nodes] /\ f \in [D -> Nodes] /\ \A k \in D : f[k] = w[k]
      <4> HIDE DEF F, u, v
      <4> QED  BY <2>1, <2>4, <2>5
    <3> HIDE DEF F, u, v, D, f
    <3>2. f = w
      BY <3>1, SameFunction
    <3> QED  BY <3>2 DEF f
  <2> HIDE DEF F, u, v
  <2> QED  BY <2>2, <2>3, <2>6
<1>7. F \in [A \X B -> T]
  <2>1. DOMAIN F = A \X B /\ F = [s \in A \X B |-> F[s]]
    OBVIOUS
  <2> HIDE DEF F
  <2> QED  BY <1>4, <2>1
<1>8. IsFiniteSet(A) /\ IsFiniteSet(B)
  BY WalksFinite DEF A, B
<1>9. Cardinality(T) = Cardinality(A \X B)
  <2> HIDE DEF F
  <2>1. IsFiniteSet(A \X B)
    BY <1>8, FS_Product
  <2> QED  BY <1>5, <1>6, <1>7, <2>1, SameCount
<1>10. Cardinality(A \X B) = Cardinality(A) * Cardinality(B)
  BY <1>8, FS_Product
<1> QED  BY <1>9, <1>10 DEF A, B, T

Reversed(w, n) == [k \in 0..n |-> w[n - k]]

\* A walk, reversed, is a walk of the mirrored graph.
LEMMA WalkReversed ==
    ASSUME NEW Nodes, NEW G, NEW H, Mirrors(Nodes, G, H), NEW a, NEW b, NEW n \in Nat,
           NEW w \in Walks(Nodes, G, a, b, n)
    PROVE  /\ Reversed(w, n) \in Walks(Nodes, H, b, a, n)
           /\ Reversed(Reversed(w, n), n) = w
           /\ \A k \in 0..n : Reversed(w, n)[k] = w[n - k]
<1> DEFINE r == Reversed(w, n)
<1>1. /\ w \in [0..n -> Nodes] /\ w[0] = a /\ w[n] = b
      /\ \A k \in 0..(n - 1) : w[k + 1] \in G[w[k]]
  BY DEF Walks, Walk
<1>2. \A k \in 0..n : n - k \in 0..n /\ n - (n - k) = k
  OBVIOUS
<1>3. \A k \in 0..(n - 1) : n - (k + 1) \in 0..(n - 1) /\ (n - (k + 1)) + 1 = n - k
  OBVIOUS
<1>4. \A k \in 0..(n - 1) : k \in 0..n /\ k + 1 \in 0..n
  OBVIOUS
<1>5. r = [k \in 0..n |-> w[n - k]]
  BY DEF Reversed
<1> HIDE DEF r
<1>6. r \in [0..n -> Nodes] /\ r[0] = b /\ r[n] = a /\ \A k \in 0..n : r[k] = w[n - k]
  BY <1>1, <1>2, <1>5
<1>7. ASSUME NEW k \in 0..(n - 1) PROVE r[k + 1] \in H[r[k]]
  <2>1. r[k + 1] = w[n - (k + 1)] /\ r[k] = w[(n - (k + 1)) + 1]
    BY <1>3, <1>4, <1>6
  <2>2. r[k] \in G[r[k + 1]] /\ r[k] \in Nodes /\ r[k + 1] \in Nodes
    BY <1>1, <1>3, <1>4, <1>6, <2>1
  <2> QED  BY <2>2 DEF Mirrors
<1>8. r \in Walks(Nodes, H, b, a, n)
  BY <1>6, <1>7 DEF Walks, Walk
<1>9. Reversed(r, n) = w
  <2>1. Reversed(r, n) = [k \in 0..n |-> r[n - k]]
    BY DEF Reversed
  <2>2. \A k \in 0..n : Reversed(r, n)[k] = w[k]
    BY <1>2, <1>6, <2>1
  <2>3. Reversed(r, n) \in [0..n -> Nodes]
    BY <1>2, <1>6, <2>1
  <2> QED  BY <1>1, <2>2, <2>3, SameFunction
<1> QED  BY <1>6, <1>8, <1>9 DEF r

LEMMA WalksMirrored ==
    ASSUME NEW Nodes, IsFiniteSet(Nodes), NEW G, NEW H, Mirrors(Nodes, G, H), NEW a, NEW b, NEW n \in Nat
    PROVE  /\ Cardinality(Walks(Nodes, H, b, a, n)) = Cardinality(Walks(Nodes, G, a, b, n))
           /\ \A k \in 0..n : At(Walks(Nodes, H, b, a, n), k) = At(Walks(Nodes, G, a, b, n), n - k)
<1> DEFINE A == Walks(Nodes, G, a, b, n)
           B == Walks(Nodes, H, b, a, n)
           F == [w \in A |-> Reversed(w, n)]
<1>1. Mirrors(Nodes, H, G)
  BY DEF Mirrors
<1>2. \A w \in A : /\ Reversed(w, n) \in B /\ Reversed(Reversed(w, n), n) = w
                   /\ \A k \in 0..n : Reversed(w, n)[k] = w[n - k]
  BY WalkReversed
<1>3. \A w \in B : /\ Reversed(w, n) \in A /\ Reversed(Reversed(w, n), n) = w
                   /\ \A k \in 0..n : Reversed(w, n)[k] = w[n - k]
  BY <1>1, WalkReversed
<1>4. IsFiniteSet(A)
  BY WalksFinite
<1> HIDE DEF A, B
<1>5. F \in [A -> B] /\ \A w \in A : F[w] = Reversed(w, n)
  BY <1>2
<1> HIDE DEF F
<1>6. \A s, t \in A : F[s] = F[t] => s = t
  BY <1>2, <1>5
<1>7. \A w \in B : \E s \in A : F[s] = w
  BY <1>3, <1>5
<1>8. Cardinality(B) = Cardinality(A)
  BY <1>4, <1>5, <1>6, <1>7, SameCount
<1>9. ASSUME NEW k \in 0..n PROVE At(B, k) = At(A, n - k)
  <2>1. n - k \in 0..n /\ n - (n - k) = k
    OBVIOUS
  <2>2. ASSUME NEW w \in B PROVE w[k] \in {x[n - k] : x \in A}
    <3>1. Reversed(w, n) \in A /\ Reversed(w, n)[n - k] = w[n - (n - k)]
      BY <1>3, <2>1
    <3> QED  BY <2>1, <3>1
  <2>3. ASSUME NEW w \in A PROVE w[n - k] \in {x[k] : x \in B}
    <3>1. Reversed(w, n) \in B /\ Reversed(w, n)[k] = w[n - k]
      BY <1>2
    <3> QED  BY <3>1
  <2> QED  BY <2>2, <2>3 DEF At
<1> QED  BY <1>8, <1>9 DEF A, B

-------------------------------------------------------------------------------
(* Routes are walks without their ends.                                       *)

Full(route, a, b, n) == [k \in 0..n |-> Stop(route, a, b, k)]

LEMMA RouteOfWalk ==
    ASSUME NEW Nodes, NEW G, IsGraph(Nodes, G), NEW a \in Nodes, NEW b \in Nodes, NEW n \in Nat \ {0},
           NEW r \in [1..(n - 1) -> Nodes]
    PROVE  /\ r \in RoutesOf(G, a, b, n) <=> Full(r, a, b, n) \in Walks(Nodes, G, a, b, n)
           /\ \A k \in 1..(n - 1) : Full(r, a, b, n)[k] = r[k]
<1>1. Len(r) = n - 1
  <2>1. n - 1 \in Nat
    OBVIOUS
  <2>2. r \in Seq(Nodes)
    BY <2>1, SeqDef
  <2>3. DOMAIN r = 1..(n - 1) /\ Len(r) \in Nat /\ DOMAIN r = 1..Len(r)
    BY <2>2, LenProperties
  <2> QED  BY <2>1, <2>3
<1>2. \A k \in 0..n : Stop(r, a, b, k) = IF k = 0 THEN a ELSE IF k > n - 1 THEN b ELSE r[k]
  BY <1>1 DEF Stop
<1>3. \A k \in 0..n : Stop(r, a, b, k) \in Nodes
  BY <1>2
<1> DEFINE w == [k \in 0..n |-> Stop(r, a, b, k)]
<1>4. w \in [0..n -> Nodes] /\ w[0] = a /\ w[n] = b /\ \A k \in 1..(n - 1) : w[k] = r[k]
  BY <1>2, <1>3
<1>5. r \in RoutesOf(G, a, b, n) <=> \A k \in 0..(n - 1) : Stop(r, a, b, k + 1) \in G[Stop(r, a, b, k)]
  BY <1>1 DEF RoutesOf, IsRoute, IsGraph
<1>6. \A k \in 0..(n - 1) : w[k] = Stop(r, a, b, k) /\ w[k + 1] = Stop(r, a, b, k + 1)
  OBVIOUS
<1>7. Full(r, a, b, n) = w
  BY DEF Full
<1> HIDE DEF w
<1>8. w \in Walks(Nodes, G, a, b, n) <=> \A k \in 0..(n - 1) : w[k + 1] \in G[w[k]]
  BY <1>4 DEF Walks, Walk
<1> QED  BY <1>4, <1>5, <1>6, <1>7, <1>8

LEMMA WalkOfRoute ==
    ASSUME NEW Nodes, NEW G, IsGraph(Nodes, G), NEW a \in Nodes, NEW b \in Nodes, NEW n \in Nat \ {0},
           NEW w \in Walks(Nodes, G, a, b, n)
    PROVE  \E r \in RoutesOf(G, a, b, n) : Full(r, a, b, n) = w
<1> DEFINE r == [k \in 1..(n - 1) |-> w[k]]
           f == Full(r, a, b, n)
<1>1. w \in [0..n -> Nodes] /\ w[0] = a /\ w[n] = b
  BY DEF Walks, Walk
<1>2. r \in [1..(n - 1) -> Nodes]
  BY <1>1
<1>3. \A k \in 1..(n - 1) : r[k] = w[k]
  OBVIOUS
<1> HIDE DEF r
<1>4. \A k \in 1..(n - 1) : f[k] = w[k]
  BY <1>2, <1>3, RouteOfWalk
<1>5. Len(r) = n - 1
  <2>1. n - 1 \in Nat
    OBVIOUS
  <2>2. r \in Seq(Nodes)
    BY <1>2, <2>1, SeqDef
  <2>3. DOMAIN r = 1..(n - 1) /\ Len(r) \in Nat /\ DOMAIN r = 1..Len(r)
    BY <1>2, <2>2, LenProperties
  <2> QED  BY <2>1, <2>3
<1>6. f[0] = a /\ f[n] = b /\ f = [k \in 0..n |-> f[k]]
  BY <1>5 DEF Stop, Full
<1> HIDE DEF f
<1>7. \A k \in 0..n : f[k] = w[k]
  <2> SUFFICES ASSUME NEW k \in 0..n PROVE f[k] = w[k]
    OBVIOUS
  <2>1. k = 0 \/ k = n \/ k \in 1..(n - 1)
    OBVIOUS
  <2> QED  BY <1>1, <1>4, <1>6, <2>1
<1>8. f \in [0..n -> Nodes]
  BY <1>1, <1>6, <1>7
<1>9. f = w
  BY <1>1, <1>7, <1>8, SameFunction
<1>10. r \in RoutesOf(G, a, b, n)
  BY <1>2, <1>9, RouteOfWalk DEF f
<1> QED  BY <1>9, <1>10 DEF f

Layer(G, a, b, n, k) == {Stop(r, a, b, k) : r \in RoutesOf(G, a, b, n)}

LEMMA RoutesAreWalks ==
    ASSUME NEW Nodes, IsFiniteSet(Nodes), NEW G, IsGraph(Nodes, G), NEW a \in Nodes, NEW b \in Nodes,
           NEW n \in Nat \ {0}
    PROVE  /\ IsFiniteSet(RoutesOf(G, a, b, n))
           /\ Cardinality(RoutesOf(G, a, b, n)) = Cardinality(Walks(Nodes, G, a, b, n))
           /\ \A k \in 0..n : Layer(G, a, b, n, k) = At(Walks(Nodes, G, a, b, n), k)
<1> DEFINE A == Walks(Nodes, G, a, b, n)
           B == RoutesOf(G, a, b, n)
           F == [w \in A |-> CHOOSE r \in B : Full(r, a, b, n) = w]
<1>1. \A w \in A : F[w] \in B /\ Full(F[w], a, b, n) = w
  BY WalkOfRoute
<1>2. \A r \in B : r \in [1..(n - 1) -> Nodes]
  BY DEF RoutesOf, IsGraph
<1>3. \A r \in B : Full(r, a, b, n) \in A
  BY <1>2, RouteOfWalk
<1>4. ASSUME NEW r \in B, NEW s \in B, Full(r, a, b, n) = Full(s, a, b, n) PROVE r = s
  <2>1. r \in [1..(n - 1) -> Nodes] /\ s \in [1..(n - 1) -> Nodes]
    BY <1>2
  <2>2. \A k \in 1..(n - 1) : Full(r, a, b, n)[k] = r[k]
    BY <2>1, RouteOfWalk
  <2>3. \A k \in 1..(n - 1) : Full(s, a, b, n)[k] = s[k]
    BY <2>1, RouteOfWalk
  <2>4. \A k \in 1..(n - 1) : r[k] = s[k]
    BY <1>4, <2>2, <2>3
  <2> QED  BY <2>1, <2>4, SameFunction
<1>5. F \in [A -> B]
  <2>1. DOMAIN F = A /\ F = [s \in A |-> F[s]]
    OBVIOUS
  <2> HIDE DEF F
  <2> QED  BY <1>1, <2>1
<1> HIDE DEF A, B, F
<1>6. \A s, t \in A : F[s] = F[t] => s = t
  BY <1>1
<1>7. \A r \in B : \E w \in A : F[w] = r
  BY <1>1, <1>3, <1>4
<1>8. IsFiniteSet(A)
  BY WalksFinite DEF A
<1>9. IsFiniteSet(B) /\ Cardinality(B) = Cardinality(A)
  BY <1>5, <1>6, <1>7, <1>8, SameCount
<1>10. ASSUME NEW k \in 0..n PROVE Layer(G, a, b, n, k) = At(A, k)
  <2>1. \A r : Full(r, a, b, n)[k] = Stop(r, a, b, k)
    BY DEF Full
  <2>2. ASSUME NEW r \in B PROVE Stop(r, a, b, k) \in {w[k] : w \in A}
    BY <1>3, <2>1
  <2>3. ASSUME NEW w \in A PROVE w[k] \in {Stop(r, a, b, k) : r \in B}
    <3>1. w[k] = Stop(F[w], a, b, k)
      BY <1>1, <2>1
    <3> QED  BY <1>1, <3>1
  <2>4. Layer(G, a, b, n, k) = {Stop(r, a, b, k) : r \in B}
    BY DEF Layer, B
  <2> QED  BY <2>2, <2>3, <2>4 DEF At
<1> QED  BY <1>9, <1>10 DEF A, B


-------------------------------------------------------------------------------
(* compute_distance: the sums of a level. *)


\* The element the folds of the library take next.
Pick(s) == CHOOSE x \in s : TRUE

\* The equation the recursive function inside a fold over w solves.
IsFold(D, w, it) == it = [s \in D |-> IF s = {} THEN 0 ELSE w[Pick(s)] + it[s \ {Pick(s)}]]

SumOver(w, S) == (CHOOSE it : IsFold(SUBSET S, w, it))[S]

LEMMA RoutesThroughSum ==
    ASSUME NEW visited, NEW S
    PROVE  RoutesThrough(visited, S) = Saturated(SumOver([n \in S |-> visited[n].paths], S))
<1> DEFINE w == [n \in S |-> visited[n].paths]
           Q(it) == it = [s \in SUBSET S |-> IF s = {} THEN 0
                            ELSE visited[Pick(s)].paths + it[s \ {Pick(s)}]]
<1>1. ASSUME NEW it PROVE Q(it) <=> IsFold(SUBSET S, w, it)
  <2>1. ASSUME NEW s \in SUBSET S, s # {} PROVE visited[Pick(s)].paths = w[Pick(s)]
    <3>1. Pick(s) \in S
      BY <2>1 DEF Pick
    <3> QED  BY <3>1
  <2>2. [s \in SUBSET S |-> IF s = {} THEN 0 ELSE visited[Pick(s)].paths + it[s \ {Pick(s)}]]
          = [s \in SUBSET S |-> IF s = {} THEN 0 ELSE w[Pick(s)] + it[s \ {Pick(s)}]]
    <3> HIDE DEF w
    <3> QED  BY <2>1
  <2> QED  BY <2>2, Zenon DEF IsFold
<1>2. (CHOOSE it : Q(it)) = (CHOOSE it : IsFold(SUBSET S, w, it))
  <2> HIDE DEF Q
  <2> QED  BY <1>1, Zenon
<1>3. RoutesThrough(visited, S) = Saturated((CHOOSE it : Q(it))[S])
  BY DEF RoutesThrough, MapThenSumSet, MapThenFoldSet, Pick
<1> QED  BY <1>2, <1>3, Zenon DEF SumOver

LEMMA SumOfRoutes ==
    ASSUME NEW S
    PROVE  MapThenSumSet(LAMBDA m : Saturated(m.here * m.there), S)
              = SumOver([m \in S |-> Saturated(m.here * m.there)], S)
<1> DEFINE w == [m \in S |-> Saturated(m.here * m.there)]
           Q(it) == it = [s \in SUBSET S |-> IF s = {} THEN 0
                            ELSE Saturated(Pick(s).here * Pick(s).there) + it[s \ {Pick(s)}]]
<1>1. ASSUME NEW it PROVE Q(it) <=> IsFold(SUBSET S, w, it)
  <2>1. ASSUME NEW s \in SUBSET S, s # {}
        PROVE  Saturated(Pick(s).here * Pick(s).there) = w[Pick(s)]
    <3>1. Pick(s) \in S
      BY <2>1 DEF Pick
    <3> QED  BY <3>1
  <2>2. [s \in SUBSET S |-> IF s = {} THEN 0
            ELSE Saturated(Pick(s).here * Pick(s).there) + it[s \ {Pick(s)}]]
          = [s \in SUBSET S |-> IF s = {} THEN 0 ELSE w[Pick(s)] + it[s \ {Pick(s)}]]
    <3> HIDE DEF w
    <3> QED  BY <2>1
  <2> QED  BY <2>2, Zenon DEF IsFold
<1>2. (CHOOSE it : Q(it)) = (CHOOSE it : IsFold(SUBSET S, w, it))
  <2> HIDE DEF Q
  <2> QED  BY <1>1, Zenon
<1>3. MapThenSumSet(LAMBDA m : Saturated(m.here * m.there), S) = (CHOOSE it : Q(it))[S]
  BY DEF MapThenSumSet, MapThenFoldSet, Pick
<1> QED  BY <1>2, <1>3, Zenon DEF SumOver

\* The subsets of S with up to n elements, over which a fold is built up.
Small(S, n) == {s \in SUBSET S : Cardinality(s) <= n}

LEMMA FoldValues ==
    ASSUME NEW D, NEW w, NEW it, IsFold(D, w, it)
    PROVE  \A s \in D : it[s] = IF s = {} THEN 0 ELSE w[Pick(s)] + it[s \ {Pick(s)}]
<1> DEFINE E == [s \in D |-> IF s = {} THEN 0 ELSE w[Pick(s)] + it[s \ {Pick(s)}]]
<1>1. it = E
  BY Zenon DEF IsFold
<1>2. \A s \in D : E[s] = IF s = {} THEN 0 ELSE w[Pick(s)] + it[s \ {Pick(s)}]
  BY Zenon
<1> QED  BY <1>1, <1>2, Zenon

LEMMA FoldExists ==
    ASSUME NEW S, IsFiniteSet(S), NEW w
    PROVE  \A n \in Nat : \E it : IsFold(Small(S, n), w, it)
<1> DEFINE P(n) == \E it : IsFold(Small(S, n), w, it)
           T == {n \in Nat : P(n)}
<1>1. P(0)
  <2> DEFINE it == [s \in Small(S, 0) |-> 0]
             E == [s \in Small(S, 0) |-> IF s = {} THEN 0 ELSE w[Pick(s)] + it[s \ {Pick(s)}]]
  <2>1. \A s \in Small(S, 0) : s = {}
    BY FS_Subset, FS_EmptySet, FS_CardinalityType DEF Small
  <2>2. it = E
    BY <2>1
  <2>3. IsFold(Small(S, 0), w, it)
    BY <2>2, Zenon DEF IsFold
  <2> QED  BY <2>3, Zenon
<1>2. ASSUME NEW n \in Nat, P(n) PROVE P(n + 1)
  <2>1. PICK it : IsFold(Small(S, n), w, it)
    BY <1>2
  <2> DEFINE V == [s \in Small(S, n + 1) |-> IF s = {} THEN 0 ELSE w[Pick(s)] + it[s \ {Pick(s)}]]
             E == [s \in Small(S, n + 1) |-> IF s = {} THEN 0 ELSE w[Pick(s)] + V[s \ {Pick(s)}]]
  <2>2. \A s \in Small(S, n) : it[s] = IF s = {} THEN 0 ELSE w[Pick(s)] + it[s \ {Pick(s)}]
    BY <2>1, FoldValues
  <2>3. Small(S, n) \subseteq Small(S, n + 1)
    BY FS_Subset, FS_CardinalityType DEF Small
  <2>4. \A s \in Small(S, n) : V[s] = it[s]
    BY <2>2, <2>3
  <2>5. ASSUME NEW s \in Small(S, n + 1), s # {} PROVE s \ {Pick(s)} \in Small(S, n)
    <3>1. Pick(s) \in s /\ s \in SUBSET S /\ Cardinality(s) <= n + 1
      BY <2>5 DEF Pick, Small
    <3>2. IsFiniteSet(s) /\ Cardinality(s) \in Nat
      BY <3>1, FS_Subset, FS_CardinalityType
    <3>3. Cardinality(s \ {Pick(s)}) = Cardinality(s) - 1
      BY <3>1, <3>2, FS_RemoveElement
    <3> QED  BY <3>1, <3>2, <3>3 DEF Small
  <2>6. \A s \in Small(S, n + 1) : s # {} => V[s \ {Pick(s)}] = it[s \ {Pick(s)}]
    <3> HIDE DEF V
    <3> QED  BY <2>4, <2>5
  <2>7. E = V
    <3>1. ASSUME NEW s \in Small(S, n + 1) PROVE E[s] = V[s]
      <4>1. CASE s = {}
        BY <4>1, Zenon
      <4>2. CASE s # {}
        <5>1. V[s] = w[Pick(s)] + it[s \ {Pick(s)}] /\ E[s] = w[Pick(s)] + V[s \ {Pick(s)}]
          BY <4>2, Zenon
        <5> QED  BY <2>6, <4>2, <5>1, Zenon
      <4> QED  BY <4>1, <4>2
    <3> QED  BY <3>1, Zenon
  <2>8. IsFold(Small(S, n + 1), w, V)
    BY <2>7, Zenon DEF IsFold
  <2> QED  BY <2>8, Zenon
<1> HIDE DEF P
<1>3. 0 \in T /\ \A n \in Nat : n \in T => n + 1 \in T
  BY <1>1, <1>2
<1>4. \A n \in Nat : n \in T
  <2> HIDE DEF T
  <2> QED  BY <1>3, NatInduct
<1>5. \A n \in Nat : P(n)
  BY <1>4
<1> QED  BY <1>5, Zenon DEF P

LEMMA SaturatedProduct ==
    \A c, d \in Nat : Saturated(Saturated(c) * Saturated(d)) = Saturated(c * d)
<1> SUFFICES ASSUME NEW c \in Nat, NEW d \in Nat
             PROVE  Saturated(Saturated(c) * Saturated(d)) = Saturated(c * d)
  OBVIOUS
<1>1. MaxCount \in Nat /\ MaxCount >= 1
  BY MaxCountAssumption
<1>2. \A x, y, z \in Nat : x <= y => x * z <= y * z
  OBVIOUS
<1>3. CASE c <= MaxCount /\ d <= MaxCount
  BY <1>1, <1>3 DEF Saturated
<1>4. CASE c = 0 \/ d = 0
  BY <1>1, <1>4 DEF Saturated
<1>5. CASE c > MaxCount /\ d >= 1
  <2>1. Saturated(c) = MaxCount /\ Saturated(d) \in Nat /\ Saturated(d) >= 1
    BY <1>1, <1>5 DEF Saturated
  <2>2. MaxCount * Saturated(d) >= MaxCount
    BY <1>1, <2>1
  <2>3. c * d >= c
    BY <1>5
  <2>4. Saturated(MaxCount * Saturated(d)) = MaxCount
    BY <1>1, <2>1, <2>2 DEF Saturated
  <2>5. Saturated(c * d) = MaxCount
    BY <1>1, <1>5, <2>3 DEF Saturated
  <2> QED  BY <2>1, <2>4, <2>5
<1>6. CASE d > MaxCount /\ c >= 1
  <2>1. Saturated(d) = MaxCount /\ Saturated(c) \in Nat /\ Saturated(c) >= 1
    BY <1>1, <1>6 DEF Saturated
  <2>2. Saturated(c) * MaxCount >= MaxCount
    BY <1>1, <2>1
  <2>3. c * d >= d
    BY <1>6
  <2>4. Saturated(Saturated(c) * MaxCount) = MaxCount
    BY <1>1, <2>1, <2>2 DEF Saturated
  <2>5. Saturated(c * d) = MaxCount
    BY <1>1, <1>6, <2>3 DEF Saturated
  <2> QED  BY <2>1, <2>4, <2>5
<1> QED  BY <1>1, <1>3, <1>4, <1>5, <1>6

\* Saturating the terms and the sum counts a union of disjoint sets, saturated.
LEMMA SaturatedSum ==
    ASSUME NEW S, IsFiniteSet(S), NEW w, NEW R,
           \A s \in S : IsFiniteSet(R[s]) /\ w[s] = Saturated(Cardinality(R[s])),
           \A s, t \in S : s # t => R[s] \cap R[t] = {}
    PROVE  /\ SumOver(w, S) \in Nat
           /\ Saturated(SumOver(w, S)) = Saturated(Cardinality(UNION {R[s] : s \in S}))
<1> DEFINE U(T) == UNION {R[s] : s \in T}
           it == CHOOSE f : IsFold(SUBSET S, w, f)
           Good(T) == /\ IsFiniteSet(U(T)) /\ it[T] \in Nat
                      /\ Saturated(it[T]) = Saturated(Cardinality(U(T)))
<1>1. IsFold(SUBSET S, w, it)
  <2>1. Cardinality(S) \in Nat
    BY FS_CardinalityType
  <2>2. Small(S, Cardinality(S)) = SUBSET S
    BY FS_Subset DEF Small
  <2>3. \E f : IsFold(Small(S, Cardinality(S)), w, f)
    BY <2>1, FoldExists
  <2> QED  BY <2>2, <2>3, Zenon
<1> HIDE DEF it
<1>2. \A T \in SUBSET S : it[T] = IF T = {} THEN 0 ELSE w[Pick(T)] + it[T \ {Pick(T)}]
  <2> DEFINE D == SUBSET S
  <2> HIDE DEF D
  <2>1. IsFold(D, w, it)
    BY <1>1 DEF D
  <2>2. \A T \in D : it[T] = IF T = {} THEN 0 ELSE w[Pick(T)] + it[T \ {Pick(T)}]
    BY <2>1, FoldValues
  <2> QED  BY <2>2 DEF D
<1> DEFINE P(n) == \A T \in Small(S, n) : Good(T)
           N == {n \in Nat : P(n)}
<1>3. Good({})
  <2>1. it[{}] = 0 /\ U({}) = {}
    BY <1>2
  <2> HIDE DEF U
  <2> QED  BY <2>1, FS_EmptySet
<1>4. P(0)
  <2>1. \A s \in Small(S, 0) : s = {}
    BY FS_Subset, FS_EmptySet, FS_CardinalityType DEF Small
  <2> HIDE DEF Good
  <2> QED  BY <1>3, <2>1
<1>5. ASSUME NEW n \in Nat, P(n) PROVE P(n + 1)
  <2> SUFFICES ASSUME NEW T \in Small(S, n + 1) PROVE Good(T)
    OBVIOUS
  <2>1. CASE T = {}
    <3> HIDE DEF Good
    <3> QED  BY <1>3, <2>1
  <2>2. CASE T # {}
    <3> DEFINE x == Pick(T)
               T1 == T \ {x}
    <3>1. x \in T /\ T \in SUBSET S /\ Cardinality(T) <= n + 1
      BY <2>2 DEF Pick, Small
    <3>2. IsFiniteSet(T) /\ Cardinality(T) \in Nat
      BY <3>1, FS_Subset, FS_CardinalityType
    <3>3. Cardinality(T1) = Cardinality(T) - 1
      BY <3>1, <3>2, FS_RemoveElement
    <3>4. T1 \in Small(S, n)
      BY <3>1, <3>2, <3>3 DEF Small
    <3>5. it[T] = w[x] + it[T1]
      BY <1>2, <2>2, <3>1
    <3> HIDE DEF x
    <3>6. IsFiniteSet(U(T1)) /\ it[T1] \in Nat /\ Saturated(it[T1]) = Saturated(Cardinality(U(T1)))
      BY <1>5, <3>4
    <3>7. U(T) = R[x] \cup U(T1) /\ R[x] \cap U(T1) = {}
      BY <3>1
    <3>8. x \in S /\ IsFiniteSet(R[x]) /\ w[x] = Saturated(Cardinality(R[x]))
      BY <3>1
    <3> HIDE DEF U, T1
    <3>9. IsFiniteSet(U(T)) /\ Cardinality(U(T)) = Cardinality(R[x]) + Cardinality(U(T1))
      <4>1. /\ IsFiniteSet(R[x] \cup U(T1))
            /\ Cardinality(R[x] \cup U(T1))
                 = Cardinality(R[x]) + Cardinality(U(T1)) - Cardinality(R[x] \cap U(T1))
        BY <3>6, <3>8, FS_Union
      <4>2. Cardinality(R[x] \cap U(T1)) = 0
        BY <3>7, FS_EmptySet
      <4>3. Cardinality(R[x]) \in Nat /\ Cardinality(U(T1)) \in Nat
        BY <3>6, <3>8, FS_CardinalityType
      <4> QED  BY <3>7, <4>1, <4>2, <4>3
    <3>10. Cardinality(R[x]) \in Nat /\ Cardinality(U(T1)) \in Nat
      BY <3>6, <3>8, FS_CardinalityType
    <3>11. it[T] \in Nat /\ Saturated(it[T]) = Saturated(Cardinality(U(T)))
      BY <3>5, <3>6, <3>8, <3>9, <3>10, MaxCountAssumption DEF Saturated
    <3> QED  BY <3>9, <3>11
  <2> QED  BY <2>1, <2>2
<1> HIDE DEF P
<1>6. 0 \in N /\ \A n \in Nat : n \in N => n + 1 \in N
  BY <1>4, <1>5
<1>7. \A n \in Nat : n \in N
  <2> HIDE DEF N
  <2> QED  BY <1>6, NatInduct
<1>8. P(Cardinality(S))
  <2>1. Cardinality(S) \in Nat
    BY FS_CardinalityType
  <2> QED  BY <1>7, <2>1
<1>9. S \in Small(S, Cardinality(S))
  <2>1. Cardinality(S) \in Nat
    BY FS_CardinalityType
  <2> QED  BY <2>1 DEF Small
<1>10. Good(S)
  <2> HIDE DEF Good
  <2> QED  BY <1>8, <1>9 DEF P
<1>11. SumOver(w, S) = it[S]
  BY DEF SumOver, it
<1> QED  BY <1>10, <1>11

-------------------------------------------------------------------------------
(* One side of the search: the ball it has visited, each node with its level   *)
(* and the number of walks that lead to it, and the ring it goes on from.      *)

Count(G, a, v, n) == Saturated(Cardinality(Walks(Node, G, a, v, n)))

Side(G, a, n, visited, current) ==
    /\ DOMAIN visited = Ball(G, a, n)
    /\ \A m \in 0..n : \A v \in Ring(G, a, m) :
          visited[v] = [dist |-> m, paths |-> Count(G, a, v, m)]
    /\ current = Ring(G, a, n)

LEMMA EmptyWalk ==
    ASSUME NEW G, NEW a \in Node
    PROVE  Cardinality(Walks(Node, G, a, a, 0)) = 1
<1>1. Walks(Node, G, a, a, 0) = {[k \in 0..0 |-> a]}
  BY DEF Walks, Walk
<1> QED  BY <1>1, FS_Singleton

LEMMA SideStart ==
    ASSUME NEW G, NEW a \in Node
    PROVE  Side(G, a, 0, [n \in {a} |-> [dist |-> 0, paths |-> 1]], {a})
<1>1. Ball(G, a, 0) = {a}
  BY BallStart
<1>2. Ring(G, a, 0) = {a}
  BY RingStart
<1>3. Count(G, a, a, 0) = 1
  BY EmptyWalk, MaxCountAssumption DEF Count, Saturated
<1> QED  BY <1>1, <1>2, <1>3 DEF Side

LEMMA VisitNext ==
    ASSUME NEW G, IsGraph(Node, G), NEW H, IsGraph(Node, H), Mirrors(Node, G, H),
           NEW a \in Node, NEW n \in Nat, NEW visited, NEW current, Side(G, a, n, visited, current)
    PROVE  LET next == Visit(visited, current, G, n + 1)
           IN  Side(G, a, n + 1, next, DOMAIN next \ DOMAIN visited)
<1> DEFINE next == Visit(visited, current, G, n + 1)
           into(v) == {x \in current : v \in G[x]}
<1>0. Ring(G, a, n + 1) = Ball(G, a, n + 1) \ Ball(G, a, n)
  BY RingStep
<1>1. DOMAIN next = Ball(G, a, n + 1)
  <2>1. DOMAIN next = DOMAIN visited \cup UNION {G[x] : x \in current}
    BY DEF Visit
  <2> HIDE DEF next
  <2>2. Ball(G, a, n + 1) = Ball(G, a, n) \cup UNION {G[v] : v \in Ring(G, a, n)}
    BY BallGrows
  <2> QED  BY <2>1, <2>2 DEF Side
<1>2. DOMAIN next \ DOMAIN visited = Ring(G, a, n + 1)
  <2> HIDE DEF next
  <2> QED  BY <1>0, <1>1 DEF Side
<1>3. \A v \in DOMAIN next :
        next[v] = IF v \in DOMAIN visited THEN visited[v]
                  ELSE [dist |-> n + 1, paths |-> RoutesThrough(visited, into(v))]
  BY DEF Visit
<1> HIDE DEF next
<1>4. ASSUME NEW m \in 0..n, NEW v \in Ring(G, a, m)
      PROVE  next[v] = [dist |-> m, paths |-> Count(G, a, v, m)]
  <2>1. v \in Ball(G, a, m)
    BY DEF Ring
  <2>2. Ball(G, a, m) \subseteq Ball(G, a, n)
    BY BallMonotone
  <2>3. Ball(G, a, n) \subseteq Ball(G, a, n + 1)
    BY BallMonotone
  <2>4. v \in DOMAIN next /\ v \in DOMAIN visited
    BY <1>1, <2>1, <2>2, <2>3 DEF Side
  <2>5. next[v] = visited[v]
    BY <1>3, <2>4
  <2> QED  BY <2>5 DEF Side
<1>5. ASSUME NEW v \in Ring(G, a, n + 1)
      PROVE  next[v] = [dist |-> n + 1, paths |-> Count(G, a, v, n + 1)]
  <2>1. v \in Node /\ v \in Ball(G, a, n + 1) /\ v \notin Ball(G, a, n)
    <3>1. Ball(G, a, n + 1) \subseteq Node
      BY BallType
    <3> QED  BY <1>0, <3>1
  <2> DEFINE S == into(v)
             w == [x \in S |-> visited[x].paths]
             R == [x \in S |-> Through(Node, G, a, v, n + 1, n, x, v)]
  <2>2. next[v] = [dist |-> n + 1, paths |-> RoutesThrough(visited, S)]
    BY <1>1, <1>3, <2>1 DEF Side
  <2>3. RoutesThrough(visited, S) = Saturated(SumOver(w, S))
    BY RoutesThroughSum
  <2>4. S \subseteq Node /\ IsFiniteSet(S)
    <3>1. Ball(G, a, n) \subseteq Node
      BY BallType
    <3>2. S \in SUBSET Node
      BY <3>1 DEF Side, Ring
    <3> QED  BY <3>2, NodeAssumption, FS_Subset
  <2>5. \A x \in S : x \in Ring(G, a, n) /\ v \in G[x]
    BY DEF Side
  <2>6. \A x \in S : w[x] = Count(G, a, x, n)
    <3>1. \A x \in Ring(G, a, n) : visited[x] = [dist |-> n, paths |-> Count(G, a, x, n)]
      BY DEF Side
    <3>2. ASSUME NEW x \in S PROVE visited[x].paths = Count(G, a, x, n)
      <4>1. x \in Ring(G, a, n)
        BY <2>5
      <4> HIDE DEF S
      <4>2. visited[x] = [dist |-> n, paths |-> Count(G, a, x, n)]
        BY <3>1, <4>1
      <4> QED  BY <4>2
    <3> HIDE DEF S
    <3> QED  BY <3>2
  <2> HIDE DEF S, w
  <2>7. ASSUME NEW x \in S
        PROVE  IsFiniteSet(R[x]) /\ w[x] = Saturated(Cardinality(R[x]))
    <3>1. n + 0 + 1 = n + 1
      OBVIOUS
    <3>2. Cardinality(Through(Node, G, a, v, n + 0 + 1, n, x, v))
            = Cardinality(Walks(Node, G, a, x, n)) * Cardinality(Walks(Node, G, v, v, 0))
      BY <2>5, NodeAssumption, WalksThrough
    <3>3. Cardinality(Walks(Node, G, v, v, 0)) = 1
      BY <2>1, EmptyWalk
    <3>4. Cardinality(Walks(Node, G, a, x, n)) \in Nat
      BY NodeAssumption, WalksFinite, FS_CardinalityType
    <3>5. Cardinality(Through(Node, G, a, v, n + 1, n, x, v)) = Cardinality(Walks(Node, G, a, x, n))
      BY <3>1, <3>2, <3>3, <3>4
    <3>6. IsFiniteSet(Through(Node, G, a, v, n + 1, n, x, v))
      <4>1. IsFiniteSet(Walks(Node, G, a, v, n + 1))
        BY NodeAssumption, WalksFinite
      <4>2. Through(Node, G, a, v, n + 1, n, x, v) \in SUBSET Walks(Node, G, a, v, n + 1)
        BY DEF Through
      <4> QED  BY <4>1, <4>2, FS_Subset
    <3>7. R[x] = Through(Node, G, a, v, n + 1, n, x, v)
      OBVIOUS
    <3> HIDE DEF R
    <3> QED  BY <2>6, <3>5, <3>6, <3>7 DEF Count
  <2>8. ASSUME NEW x \in S, NEW y \in S, x # y PROVE R[x] \cap R[y] = {}
    BY <2>8 DEF Through
  <2>9. UNION {R[x] : x \in S} = Walks(Node, G, a, v, n + 1)
    <3>1. \A x \in S : R[x] = Through(Node, G, a, v, n + 1, n, x, v)
      OBVIOUS
    <3>2. ASSUME NEW u \in Walks(Node, G, a, v, n + 1) PROVE \E x \in S : u \in R[x]
      <4>1. u[n] \in Ring(G, a, n)
        BY <2>1, ShortestWalk
      <4>2. u[n + 1] \in G[u[n]] /\ u[n + 1] = v
        BY DEF Walks, Walk
      <4>3. u[n] \in S
        BY <4>1, <4>2 DEF S, Side
      <4> QED  BY <4>2, <4>3 DEF Through
    <3> HIDE DEF R
    <3> QED  BY <3>1, <3>2 DEF Through
  <2> HIDE DEF R
  <2>10. Saturated(SumOver(w, S)) = Saturated(Cardinality(UNION {R[x] : x \in S}))
    BY <2>4, <2>7, <2>8, SaturatedSum
  <2> QED  BY <2>2, <2>3, <2>9, <2>10 DEF Count, S, w
<1>6. ASSUME NEW m \in 0..(n + 1), NEW v \in Ring(G, a, m)
      PROVE  next[v] = [dist |-> m, paths |-> Count(G, a, v, m)]
  <2>1. CASE m \in 0..n
    BY <1>4, <2>1
  <2>2. CASE m = n + 1
    BY <1>5, <2>2
  <2> QED  BY <2>1, <2>2
<1> QED  BY <1>1, <1>2, <1>6 DEF Side, next

-------------------------------------------------------------------------------
(* Where the sides meet: the edges from the last ring of one to the last ring  *)
(* of the other, with the walks that lead to either end.                       *)

Crossing(G, a, p, H, b, q) ==
    {[via |-> e[1], id |-> e[2], here |-> Count(G, a, e[1], p), there |-> Count(H, b, e[2], q),
      total |-> p + q + 1]
     : e \in {e \in Ring(G, a, p) \X Ring(H, b, q) : e[2] \in G[e[1]]}}

\* While the balls hold no route, an edge from one to the other joins their rings.
LEMMA FirstEdge ==
    ASSUME NEW G, IsGraph(Node, G), NEW H, IsGraph(Node, H), Mirrors(Node, G, H),
           NEW a \in Node, NEW b \in Node, NEW n \in Nat, NEW m \in Nat,
           b \notin Ball(G, a, n + m),
           NEW x \in Ring(G, a, n), NEW y \in Ball(H, b, m), y \in G[x]
    PROVE  y \in Ring(H, b, m) /\ y \in Ring(G, a, n + 1)
<1>1. y \in Node /\ x \in Ball(G, a, n)
  BY BallType DEF Ring
<1>2. y \in Ball(G, a, n + 1)
  BY <1>1, BallMember
<1>3. PICK k \in 0..m : y \in Ring(H, b, k)
  BY RingOfBall
<1>4. b \in Ball(G, y, k)
  <2>1. y \in Ball(H, b, k)
    BY <1>3 DEF Ring
  <2> QED  BY <1>1, <2>1, BallMirror
<1>5. k = m
  <2>1. b \in Ball(G, a, (n + 1) + k)
    BY <1>2, <1>4, BallSplit
  <2>2. CASE k < m
    <3>1. Ball(G, a, (n + 1) + k) \subseteq Ball(G, a, n + m)
      BY <2>2, BallMonotone
    <3> QED  BY <2>1, <3>1
  <2> QED  BY <2>2
<1>6. y \notin Ball(G, a, n)
  BY <1>4, <1>5, BallSplit
<1>7. Ring(G, a, n + 1) = Ball(G, a, n + 1) \ Ball(G, a, n)
  BY RingStep
<1> QED  BY <1>2, <1>3, <1>5, <1>6, <1>7

\* The meetings of a level are those edges.
LEMMA MetIsCrossing ==
    ASSUME NEW G, IsGraph(Node, G), NEW H, IsGraph(Node, H), Mirrors(Node, G, H),
           NEW a \in Node, NEW b \in Node, NEW n \in Nat, NEW m \in Nat,
           NEW visited, NEW current, Side(G, a, n, visited, current),
           NEW other, NEW frontier, Side(H, b, m, other, frontier),
           b \notin Ball(G, a, n + m)
    PROVE  Met(visited, current, G, other, n + 1) = Crossing(G, a, n, H, b, m)
<1> DEFINE met == Met(visited, current, G, other, n + 1)
           cross == Crossing(G, a, n, H, b, m)
           pairs == {e \in Ring(G, a, n) \X Ring(H, b, m) : e[2] \in G[e[1]]}
           Edge(x, y) == [via |-> x, id |-> y, here |-> Count(G, a, x, n),
                          there |-> Count(H, b, y, m), total |-> n + m + 1]
<1>1. ASSUME NEW x \in current, NEW y \in G[x] \cap DOMAIN other PROVE y \in Ring(H, b, m)
  BY FirstEdge DEF Side
<1>2. \A x \in Ring(G, a, n) : visited[x] = [dist |-> n, paths |-> Count(G, a, x, n)]
  BY DEF Side
<1>3. \A y \in Ring(H, b, m) : other[y] = [dist |-> m, paths |-> Count(H, b, y, m)]
  BY DEF Side
<1>4. \A y \in Ring(H, b, m) : y \in DOMAIN other
  BY DEF Side, Ring
<1>5. current = Ring(G, a, n)
  BY DEF Side
<1>6. (n + 1) + m = n + m + 1
  OBVIOUS
<1>7. \A x \in current : \A y \in G[x] \cap DOMAIN other :
        [via |-> x, id |-> y, here |-> visited[x].paths, there |-> other[y].paths,
         total |-> (n + 1) + other[y].dist] = Edge(x, y)
  <2> SUFFICES ASSUME NEW x \in current, NEW y \in G[x] \cap DOMAIN other
               PROVE  [via |-> x, id |-> y, here |-> visited[x].paths, there |-> other[y].paths,
                       total |-> (n + 1) + other[y].dist] = Edge(x, y)
    OBVIOUS
  <2>1. x \in Ring(G, a, n) /\ y \in Ring(H, b, m)
    BY <1>1, <1>5
  <2>2. visited[x] = [dist |-> n, paths |-> Count(G, a, x, n)]
    BY <1>2, <2>1
  <2>3. other[y] = [dist |-> m, paths |-> Count(H, b, y, m)]
    BY <1>3, <2>1
  <2>4. visited[x].paths = Count(G, a, x, n)
    BY <2>2
  <2>5. other[y].paths = Count(H, b, y, m) /\ other[y].dist = m
    BY <2>3
  <2> QED  BY <1>6, <2>4, <2>5
<1>8. met = UNION {{[via |-> x, id |-> y, here |-> visited[x].paths, there |-> other[y].paths,
                     total |-> (n + 1) + other[y].dist] : y \in G[x] \cap DOMAIN other}
                   : x \in current}
  BY DEF Met
<1>9. cross = {Edge(e[1], e[2]) : e \in pairs}
  BY DEF Crossing
<1> HIDE DEF met, cross
<1>10. ASSUME NEW r \in met PROVE r \in cross
  <2> DEFINE Raw(x, y) == [via |-> x, id |-> y, here |-> visited[x].paths,
                           there |-> other[y].paths, total |-> (n + 1) + other[y].dist]
  <2>1. \E x \in current : \E y \in G[x] \cap DOMAIN other : r = Raw(x, y)
    <3>1. met = UNION {{Raw(x, y) : y \in G[x] \cap DOMAIN other} : x \in current}
      BY <1>8
    <3> HIDE DEF Raw
    <3> QED  BY <3>1
  <2> PICK x \in current : \E y \in G[x] \cap DOMAIN other : r = Raw(x, y)
    BY <2>1
  <2> PICK y \in G[x] \cap DOMAIN other : r = Raw(x, y)
    OBVIOUS
  <2>2. r = Edge(x, y)
    BY <1>7
  <2>3. <<x, y>> \in pairs
    BY <1>1, <1>5
  <2> HIDE DEF pairs
  <2> QED  BY <1>9, <2>2, <2>3
<1>11. ASSUME NEW r \in cross PROVE r \in met
  <2>1. PICK e \in pairs : r = Edge(e[1], e[2])
    BY <1>9
  <2>2. e[1] \in current /\ e[2] \in G[e[1]] \cap DOMAIN other
    BY <1>4, <1>5
  <2> QED  BY <1>7, <1>8, <2>1, <2>2
<1> QED  BY <1>10, <1>11 DEF met, cross

\* There are such edges exactly when there is a route of that many hops.
LEMMA CrossingFound ==
    ASSUME NEW G, IsGraph(Node, G), NEW H, IsGraph(Node, H), Mirrors(Node, G, H),
           NEW a \in Node, NEW b \in Node, NEW n \in Nat, NEW m \in Nat,
           b \notin Ball(G, a, n + m)
    PROVE  /\ Crossing(G, a, n, H, b, m) = {} => b \notin Ball(G, a, n + m + 1)
           /\ Crossing(G, a, n, H, b, m) # {} => b \in Ring(G, a, n + m + 1)
<1> DEFINE pairs == {e \in Ring(G, a, n) \X Ring(H, b, m) : e[2] \in G[e[1]]}
<1>1. Crossing(G, a, n, H, b, m) = {} <=> pairs = {}
  BY DEF Crossing
<1>2. ASSUME b \in Ball(G, a, n + m + 1) PROVE pairs # {}
  <2>1. Ring(G, a, (n + m) + 1) = Ball(G, a, (n + m) + 1) \ Ball(G, a, n + m)
    BY RingStep
  <2>2. b \in Ring(G, a, n + m + 1)
    BY <1>2, <2>1
  <2>3. PICK w : w \in Walks(Node, G, a, b, n + m + 1)
    BY <2>2, WalkExists, n + m + 1 \in Nat
  <2>4. n \in 0..(n + m + 1) /\ n + 1 \in 0..(n + m + 1) /\ (n + m + 1) - (n + 1) = m
    OBVIOUS
  <2>5. w[n] \in Ring(G, a, n) /\ w[n + 1] \in Ring(H, b, m)
    BY <2>2, <2>3, <2>4, ShortestWalk, n + m + 1 \in Nat
  <2>6. w[n + 1] \in G[w[n]]
    BY <2>3 DEF Walks, Walk
  <2>7. <<w[n], w[n + 1]>> \in pairs
    BY <2>5, <2>6
  <2> QED  BY <2>7
<1>3. ASSUME NEW e \in pairs PROVE b \in Ring(G, a, n + m + 1)
  <2>1. e[1] \in Ball(G, a, n) /\ e[2] \in Ball(H, b, m) /\ e[2] \in G[e[1]]
    BY DEF Ring
  <2>2. e[2] \in Node
    BY <2>1, BallType
  <2>3. b \in Ball(G, e[2], m)
    BY <2>1, <2>2, BallMirror
  <2>4. e[2] \in Ball(G, a, n + 1)
    BY <2>1, BallMember
  <2>5. b \in Ball(G, a, (n + 1) + m)
    BY <2>3, <2>4, BallSplit
  <2>6. (n + 1) + m = (n + m) + 1
    OBVIOUS
  <2>7. Ring(G, a, (n + m) + 1) = Ball(G, a, (n + m) + 1) \ Ball(G, a, n + m)
    BY RingStep
  <2> QED  BY <2>5, <2>6, <2>7
<1> QED  BY <1>1, <1>2, <1>3

Total(C) == SumOver([m \in C |-> Saturated(m.here * m.there)], C)
Ids(C) == {m.id : m \in C}

\* What the meetings add up to: every shortest walk takes exactly one of them.
LEMMA CrossingCounts ==
    ASSUME NEW G, IsGraph(Node, G), NEW H, IsGraph(Node, H), Mirrors(Node, G, H),
           NEW a \in Node, NEW b \in Node, NEW p \in Nat, NEW q \in Nat,
           b \in Ring(G, a, p + q + 1)
    PROVE  LET C == Crossing(G, a, p, H, b, q)
               W == Walks(Node, G, a, b, p + q + 1)
           IN  /\ IsFiniteSet(C)
               /\ Total(C) \in Nat
               /\ Saturated(Total(C)) = Saturated(Cardinality(W))
               /\ Ids(C) = At(W, p + 1)
<1> DEFINE C == Crossing(G, a, p, H, b, q)
           W == Walks(Node, G, a, b, p + q + 1)
           w == [m \in C |-> Saturated(m.here * m.there)]
           R == [m \in C |-> Through(Node, G, a, b, p + q + 1, p, m.via, m.id)]
           pairs == {e \in Ring(G, a, p) \X Ring(H, b, q) : e[2] \in G[e[1]]}
           Edge(x, y) == [via |-> x, id |-> y, here |-> Count(G, a, x, p),
                          there |-> Count(H, b, y, q), total |-> p + q + 1]
<1>1. C = {Edge(e[1], e[2]) : e \in pairs}
  BY DEF Crossing
<1>2. Ring(G, a, p) \subseteq Node /\ Ring(H, b, q) \subseteq Node
  BY BallType DEF Ring
<1> HIDE DEF C
<1>3. \A m \in C : /\ m.via \in Ring(G, a, p) /\ m.id \in Ring(H, b, q) /\ m.id \in G[m.via]
                   /\ m = Edge(m.via, m.id)
  BY <1>1
<1>4. \A x \in Ring(G, a, p), y \in Ring(H, b, q) : y \in G[x] => Edge(x, y) \in C
  <2> SUFFICES ASSUME NEW x \in Ring(G, a, p), NEW y \in Ring(H, b, q), y \in G[x]
               PROVE  Edge(x, y) \in C
    OBVIOUS
  <2>1. <<x, y>> \in pairs
    OBVIOUS
  <2> QED  BY <1>1, <2>1
<1>5. IsFiniteSet(C)
  <2> DEFINE F == [m \in C |-> <<m.via, m.id>>]
  <2>1. F \in [C -> Node \X Node]
    BY <1>2, <1>3
  <2>2. \A s, t \in C : F[s] = F[t] => s = t
    BY <1>3
  <2> HIDE DEF F
  <2>3. F \in Injection(C, Node \X Node)
    BY <2>1, <2>2 DEF Injection, IsInjective
  <2>4. IsFiniteSet(Node \X Node)
    BY NodeAssumption, FS_Product
  <2> QED  BY <2>3, <2>4, FS_Injection
<1>6. ASSUME NEW m \in C PROVE IsFiniteSet(R[m]) /\ w[m] = Saturated(Cardinality(R[m]))
  <2> DEFINE x == m.via
             y == m.id
             T == Through(Node, G, a, b, p + q + 1, p, x, y)
  <2>1. Cardinality(T) = Cardinality(Walks(Node, G, a, x, p)) * Cardinality(Walks(Node, G, y, b, q))
    BY <1>3, NodeAssumption, WalksThrough
  <2>2. Cardinality(Walks(Node, H, b, y, q)) = Cardinality(Walks(Node, G, y, b, q))
    BY NodeAssumption, WalksMirrored
  <2>3. w[m] = Saturated(Count(G, a, x, p) * Count(H, b, y, q))
    <3>1. m.here = Count(G, a, x, p) /\ m.there = Count(H, b, y, q)
      BY <1>3
    <3> QED  BY <3>1
  <2>4. IsFiniteSet(T)
    <3>1. T \in SUBSET W
      BY DEF Through
    <3>2. IsFiniteSet(W)
      BY NodeAssumption, WalksFinite, p + q + 1 \in Nat
    <3> QED  BY <3>1, <3>2, FS_Subset
  <2>5. /\ Cardinality(Walks(Node, G, a, x, p)) \in Nat
        /\ Cardinality(Walks(Node, G, y, b, q)) \in Nat
    BY NodeAssumption, WalksFinite, FS_CardinalityType
  <2>6. R[m] = T
    OBVIOUS
  <2> HIDE DEF x, y, T, w, R
  <2>7. \A c, d \in Nat : Saturated(Saturated(c) * Saturated(d)) = Saturated(c * d)
    BY SaturatedProduct
  <2> QED  BY <2>1, <2>2, <2>3, <2>4, <2>5, <2>6, <2>7 DEF Count
<1>7. ASSUME NEW s \in C, NEW t \in C, s # t PROVE R[s] \cap R[t] = {}
  <2>1. s.via # t.via \/ s.id # t.id
    BY <1>3, <1>7
  <2> QED  BY <2>1 DEF Through
<1>8. ASSUME NEW u \in W
      PROVE  \E m \in C : u \in R[m] /\ m.id = u[p + 1]
  <2>1. p \in 0..(p + q + 1) /\ p + 1 \in 0..(p + q + 1) /\ (p + q + 1) - (p + 1) = q
    OBVIOUS
  <2>2. u[p] \in Ring(G, a, p) /\ u[p + 1] \in Ring(H, b, q)
    BY <2>1, ShortestWalk, p + q + 1 \in Nat
  <2>3. u[p + 1] \in G[u[p]]
    BY DEF Walks, Walk
  <2>4. Edge(u[p], u[p + 1]) \in C
    BY <1>4, <2>2, <2>3
  <2>5. u \in R[Edge(u[p], u[p + 1])]
    BY <2>4 DEF Through
  <2> QED  BY <2>4, <2>5
<1>9. ASSUME NEW m \in C PROVE \E u \in W : m.id = u[p + 1]
  <2>1. m.via \in Ring(G, a, p) /\ m.id \in Ring(H, b, q) /\ m.id \in G[m.via] /\ m.id \in Node
    BY <1>2, <1>3
  <2>2. Walks(Node, G, a, m.via, p) # {}
    BY <2>1, WalkExists
  <2>3. Walks(Node, H, b, m.id, q) # {}
    BY <2>1, WalkExists
  <2>4. Cardinality(Walks(Node, H, b, m.id, q)) = Cardinality(Walks(Node, G, m.id, b, q))
    BY NodeAssumption, WalksMirrored
  <2>5. \A k \in Nat : \A g, x, y :
           /\ IsFiniteSet(Walks(Node, g, x, y, k))
           /\ Cardinality(Walks(Node, g, x, y, k)) \in Nat
           /\ (Cardinality(Walks(Node, g, x, y, k)) = 0) <=> (Walks(Node, g, x, y, k) = {})
    BY NodeAssumption, WalksFinite, FS_CardinalityType, FS_EmptySet
  <2>6. Cardinality(Through(Node, G, a, b, p + q + 1, p, m.via, m.id))
          = Cardinality(Walks(Node, G, a, m.via, p)) * Cardinality(Walks(Node, G, m.id, b, q))
    BY <2>1, NodeAssumption, WalksThrough
  <2>7. \A c, d \in Nat : c # 0 /\ d # 0 => c * d # 0
    OBVIOUS
  <2>8. Cardinality(Through(Node, G, a, b, p + q + 1, p, m.via, m.id)) # 0
    BY <2>2, <2>3, <2>4, <2>5, <2>6, <2>7
  <2>9. Through(Node, G, a, b, p + q + 1, p, m.via, m.id) # {}
    BY <2>8, FS_EmptySet
  <2> QED  BY <2>9 DEF Through
<1>10. UNION {R[m] : m \in C} = W
  <2>1. \A m \in C : R[m] \subseteq W
    BY DEF Through
  <2> HIDE DEF R, W
  <2> QED  BY <1>8, <2>1
<1>11. {m.id : m \in C} = {u[p + 1] : u \in W}
  <2> HIDE DEF R, W
  <2> QED  BY <1>8, <1>9
<1> HIDE DEF R, W, w
<1>12. /\ SumOver(w, C) \in Nat
       /\ Saturated(SumOver(w, C)) = Saturated(Cardinality(UNION {R[m] : m \in C}))
  <2>1. \A s \in C : IsFiniteSet(R[s]) /\ w[s] = Saturated(Cardinality(R[s]))
    BY <1>6
  <2>2. \A s, t \in C : s # t => R[s] \cap R[t] = {}
    BY <1>7
  <2>3. SumOver(w, C) \in Nat
    BY <1>5, <2>1, <2>2, SaturatedSum
  <2>4. Saturated(SumOver(w, C)) = Saturated(Cardinality(UNION {R[m] : m \in C}))
    BY <1>5, <2>1, <2>2, SaturatedSum
  <2> QED  BY <2>3, <2>4
<1>13. Total(C) = SumOver(w, C)
  BY DEF Total, w
<1>14. Ids(C) = At(W, p + 1)
  BY <1>11 DEF Ids, At
<1> QED  BY <1>5, <1>10, <1>12, <1>13, <1>14 DEF C, W

-------------------------------------------------------------------------------
(* From walks to routes, and from either side's view to the question's.        *)

LEMMA FollowersMirror ==
    ASSUME follows \in [Node -> SUBSET Node]
    PROVE  /\ IsGraph(Node, follows) /\ IsGraph(Node, followers)
           /\ Mirrors(Node, follows, followers) /\ Mirrors(Node, followers, follows)
BY DEF IsGraph, Mirrors, followers

LEMMA RingMirror ==
    ASSUME NEW G, IsGraph(Node, G), NEW H, IsGraph(Node, H), Mirrors(Node, G, H),
           NEW a \in Node, NEW b \in Node, NEW n \in Nat
    PROVE  b \in Ring(G, a, n) <=> a \in Ring(H, b, n)
<1>1. \A m \in Nat : a \in Ball(H, b, m) <=> b \in Ball(G, a, m)
  BY BallMirror
<1> QED  BY <1>1 DEF Ring

LEMMA DirectRoute ==
    ASSUME NEW G, IsGraph(Node, G), NEW a \in Node, NEW b \in Node, a # b, b \in G[a]
    PROVE  /\ b \in Ring(G, a, 1)
           /\ Cardinality(RoutesOf(G, a, b, 1)) = 1
<1>1. Ball(G, a, 0) = {a}
  BY BallStart
<1>2. b \in Ball(G, a, 0 + 1)
  BY <1>1, BallMember
<1>3. Ring(G, a, 0 + 1) = Ball(G, a, 0 + 1) \ Ball(G, a, 0)
  BY RingStep
<1>4. b \in Ring(G, a, 1)
  BY <1>1, <1>2, <1>3
<1>5. Cardinality(Through(Node, G, a, b, 0 + 0 + 1, 0, a, b)) = 1 * 1
  <2>1. Cardinality(Through(Node, G, a, b, 0 + 0 + 1, 0, a, b))
          = Cardinality(Walks(Node, G, a, a, 0)) * Cardinality(Walks(Node, G, b, b, 0))
    BY NodeAssumption, WalksThrough
  <2>2. Cardinality(Walks(Node, G, a, a, 0)) = 1 /\ Cardinality(Walks(Node, G, b, b, 0)) = 1
    BY EmptyWalk
  <2> QED  BY <2>1, <2>2
<1>6. Through(Node, G, a, b, 1, 0, a, b) = Walks(Node, G, a, b, 1)
  BY DEF Through, Walks
<1>7. Cardinality(RoutesOf(G, a, b, 1)) = Cardinality(Walks(Node, G, a, b, 1))
  BY NodeAssumption, RoutesAreWalks
<1> QED  BY <1>4, <1>5, <1>6, <1>7

Counted(C) == Saturated(MapThenSumSet(LAMBDA m : Saturated(m.here * m.there), C))

\* A meeting of the side of a with that of b, and the other way round, as a and
\* b's question sees them.
LEMMA CrossingAnswer ==
    ASSUME NEW G, IsGraph(Node, G), NEW H, IsGraph(Node, H),
           Mirrors(Node, G, H), Mirrors(Node, H, G),
           NEW a \in Node, NEW b \in Node, NEW p \in Nat, NEW q \in Nat,
           b \in Ring(G, a, p + q + 1)
    PROVE  LET n == p + q + 1
               C == Crossing(G, a, p, H, b, q)
               D == Crossing(H, b, p, G, a, q)
           IN  /\ Counted(C) = Saturated(Cardinality(RoutesOf(G, a, b, n)))
               /\ Ids(C) = Layer(G, a, b, n, p + 1)
               /\ Counted(D) = Saturated(Cardinality(RoutesOf(G, a, b, n)))
               /\ Ids(D) = Layer(G, a, b, n, q)
<1> DEFINE n == p + q + 1
           C == Crossing(G, a, p, H, b, q)
           D == Crossing(H, b, p, G, a, q)
<1>1. n \in Nat \ {0} /\ p + 1 \in 0..n /\ q \in 0..n /\ n - (p + 1) = q
  OBVIOUS
<1>2. a \in Ring(H, b, n)
  BY <1>1, RingMirror
<1>3. /\ Saturated(Total(C)) = Saturated(Cardinality(Walks(Node, G, a, b, n)))
      /\ Ids(C) = At(Walks(Node, G, a, b, n), p + 1)
  BY CrossingCounts
<1>4. /\ Saturated(Total(D)) = Saturated(Cardinality(Walks(Node, H, b, a, n)))
      /\ Ids(D) = At(Walks(Node, H, b, a, n), p + 1)
  BY <1>2, CrossingCounts
<1> HIDE DEF n, C, D
<1>5. /\ Cardinality(Walks(Node, H, b, a, n)) = Cardinality(Walks(Node, G, a, b, n))
      /\ At(Walks(Node, H, b, a, n), p + 1) = At(Walks(Node, G, a, b, n), q)
  <2>1. /\ Cardinality(Walks(Node, H, b, a, n)) = Cardinality(Walks(Node, G, a, b, n))
        /\ \A k \in 0..n : At(Walks(Node, H, b, a, n), k) = At(Walks(Node, G, a, b, n), n - k)
    BY <1>1, NodeAssumption, WalksMirrored
  <2> QED  BY <1>1, <2>1
<1>6. /\ Cardinality(RoutesOf(G, a, b, n)) = Cardinality(Walks(Node, G, a, b, n))
      /\ \A k \in 0..n : Layer(G, a, b, n, k) = At(Walks(Node, G, a, b, n), k)
  BY <1>1, NodeAssumption, RoutesAreWalks
<1>7. Counted(C) = Saturated(Total(C)) /\ Counted(D) = Saturated(Total(D))
  BY SumOfRoutes DEF Counted, Total
<1> QED  BY <1>1, <1>3, <1>4, <1>5, <1>6, <1>7 DEF n, C, D

\* Without the ends of the routes, a layer is one that leaves out the target.
LEMMA LayerWithoutEnds ==
    ASSUME NEW G, IsGraph(Node, G), NEW H, IsGraph(Node, H), Mirrors(Node, G, H),
           NEW a \in Node, NEW b \in Node, NEW n \in Nat \ {0}, b \in Ring(G, a, n), NEW k \in 0..n
    PROVE  \E i \in 1..n : Layer(G, a, b, n, k) \ {a, b} = Layer(G, a, b, n, i) \ {b}
<1>1. \A i \in 0..n : Layer(G, a, b, n, i) = At(Walks(Node, G, a, b, n), i)
  BY NodeAssumption, RoutesAreWalks
<1>2. CASE k = 0
  <2>1. Layer(G, a, b, n, k) \subseteq {a}
    BY <1>1, <1>2 DEF Walks, At
  <2>2. Layer(G, a, b, n, n) \subseteq {b}
    BY <1>1 DEF Walks, At
  <2>3. n \in 1..n
    OBVIOUS
  <2> QED  BY <2>1, <2>2, <2>3
<1>3. CASE k # 0
  <2>1. ASSUME NEW w \in Walks(Node, G, a, b, n) PROVE w[k] # a
    <3>1. w[k] \in Ring(G, a, k)
      BY ShortestWalk
    <3>2. a \in Ring(G, a, 0)
      BY RingStart
    <3> QED  BY <1>3, <3>1, <3>2, RingUnique
  <2>2. a \notin Layer(G, a, b, n, k)
    BY <1>1, <2>1 DEF At
  <2> QED  BY <1>3, <2>2
<1> QED  BY <1>2, <1>3

LEMMA CountType ==
    ASSUME NEW G, IsGraph(Node, G), NEW a \in Node, NEW n \in Nat, NEW v \in Ring(G, a, n)
    PROVE  Count(G, a, v, n) \in 1..MaxCount
<1>1. Walks(Node, G, a, v, n) # {}
  BY WalkExists
<1>2. IsFiniteSet(Walks(Node, G, a, v, n))
  BY NodeAssumption, WalksFinite
<1>3. Cardinality(Walks(Node, G, a, v, n)) \in Nat \ {0}
  BY <1>1, <1>2, FS_CardinalityType, FS_EmptySet
<1> QED  BY <1>3, MaxCountAssumption DEF Count, Saturated

LEMMA SideType ==
    ASSUME NEW G, IsGraph(Node, G), NEW a \in Node, NEW n \in Nat, NEW visited, NEW current,
           Side(G, a, n, visited, current)
    PROVE  /\ DOMAIN visited \subseteq Node /\ Range(visited) \subseteq Level
           /\ current \subseteq Node
<1>1. DOMAIN visited \subseteq Node
  BY BallType DEF Side
<1>2. current \subseteq Node
  BY BallType DEF Side, Ring
<1>3. ASSUME NEW v \in DOMAIN visited PROVE visited[v] \in Level
  <2>1. PICK m \in 0..n : v \in Ring(G, a, m)
    BY RingOfBall DEF Side
  <2>2. visited[v] = [dist |-> m, paths |-> Count(G, a, v, m)]
    BY <2>1 DEF Side
  <2>3. Count(G, a, v, m) \in 1..MaxCount
    BY <2>1, CountType
  <2> QED  BY <2>2, <2>3 DEF Level
<1> QED  BY <1>1, <1>2, <1>3 DEF Range

Meeting == [via : Node, id : Node, here : 1..MaxCount, there : 1..MaxCount, total : Nat]

LEMMA CrossingType ==
    ASSUME NEW G, IsGraph(Node, G), NEW H, IsGraph(Node, H), NEW a \in Node, NEW b \in Node,
           NEW p \in Nat, NEW q \in Nat
    PROVE  /\ Crossing(G, a, p, H, b, q) \subseteq Meeting
           /\ \A r \in Crossing(G, a, p, H, b, q) : r.total = p + q + 1
<1>1. Ring(G, a, p) \subseteq Node /\ Ring(H, b, q) \subseteq Node
  BY BallType DEF Ring
<1>2. /\ \A x \in Ring(G, a, p) : Count(G, a, x, p) \in 1..MaxCount
      /\ \A y \in Ring(H, b, q) : Count(H, b, y, q) \in 1..MaxCount
  BY CountType
<1> QED  BY <1>1, <1>2 DEF Crossing, Meeting

\* The first meetings are as near as each other, and are all kept.
LEMMA MeetFirst ==
    ASSUME NEW met, NEW d \in Nat, \A r \in met : r.total = d,
           best_distance = None, meeting_nodes = {}, Meet(met)
    PROVE  IF met = {} THEN best_distance' = None /\ meeting_nodes' = {}
                       ELSE best_distance' = d /\ meeting_nodes' = met
<1>1. CASE met = {}
  BY <1>1 DEF Meet
<1>2. CASE met # {}
  <2> DEFINE totals == {m.total : m \in met} \cup ({best_distance} \ {None})
  <2>1. totals = {d}
    BY <1>2
  <2> HIDE DEF totals
  <2>2. Min(totals) = d
    BY <2>1 DEF Min
  <2>3. best_distance' = Min(totals) /\ meeting_nodes' = {m \in met \cup meeting_nodes : m.total = Min(totals)}
    BY <1>2 DEF Meet, totals
  <2> QED  BY <1>2, <2>2, <2>3
<1> QED  BY <1>1, <1>2

-------------------------------------------------------------------------------
(* The inductive invariant.                                                    *)

\* What an answer says of a question.
Right(G, q, a) ==
    /\ Known(q) =>
          /\ a.hops = Distance(G, q.from, q.to, q.max_hops)
          /\ a.hops > 0 =>
                a.path_count = Saturated(Cardinality(RoutesOf(G, q.from, q.to, a.hops)))
          /\ a.hops > 1 => \E i \in 1..a.hops :
                a.bridges = Layer(G, q.from, q.to, a.hops, i) \ {q.to}
    /\ ~Known(q) => a = IF q.from = q.to THEN same_node ELSE not_found

\* The sides have met on no node, or have just met, over the last edge of a
\* shortest route's first part.
Apart ==
    /\ best_distance = None /\ meeting_nodes = {}
    /\ query.to \notin Ball(follows, query.from, fwd_dist + bwd_dist)
Joined ==
    /\ best_distance = fwd_dist + bwd_dist
    /\ query.to \in Ring(follows, query.from, fwd_dist + bwd_dist)
    /\ \/ /\ fwd_dist > 0
          /\ meeting_nodes = Crossing(follows, query.from, fwd_dist - 1, followers, query.to, bwd_dist)
       \/ /\ bwd_dist > 0
          /\ meeting_nodes = Crossing(followers, query.to, bwd_dist - 1, follows, query.from, fwd_dist)

Searching ==
    /\ Known(query) /\ query.from # query.to
    /\ fwd_dist \in Nat /\ bwd_dist \in Nat
    /\ Side(follows, query.from, fwd_dist, fwd_visited, fwd_current)
    /\ Side(followers, query.to, bwd_dist, bwd_visited, bwd_current)
    /\ Apart \/ Joined

IInv ==
    /\ TypeOK
    /\ pc # "idle" => query \in Query
    /\ pc = "search" => Searching
    /\ pc = "done" => Right(follows, query, answer)

LEMMA SelfAnswer ==
    ASSUME NEW G, NEW q \in Query, q.from = q.to
    PROVE  Right(G, q, same_node)
<1>1. q.max_hops \in Nat
  BY QueryAssumption
<1>2. q.to \in Ring(G, q.from, 0)
  BY RingStart
<1>3. Distance(G, q.from, q.to, q.max_hops) = 0
  BY <1>1, <1>2, DistanceOfRing
<1> QED  BY <1>3 DEF Right, same_node, Answer

LEMMA DirectAnswer ==
    ASSUME NEW G, IsGraph(Node, G), NEW q \in Query, q.from # q.to, Known(q),
           q.max_hops > 0, q.to \in G[q.from], NEW mutual
    PROVE  Right(G, q, Answer(1, 1, mutual, {}))
<1>1. q.max_hops \in Nat /\ q.from \in Node /\ q.to \in Node
  BY QueryAssumption DEF Known
<1>2. q.to \in Ring(G, q.from, 1) /\ Cardinality(RoutesOf(G, q.from, q.to, 1)) = 1
  BY <1>1, DirectRoute
<1>3. 1 \in 0..q.max_hops
  BY <1>1
<1>4. Distance(G, q.from, q.to, q.max_hops) = 1
  BY <1>1, <1>2, <1>3, DistanceOfRing
<1>5. Saturated(1) = 1
  BY MaxCountAssumption DEF Saturated
<1> QED  BY <1>2, <1>4, <1>5 DEF Right, Answer

\* Two sides without a meeting have looked far enough once a frontier is empty.
LEMMA NoneWithin ==
    ASSUME NEW G, IsGraph(Node, G), NEW H, IsGraph(Node, H), Mirrors(Node, G, H),
           NEW a \in Node, NEW b \in Node, NEW i \in Nat, NEW j \in Nat, NEW max \in Nat,
           b \notin Ball(G, a, i + j),
           Ring(G, a, i) = {} \/ Ring(H, b, j) = {} \/ i + j >= max
    PROVE  Distance(G, a, b, max) = None
<1>1. b \notin Ball(G, a, max)
  <2>1. CASE Ring(G, a, i) = {}
    <3>1. Ball(G, a, max) \subseteq Ball(G, a, i)
      BY <2>1, EmptyRing
    <3>2. Ball(G, a, i) \subseteq Ball(G, a, i + j)
      BY BallMonotone
    <3> QED  BY <3>1, <3>2
  <2>2. CASE Ring(H, b, j) = {}
    <3>1. Ball(H, b, max) \subseteq Ball(H, b, j)
      BY <2>2, EmptyRing
    <3>2. Ball(G, a, j) \subseteq Ball(G, a, i + j)
      BY BallMonotone
    <3>3. \A n \in Nat : a \in Ball(H, b, n) <=> b \in Ball(G, a, n)
      BY BallMirror
    <3> QED  BY <3>1, <3>2, <3>3
  <2>3. CASE i + j >= max
    <3>1. i + j \in Nat
      OBVIOUS
    <3>2. Ball(G, a, max) \subseteq Ball(G, a, i + j)
      BY <2>3, <3>1, BallMonotone
    <3> QED  BY <3>2
  <2> QED  BY <2>1, <2>2, <2>3
<1> QED  BY <1>1, DistanceNone

LEMMA ApartAnswer ==
    ASSUME follows \in [Node -> SUBSET Node], query \in Query, Searching, Apart, Finished
    PROVE  Distance(follows, query.from, query.to, query.max_hops) = None
<1>1. /\ query.max_hops \in Nat /\ query.from \in Node /\ query.to \in Node
      /\ fwd_dist \in Nat /\ bwd_dist \in Nat
  BY QueryAssumption DEF Searching, Known
<1>2. /\ IsGraph(Node, follows) /\ IsGraph(Node, followers)
      /\ Mirrors(Node, follows, followers)
  BY FollowersMirror
<1>3. /\ fwd_current = Ring(follows, query.from, fwd_dist)
      /\ bwd_current = Ring(followers, query.to, bwd_dist)
  BY DEF Searching, Side
<1>4. query.to \notin Ball(follows, query.from, fwd_dist + bwd_dist)
  BY DEF Apart
<1>5. fwd_current = {} \/ bwd_current = {} \/ fwd_dist + bwd_dist >= query.max_hops
  BY DEF Finished, Apart
<1> QED  BY <1>1, <1>2, <1>3, <1>4, <1>5, NoneWithin

\* What the meeting of a search amounts to.
LEMMA JoinedAnswer ==
    ASSUME follows \in [Node -> SUBSET Node], query \in Query, Searching, Joined
    PROVE  /\ best_distance \in Nat \ {0}
           /\ Distance(follows, query.from, query.to, query.max_hops)
                = IF best_distance <= query.max_hops THEN best_distance ELSE None
           /\ path_count = Saturated(Cardinality(RoutesOf(follows, query.from, query.to, best_distance)))
           /\ \E k \in 1..best_distance :
                bridge_ids = Layer(follows, query.from, query.to, best_distance, k) \ {query.to}
<1> DEFINE G == follows
           H == followers
           a == query.from
           b == query.to
           i == fwd_dist
           j == bwd_dist
           n == best_distance
<1>1. query.max_hops \in Nat /\ a \in Node /\ b \in Node /\ i \in Nat /\ j \in Nat /\ a # b
  BY QueryAssumption DEF Searching, Known
<1>2. IsGraph(Node, G) /\ IsGraph(Node, H) /\ Mirrors(Node, G, H) /\ Mirrors(Node, H, G)
  BY FollowersMirror
<1>3. n = i + j /\ b \in Ring(G, a, i + j) /\ (i > 0 \/ j > 0)
  BY DEF Joined
<1>4. /\ path_count = Counted(meeting_nodes)
      /\ bridge_ids = Ids(meeting_nodes) \ {a, b}
  BY DEF path_count, Counted, bridge_ids, Ids
<1>5. \/ i > 0 /\ meeting_nodes = Crossing(G, a, i - 1, H, b, j)
      \/ j > 0 /\ meeting_nodes = Crossing(H, b, j - 1, G, a, i)
  BY DEF Joined
<1> HIDE DEF G, H, a, b, i, j, n
<1>6. n \in Nat \ {0} /\ i \in 0..n
  BY <1>1, <1>3
<1>7. Distance(G, a, b, query.max_hops) = IF n <= query.max_hops THEN n ELSE None
  <2>1. CASE n <= query.max_hops
    <3>1. n \in 0..query.max_hops
      BY <1>1, <1>6, <2>1
    <3> QED  BY <1>1, <1>3, <2>1, <3>1, DistanceOfRing
  <2>2. CASE ~(n <= query.max_hops)
    <3>1. query.max_hops \in 0..(n - 1)
      BY <1>1, <1>6, <2>2
    <3>2. b \notin Ball(G, a, query.max_hops)
      BY <1>3, <3>1 DEF Ring
    <3> QED  BY <1>1, <2>2, <3>2, DistanceNone
  <2> QED  BY <2>1, <2>2
<1>8. /\ Counted(meeting_nodes) = Saturated(Cardinality(RoutesOf(G, a, b, n)))
      /\ Ids(meeting_nodes) = Layer(G, a, b, n, i)
  <2>1. CASE i > 0 /\ meeting_nodes = Crossing(G, a, i - 1, H, b, j)
    <3> DEFINE p == i - 1
    <3>1. p \in Nat /\ p + 1 = i /\ p + j + 1 = n
      BY <1>1, <1>3, <2>1
    <3> HIDE DEF p
    <3>2. b \in Ring(G, a, p + j + 1)
      BY <1>3, <3>1
    <3>3. /\ Counted(Crossing(G, a, p, H, b, j)) = Saturated(Cardinality(RoutesOf(G, a, b, p + j + 1)))
          /\ Ids(Crossing(G, a, p, H, b, j)) = Layer(G, a, b, p + j + 1, p + 1)
      BY <1>1, <1>2, <3>1, <3>2, CrossingAnswer
    <3>4. meeting_nodes = Crossing(G, a, p, H, b, j)
      BY <2>1 DEF p
    <3> QED  BY <3>1, <3>3, <3>4
  <2>2. CASE j > 0 /\ meeting_nodes = Crossing(H, b, j - 1, G, a, i)
    <3> DEFINE p == j - 1
    <3>1. p \in Nat /\ p + i + 1 = n
      BY <1>1, <1>3, <2>2
    <3> HIDE DEF p
    <3>2. b \in Ring(G, a, p + i + 1)
      BY <1>3, <3>1
    <3>3. /\ Counted(Crossing(H, b, p, G, a, i)) = Saturated(Cardinality(RoutesOf(G, a, b, p + i + 1)))
          /\ Ids(Crossing(H, b, p, G, a, i)) = Layer(G, a, b, p + i + 1, i)
      BY <1>1, <1>2, <3>1, <3>2, CrossingAnswer
    <3>4. meeting_nodes = Crossing(H, b, p, G, a, i)
      BY <2>2 DEF p
    <3> QED  BY <3>1, <3>3, <3>4
  <2> QED  BY <1>5, <2>1, <2>2
<1>9. \E k \in 1..n : Layer(G, a, b, n, i) \ {a, b} = Layer(G, a, b, n, k) \ {b}
  <2>1. b \in Ring(G, a, n)
    BY <1>3
  <2> QED  BY <1>1, <1>2, <1>6, <2>1, LayerWithoutEnds
<1> QED  BY <1>4, <1>6, <1>7, <1>8, <1>9 DEF G, a, b, n

LEMMA StillApart ==
    ASSUME Searching, ~Finished
    PROVE  Apart /\ fwd_current # {} /\ bwd_current # {}
<1>1. CASE Joined
  <2>1. best_distance = fwd_dist + bwd_dist /\ fwd_dist \in Nat /\ bwd_dist \in Nat
    BY <1>1 DEF Joined, Searching
  <2>2. best_distance # None /\ fwd_dist + bwd_dist >= best_distance
    BY <2>1 DEF None
  <2> QED  BY <2>2 DEF Finished
<1> QED  BY <1>1 DEF Searching, Finished

\* A level of either side, as the other one sees it.
LEMMA LevelMeets ==
    ASSUME NEW G, IsGraph(Node, G), NEW H, IsGraph(Node, H), Mirrors(Node, G, H),
           NEW a \in Node, NEW b \in Node, NEW n \in Nat, NEW m \in Nat,
           NEW visited, NEW current, Side(G, a, n, visited, current),
           NEW other, NEW frontier, Side(H, b, m, other, frontier),
           b \notin Ball(G, a, n + m), best_distance = None, meeting_nodes = {},
           Meet(Met(visited, current, G, other, n + 1))
    PROVE  \/ /\ best_distance' = None /\ meeting_nodes' = {}
              /\ b \notin Ball(G, a, n + m + 1)
           \/ /\ best_distance' = n + m + 1 /\ meeting_nodes' = Crossing(G, a, n, H, b, m)
              /\ b \in Ring(G, a, n + m + 1)
<1> DEFINE met == Met(visited, current, G, other, n + 1)
<1>1. met = Crossing(G, a, n, H, b, m)
  BY MetIsCrossing
<1>2. \A r \in met : r.total = n + m + 1
  BY <1>1, CrossingType
<1>3. Meet(met)
  OBVIOUS
<1> HIDE DEF met
<1>4. n + m + 1 \in Nat
  OBVIOUS
<1>5. IF met = {} THEN best_distance' = None /\ meeting_nodes' = {}
                  ELSE best_distance' = n + m + 1 /\ meeting_nodes' = met
  BY <1>2, <1>3, <1>4, MeetFirst
<1>6. /\ met = {} => b \notin Ball(G, a, n + m + 1)
      /\ met # {} => b \in Ring(G, a, n + m + 1)
  BY <1>1, CrossingFound
<1> QED  BY <1>1, <1>5, <1>6

LEMMA ForwardStep ==
    ASSUME follows \in [Node -> SUBSET Node], Searching, ExpandForward
    PROVE  Searching'
<1> DEFINE G == follows
           H == followers
           a == query.from
           b == query.to
           i == fwd_dist
           j == bwd_dist
<1>1. a \in Node /\ b \in Node /\ i \in Nat /\ j \in Nat
  BY DEF Searching, Known
<1>2. IsGraph(Node, G) /\ IsGraph(Node, H) /\ Mirrors(Node, G, H) /\ Mirrors(Node, H, G)
  BY FollowersMirror
<1>3. /\ Side(G, a, i, fwd_visited, fwd_current)
      /\ Side(H, b, j, bwd_visited, bwd_current)
  BY DEF Searching
<1>4. /\ best_distance = None /\ meeting_nodes = {}
      /\ b \notin Ball(G, a, i + j)
  BY StillApart DEF ExpandForward, Apart
<1>5. /\ UNCHANGED <<follows, query, bwd_visited, bwd_current, bwd_dist>>
      /\ fwd_dist' = i + 1
      /\ Meet(Met(fwd_visited, fwd_current, G, bwd_visited, i + 1))
      /\ fwd_visited' = Visit(fwd_visited, fwd_current, G, i + 1)
      /\ fwd_current' = DOMAIN fwd_visited' \ DOMAIN fwd_visited
  BY DEF ExpandForward
<1>6. followers' = H
  BY <1>5 DEF followers
<1> HIDE DEF G, H, a, b, i, j
<1>7. Side(G, a, i + 1, fwd_visited', fwd_current')
  BY <1>1, <1>2, <1>3, <1>5, VisitNext
<1>8. \/ /\ best_distance' = None /\ meeting_nodes' = {}
         /\ b \notin Ball(G, a, i + j + 1)
      \/ /\ best_distance' = i + j + 1 /\ meeting_nodes' = Crossing(G, a, i, H, b, j)
         /\ b \in Ring(G, a, i + j + 1)
  BY <1>1, <1>2, <1>3, <1>4, <1>5, LevelMeets
<1>9. i + j + 1 = (i + 1) + j /\ (i + 1) - 1 = i /\ i + 1 > 0 /\ i + 1 \in Nat
  BY <1>1
<1>10. follows' = G /\ query'.from = a /\ query'.to = b /\ fwd_dist' = i + 1 /\ bwd_dist' = j
  BY <1>5 DEF G, a, b, i, j
<1>11. Apart' \/ Joined'
  BY <1>6, <1>8, <1>9, <1>10 DEF Apart, Joined
<1>12. Known(query') /\ query'.from # query'.to
  BY <1>5 DEF Searching
<1>13. Side(H, b, j, bwd_visited', bwd_current')
  BY <1>3, <1>5
<1> QED  BY <1>1, <1>6, <1>7, <1>9, <1>10, <1>11, <1>12, <1>13 DEF Searching

LEMMA BackwardStep ==
    ASSUME follows \in [Node -> SUBSET Node], Searching, ExpandBackward
    PROVE  Searching'
<1> DEFINE G == follows
           H == followers
           a == query.from
           b == query.to
           i == fwd_dist
           j == bwd_dist
<1>1. a \in Node /\ b \in Node /\ i \in Nat /\ j \in Nat /\ i + j \in Nat /\ i + j = j + i
  BY DEF Searching, Known
<1>2. IsGraph(Node, G) /\ IsGraph(Node, H) /\ Mirrors(Node, G, H) /\ Mirrors(Node, H, G)
  BY FollowersMirror
<1>3. /\ Side(G, a, i, fwd_visited, fwd_current)
      /\ Side(H, b, j, bwd_visited, bwd_current)
  BY DEF Searching
<1>4. /\ best_distance = None /\ meeting_nodes = {}
      /\ b \notin Ball(G, a, i + j)
  BY StillApart DEF ExpandBackward, Apart
<1>5. /\ UNCHANGED <<follows, query, fwd_visited, fwd_current, fwd_dist>>
      /\ bwd_dist' = j + 1
      /\ Meet(Met(bwd_visited, bwd_current, H, fwd_visited, j + 1))
      /\ bwd_visited' = Visit(bwd_visited, bwd_current, H, j + 1)
      /\ bwd_current' = DOMAIN bwd_visited' \ DOMAIN bwd_visited
  BY DEF ExpandBackward
<1>6. followers' = H
  BY <1>5 DEF followers
<1> HIDE DEF G, H, a, b, i, j
<1>7. Side(H, b, j + 1, bwd_visited', bwd_current')
  BY <1>1, <1>2, <1>3, <1>5, VisitNext
<1>8. \A n \in Nat : a \in Ball(H, b, n) <=> b \in Ball(G, a, n)
  BY <1>1, <1>2, BallMirror
<1>9. \A n \in Nat : a \in Ring(H, b, n) <=> b \in Ring(G, a, n)
  BY <1>1, <1>2, RingMirror
<1>10. a \notin Ball(H, b, j + i)
  BY <1>1, <1>4, <1>8
<1>11. \/ /\ best_distance' = None /\ meeting_nodes' = {}
          /\ a \notin Ball(H, b, j + i + 1)
       \/ /\ best_distance' = j + i + 1 /\ meeting_nodes' = Crossing(H, b, j, G, a, i)
          /\ a \in Ring(H, b, j + i + 1)
  BY <1>1, <1>2, <1>3, <1>4, <1>5, <1>10, LevelMeets
<1>12. /\ j + i + 1 = i + (j + 1) /\ (j + 1) - 1 = j /\ j + 1 > 0 /\ j + 1 \in Nat
       /\ i + (j + 1) \in Nat
  BY <1>1
<1>13. follows' = G /\ query'.from = a /\ query'.to = b /\ bwd_dist' = j + 1 /\ fwd_dist' = i
  BY <1>5 DEF G, a, b, i, j
<1>14. \/ /\ best_distance' = None /\ meeting_nodes' = {}
          /\ b \notin Ball(G, a, i + (j + 1))
       \/ /\ best_distance' = i + (j + 1) /\ meeting_nodes' = Crossing(H, b, j, G, a, i)
          /\ b \in Ring(G, a, i + (j + 1))
  BY <1>8, <1>9, <1>11, <1>12
<1>15. Apart' \/ Joined'
  BY <1>6, <1>12, <1>13, <1>14 DEF Apart, Joined
<1>16. Known(query') /\ query'.from # query'.to
  BY <1>5 DEF Searching
<1>17. Side(G, a, i, fwd_visited', fwd_current')
  BY <1>3, <1>5
<1> QED  BY <1>1, <1>6, <1>7, <1>12, <1>13, <1>15, <1>16, <1>17 DEF Searching

\* The scratch of a search, whichever search left it.
ScratchOK ==
    /\ DOMAIN fwd_visited \subseteq Node /\ Range(fwd_visited) \subseteq Level
    /\ DOMAIN bwd_visited \subseteq Node /\ Range(bwd_visited) \subseteq Level
    /\ fwd_current \subseteq Node /\ bwd_current \subseteq Node
    /\ meeting_nodes \subseteq Meeting
    /\ fwd_dist \in Nat /\ bwd_dist \in Nat /\ best_distance \in Nat \cup {None}

AnswerType == [hops : Nat \cup {None}, path_count : 0..MaxCount,
               mutual_follow : BOOLEAN, bridges : SUBSET Node]

LEMMA SearchingType ==
    ASSUME follows \in [Node -> SUBSET Node], Searching
    PROVE  ScratchOK
<1>1. IsGraph(Node, follows) /\ IsGraph(Node, followers)
  BY FollowersMirror
<1>2. /\ query.from \in Node /\ query.to \in Node /\ fwd_dist \in Nat /\ bwd_dist \in Nat
      /\ Side(follows, query.from, fwd_dist, fwd_visited, fwd_current)
      /\ Side(followers, query.to, bwd_dist, bwd_visited, bwd_current)
      /\ Apart \/ Joined
  BY DEF Searching, Known
<1>3. /\ DOMAIN fwd_visited \subseteq Node /\ Range(fwd_visited) \subseteq Level
      /\ fwd_current \subseteq Node
  BY <1>1, <1>2, SideType
<1>4. /\ DOMAIN bwd_visited \subseteq Node /\ Range(bwd_visited) \subseteq Level
      /\ bwd_current \subseteq Node
  BY <1>1, <1>2, SideType
<1>5. best_distance \in Nat \cup {None}
  BY <1>2 DEF Apart, Joined
<1>6. meeting_nodes \subseteq Meeting
  <2>1. CASE Apart
    BY <2>1 DEF Apart
  <2>2. CASE Joined
    <3>1. CASE /\ fwd_dist > 0
               /\ meeting_nodes = Crossing(follows, query.from, fwd_dist - 1, followers, query.to, bwd_dist)
      <4>1. fwd_dist - 1 \in Nat
        BY <1>2, <3>1
      <4>2. Crossing(follows, query.from, fwd_dist - 1, followers, query.to, bwd_dist) \subseteq Meeting
        BY <1>1, <1>2, <4>1, CrossingType
      <4> QED  BY <3>1, <4>2
    <3>2. CASE /\ bwd_dist > 0
               /\ meeting_nodes = Crossing(followers, query.to, bwd_dist - 1, follows, query.from, fwd_dist)
      <4>1. bwd_dist - 1 \in Nat
        BY <1>2, <3>2
      <4>2. Crossing(followers, query.to, bwd_dist - 1, follows, query.from, fwd_dist) \subseteq Meeting
        BY <1>1, <1>2, <4>1, CrossingType
      <4> QED  BY <3>2, <4>2
    <3> QED  BY <2>2, <3>1, <3>2 DEF Joined
  <2> QED  BY <1>2, <2>1, <2>2
<1> QED  BY <1>2, <1>3, <1>4, <1>5, <1>6 DEF ScratchOK

LEMMA SearchingTypeNext == (follows \in [Node -> SUBSET Node])' /\ Searching' => ScratchOK'
<1>1. follows \in [Node -> SUBSET Node] /\ Searching => ScratchOK
  BY SearchingType
<1> QED  BY <1>1, PTL

TypeOKParts ==
    /\ follows \in [Node -> SUBSET Node]
    /\ pc \in {"idle", "search", "done"} /\ query \in Query \cup {NoQuery}
    /\ answer \in AnswerType
    /\ ScratchOK

LEMMA TypeParts == /\ TypeOK <=> TypeOKParts
                   /\ TypeOK' <=> TypeOKParts'
BY DEF TypeOK, TypeOKParts, ScratchOK, AnswerType, Meeting

\* Mirrored here for the answers the code builds.
LEMMA AnswersType ==
    /\ not_found \in AnswerType /\ same_node \in AnswerType
    /\ \A mutual \in BOOLEAN : Answer(1, 1, mutual, {}) \in AnswerType
<1>1. MaxCount \in Nat /\ MaxCount >= 1
  BY MaxCountAssumption
<1> QED  BY <1>1 DEF AnswerType, not_found, same_node, Answer

LEMMA InitIInv == Init => IInv
<1> SUFFICES ASSUME Init PROVE IInv
  OBVIOUS
<1>1. follows \in [Node -> SUBSET Node]
  BY GraphAssumption DEF Init
<1>2. DOMAIN fwd_visited = {} /\ DOMAIN bwd_visited = {}
  BY DEF Init
<1>3. ScratchOK
  BY <1>2 DEF Init, ScratchOK, Range
<1>4. TypeOK
  BY <1>1, <1>3, TypeParts, AnswersType DEF Init, TypeOKParts
<1> QED  BY <1>4 DEF Init, IInv

LEMMA AskStep ==
    ASSUME IInv, NEW q \in Query, Ask(q)
    PROVE  IInv'
<1>1. /\ query' = q /\ follows' = follows /\ follows \in [Node -> SUBSET Node]
      /\ ScratchOK
  BY TypeParts DEF Ask, IInv, TypeOKParts
<1>2. CASE Shortcut(q) /\ UNCHANGED <<scratch, locals>>
  <2>1. pc' = "done" /\ ScratchOK'
    BY <1>1, <1>2 DEF Shortcut, Reply, ScratchOK, scratch, locals
  <2>2. answer' \in AnswerType /\ Right(follows, q, answer')
    <3>1. CASE q.from = q.to /\ Reply(same_node)
      BY <3>1, AnswersType, SelfAnswer DEF Reply
    <3>2. CASE q.from # q.to /\ {q.from, q.to} \notin SUBSET Node /\ Reply(not_found)
      BY <3>2, AnswersType DEF Reply, Right, Known
    <3>3. CASE /\ q.from # q.to /\ {q.from, q.to} \subseteq Node
               /\ q.max_hops > 0 /\ is_direct(q.from, q.to)
               /\ Reply(Answer(1, 1, Mutual(q), {}))
      <4>1. Mutual(q) \in BOOLEAN
        BY DEF Mutual, is_direct
      <4>2. IsGraph(Node, follows)
        BY <1>1, FollowersMirror
      <4>3. Right(follows, q, Answer(1, 1, Mutual(q), {}))
        BY <3>3, <4>2, DirectAnswer DEF Known, is_direct
      <4>4. Answer(1, 1, Mutual(q), {}) \in AnswerType
        BY <4>1, AnswersType
      <4> QED  BY <3>3, <4>3, <4>4 DEF Reply
    <3> QED  BY <1>2, <3>1, <3>2, <3>3 DEF Shortcut
  <2>3. TypeOK'
    BY <1>1, <2>1, <2>2, TypeParts DEF TypeOKParts
  <2> QED  BY <1>1, <2>1, <2>2, <2>3 DEF IInv
<1>3. CASE Search(q)
  <2>1. pc' = "search" /\ answer' = not_found /\ q.from \in Node /\ q.to \in Node /\ q.from # q.to
    BY <1>3 DEF Search
  <2>2. Side(follows, q.from, 0, fwd_visited', fwd_current')
    BY <1>3, <2>1, SideStart DEF Search, Clear
  <2>3. Side(followers, q.to, 0, bwd_visited', bwd_current')
    BY <1>3, <2>1, SideStart DEF Search, Clear
  <2>4. followers' = followers
    BY <1>1 DEF followers
  <2>5. Ball(follows, q.from, 0) = {q.from}
    BY BallStart
  <2>6. fwd_dist' = 0 /\ bwd_dist' = 0 /\ best_distance' = None /\ meeting_nodes' = {}
    BY <1>3 DEF Search, Clear
  <2>7. Apart'
    BY <1>1, <2>1, <2>5, <2>6 DEF Apart
  <2>8. Searching'
    BY <1>1, <2>1, <2>2, <2>3, <2>4, <2>6, <2>7 DEF Searching, Known
  <2>9. ScratchOK'
    BY <1>1, <2>8, SearchingTypeNext
  <2>10. TypeOK'
    BY <1>1, <2>1, <2>9, TypeParts, AnswersType DEF TypeOKParts
  <2> QED  BY <1>1, <2>1, <2>8, <2>10 DEF IInv
<1> QED  BY <1>2, <1>3 DEF Ask

LEMMA ExpandStep ==
    ASSUME IInv, ExpandForward \/ ExpandBackward
    PROVE  IInv'
<1>1. /\ pc = "search" /\ UNCHANGED <<follows, pc, query, answer>>
  BY DEF ExpandForward, ExpandBackward
<1>2. /\ follows \in [Node -> SUBSET Node] /\ Searching /\ query \in Query
      /\ answer \in AnswerType
  BY <1>1, TypeParts DEF IInv, TypeOKParts
<1>3. Searching'
  BY <1>2, ForwardStep, BackwardStep
<1>4. ScratchOK'
  BY <1>1, <1>2, <1>3, SearchingTypeNext
<1>5. TypeOK'
  BY <1>1, <1>2, <1>4, TypeParts DEF TypeOKParts
<1> QED  BY <1>1, <1>2, <1>3, <1>5 DEF IInv

LEMMA FinishStep ==
    ASSUME IInv, Finish
    PROVE  IInv'
<1>1. /\ pc = "search" /\ Finished /\ pc' = "done"
      /\ UNCHANGED <<follows, query, scratch, locals>>
  BY DEF Finish, Reply
<1>2. /\ follows \in [Node -> SUBSET Node] /\ Searching /\ query \in Query /\ ScratchOK
  BY <1>1, TypeParts DEF IInv, TypeOKParts
<1>3. ScratchOK'
  BY <1>1, <1>2 DEF ScratchOK, scratch, locals
<1>4. Known(query) /\ query.max_hops \in Nat
  BY <1>2, QueryAssumption DEF Searching
<1>5. answer' \in AnswerType /\ Right(follows, query, answer')
  <2>1. CASE Apart
    <3>1. answer' = not_found
      BY <2>1 DEF Finish, Reply, Apart
    <3>2. Distance(follows, query.from, query.to, query.max_hops) = None
      BY <1>1, <1>2, <2>1, ApartAnswer
    <3>3. not_found.hops = None /\ ~(None > 0) /\ ~(None > 1)
      BY DEF not_found, Answer, None
    <3> QED  BY <1>4, <3>1, <3>2, <3>3, AnswersType DEF Right
  <2>2. CASE Joined
    <3> DEFINE n == best_distance
    <3>1. /\ n \in Nat \ {0}
          /\ Distance(follows, query.from, query.to, query.max_hops)
               = IF n <= query.max_hops THEN n ELSE None
          /\ path_count = Saturated(Cardinality(RoutesOf(follows, query.from, query.to, n)))
          /\ \E k \in 1..n :
                bridge_ids = Layer(follows, query.from, query.to, n, k) \ {query.to}
      BY <1>2, <2>2, JoinedAnswer
    <3>2. CASE n <= query.max_hops
      <4>1. answer' = Answer(n, path_count, Mutual(query), bridge_ids)
        BY <3>1, <3>2 DEF Finish, Reply, None
      <4>2. /\ answer'.hops = n /\ answer'.path_count = path_count
            /\ answer'.bridges = bridge_ids
        BY <4>1 DEF Answer
      <4>3. bridge_ids \in SUBSET Node
        BY <1>2 DEF bridge_ids, ScratchOK, Meeting
      <4>4. path_count \in 0..MaxCount
        <5>1. IsFiniteSet(RoutesOf(follows, query.from, query.to, n))
          BY <1>2, <1>4, <3>1, NodeAssumption, RoutesAreWalks, FollowersMirror DEF Known
        <5>2. Cardinality(RoutesOf(follows, query.from, query.to, n)) \in Nat
          BY <5>1, FS_CardinalityType
        <5> QED  BY <3>1, <5>2, MaxCountAssumption DEF Saturated
      <4>5. Mutual(query) \in BOOLEAN
        BY DEF Mutual, is_direct
      <4>6. answer' \in AnswerType
        BY <3>1, <4>1, <4>3, <4>4, <4>5 DEF AnswerType, Answer
      <4> QED  BY <1>4, <3>1, <3>2, <4>2, <4>6 DEF Right
    <3>3. CASE ~(n <= query.max_hops)
      <4>1. answer' = not_found
        BY <3>3 DEF Finish, Reply
      <4>2. not_found.hops = None /\ ~(None > 0) /\ ~(None > 1)
        BY DEF not_found, Answer, None
      <4> QED  BY <1>4, <3>1, <3>3, <4>1, <4>2, AnswersType DEF Right
    <3> QED  BY <3>2, <3>3
  <2> QED  BY <1>2, <2>1, <2>2 DEF Searching
<1>6. TypeOK'
  BY <1>1, <1>2, <1>3, <1>5, TypeParts DEF TypeOKParts
<1> QED  BY <1>1, <1>2, <1>5, <1>6 DEF IInv

LEMMA ReturnStep ==
    ASSUME IInv, Return
    PROVE  IInv'
<1>1. /\ follows' = follows /\ pc' = "idle" /\ query' = NoQuery /\ answer' = not_found
      /\ fwd_dist' = 0 /\ bwd_dist' = 0 /\ best_distance' = None /\ UNCHANGED scratch
  BY DEF Return
<1>2. ScratchOK /\ follows \in [Node -> SUBSET Node]
  BY TypeParts DEF IInv, TypeOKParts
<1>3. ScratchOK'
  BY <1>1, <1>2 DEF ScratchOK, scratch
<1>4. TypeOK'
  BY <1>1, <1>2, <1>3, TypeParts, AnswersType DEF TypeOKParts
<1> QED  BY <1>1, <1>4 DEF IInv

LEMMA StutterStep ==
    ASSUME IInv, UNCHANGED vars
    PROVE  IInv'
<1>1. followers' = followers
  BY DEF vars, followers
<1>2. /\ UNCHANGED <<follows, pc, query, answer, fwd_visited, bwd_visited, fwd_current>>
      /\ UNCHANGED <<bwd_current, meeting_nodes, fwd_dist, bwd_dist, best_distance>>
  BY DEF vars, scratch, locals
<1>3. TypeOK'
  BY <1>2 DEF IInv, TypeOK
<1>4. Searching => Searching'
  BY <1>1, <1>2 DEF Searching, Apart, Joined
<1> QED  BY <1>2, <1>3, <1>4 DEF IInv

LEMMA NextIInv == IInv /\ [Next]_vars => IInv'
<1> SUFFICES ASSUME IInv, [Next]_vars PROVE IInv'
  OBVIOUS
<1>1. CASE \E q \in Query : Ask(q)
  BY <1>1, AskStep
<1>2. CASE ExpandForward \/ ExpandBackward
  BY <1>2, ExpandStep
<1>3. CASE Finish
  BY <1>3, FinishStep
<1>4. CASE Return
  BY <1>4, ReturnStep
<1>5. CASE UNCHANGED vars
  BY <1>5, StutterStep
<1> QED  BY <1>1, <1>2, <1>3, <1>4, <1>5 DEF Next

LEMMA LevelsOfIInv == IInv => LevelsExact
<1> SUFFICES ASSUME IInv, pc = "search", NEW v \in Node
             PROVE  LET out  == Distance(follows, query.from, v, fwd_dist)
                        back == Distance(follows, v, query.to, bwd_dist)
                    IN /\ (v \in DOMAIN fwd_visited) = (out # None)
                       /\ v \in DOMAIN fwd_visited => fwd_visited[v].dist = out
                       /\ (v \in fwd_current) = (out = fwd_dist)
                       /\ (v \in DOMAIN bwd_visited) = (back # None)
                       /\ v \in DOMAIN bwd_visited => bwd_visited[v].dist = back
                       /\ (v \in bwd_current) = (back = bwd_dist)
  BY DEF LevelsExact
<1> DEFINE G == follows
           H == followers
           a == query.from
           b == query.to
           i == fwd_dist
           j == bwd_dist
           out == Distance(G, a, v, i)
           back == Distance(G, v, b, j)
<1>1. /\ follows \in [Node -> SUBSET Node] /\ a \in Node /\ b \in Node /\ i \in Nat /\ j \in Nat
      /\ Side(G, a, i, fwd_visited, fwd_current) /\ Side(H, b, j, bwd_visited, bwd_current)
  BY TypeParts DEF IInv, Searching, Known, TypeOKParts
<1>2. IsGraph(Node, G) /\ IsGraph(Node, H) /\ Mirrors(Node, G, H)
  BY <1>1, FollowersMirror
<1> HIDE DEF G, H, a, b, i, j
<1>3. /\ (v \in DOMAIN fwd_visited) = (out # None)
      /\ v \in DOMAIN fwd_visited => fwd_visited[v].dist = out
      /\ (v \in fwd_current) = (out = i)
  <2>1. CASE v \in Ball(G, a, i)
    <3>1. PICK m \in 0..i : v \in Ring(G, a, m)
      BY <1>1, <2>1, RingOfBall
    <3>2. out = m
      BY <1>1, <3>1, DistanceOfRing
    <3>3. fwd_visited[v] = [dist |-> m, paths |-> Count(G, a, v, m)]
      BY <1>1, <3>1 DEF Side
    <3>4. fwd_visited[v].dist = m
      BY <3>3
    <3>5. v \in Ring(G, a, i) <=> m = i
      BY <1>1, <3>1, RingUnique
    <3> QED  BY <1>1, <2>1, <3>2, <3>4, <3>5 DEF Side, None
  <2>2. CASE v \notin Ball(G, a, i)
    <3>1. out = None
      BY <1>1, <2>2, DistanceNone
    <3> QED  BY <1>1, <2>2, <3>1 DEF Side, Ring, None
  <2> QED  BY <2>1, <2>2
<1>4. /\ (v \in DOMAIN bwd_visited) = (back # None)
      /\ v \in DOMAIN bwd_visited => bwd_visited[v].dist = back
      /\ (v \in bwd_current) = (back = j)
  <2>1. CASE v \in Ball(H, b, j)
    <3>1. PICK m \in 0..j : v \in Ring(H, b, m)
      BY <1>1, <2>1, RingOfBall
    <3>2. b \in Ring(G, v, m)
      BY <1>1, <1>2, <3>1, RingMirror
    <3>3. back = m
      BY <1>1, <3>2, DistanceOfRing
    <3>4. bwd_visited[v] = [dist |-> m, paths |-> Count(H, b, v, m)]
      BY <1>1, <3>1 DEF Side
    <3>5. bwd_visited[v].dist = m
      BY <3>4
    <3>6. v \in Ring(H, b, j) <=> m = j
      BY <1>1, <3>1, RingUnique
    <3> QED  BY <1>1, <2>1, <3>3, <3>5, <3>6 DEF Side, None
  <2>2. CASE v \notin Ball(H, b, j)
    <3>1. b \notin Ball(G, v, j)
      BY <1>1, <1>2, <2>2, BallMirror
    <3>2. back = None
      BY <1>1, <3>1, DistanceNone
    <3> QED  BY <1>1, <2>2, <3>2 DEF Side, Ring, None
  <2> QED  BY <2>1, <2>2
<1> QED  BY <1>3, <1>4 DEF G, a, b, i, j

LEMMA AnswersOfIInv == IInv => DistanceExact /\ PathCountExact /\ BridgesAreOneLayer
BY DEF IInv, Right, DistanceExact, PathCountExact, BridgesAreOneLayer, Shortest, Layer

-------------------------------------------------------------------------------
(* The theorems.                                                               *)

LEMMA InvCorrect == Spec => []IInv
BY InitIInv, NextIInv, PTL DEF Spec

(* The scratch state, kept from one question to the next, is always made of    *)
(* nodes, levels and counts that fit.                                          *)
THEOREM TypeCorrect == Spec => []TypeOK
<1>1. IInv => TypeOK
  BY DEF IInv
<1> QED  BY <1>1, InvCorrect, PTL

(* Each side of compute_distance holds exactly the nodes within its number of  *)
(* levels, at their distance, for every graph and question.                    *)
THEOREM LevelsCorrect == Spec => []LevelsExact
BY LevelsOfIInv, InvCorrect, PTL

(* compute_distance answers with the length of a shortest route, and null when *)
(* none is within max_hops.                                                    *)
THEOREM DistanceCorrect == Spec => []DistanceExact
<1>1. IInv => DistanceExact
  BY AnswersOfIInv
<1> QED  BY <1>1, InvCorrect, PTL

(* path_count is the number of shortest routes, saturated, though either side  *)
(* counts, and saturates, by itself.                                           *)
THEOREM PathCountCorrect == Spec => []PathCountExact
<1>1. IInv => PathCountExact
  BY AnswersOfIInv
<1> QED  BY <1>1, InvCorrect, PTL

(* The bridges of an answer are one layer of its shortest routes.              *)
THEOREM BridgesCorrect == Spec => []BridgesAreOneLayer
<1>1. IInv => BridgesAreOneLayer
  BY AnswersOfIInv
<1> QED  BY <1>1, InvCorrect, PTL

===============================================================================
