------------------------------ MODULE Dvm_proofs ------------------------------
(***************************************************************************)
(* The DVM, for any messages, pubkeys, channel capacity and requests       *)
(* beside it.                                                              *)
(*                                                                         *)
(* First what Read computes for tags of any number: its fold, a recursive  *)
(* function, exists by induction on the number of tags and makes one       *)
(* ReadTag step per tag (ReadSteps), so that the inputs after each tag can *)
(* be followed (ReadAlong) for each of the documented formats.  Then the   *)
(* DVM as a behaviour of Queries, whose invariant holds therefore, and the *)
(* question on its way through the slot: at each place it is in look, in   *)
(* misses, in hand or among the results, and no other is (Serving).        *)
(***************************************************************************)
EXTENDS Dvm, Queries_proofs, WellFoundedInduction, SequenceTheorems

-------------------------------------------------------------------------------
(* Reading a request: what the fold over its tags computes. *)

\* Induction over the natural numbers, for the set of those a claim holds of.
LEMMA NatInduct ==
    ASSUME NEW S, 0 \in S, \A n \in Nat : n \in S => n + 1 \in S
    PROVE  \A n \in Nat : n \in S
<1> DEFINE T == Nat \ S
<1> SUFFICES ASSUME T # {} PROVE FALSE
  OBVIOUS
<1>1. \E x \in T : \A y \in T : ~ (<<y, x>> \in OpToRel(<, Nat))
  BY NatLessThanWellFounded, WFMin
<1>2. PICK x \in T : \A y \in T : ~ (y < x)
  BY <1>1 DEF OpToRel
<1>3. x # 0 /\ x - 1 \in Nat
  OBVIOUS
<1>4. x - 1 \in S
  BY <1>2, <1>3
<1> QED
  BY <1>3, <1>4

LEMMA MaxExists ==
    \A n \in Nat : \A s \in SUBSET (1..n) : s # {} => \E x \in s : \A y \in s : x >= y
<1> DEFINE P(n) == \A s \in SUBSET (1..n) : s # {} => \E x \in s : \A y \in s : x >= y
           S == {n \in Nat : P(n)}
<1>1. P(0)
  <2>1. \A s \in SUBSET (1..0) : s = {}
    OBVIOUS
  <2> QED  BY <2>1, Zenon
<1>2. ASSUME NEW n \in Nat, P(n) PROVE P(n + 1)
  <2> SUFFICES ASSUME NEW s \in SUBSET (1..(n + 1)), s # {}
               PROVE  \E x \in s : \A y \in s : x >= y
    OBVIOUS
  <2>1. CASE n + 1 \in s
    <3>1. \A y \in s : n + 1 >= y
      OBVIOUS
    <3> QED  BY <2>1, <3>1
  <2>2. CASE n + 1 \notin s
    <3>1. s \in SUBSET (1..n)
      BY <2>2
    <3> QED  BY <1>2, <3>1
  <2> QED  BY <2>1, <2>2
<1> HIDE DEF P
<1>3. 0 \in S /\ \A n \in Nat : n \in S => n + 1 \in S
  BY <1>1, <1>2
<1>4. \A n \in Nat : n \in S
  <2> HIDE DEF S
  <2> QED  BY <1>3, NatInduct
<1>5. \A n \in Nat : P(n)
  BY <1>4
<1> QED  BY <1>5 DEF P

LEMMA MaxIsIn ==
    ASSUME NEW n \in Nat, NEW s \in SUBSET (1..n), s # {}
    PROVE  Max(s) \in s /\ \A y \in s : Max(s) >= y
BY MaxExists, Zenon DEF Max

Fresh == [inputs |-> <<>>, hops |-> DefaultHops]

\* The fold over the tags at a set of positions takes the last one of the set.
Folded(tags, it, s) == IF s = {} THEN Fresh ELSE ReadTag(tags[Max(s)], it[s \ {Max(s)}])

\* The equation the recursive function inside Read solves.
IsReading(D, tags, it) == it = [s \in D |-> Folded(tags, it, s)]

LEMMA FoldedSame ==
    ASSUME NEW tags, NEW it, NEW other, NEW s,
           s # {} => it[s \ {Max(s)}] = other[s \ {Max(s)}]
    PROVE  Folded(tags, it, s) = Folded(tags, other, s)
BY Zenon DEF Folded

LEMMA ReadingValues ==
    ASSUME NEW D, NEW tags, NEW it, IsReading(D, tags, it)
    PROVE  \A s \in D : it[s] = Folded(tags, it, s)
<1> DEFINE E == [s \in D |-> Folded(tags, it, s)]
<1>1. it = E
  BY Zenon DEF IsReading
<1>2. \A s \in D : E[s] = Folded(tags, it, s)
  BY Zenon
<1> QED  BY <1>1, <1>2, Zenon

\* What is left without its greatest number lies below that.
LEMMA WithoutMax ==
    ASSUME NEW n \in Nat, NEW s \in SUBSET (1..(n + 1)), s # {}
    PROVE  /\ s \ {Max(s)} \in SUBSET (1..n)
           /\ Max(s) # n + 1 => s \in SUBSET (1..n)
<1>1. PICK m : m = Max(s)
  OBVIOUS
<1>2. n + 1 \in Nat
  OBVIOUS
<1>3. m \in s /\ \A y \in s : m >= y
  BY <1>1, <1>2, MaxIsIn, Zenon
<1>4. s \ {m} \in SUBSET (1..n) /\ (m # n + 1 => s \in SUBSET (1..n))
  BY <1>3
<1> QED  BY <1>1, <1>4, Zenon

\* The fold exists, whatever the number of tags.
LEMMA ReadingExists ==
    ASSUME NEW tags
    PROVE  \A n \in Nat : \E it : IsReading(SUBSET (1..n), tags, it)
<1> DEFINE P(n) == \E it : IsReading(SUBSET (1..n), tags, it)
           T == {n \in Nat : P(n)}
<1>1. P(0)
  <2> DEFINE it == [s \in SUBSET (1..0) |-> Fresh]
             E == [s \in SUBSET (1..0) |-> Folded(tags, it, s)]
  <2>1. \A s \in SUBSET (1..0) : s = {}
    OBVIOUS
  <2>2. \A s \in SUBSET (1..0) : Folded(tags, it, s) = Fresh
    BY <2>1, Zenon DEF Folded
  <2>3. it = E
    BY <2>2, Zenon
  <2>4. IsReading(SUBSET (1..0), tags, it)
    BY <2>3, Zenon DEF IsReading
  <2> QED  BY <2>4, Zenon
<1>2. ASSUME NEW n \in Nat, P(n) PROVE P(n + 1)
  <2>1. PICK it : IsReading(SUBSET (1..n), tags, it)
    BY <1>2
  <2> DEFINE D == SUBSET (1..(n + 1))
             V == [s \in D |-> Folded(tags, it, s)]
             E == [s \in D |-> Folded(tags, V, s)]
  <2>2. \A s \in SUBSET (1..n) : it[s] = Folded(tags, it, s)
    <3> DEFINE B == SUBSET (1..n)
    <3> HIDE DEF P, D, V, E, B
    <3>1. IsReading(B, tags, it)
      BY <2>1 DEF B
    <3>2. \A s \in B : it[s] = Folded(tags, it, s)
      BY <3>1, ReadingValues, SMT
    <3> QED  BY <3>2 DEF B
  <2>3. \A s \in SUBSET (1..n) : s \in D
    OBVIOUS
  <2>4. \A s \in SUBSET (1..n) : V[s] = it[s]
    BY <2>2, <2>3, Zenon
  <2>5. \A s \in D : s # {} => s \ {Max(s)} \in SUBSET (1..n)
    BY WithoutMax, Zenon
  <2>6. ASSUME NEW s \in D PROVE Folded(tags, V, s) = Folded(tags, it, s)
    <3> HIDE DEF V, E, D
    <3> QED  BY <2>4, <2>5, FoldedSame, Zenon
  <2>7. V = E
    BY <2>6, Zenon
  <2>8. IsReading(D, tags, V)
    BY <2>7, Zenon DEF IsReading
  <2> QED  BY <2>8, Zenon
<1> HIDE DEF P
<1>3. 0 \in T /\ \A n \in Nat : n \in T => n + 1 \in T
  BY <1>1, <1>2
<1>4. \A n \in Nat : n \in T
  <2> HIDE DEF T
  <2> QED  BY <1>3, NatInduct
<1>5. \A n \in Nat : P(n)
  BY <1>4
<1> QED  BY <1>5, Zenon DEF P

\* Read, as the request after each tag.
LEMMA ReadSteps ==
    ASSUME NEW tags, Len(tags) \in Nat, DOMAIN tags = 1..Len(tags)
    PROVE  \E R : /\ R[0] = Fresh
                  /\ \A k \in 1..Len(tags) : R[k] = ReadTag(tags[k], R[k - 1])
                  /\ Read(tags) = R[Len(tags)]
<1> DEFINE n == Len(tags)
<1>1. \E it : IsReading(SUBSET (1..n), tags, it) /\ Read(tags) = it[1..n]
  <2> DEFINE it == CHOOSE f : IsReading(SUBSET (1..n), tags, f)
  <2>1. Read(tags) = it[1..n]
    BY DEF Read, FoldLeft, MapThenFoldSet, IsReading, Folded, Fresh
  <2>2. IsReading(SUBSET (1..n), tags, it)
    BY ReadingExists, Zenon
  <2> QED  BY <2>1, <2>2, Zenon
<1>2. PICK it : IsReading(SUBSET (1..n), tags, it) /\ Read(tags) = it[1..n]
  BY <1>1, Zenon
<1> DEFINE D == SUBSET (1..n)
<1>3. \A s \in D : it[s] = Folded(tags, it, s)
  <2> HIDE DEF D
  <2>1. IsReading(D, tags, it)
    BY <1>2, Zenon DEF D
  <2> QED  BY <2>1, ReadingValues, SMT
<1> DEFINE R == [k \in 0..n |-> it[1..k]]
<1>4. R[0] = Fresh
  <2>1. 1..0 = {} /\ 1..0 \in SUBSET (1..n)
    OBVIOUS
  <2>2. R[0] = it[1..0]
    OBVIOUS
  <2> QED  BY <1>3, <2>1, <2>2, Zenon DEF Folded
<1>5. ASSUME NEW k \in 1..n PROVE R[k] = ReadTag(tags[k], R[k - 1])
  <2> DEFINE s == 1..k
  <2>1. R[k] = it[s] /\ R[k - 1] = it[1..(k - 1)]
    OBVIOUS
  <2>2. s \in SUBSET (1..n) /\ s # {} /\ s \ {k} = 1..(k - 1) /\ k \in s
    <3> HIDE DEF R
    <3>1. s \in SUBSET (1..n)
      OBVIOUS
    <3>2. k \in s
      OBVIOUS
    <3>3. s \ {k} = 1..(k - 1)
      OBVIOUS
    <3> QED  BY <3>1, <3>2, <3>3
  <2>3. PICK m : m = Max(s)
    OBVIOUS
  <2>4. m = k
    <3>1. m \in s /\ \A y \in s : m >= y
      BY <2>2, <2>3, MaxIsIn, Zenon
    <3> HIDE DEF R
    <3> QED  BY <2>2, <3>1
  <2> HIDE DEF s, R
  <2>5. it[s] = ReadTag(tags[Max(s)], it[s \ {Max(s)}])
    BY <1>3, <2>2, Zenon DEF Folded
  <2> QED  BY <2>1, <2>2, <2>3, <2>4, <2>5, Zenon
<1>6. Read(tags) = R[n]
  BY <1>2
<1> HIDE DEF R
<1> QED  BY <1>4, <1>5, <1>6

\* What a tag does to the depth.
HopsAfter(tag, h) == IF tag[1] = "max_hops" THEN Hops(tag[2]) ELSE h

LEMMA HopsInRange ==
    ASSUME NEW value \in Nat \cup {None}
    PROVE  Hops(value) \in 1..MaxHopsLimit
BY HopsAssumption DEF Hops, MaxU8

LEMMA HopsInside ==
    ASSUME NEW value \in 1..MaxHopsLimit
    PROVE  Hops(value) = value
BY HopsAssumption DEF Hops, MaxU8

\* The depth after the first k tags is the one they ask for.
Honoured(tags, k, h) ==
    /\ (\A j \in 1..k : tags[j][1] # "max_hops") => h = DefaultHops
    /\ \A m \in 1..k :
         /\ tags[m][1] = "max_hops" /\ tags[m][2] \in 1..MaxHopsLimit
         /\ \A j \in 1..k : tags[j][1] = "max_hops" => j <= m
         => h = tags[m][2]

LEMMA HonouredStep ==
    ASSUME NEW tags, NEW k \in Nat, NEW h, Honoured(tags, k, h)
    PROVE  Honoured(tags, k + 1, HopsAfter(tags[k + 1], h))
<1> DEFINE next == HopsAfter(tags[k + 1], h)
<1>1. \A j \in 1..(k + 1) : j \in 1..k \/ j = k + 1
  OBVIOUS
<1>2. k + 1 \in 1..(k + 1) /\ 1..k \subseteq 1..(k + 1) /\ \A j \in 1..k : ~(k + 1 <= j)
  OBVIOUS
<1>3. CASE tags[k + 1][1] = "max_hops"
  <2>1. next = Hops(tags[k + 1][2])
    BY <1>3 DEF HopsAfter
  <2>2. ASSUME NEW m \in 1..(k + 1), tags[m][2] \in 1..MaxHopsLimit,
               \A j \in 1..(k + 1) : tags[j][1] = "max_hops" => j <= m
        PROVE  next = tags[m][2]
    <3>1. m = k + 1
      BY <1>1, <1>2, <1>3, <2>2
    <3> QED  BY <2>1, <2>2, <3>1, HopsInside, Zenon
  <2> HIDE DEF next
  <2> QED  BY <1>2, <1>3, <2>2, Zenon DEF Honoured, next
<1>4. CASE tags[k + 1][1] # "max_hops"
  <2>1. next = h
    BY <1>4 DEF HopsAfter
  <2>2. ASSUME NEW m \in 1..(k + 1), tags[m][1] = "max_hops", tags[m][2] \in 1..MaxHopsLimit,
               \A j \in 1..(k + 1) : tags[j][1] = "max_hops" => j <= m
        PROVE  h = tags[m][2]
    <3>1. m \in 1..k
      BY <1>1, <1>4, <2>2
    <3> QED  BY <1>2, <2>2, <3>1, Zenon DEF Honoured
  <2>3. (\A j \in 1..(k + 1) : tags[j][1] # "max_hops") => h = DefaultHops
    BY <1>2, Zenon DEF Honoured
  <2> HIDE DEF next
  <2> QED  BY <2>1, <2>2, <2>3, Zenon DEF Honoured, next
<1> QED  BY <1>3, <1>4

\* The requests after each tag, if W says which inputs there are by then.
LEMMA ReadAlong ==
    ASSUME NEW tags, Len(tags) \in Nat, DOMAIN tags = 1..Len(tags),
           \A k \in DOMAIN tags : tags[k][1] = "max_hops" => tags[k][2] \in Nat \cup {None},
           NEW W, W[0] = <<>>,
           \A k \in 1..Len(tags) : \A h \in 1..MaxHopsLimit :
               ReadTag(tags[k], [inputs |-> W[k - 1], hops |-> h])
                  = [inputs |-> W[k], hops |-> HopsAfter(tags[k], h)]
    PROVE  \E h \in 1..MaxHopsLimit :
              /\ Read(tags) = [inputs |-> W[Len(tags)], hops |-> h]
              /\ Honours(tags, h)
<1> DEFINE n == Len(tags)
<1>1. PICK R : /\ R[0] = Fresh
               /\ \A k \in 1..n : R[k] = ReadTag(tags[k], R[k - 1])
               /\ Read(tags) = R[n]
  BY ReadSteps, Zenon
<1> DEFINE P(k) == k <= n => \E h \in 1..MaxHopsLimit :
                        R[k] = [inputs |-> W[k], hops |-> h] /\ Honoured(tags, k, h)
           S == {k \in Nat : P(k)}
<1>2. P(0)
  <2>1. Honoured(tags, 0, DefaultHops)
    BY DEF Honoured
  <2> QED  BY <1>1, <2>1, HopsAssumption DEF Fresh
<1>3. ASSUME NEW k \in Nat, P(k) PROVE P(k + 1)
  <2> SUFFICES ASSUME k + 1 <= n
               PROVE  \E h \in 1..MaxHopsLimit :
                        R[k + 1] = [inputs |-> W[k + 1], hops |-> h] /\ Honoured(tags, k + 1, h)
    OBVIOUS
  <2>1. k + 1 \in 1..n /\ (k + 1) - 1 = k /\ k <= n
    OBVIOUS
  <2>2. PICK h \in 1..MaxHopsLimit :
               R[k] = [inputs |-> W[k], hops |-> h] /\ Honoured(tags, k, h)
    BY <1>3, <2>1
  <2> HIDE DEF P, S
  <2>3. R[k + 1] = ReadTag(tags[k + 1], [inputs |-> W[k], hops |-> h])
    BY <1>1, <2>1, <2>2
  <2>4. ReadTag(tags[k + 1], [inputs |-> W[(k + 1) - 1], hops |-> h])
           = [inputs |-> W[k + 1], hops |-> HopsAfter(tags[k + 1], h)]
    BY <2>1, Zenon
  <2>5. HopsAfter(tags[k + 1], h) \in 1..MaxHopsLimit
    <3>1. CASE tags[k + 1][1] = "max_hops"
      <4>1. tags[k + 1][2] \in Nat \cup {None}
        BY <2>1, <3>1, Zenon
      <4> QED  BY <3>1, <4>1, HopsInRange, Zenon DEF HopsAfter
    <3>2. CASE tags[k + 1][1] # "max_hops"
      BY <3>2 DEF HopsAfter
    <3> QED  BY <3>1, <3>2
  <2>6. Honoured(tags, k + 1, HopsAfter(tags[k + 1], h))
    BY <2>2, HonouredStep
  <2> QED  BY <2>1, <2>2, <2>3, <2>4, <2>5, <2>6
<1> HIDE DEF P
<1>4. 0 \in S /\ \A k \in Nat : k \in S => k + 1 \in S
  BY <1>2, <1>3
<1>5. \A k \in Nat : k \in S
  <2> HIDE DEF S
  <2> QED  BY <1>4, NatInduct
<1>6. P(n)
  BY <1>5
<1>7. PICK h \in 1..MaxHopsLimit : R[n] = [inputs |-> W[n], hops |-> h] /\ Honoured(tags, n, h)
  BY <1>6 DEF P
<1>8. Honours(tags, h)
  <2>1. \A j : j \in Tagged(tags, "max_hops") <=> j \in 1..n /\ tags[j][1] = "max_hops"
    BY DEF Tagged
  <2> QED  BY <1>7, <2>1, Zenon DEF Honours, Honoured
<1> QED  BY <1>1, <1>7, <1>8

\* A tag of another name leaves the inputs alone.
LEMMA OtherTag ==
    ASSUME NEW tag, NEW s, NEW h, tag[1] \notin {"i", "from", "to"}
    PROVE  ReadTag(tag, [inputs |-> s, hops |-> h]) = [inputs |-> s, hops |-> HopsAfter(tag, h)]
BY DEF ReadTag, HopsAfter

\* The tag turns the inputs a into b.
Turns(tag, a, b) ==
    /\ tag[1] # "max_hops"
    /\ \A h : ReadTag(tag, [inputs |-> a, hops |-> h]) = [inputs |-> b, hops |-> h]

LEMMA InputTags ==
    ASSUME NEW tag, NEW s
    PROVE  /\ tag[1] = "i" /\ Len(tag[2]) <= 2 => Turns(tag, s, s \o tag[2])
           /\ tag[1] = "from" => Turns(tag, s, <<tag[2]>> \o s)
           /\ tag[1] = "to" => Turns(tag, s, s \o <<tag[2]>>)
<1>1. ASSUME tag[1] = "i", Len(tag[2]) <= 2 PROVE Turns(tag, s, s \o tag[2])
  BY <1>1 DEF ReadTag, Turns
<1>2. ASSUME tag[1] = "from" PROVE Turns(tag, s, <<tag[2]>> \o s)
  BY <1>2 DEF ReadTag, Turns
<1>3. ASSUME tag[1] = "to" PROVE Turns(tag, s, s \o <<tag[2]>>)
  BY <1>3 DEF ReadTag, Turns
<1> QED  BY <1>1, <1>2, <1>3

LEMMA Joined ==
    ASSUME NEW from, NEW to
    PROVE  /\ <<>> \o <<from>> = <<from>> /\ <<from>> \o <<>> = <<from>>
           /\ <<>> \o <<from, to>> = <<from, to>>
           /\ <<from>> \o <<to>> = <<from, to>>
<1>1. <<>> \o <<from>> = <<from>> /\ <<from>> \o <<>> = <<from>>
  OBVIOUS
<1>2. <<>> \o <<from, to>> = <<from, to>>
  OBVIOUS
<1>3. <<from>> \o <<to>> = <<from, to>>
  <2> DEFINE S == {from, to}
             both == <<from>> \o <<to>>
  <2>1. <<from>> \in Seq(S) /\ <<to>> \in Seq(S)
    OBVIOUS
  <2>2. both \in Seq(S) /\ Len(both) = 2 /\ both[1] = from /\ both[2] = to
    BY <2>1, ConcatProperties
  <2> HIDE DEF both
  <2>3. both = <<from, to>>
    BY <2>2
  <2> QED  BY <2>3 DEF both
<1> QED  BY <1>1, <1>2, <1>3

\* What a message is, as far as it has been read.
IsMessage(tags) ==
    /\ Len(tags) \in Nat /\ DOMAIN tags = 1..Len(tags)
    /\ \A k \in DOMAIN tags : tags[k][1] = "max_hops" => tags[k][2] \in Nat \cup {None}

LEMMA MessagesAreSequences == \A m \in Message : IsMessage(m)
<1> TAKE m \in Message
<1>1. m \in Seq(ToSet(m))
  BY MessageAssumption
<1>2. Len(m) \in Nat /\ DOMAIN m = 1..Len(m)
  <2> DEFINE S == ToSet(m)
  <2> HIDE DEF S
  <2>1. m \in Seq(S)
    BY <1>1 DEF S
  <2> QED  BY <2>1
<1> QED  BY <1>2, MessageAssumption, Zenon DEF IsMessage

Reads(tags, inputs) ==
    \E h \in 1..MaxHopsLimit :
        /\ Read(tags) = [inputs |-> inputs, hops |-> h]
        /\ Honours(tags, h)

LEMMA TurnsAlong ==
    ASSUME NEW tag, NEW a, NEW b, NEW h, Turns(tag, a, b)
    PROVE  ReadTag(tag, [inputs |-> a, hops |-> h]) = [inputs |-> b, hops |-> HopsAfter(tag, h)]
BY Zenon DEF Turns, HopsAfter

\* One tag holds the whole question.
LEMMA ReadOne ==
    ASSUME NEW tags, IsMessage(tags), NEW j \in 1..Len(tags), NEW b,
           \A k \in 1..Len(tags) : k # j => tags[k][1] \notin {"i", "from", "to"},
           Turns(tags[j], <<>>, b)
    PROVE  Reads(tags, b)
<1> DEFINE n == Len(tags)
           W == [k \in 0..n |-> IF k < j THEN <<>> ELSE b]
<1>1. n \in Nat /\ W[0] = <<>> /\ W[n] = b
  BY DEF IsMessage
<1>2. ASSUME NEW k \in 1..n, NEW h \in 1..MaxHopsLimit
      PROVE  ReadTag(tags[k], [inputs |-> W[k - 1], hops |-> h])
                = [inputs |-> W[k], hops |-> HopsAfter(tags[k], h)]
  <2>1. CASE k = j
    <3>1. W[k - 1] = <<>> /\ W[k] = b
      BY <1>1, <2>1
    <3>2. ReadTag(tags[j], [inputs |-> <<>>, hops |-> h])
             = [inputs |-> b, hops |-> HopsAfter(tags[j], h)]
      BY TurnsAlong, Zenon
    <3> HIDE DEF W
    <3> QED  BY <2>1, <3>1, <3>2
  <2>2. CASE k # j
    <3>1. W[k - 1] = W[k]
      BY <1>1, <2>2
    <3> HIDE DEF W
    <3> QED  BY <2>2, <3>1, OtherTag, Zenon
  <2> QED  BY <2>1, <2>2
<1> HIDE DEF W
<1> QED  BY <1>1, <1>2, ReadAlong, Zenon DEF IsMessage, Reads

\* Two tags hold its two ends.
LEMMA ReadTwo ==
    ASSUME NEW tags, IsMessage(tags),
           NEW j \in 1..Len(tags), NEW l \in 1..Len(tags), j < l, NEW a, NEW b,
           \A k \in 1..Len(tags) : k # j /\ k # l => tags[k][1] \notin {"i", "from", "to"},
           Turns(tags[j], <<>>, a), Turns(tags[l], a, b)
    PROVE  Reads(tags, b)
<1> DEFINE n == Len(tags)
           W == [k \in 0..n |-> IF k < j THEN <<>> ELSE IF k < l THEN a ELSE b]
<1>1. n \in Nat /\ W[0] = <<>> /\ W[n] = b
  BY DEF IsMessage
<1>2. ASSUME NEW k \in 1..n, NEW h \in 1..MaxHopsLimit
      PROVE  ReadTag(tags[k], [inputs |-> W[k - 1], hops |-> h])
                = [inputs |-> W[k], hops |-> HopsAfter(tags[k], h)]
  <2>1. CASE k = j
    <3>1. W[k - 1] = <<>> /\ W[k] = a
      BY <1>1, <2>1
    <3>2. ReadTag(tags[j], [inputs |-> <<>>, hops |-> h])
             = [inputs |-> a, hops |-> HopsAfter(tags[j], h)]
      BY TurnsAlong, Zenon
    <3> HIDE DEF W
    <3> QED  BY <2>1, <3>1, <3>2
  <2>2. CASE k = l
    <3>1. W[k - 1] = a /\ W[k] = b
      BY <1>1, <2>2
    <3>2. ReadTag(tags[l], [inputs |-> a, hops |-> h])
             = [inputs |-> b, hops |-> HopsAfter(tags[l], h)]
      BY TurnsAlong, Zenon
    <3> HIDE DEF W
    <3> QED  BY <2>2, <3>1, <3>2
  <2>3. CASE k # j /\ k # l
    <3>1. W[k - 1] = W[k]
      BY <1>1, <2>3
    <3> HIDE DEF W
    <3> QED  BY <2>3, <3>1, OtherTag, Zenon
  <2> QED  BY <2>1, <2>2, <2>3
<1> HIDE DEF W
<1> QED  BY <1>1, <1>2, ReadAlong, Zenon DEF IsMessage, Reads

\* A request in a documented format is read as it is meant.
LEMMA ReadsTheQuestion ==
    ASSUME NEW tags \in Message, NEW from, NEW to, AsksFor(tags, from, to)
    PROVE  Reads(tags, <<from, to>>)
<1> DEFINE i == Tagged(tags, "i")  f == Tagged(tags, "from")  t == Tagged(tags, "to")
           n == Len(tags)
<1>1. IsMessage(tags)
  BY MessagesAreSequences
<1>2. DOMAIN tags = 1..n
  BY <1>1 DEF IsMessage
<1>3. \A k \in 1..n : /\ k \notin i => tags[k][1] # "i"
                      /\ k \notin f => tags[k][1] # "from"
                      /\ k \notin t => tags[k][1] # "to"
  BY <1>2 DEF Tagged
<1>4. i \subseteq 1..n /\ f \subseteq 1..n /\ t \subseteq 1..n
  BY <1>2 DEF Tagged
<1>5. ASSUME NEW tag
      PROVE  /\ tag = <<"i", <<from>> >> => Turns(tag, <<>>, <<from>>)
             /\ tag = <<"i", <<to>> >> => Turns(tag, <<from>>, <<from, to>>)
             /\ tag = <<"i", <<from, to>> >> => Turns(tag, <<>>, <<from, to>>)
             /\ tag = <<"from", from>> => /\ Turns(tag, <<>>, <<from>>)
                                          /\ Turns(tag, <<to>>, <<from, to>>)
             /\ tag = <<"to", to>> => /\ Turns(tag, <<>>, <<to>>)
                                      /\ Turns(tag, <<from>>, <<from, to>>)
  <2>1. ASSUME tag = <<"i", <<from>> >> PROVE Turns(tag, <<>>, <<from>>)
    <3>1. tag[1] = "i" /\ tag[2] = <<from>> /\ Len(tag[2]) <= 2
      BY <2>1
    <3>2. Turns(tag, <<>>, <<>> \o tag[2])
      BY <3>1, InputTags, Zenon
    <3>3. <<>> \o <<from>> = <<from>>
      BY Joined, Zenon
    <3> QED  BY <3>1, <3>2, <3>3, Zenon
  <2>2. ASSUME tag = <<"i", <<to>> >> PROVE Turns(tag, <<from>>, <<from, to>>)
    <3>1. tag[1] = "i" /\ tag[2] = <<to>> /\ Len(tag[2]) <= 2
      BY <2>2
    <3>2. Turns(tag, <<from>>, <<from>> \o tag[2])
      BY <3>1, InputTags, Zenon
    <3>3. <<from>> \o <<to>> = <<from, to>>
      BY Joined, Zenon
    <3> QED  BY <3>1, <3>2, <3>3, Zenon
  <2>3. ASSUME tag = <<"i", <<from, to>> >> PROVE Turns(tag, <<>>, <<from, to>>)
    <3>1. tag[1] = "i" /\ tag[2] = <<from, to>> /\ Len(tag[2]) <= 2
      BY <2>3
    <3>2. Turns(tag, <<>>, <<>> \o tag[2])
      BY <3>1, InputTags, Zenon
    <3>3. <<>> \o <<from, to>> = <<from, to>>
      BY Joined, Zenon
    <3> QED  BY <3>1, <3>2, <3>3, Zenon
  <2>4. ASSUME tag = <<"from", from>> PROVE Turns(tag, <<>>, <<from>>)
    <3>1. tag[1] = "from" /\ tag[2] = from
      BY <2>4
    <3>2. Turns(tag, <<>>, <<tag[2]>> \o <<>>)
      BY <3>1, InputTags, Zenon
    <3>3. <<from>> \o <<>> = <<from>>
      BY Joined, Zenon
    <3> QED  BY <3>1, <3>2, <3>3, Zenon
  <2>5. ASSUME tag = <<"from", from>> PROVE Turns(tag, <<to>>, <<from, to>>)
    <3>1. tag[1] = "from" /\ tag[2] = from
      BY <2>5
    <3>2. Turns(tag, <<to>>, <<tag[2]>> \o <<to>>)
      BY <3>1, InputTags, Zenon
    <3>3. <<from>> \o <<to>> = <<from, to>>
      BY Joined, Zenon
    <3> QED  BY <3>1, <3>2, <3>3, Zenon
  <2>6. ASSUME tag = <<"to", to>> PROVE Turns(tag, <<>>, <<to>>)
    <3>1. tag[1] = "to" /\ tag[2] = to
      BY <2>6
    <3>2. Turns(tag, <<>>, <<>> \o <<tag[2]>>)
      BY <3>1, InputTags, Zenon
    <3>3. <<>> \o <<to>> = <<to>>
      BY Joined, Zenon
    <3> QED  BY <3>1, <3>2, <3>3, Zenon
  <2>7. ASSUME tag = <<"to", to>> PROVE Turns(tag, <<from>>, <<from, to>>)
    <3>1. tag[1] = "to" /\ tag[2] = to
      BY <2>7
    <3>2. Turns(tag, <<from>>, <<from>> \o <<tag[2]>>)
      BY <3>1, InputTags, Zenon
    <3>3. <<from>> \o <<to>> = <<from, to>>
      BY Joined, Zenon
    <3> QED  BY <3>1, <3>2, <3>3, Zenon
  <2> QED  BY <2>1, <2>2, <2>3, <2>4, <2>5, <2>6, <2>7
<1> DEFINE Rest(j, l) == \A k \in 1..n : k # j /\ k # l => tags[k][1] \notin {"i", "from", "to"}
<1> HIDE DEF i, f, t
<1>6. ASSUME f = {}, t = {}, NEW j \in i, NEW l \in i, j < l, i = {j, l},
             tags[j] = <<"i", <<from>> >>, tags[l] = <<"i", <<to>> >>
      PROVE  Reads(tags, <<from, to>>)
  <2>1. Rest(j, l)
    BY <1>3, <1>6
  <2>2. j \in 1..n /\ l \in 1..n
    BY <1>4
  <2>3. Turns(tags[j], <<>>, <<from>>) /\ Turns(tags[l], <<from>>, <<from, to>>)
    BY <1>5, <1>6
  <2> QED  BY <1>1, <1>6, <2>1, <2>2, <2>3, ReadTwo, Zenon
<1>7. ASSUME f = {}, t = {}, NEW j \in i, i = {j}, tags[j] = <<"i", <<from, to>> >>
      PROVE  Reads(tags, <<from, to>>)
  <2>1. Rest(j, j)
    BY <1>3, <1>7
  <2> QED  BY <1>1, <1>4, <1>5, <1>7, <2>1, ReadOne, Zenon
<1>8. ASSUME i = {}, NEW j \in f, NEW l \in t, f = {j}, t = {l},
             tags[j] = <<"from", from>>, tags[l] = <<"to", to>>
      PROVE  Reads(tags, <<from, to>>)
  <2>1. Rest(j, l) /\ Rest(l, j)
    BY <1>3, <1>8
  <2>2. j # l
    BY <1>8
  <2>3. j < l \/ l < j
    BY <1>4, <1>8, <2>2
  <2> QED  BY <1>1, <1>4, <1>5, <1>8, <2>1, <2>3, ReadTwo, Zenon
<1> QED  BY <1>6, <1>7, <1>8, Zenon DEF AsksFor, i, f, t

\* So it is accepted, unless an end is no pubkey.
LEMMA QuestionAccepted ==
    ASSUME NEW tags, NEW from \in Pubkey, NEW to \in Pubkey, Reads(tags, <<from, to>>)
    PROVE  /\ Accepted(Read(tags))
           /\ \E hops \in 1..MaxHopsLimit :
                /\ Key(Read(tags)) = [from |-> from, to |-> to, max_hops |-> hops]
                /\ Honours(tags, hops)
<1>1. PICK h \in 1..MaxHopsLimit :
             /\ Read(tags) = [inputs |-> <<from, to>>, hops |-> h]
             /\ Honours(tags, h)
  BY Zenon DEF Reads
<1>2. Len(<<from, to>>) = 2 /\ ToSet(<<from, to>>) \subseteq Pubkey
  BY DEF ToSet
<1>3. Accepted(Read(tags))
  BY <1>1, <1>2 DEF Accepted
<1>4. Key(Read(tags)) = [from |-> from, to |-> to, max_hops |-> h]
  BY <1>1 DEF Key
<1> QED  BY <1>1, <1>3, <1>4, Zenon
-------------------------------------------------------------------------------
(* The DVM is a behaviour of Queries: its loop drives one of the slots. *)

ChannelOK == channel \in Seq(Event) /\ event \in Event \cup {NoEvent}

LEMMA ChannelInit == DvmInit => ChannelOK
BY DEF DvmInit, ChannelOK

LEMMA ChannelArrives ==
    ASSUME ChannelOK, NEW e \in Event, Arrive(e)
    PROVE  ChannelOK'
<1>1. event' = event
  BY DEF Arrive
<1>2. CASE UNCHANGED channel
  BY <1>1, <1>2 DEF ChannelOK
<1>3. CASE channel' = Append(channel, e)
  BY <1>1, <1>3 DEF ChannelOK
<1>4. CASE Len(channel) >= ChannelCapacity /\ channel' = Append(Tail(channel), e)
  <2>1. channel \in Seq(Event) /\ channel # <<>>
    BY <1>4, CapacityAssumption DEF ChannelOK
  <2>2. Tail(channel) \in Seq(Event)
    BY <2>1
  <2>3. channel' \in Seq(Event)
    <3> DEFINE T == Tail(channel)
    <3> HIDE DEF T
    <3>1. T \in Seq(Event) /\ channel' = Append(T, e)
      BY <1>4, <2>2 DEF T
    <3> QED  BY <3>1
  <2> QED  BY <1>1, <2>3 DEF ChannelOK
<1>5. Len(channel) \in Nat /\ ChannelCapacity \in Nat
  BY CapacityAssumption DEF ChannelOK
<1> QED  BY <1>2, <1>3, <1>4, <1>5 DEF Arrive

LEMMA ChannelReceives ==
    ASSUME ChannelOK, Recv
    PROVE  ChannelOK' /\ event' = Head(channel) /\ Head(channel) \in Event
<1>1. channel \in Seq(Event) /\ channel # <<>> /\ event' = Head(channel) /\ channel' = Tail(channel)
  BY DEF ChannelOK, Recv
<1>2. Head(channel) \in Event /\ Tail(channel) \in Seq(Event)
  BY <1>1
<1> QED  BY <1>1, <1>2 DEF ChannelOK

LEMMA ChannelStep == ChannelOK /\ [DvmNext]_<<vars, dvm>> => ChannelOK'
<1> SUFFICES ASSUME ChannelOK, [DvmNext]_<<vars, dvm>> PROVE ChannelOK'
  OBVIOUS
<1>1. CASE UNCHANGED dvm
  BY <1>1 DEF ChannelOK, dvm
<1>2. ASSUME NEW e \in Event, Arrive(e) PROVE ChannelOK'
  BY <1>2, ChannelArrives
<1>3. CASE Recv
  BY <1>3, ChannelReceives
<1>4. CASE Subscribe \/ Listen \/ RecvLagged \/ Wake \/ Result
  BY <1>4 DEF ChannelOK, Subscribe, Listen, RecvLagged, Wake, Result
<1>5. CASE Compute
  BY <1>5, <1>1 DEF Compute
<1>6. CASE Panicked \/ Send
  BY <1>6 DEF ChannelOK, Panicked, Send, Handled
<1> QED  BY <1>1, <1>2, <1>3, <1>4, <1>5, <1>6 DEF DvmNext, LoopStep, dvm

LEMMA RecvAsks ==
    ASSUME ChannelOK, Recv
    PROVE  \/ Client(Server) /\ loop' = "compute" /\ Ask(Server, {Key(Read(event'.tags))}, FALSE)
           \/ UNCHANGED vars /\ loop' = "error" /\ ~Accepted(Read(event'.tags))
<1>1. event' = Head(channel) /\ Head(channel) \in Event
  BY ChannelReceives
<1>2. CASE /\ Accepted(Read(Head(channel).tags))
           /\ Ask(Server, {Key(Read(Head(channel).tags))}, FALSE) /\ loop' = "compute"
  <2>1. Head(channel).tags \in Message
    BY <1>1 DEF Event
  <2>2. {Key(Read(Head(channel).tags))} \in SUBSET Pair
    BY <1>2, <2>1, MessageAssumption, Zenon
  <2>3. Client(Server)
    BY <1>2, <2>2, Zenon DEF Client
  <2> QED  BY <1>1, <1>2, <2>3, Zenon
<1>3. CASE ~Accepted(Read(Head(channel).tags)) /\ loop' = "error" /\ UNCHANGED vars
  BY <1>1, <1>3, Zenon
<1> QED  BY <1>2, <1>3, Zenon DEF Recv

LEMMA StepOfQueries == ChannelOK /\ [DvmNext]_<<vars, dvm>> => [Next]_vars
<1> SUFFICES ASSUME ChannelOK, [DvmNext]_<<vars, dvm>> PROVE [Next]_vars
  OBVIOUS
<1>0. Server \in Request
  BY ServerAssumption
<1>1. CASE UNCHANGED vars
  BY <1>1
<1>2. ASSUME NEW e \in Event, Arrive(e) PROVE UNCHANGED vars
  BY <1>2 DEF Arrive, vars
<1>3. CASE Recv
  BY <1>0, <1>3, RecvAsks, Zenon DEF Next
<1>4. CASE Subscribe \/ Listen \/ RecvLagged \/ Wake \/ Send
  BY <1>4 DEF Subscribe, Listen, RecvLagged, Wake, Send, vars
<1>5. CASE Compute \/ Result \/ Panicked
  <2>1. Handle(Server)
    BY <1>5, Zenon DEF Compute, Result, Panicked, Handle
  <2> QED  BY <1>0, <2>1, Zenon DEF Next
<1>6. CASE HttpStep \/ TaskStep
  BY <1>6, Zenon DEF HttpStep, TaskStep, Http, Next
<1> QED  BY <1>1, <1>2, <1>3, <1>4, <1>5, <1>6, Zenon DEF DvmNext, LoopStep

\* Whatever HTTP and the DVM do together is what Queries allows: the loop handles
\* its request like any other, and nothing else of it touches the shared state.
THEOREM DvmUsesQueries == DvmSpec => Spec
<1>1. DvmInit => Init
  BY DEF DvmInit
<1> QED
  BY <1>1, ChannelInit, ChannelStep, StepOfQueries, PTL DEF DvmSpec, Spec
-------------------------------------------------------------------------------
(* The question of the request in hand, on its way through the slot. *)

Slot(q) == <<pc[q], task[q], look[q], misses[q], got[q], cur[q]>>

\* What a step of another slot leaves alone.
LEMMA OtherSlot ==
    ASSUME IInv, NEW r \in Request, NEW q \in Request, q # r,
           Handle(r) \/ Work(r) \/ TaskPanics(r) \/ Client(r)
    PROVE  UNCHANGED Slot(q)
<1> USE DEF Set, targets, hand, Slot
<1>0. /\ pc = [x \in Request |-> pc[x]] /\ task = [x \in Request |-> task[x]]
      /\ look = [x \in Request |-> look[x]] /\ misses = [x \in Request |-> misses[x]]
      /\ got = [x \in Request |-> got[x]] /\ cur = [x \in Request |-> cur[x]]
  BY DEF IInv, TypeOK
<1>1. CASE LookUp(r)
  BY <1>0, <1>1 DEF LookUp, Miss
<1>2. CASE ReadEntry(r)
  BY <1>0, <1>2 DEF ReadEntry, Miss, DropHand
<1>3. CASE Recheck(r)
  BY <1>0, <1>3 DEF Recheck, Hit, Miss, DropHand
<1>4. CASE CacheDone(r)
  BY <1>0, <1>4 DEF CacheDone
<1>5. CASE Permit(r)
  BY <1>0, <1>5 DEF Permit, Spawn
<1>6. CASE Busy(r)
  BY <1>0, <1>6 DEF Busy, Clear, DropHand
<1>7. CASE DvmPermit(r)
  BY <1>0, <1>7 DEF DvmPermit, Spawn
<1>8. CASE DvmWait(r)
  BY <1>0, <1>8 DEF DvmWait
<1>9. CASE Collect(r)
  BY <1>0, <1>9 DEF Collect, Clear, DropHand
<1>10. CASE Insert(r)
  BY <1>0, <1>10 DEF Insert, Finished, Hit, DropHand
<1>11. CASE Put(r)
  BY <1>0, <1>11 DEF Put, Finished, Hit, DropHand
<1>12. CASE Respond(r)
  BY <1>0, <1>12 DEF Respond, Clear, DropHand
<1>13. CASE TaskRevision(r)
  BY <1>0, <1>13 DEF TaskRevision
<1>14. CASE TaskIds(r)
  BY <1>0, <1>14 DEF TaskIds
<1>15. CASE TaskUnknown(r)
  BY <1>0, <1>15 DEF TaskUnknown, Computed, Done
<1>16. CASE TaskWalk(r)
  BY <1>0, <1>16 DEF TaskWalk, Computed, Done
<1>17. CASE TaskInsert(r)
  BY <1>0, <1>17 DEF TaskInsert, BatchNext, Hit, DropHand, Done
<1>18. CASE TaskPut(r)
  BY <1>0, <1>18 DEF TaskPut, BatchNext, Hit, DropHand, Done
<1>19. CASE TaskPlain(r)
  BY <1>0, <1>19 DEF TaskPlain, Done
<1>20. CASE TaskPanics(r)
  BY <1>0, <1>20 DEF TaskPanics, Done
<1>21. CASE AskPlain(r)
  BY <1>0, <1>21 DEF AskPlain
<1>22. CASE Cancel(r)
  BY <1>0, <1>22 DEF Cancel
<1>23. ASSUME NEW T, NEW bypass, Ask(r, T, bypass) PROVE UNCHANGED Slot(q)
  BY <1>0, <1>23 DEF Ask
<1> QED  BY <1>1, <1>2, <1>3, <1>4, <1>5, <1>6, <1>7, <1>8, <1>9, <1>10, <1>11, <1>12, <1>13, <1>14,
            <1>15, <1>16, <1>17, <1>18, <1>19, <1>20, <1>21, <1>22, <1>23, Zenon DEF Handle, Work, Client

\* The slot works on the one question k, or has its result.
Serving(k) ==
    /\ look[Server] \cup misses[Server] \cup DOMAIN got[Server] = {k}
    /\ pc[Server] \in {"entry", "recheck", "insert", "put"} => cur[Server] = k
    /\ task[Server] \in {"ids", "walk", "unknown", "done"} => cur[Server] = k
    /\ pc[Server] # "finishing" /\ task[Server] \notin {"plain", "insert", "put"}
    /\ pc[Server] = "respond" => look[Server] = {} /\ misses[Server] = {}

LEMMA ServerIsDvm == IInv => Server \in Request /\ Kind(Server) = "dvm"
BY ServerAssumption DEF IInv, TypeOK, Kind

LEMMA ServingStays ==
    ASSUME NEW k, Serving(k), UNCHANGED Slot(Server)
    PROVE  Serving(k)'
BY DEF Serving, Slot

LEMMA ServingAsked ==
    ASSUME IInv, NEW k, Ask(Server, {k}, FALSE)
    PROVE  Serving(k)'
<1>1. Server \in Request /\ DOMAIN got[Server] = {} /\ task[Server] = "none"
  BY ServerIsDvm DEF Ask, IInv, RequestOK, PhaseOK
<1>2. pc'[Server] = "cache" /\ look'[Server] = {k} /\ misses'[Server] = {}
  BY <1>1 DEF Ask, IInv, TypeOK, Set
<1>3. got' = got /\ task' = task
  BY DEF Ask
<1> QED  BY <1>1, <1>2, <1>3 DEF Serving

\* Every step of the handler that does not end the request.
LEMMA ServingHandled ==
    ASSUME IInv, NEW k, Serving(k), Handle(Server), pc'[Server] # "idle"
    PROVE  Serving(k)' \/ Respond(Server)
<1> USE DEF Set, targets, hand
<1>0. /\ pc = [x \in Request |-> pc[x]] /\ task = [x \in Request |-> task[x]]
      /\ look = [x \in Request |-> look[x]] /\ misses = [x \in Request |-> misses[x]]
      /\ got = [x \in Request |-> got[x]] /\ cur = [x \in Request |-> cur[x]]
      /\ Server \in Request /\ Kind(Server) = "dvm"
  BY ServerIsDvm DEF IInv, TypeOK
<1>1. pc[Server] \in {"running", "finishing", "gone"} <=> task[Server] # "none"
  BY <1>0 DEF IInv, RequestOK, PhaseOK
<1>2. CASE LookUp(Server)
  <2>1. PICK p \in look[Server] :
           \/ Miss(Server, p) /\ UNCHANGED <<cur, rev, pc>>
           \/ cur' = Set(cur, Server, p) /\ pc' = Set(pc, Server, "entry") /\ UNCHANGED targets
    BY <1>2 DEF LookUp
  <2>2. p = k /\ pc[Server] = "cache" /\ task' = task
    BY <1>2, <2>1 DEF Serving, LookUp
  <2>3. CASE Miss(Server, p) /\ UNCHANGED <<cur, rev, pc>>
    BY <1>0, <1>1, <2>2, <2>3 DEF Serving, Miss
  <2>4. CASE cur' = Set(cur, Server, p) /\ pc' = Set(pc, Server, "entry") /\ UNCHANGED targets
    BY <1>0, <1>1, <2>2, <2>4 DEF Serving
  <2> QED  BY <2>1, <2>3, <2>4
<1>3. CASE ReadEntry(Server)
  <2>1. cur[Server] = k /\ pc[Server] = "entry" /\ task' = task
    BY <1>3 DEF Serving, ReadEntry
  <2>2. CASE pc' = Set(pc, Server, "recheck") /\ UNCHANGED <<targets, cur, rev>>
    BY <1>0, <1>1, <2>1, <2>2 DEF Serving
  <2>3. CASE Miss(Server, cur[Server]) /\ pc' = Set(pc, Server, "cache") /\ DropHand(Server)
    BY <1>0, <1>1, <2>1, <2>3 DEF Serving, Miss, DropHand
  <2> QED  BY <1>3, <2>2, <2>3, Zenon DEF ReadEntry
<1>4. CASE Recheck(Server)
  <2>1. /\ cur[Server] = k /\ pc[Server] = "recheck" /\ task' = task
        /\ pc' = Set(pc, Server, "cache") /\ DropHand(Server)
    BY <1>4 DEF Serving, Recheck
  <2>2. CASE Hit(Server, cur[Server], val[Server])
    BY <1>0, <1>1, <2>1, <2>2 DEF Serving, Hit, DropHand
  <2>3. CASE Miss(Server, cur[Server])
    BY <1>0, <1>1, <2>1, <2>3 DEF Serving, Miss, DropHand
  <2> QED  BY <1>4, <2>2, <2>3, Zenon DEF Recheck
<1>5. CASE CacheDone(Server)
  BY <1>0, <1>1, <1>5 DEF Serving, CacheDone, Next1
<1>6. CASE DvmPermit(Server)
  BY <1>0, <1>1, <1>6 DEF Serving, DvmPermit, Spawn
<1>7. CASE DvmWait(Server)
  BY <1>0, <1>1, <1>7 DEF Serving, DvmWait
<1>8. CASE Collect(Server)
  <2>1. pc[Server] = "running" /\ task[Server] = "done" /\ UNCHANGED <<targets, hand>>
    BY <1>0, <1>8 DEF Serving, Collect, Clear, DropHand
  <2>2. pc' = Set(pc, Server, "insert") /\ task' = Set(task, Server, "none")
    BY <1>0, <1>8, <2>1 DEF Collect
  <2> QED  BY <1>0, <2>1, <2>2 DEF Serving
<1>9. ASSUME pc[Server] \in {"insert", "put"}, Finished(Server), UNCHANGED task
      PROVE  Serving(k)'
  <2>1. cur[Server] = k /\ look[Server] \ {k} = {} /\ misses[Server] \ {k} = {}
    BY <1>9 DEF Serving
  <2>2. /\ look'[Server] = {} /\ misses'[Server] = {} /\ DOMAIN got'[Server] = DOMAIN got[Server] \cup {k}
        /\ pc'[Server] = "respond"
    BY <1>0, <1>9, <2>1 DEF Finished, Hit, DropHand, Next1
  <2>3. DOMAIN got[Server] \cup {k} = {k} /\ task'[Server] = "none"
    BY <1>1, <1>9 DEF Serving
  <2> QED  BY <2>2, <2>3 DEF Serving
<1>10. CASE Insert(Server)
  <2>1. CASE pc' = Set(pc, Server, "put") /\ UNCHANGED <<targets, cur>>
    BY <1>0, <1>1, <1>10, <2>1 DEF Serving, Insert
  <2>2. CASE Finished(Server)
    BY <1>9, <1>10, <2>2 DEF Insert
  <2> QED  BY <1>10, <2>1, <2>2 DEF Insert
<1>11. CASE Put(Server)
  BY <1>9, <1>11 DEF Put
<1>12. CASE Permit(Server) \/ Busy(Server)
  BY <1>0, <1>12 DEF Permit, Busy
<1> QED  BY <1>2, <1>3, <1>4, <1>5, <1>6, <1>7, <1>8, <1>10, <1>11, <1>12, Zenon DEF Handle

\* The blocking task computes what was asked.
LEMMA ServingWorks ==
    ASSUME IInv, NEW k, Serving(k), Work(Server) \/ TaskPanics(Server)
    PROVE  Serving(k)'
<1> USE DEF Set, targets, hand
<1>0. /\ task = [x \in Request |-> task[x]] /\ cur = [x \in Request |-> cur[x]]
      /\ Server \in Request /\ Kind(Server) = "dvm"
  BY ServerIsDvm DEF IInv, TypeOK
<1>1. pc[Server] \in {"running", "finishing", "gone"} <=> task[Server] # "none"
  BY <1>0 DEF IInv, RequestOK, PhaseOK
<1>2. CASE TaskRevision(Server)
  <2>1. PICK p \in misses[Server] : cur' = Set(cur, Server, p)
    BY <1>2 DEF TaskRevision
  <2>2. p = k
    BY <2>1 DEF Serving
  <2> QED  BY <1>0, <1>1, <1>2, <2>1, <2>2 DEF Serving, TaskRevision
<1>3. CASE TaskIds(Server)
  BY <1>0, <1>1, <1>3 DEF Serving, TaskIds
<1>4. CASE TaskUnknown(Server)
  BY <1>0, <1>1, <1>4 DEF Serving, TaskUnknown, Computed, Done
<1>5. CASE TaskWalk(Server)
  BY <1>0, <1>1, <1>5 DEF Serving, TaskWalk, Computed, Done
<1>6. CASE TaskPanics(Server)
  BY <1>0, <1>1, <1>6 DEF Serving, TaskPanics, Done
<1>7. ~TaskInsert(Server) /\ ~TaskPut(Server) /\ ~TaskPlain(Server)
  BY DEF Serving, TaskInsert, TaskPut, TaskPlain
<1> QED  BY <1>2, <1>3, <1>4, <1>5, <1>6, <1>7, Zenon DEF Work
-------------------------------------------------------------------------------
(* The loop. *)

Question == Key(Read(event.tags))

LoopOK ==
    /\ loop = "error" => ~Accepted(Read(event.tags))
    /\ loop = "compute" => Serving(Question)
    /\ loop = "send" => DOMAIN reply = {Question}

DvmInv == IInv /\ ChannelOK /\ LoopOK

LEMMA DvmInvInit == DvmInit => DvmInv
<1> SUFFICES ASSUME DvmInit PROVE DvmInv
  OBVIOUS
<1>1. IInv
  BY InvInit DEF DvmInit
<1>2. LoopOK
  BY DEF DvmInit, LoopOK
<1> QED  BY <1>1, <1>2, ChannelInit DEF DvmInv

LEMMA LoopStays ==
    ASSUME LoopOK, UNCHANGED <<loop, event, reply>>,
           \A k : loop = "compute" /\ Serving(k) => Serving(k)'
    PROVE  LoopOK'
<1>1. Question' = Question /\ Accepted(Read(event.tags))' = Accepted(Read(event.tags))
  BY DEF Question
<1>2. PICK k : k = Question
  OBVIOUS
<1>3. loop = "compute" => Serving(k)'
  BY <1>2 DEF LoopOK
<1> QED  BY <1>1, <1>2, <1>3 DEF LoopOK

LEMMA RecvKeepsLoop ==
    ASSUME IInv, ChannelOK, Recv
    PROVE  LoopOK'
<1>1. CASE loop' = "compute" /\ Ask(Server, {Key(Read(event'.tags))}, FALSE)
  <2>1. PICK k : k = Key(Read(event'.tags))
    OBVIOUS
  <2>2. Serving(k)'
    BY <1>1, <2>1, ServingAsked
  <2>3. Question' = k
    BY <2>1 DEF Question
  <2> QED  BY <1>1, <2>2, <2>3 DEF LoopOK
<1>2. CASE loop' = "error" /\ ~Accepted(Read(event'.tags))
  BY <1>2 DEF LoopOK
<1> QED  BY <1>1, <1>2, RecvAsks

LEMMA ResultKeepsLoop ==
    ASSUME IInv, LoopOK, Result
    PROVE  LoopOK'
<1>1. Serving(Question) /\ pc[Server] = "respond"
  BY DEF Result, Respond, LoopOK
<1>2. DOMAIN got[Server] = {Question}
  BY <1>1 DEF Serving
<1>3. loop' = "send" /\ reply' = got[Server] /\ event' = event
  BY DEF Result
<1> QED  BY <1>2, <1>3 DEF LoopOK, Question

LEMMA ComputeKeepsLoop ==
    ASSUME IInv, LoopOK, Compute
    PROVE  LoopOK'
<1>1. Handle(Server) /\ pc'[Server] # "idle" /\ UNCHANGED <<loop, event, reply>>
  BY DEF Compute, dvm
<1>2. ~Respond(Server)
  BY <1>1, ServerIsDvm DEF Respond, IInv, TypeOK, Set
<1>3. ASSUME NEW k, Serving(k) PROVE Serving(k)'
  BY <1>1, <1>2, <1>3, ServingHandled
<1> QED  BY <1>1, <1>3, LoopStays

LEMMA OthersKeepLoop ==
    ASSUME IInv, LoopOK, HttpStep \/ TaskStep, UNCHANGED dvm
    PROVE  LoopOK'
<1>1. UNCHANGED <<loop, event, reply>>
  BY DEF dvm
<1>2. Server \in Request
  BY ServerIsDvm
<1>3. CASE PublishNode \/ CountNode \/ Update \/ Evict
  <2>1. UNCHANGED Slot(Server)
    BY <1>3 DEF PublishNode, CountNode, Update, Evict, Slot, targets, hand
  <2> QED  BY <1>1, <2>1, ServingStays, LoopStays
<1>4. ASSUME NEW r \in Request, r # Server, Handle(r) \/ Work(r) \/ TaskPanics(r) \/ Client(r)
      PROVE  LoopOK'
  <2>1. UNCHANGED Slot(Server)
    BY <1>2, <1>4, OtherSlot
  <2> QED  BY <1>1, <2>1, ServingStays, LoopStays
<1>5. CASE Work(Server) \/ TaskPanics(Server)
  <2>1. ASSUME NEW k, Serving(k) PROVE Serving(k)'
    BY <1>5, <2>1, ServingWorks
  <2> QED  BY <1>1, <2>1, LoopStays
<1> QED  BY <1>3, <1>4, <1>5, Zenon DEF HttpStep, TaskStep, Http

LEMMA DvmInvStep == DvmInv /\ [DvmNext]_<<vars, dvm>> => DvmInv'
<1> SUFFICES ASSUME DvmInv, [DvmNext]_<<vars, dvm>> PROVE DvmInv'
  OBVIOUS
<1>0. IInv /\ ChannelOK /\ LoopOK
  BY DEF DvmInv
<1>1. IInv' /\ ChannelOK'
  BY <1>0, StepOfQueries, InvStep, ChannelStep
<1>2. CASE UNCHANGED <<vars, dvm>>
  <2>1. UNCHANGED Slot(Server) /\ UNCHANGED <<loop, event, reply>>
    BY <1>2 DEF vars, dvm, targets, hand, Slot
  <2> QED  BY <1>0, <1>1, <2>1, ServingStays, LoopStays DEF DvmInv
<1>3. ASSUME NEW e \in Event, Arrive(e) PROVE LoopOK'
  <2>1. UNCHANGED Slot(Server) /\ UNCHANGED <<loop, event, reply>>
    BY <1>3 DEF Arrive, vars, targets, hand, Slot
  <2> QED  BY <1>0, <2>1, ServingStays, LoopStays
<1>4. CASE Subscribe \/ Listen \/ RecvLagged \/ Wake \/ Panicked \/ Send
  <2>1. loop' \in {"subscribed", "recv", "sleep"}
    BY <1>4 DEF Subscribe, Listen, RecvLagged, Wake, Panicked, Send, Handled
  <2> QED  BY <2>1, <1>1 DEF LoopOK, DvmInv
<1> QED  BY <1>0, <1>1, <1>2, <1>3, <1>4, RecvKeepsLoop, ResultKeepsLoop, ComputeKeepsLoop, OthersKeepLoop
         DEF DvmInv, DvmNext, LoopStep

\* A request in a documented format is answered for its source and its target, in
\* that direction, with the depth it asks for or another in range, in whatever
\* order its tags come; an error is sent only to others.  handle_request, for any
\* messages and any others beside it.
THEOREM QuestionsAnswered == DvmSpec => []AnswersTheQuestion
<1>1. DvmInv => AnswersTheQuestion
  <2> SUFFICES ASSUME DvmInv, NEW from \in Pubkey, NEW to \in Pubkey,
                      AsksFor(event.tags, from, to)
               PROVE  /\ loop # "error"
                      /\ loop = "send" => \E hops \in 1..MaxHopsLimit :
                            /\ DOMAIN reply = {[from |-> from, to |-> to, max_hops |-> hops]}
                            /\ Honours(event.tags, hops)
    BY Zenon DEF AnswersTheQuestion
  <2>1. event # NoEvent
    <3>1. NoEvent.tags = <<>> /\ DOMAIN <<>> = {}
      BY DEF NoEvent
    <3>2. ~AsksFor(<<>>, from, to)
      BY <3>1 DEF AsksFor, Tagged
    <3> QED  BY <3>1, <3>2
  <2>2. event.tags \in Message
    BY <2>1 DEF DvmInv, ChannelOK, Event
  <2>3. Reads(event.tags, <<from, to>>)
    BY <2>2, ReadsTheQuestion
  <2>4. /\ Accepted(Read(event.tags))
        /\ \E hops \in 1..MaxHopsLimit :
              /\ Question = [from |-> from, to |-> to, max_hops |-> hops]
              /\ Honours(event.tags, hops)
    BY <2>3, QuestionAccepted, Zenon DEF Question
  <2>5. loop # "error" /\ (loop = "send" => DOMAIN reply = {Question})
    BY <2>4 DEF DvmInv, LoopOK
  <2> QED  BY <2>4, <2>5, Zenon
<1> QED  BY <1>1, DvmInvInit, DvmInvStep, PTL DEF DvmSpec

\* So what Queries promises holds with the DVM beside HTTP: its answers, too, were
\* true during its request, and waiting for permits it neither loses one nor
\* takes one too many.
THEOREM DvmKeepsQueries == DvmSpec => [](AnswersCurrent /\ EntriesMatchRevision /\ PermitsAccounted)
BY DvmUsesQueries, AnswersAreCurrent, EntriesCorrect, PermitsCorrect, PTL
===============================================================================
