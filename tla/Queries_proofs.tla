---------------------------- MODULE Queries_proofs ----------------------------
(***************************************************************************)
(* What queries return, what the cache holds and where the permits are,    *)
(* for any requests, pairs and graph changes.  The invariant follows a     *)
(* value from where it is computed to the cache and to the response: at    *)
(* each step it is known to have been the graph's answer at some revision  *)
(* not before the one read for it, and that one not before the request.    *)
(***************************************************************************)
EXTENDS Queries, FiniteSetTheorems, TLAPS

USE AnswerAssumption, SetupAssumption, RequestAssumption, BoundAssumption

GraphOK ==
    /\ Len(past) = revision /\ past[revision] = answer
    /\ \A p \in Pair \ known : answer[p] = NotFound

\* v was the answer for p at a revision not before from.
WasAnswer(p, v, from) == \E k \in 1..revision : k >= from /\ v = past[k][p]

\* A value waits for its insertion.
Valued(r) ==
    \/ task[r] = "insert" \/ pc[r] = "insert"
    \/ task[r] = "done" /\ pc[r] = "running" /\ Kind(r) # "batch"

\* A target and its revision are in hand.
Holding(r) ==
    \/ pc[r] \in {"entry", "recheck", "put"} \/ task[r] \in {"ids", "walk", "unknown", "put"}
    \/ Valued(r)

HandOK(r) ==
    /\ Holding(r) => cur[r] \in Pair /\ rev[r] \in 1..revision /\ since[r] <= rev[r]
    /\ task[r] = "unknown" => WasAnswer(cur[r], NotFound, rev[r])
    /\ Valued(r) => WasAnswer(cur[r], val[r], rev[r])
    /\ pc[r] \in {"recheck", "put"} \/ task[r] = "put" => val[r] = past[rev[r]][cur[r]]

ResultsOK(r) == \A p \in DOMAIN got[r] : WasAnswer(p, got[r][p], since[r])

PhaseOK(r) ==
    /\ pc[r] \in {"running", "finishing", "gone"} <=> task[r] # "none"
    /\ pc[r] = "running" => task[r] # "plain"
    /\ pc[r] = "idle" => DOMAIN got[r] = {}
    /\ task[r] \in {"insert", "put"} => Kind(r) = "batch"

RequestOK(r) == since[r] <= revision /\ HandOK(r) /\ ResultsOK(r) /\ PhaseOK(r)

IInv ==
    /\ TypeOK /\ GraphOK /\ EntriesMatchRevision /\ PermitsAccounted
    /\ \A r \in Request : RequestOK(r)

-------------------------------------------------------------------------------
(* Permits. *)

Workers == {r \in Request : task[r] \in Working}

LEMMA WorkersFinite == IsFiniteSet(Workers) /\ Cardinality(Workers) \in Nat
<1>1. Workers \subseteq Request
  BY DEF Workers
<1> QED
  BY <1>1, FS_Subset, FS_CardinalityType

LEMMA PermitsStay ==
    ASSUME IInv, UNCHANGED <<setup, free>>,
           \A q \in Request : task'[q] \in Working <=> task[q] \in Working
    PROVE  PermitsAccounted' /\ free' \in (0..Slots)'
<1>1. Workers' = Workers
  BY DEF Workers
<1>2. free + Cardinality(Workers) = Slots
  BY DEF IInv, PermitsAccounted, Workers
<1>3. free' + Cardinality(Workers') = Slots'
  BY <1>1, <1>2 DEF Slots
<1>4. free \in 0..Slots
  BY DEF IInv, TypeOK
<1> QED
  BY <1>3, <1>4 DEF PermitsAccounted, Workers, Slots

LEMMA PermitTaken ==
    ASSUME IInv, UNCHANGED setup, NEW r \in Request, task[r] \notin Working,
           NEW x \in Working, task' = Set(task, r, x), free > 0, free' = free - 1
    PROVE  PermitsAccounted' /\ free' \in (0..Slots)'
<1>1. Workers' = Workers \cup {r} /\ r \notin Workers
  BY DEF Workers, IInv, TypeOK, Set
<1>2. free + Cardinality(Workers) = Slots /\ free \in 0..Slots /\ Slots \in Nat
  BY DEF IInv, PermitsAccounted, Workers, TypeOK, Slots
<1>3. Cardinality(Workers') = Cardinality(Workers) + 1
  BY <1>1, WorkersFinite, FS_AddElement
<1>4. free' + Cardinality(Workers') = Slots
  BY <1>2, <1>3, WorkersFinite
<1>5. free' \in 0..Slots
  BY <1>2
<1> QED
  BY <1>4, <1>5 DEF PermitsAccounted, Workers, Slots

LEMMA PermitGivenBack ==
    ASSUME IInv, UNCHANGED setup, NEW r \in Request, task[r] \in Working,
           NEW x, x \notin Working, task' = Set(task, r, x), free' = free + 1
    PROVE  PermitsAccounted' /\ free' \in (0..Slots)'
<1>1. Workers' = Workers \ {r} /\ r \in Workers
  BY DEF Workers, IInv, TypeOK, Set
<1>2. free + Cardinality(Workers) = Slots /\ free \in 0..Slots /\ Slots \in Nat
  BY DEF IInv, PermitsAccounted, Workers, TypeOK, Slots
<1>3. Cardinality(Workers') = Cardinality(Workers) - 1 /\ Cardinality(Workers') \in Nat
  BY <1>1, WorkersFinite, FS_RemoveElement, FS_CardinalityType
<1>4. free' + Cardinality(Workers') = Slots
  BY <1>2, <1>3, WorkersFinite
<1>5. free' \in 0..Slots
  BY <1>2, <1>3, <1>4
<1> QED
  BY <1>4, <1>5 DEF PermitsAccounted, Workers, Slots

LEMMA AvailableMeansFree == IInv /\ Available => free > 0
<1> SUFFICES ASSUME IInv, Available PROVE free > 0
  OBVIOUS
<1>1. Waiting \subseteq Request
  BY DEF Waiting
<1>2. Cardinality(Waiting) \in Nat
  BY <1>1, FS_Subset, FS_CardinalityType
<1>3. free \in Nat
  BY DEF IInv, TypeOK, Slots
<1> QED
  BY <1>2, <1>3 DEF Available

-------------------------------------------------------------------------------
(* A step of one request, or of its task. *)

Same(q) ==
    /\ pc'[q] = pc[q] /\ task'[q] = task[q] /\ got'[q] = got[q] /\ since'[q] = since[q]
    /\ cur'[q] = cur[q] /\ rev'[q] = rev[q] /\ val'[q] = val[q]

LEMMA OtherRequest ==
    ASSUME IInv, UNCHANGED <<setup, graph>>, NEW q \in Request, Same(q)
    PROVE  RequestOK(q)'
BY DEF IInv, graph, Same, RequestOK, HandOK, ResultsOK, PhaseOK, Holding, Valued, WasAnswer, Kind

LEMMA RequestStep ==
    ASSUME IInv, UNCHANGED <<setup, graph>>, TypeOK', EntriesMatchRevision', PermitsAccounted',
           NEW r \in Request, RequestOK(r)', \A q \in Request \ {r} : Same(q)
    PROVE  IInv'
<1>1. \A q \in Request : RequestOK(q)'
  BY OtherRequest
<1>2. GraphOK'
  BY DEF IInv, GraphOK, graph
<1> QED
  BY <1>1, <1>2 DEF IInv

LEMMA EntriesStay ==
    ASSUME IInv, UNCHANGED <<graph, entries>>
    PROVE  EntriesMatchRevision'
BY DEF IInv, EntriesMatchRevision, graph

LEMMA SetType ==
    ASSUME NEW R, NEW S, NEW f \in [R -> S], NEW r \in R, NEW v \in S
    PROVE  Set(f, r, v) \in [R -> S]
BY DEF Set

LEMMA LookUpKeepsInv ==
    ASSUME IInv, NEW r \in Request, LookUp(r)
    PROVE  IInv'
<1>1. PICK p \in look[r] :
         /\ keyed' = Set(keyed, r, p \in known)
         /\ \/ p \notin known /\ Miss(r, p) /\ UNCHANGED <<cur, rev, pc>>
            \/ /\ p \in known
               /\ cur' = Set(cur, r, p) /\ rev' = Set(rev, r, revision)
               /\ pc' = Set(pc, r, "entry")
               /\ UNCHANGED targets
  BY DEF LookUp
<1>2. UNCHANGED <<setup, graph, entries, free, val, since, task>> /\ pc[r] = "cache"
  BY DEF LookUp
<1>3. keyed' \in [Request -> BOOLEAN]
  <2>1. (p \in known) \in BOOLEAN
    OBVIOUS
  <2> QED
    BY <1>1, <2>1, SetType DEF IInv, TypeOK
<1>4. CASE p \notin known /\ Miss(r, p) /\ UNCHANGED <<cur, rev, pc>>
  <2>1. TypeOK'
    BY <1>2, <1>3, <1>4 DEF IInv, TypeOK, Set, Miss, graph, Slots
  <2>2. RequestOK(r)'
    <3>1. RequestOK(r)
      BY DEF IInv
    <3>2. /\ pc'[r] = pc[r] /\ task'[r] = task[r] /\ got'[r] = got[r] /\ since'[r] = since[r]
          /\ pc[r] = "cache" /\ revision' = revision /\ past' = past /\ setup' = setup
      BY <1>2, <1>4 DEF Miss, graph
    <3> QED
      BY <3>1, <3>2 DEF RequestOK, HandOK, ResultsOK, PhaseOK, Holding, Valued, WasAnswer, Kind
  <2>3. \A q \in Request \ {r} : Same(q)
    BY <1>2, <1>4 DEF IInv, TypeOK, Set, Miss, targets, graph, Same
  <2> QED
    BY <1>2, <2>1, <2>2, <2>3, EntriesStay, PermitsStay, RequestStep
<1>5. CASE /\ p \in known
           /\ cur' = Set(cur, r, p) /\ rev' = Set(rev, r, revision)
           /\ pc' = Set(pc, r, "entry")
           /\ UNCHANGED targets
  <2>1. TypeOK'
    BY <1>2, <1>3, <1>5 DEF IInv, TypeOK, Set, targets, graph, Slots
  <2>2. RequestOK(r)'
    <3>1. RequestOK(r)
      BY DEF IInv
    <3>2. /\ pc'[r] = "entry" /\ task'[r] = task[r] /\ got'[r] = got[r] /\ since'[r] = since[r]
          /\ cur'[r] = p /\ rev'[r] = revision
          /\ pc[r] = "cache" /\ revision' = revision /\ past' = past /\ setup' = setup
      BY <1>2, <1>5 DEF IInv, TypeOK, Set, targets, graph
    <3>3. p \in Pair /\ revision \in Nat \ {0}
      BY DEF IInv, TypeOK
    <3> QED
      BY <3>1, <3>2, <3>3 DEF RequestOK, HandOK, ResultsOK, PhaseOK, Holding, Valued, WasAnswer, Kind
  <2>3. \A q \in Request \ {r} : Same(q)
    BY <1>2, <1>5 DEF IInv, TypeOK, Set, targets, graph, Same
  <2> QED
    BY <1>2, <2>1, <2>2, <2>3, EntriesStay, PermitsStay, RequestStep
<1> QED
  BY <1>1, <1>4, <1>5

LEMMA AskKeepsInv ==
    ASSUME IInv, NEW r \in Request, NEW T \in SUBSET Pair, NEW bypass \in BOOLEAN, Ask(r, T, bypass)
    PROVE  IInv'
<1>1. /\ UNCHANGED <<setup, graph, entries, free, got, hand, task>> /\ pc[r] = "idle"
      /\ pc' = Set(pc, r, "cache") /\ since' = Set(since, r, revision)
  BY DEF Ask
<1>2. look' \in [Request -> SUBSET Pair] /\ misses' \in [Request -> SUBSET Pair]
  BY DEF Ask, IInv, TypeOK, Set
<1>3. TypeOK'
  BY <1>1, <1>2 DEF IInv, TypeOK, Set, graph, Slots, hand
<1>4. RequestOK(r)'
  <2>1. RequestOK(r) /\ revision \in Nat \ {0}
    BY DEF IInv, TypeOK
  <2>2. /\ pc'[r] = "cache" /\ task'[r] = task[r] /\ got'[r] = got[r] /\ since'[r] = revision
    BY <1>1, <1>2 DEF IInv, TypeOK, Set, graph, hand
  <2>3. revision' = revision /\ past' = past /\ setup' = setup
    BY <1>1 DEF graph
  <2> QED
    BY <2>1, <2>2, <2>3, <1>1 DEF RequestOK, HandOK, ResultsOK, PhaseOK, Holding, Valued, WasAnswer, Kind
<1>5. \A q \in Request \ {r} : Same(q)
  BY <1>1, <1>2 DEF IInv, TypeOK, Set, graph, Same, hand
<1> QED
  BY <1>1, <1>2, <1>3, <1>4, <1>5, EntriesStay, PermitsStay, RequestStep

LEMMA AskPlainKeepsInv ==
    ASSUME IInv, NEW r \in Request, AskPlain(r)
    PROVE  IInv'
<1>1. /\ UNCHANGED <<setup, graph, entries, free, targets, hand, since, task>> /\ pc[r] = "idle"
      /\ pc' = Set(pc, r, "second")
  BY DEF AskPlain
<1>2. TypeOK'
  BY <1>1 DEF IInv, TypeOK, Set, graph, Slots, hand, targets
<1>3. RequestOK(r)'
  <2>1. RequestOK(r) /\ revision \in Nat \ {0}
    BY DEF IInv, TypeOK
  <2>2. /\ pc'[r] = "second" /\ task'[r] = task[r] /\ got'[r] = got[r] /\ since'[r] = since[r]
    BY <1>1 DEF IInv, TypeOK, Set, graph, hand, targets
  <2>3. revision' = revision /\ past' = past /\ setup' = setup
    BY <1>1 DEF graph
  <2> QED
    BY <2>1, <2>2, <2>3, <1>1 DEF RequestOK, HandOK, ResultsOK, PhaseOK, Holding, Valued, WasAnswer, Kind
<1>4. \A q \in Request \ {r} : Same(q)
  BY <1>1 DEF IInv, TypeOK, Set, graph, Same, hand, targets
<1> QED
  BY <1>1, <1>2, <1>3, <1>4, EntriesStay, PermitsStay, RequestStep

LEMMA ReadEntryKeepsInv ==
    ASSUME IInv, NEW r \in Request, ReadEntry(r)
    PROVE  IInv'
<1> DEFINE entry == entries[cur[r]]
<1>1. UNCHANGED <<setup, graph, entries, free, keyed, since, task>> /\ pc[r] = "entry"
  BY DEF ReadEntry
<1>2. cur[r] \in Pair
  BY <1>1 DEF IInv, RequestOK, HandOK, Holding
<1>3. entry # None => entry \in [revision : Nat, value : Answer]
  BY <1>2 DEF IInv, TypeOK
<1>4. entry # None /\ Usable(entry, rev[r]) => entry.value = past[rev[r]][cur[r]]
  BY <1>2 DEF IInv, EntriesMatchRevision, Usable
<1> HIDE DEF entry
<1>5. CASE /\ entry # None /\ Usable(entry, rev[r])
           /\ val' = Set(val, r, entry.value)
           /\ pc' = Set(pc, r, "recheck")
           /\ UNCHANGED <<targets, cur, rev>>
  <2>1. TypeOK'
    BY <1>1, <1>5, <1>3 DEF IInv, TypeOK, Set, graph, Slots, targets
  <2>2. RequestOK(r)'
    <3>1. RequestOK(r) /\ revision \in Nat \ {0}
      BY DEF IInv, TypeOK
    <3>2. /\ pc'[r] = "recheck" /\ task'[r] = task[r] /\ got'[r] = got[r] /\ since'[r] = since[r]
          /\ cur'[r] = cur[r] /\ rev'[r] = rev[r] /\ val'[r] = entry.value
      BY <1>1, <1>5, <1>3 DEF IInv, TypeOK, Set, graph, targets
    <3>3. revision' = revision /\ past' = past /\ setup' = setup
      BY <1>1 DEF graph
    <3> QED
      BY <3>1, <3>2, <3>3, <1>1, <1>5, <1>4 DEF RequestOK, HandOK, ResultsOK, PhaseOK, Holding, Valued, WasAnswer, Kind
  <2>3. \A q \in Request \ {r} : Same(q)
    BY <1>1, <1>5, <1>3 DEF IInv, TypeOK, Set, graph, Same, targets
  <2> QED
    BY <1>1, <1>5, <1>3, <2>1, <2>2, <2>3, EntriesStay, PermitsStay, RequestStep
<1>6. CASE /\ Miss(r, cur[r])
           /\ pc' = Set(pc, r, "cache")
           /\ DropHand(r)
  <2>1. TypeOK'
    BY <1>1, <1>6, <1>2 DEF IInv, TypeOK, Set, graph, Slots, Miss, DropHand
  <2>2. RequestOK(r)'
    <3>1. RequestOK(r) /\ revision \in Nat \ {0}
      BY DEF IInv, TypeOK
    <3>2. /\ pc'[r] = "cache" /\ task'[r] = task[r] /\ got'[r] = got[r] /\ since'[r] = since[r]
      BY <1>1, <1>6, <1>2 DEF IInv, TypeOK, Set, graph, Miss, DropHand
    <3>3. revision' = revision /\ past' = past /\ setup' = setup
      BY <1>1 DEF graph
    <3> QED
      BY <3>1, <3>2, <3>3, <1>1 DEF RequestOK, HandOK, ResultsOK, PhaseOK, Holding, Valued, WasAnswer, Kind
  <2>3. \A q \in Request \ {r} : Same(q)
    BY <1>1, <1>6, <1>2 DEF IInv, TypeOK, Set, graph, Same, Miss, DropHand
  <2> QED
    BY <1>1, <1>6, <1>2, <2>1, <2>2, <2>3, EntriesStay, PermitsStay, RequestStep
<1> QED
  BY <1>5, <1>6 DEF ReadEntry, entry

LEMMA RecheckKeepsInv ==
    ASSUME IInv, NEW r \in Request, Recheck(r)
    PROVE  IInv'
<1>1. /\ UNCHANGED <<setup, graph, entries, free, keyed, since, task>> /\ pc[r] = "recheck"
      /\ pc' = Set(pc, r, "cache") /\ DropHand(r)
  BY DEF Recheck
<1>2. cur[r] \in Pair
  BY <1>1 DEF IInv, RequestOK, HandOK, Holding
<1>3. CASE Hit(r, cur[r], val[r])
  <2>1. TypeOK'
    BY <1>1, <1>3, <1>2 DEF IInv, TypeOK, Set, graph, Slots, Hit, DropHand
  <2>2. RequestOK(r)'
    <3>1. RequestOK(r) /\ revision \in Nat \ {0}
      BY DEF IInv, TypeOK
    <3>2. /\ pc'[r] = "cache" /\ task'[r] = task[r] /\ since'[r] = since[r]
          /\ got'[r] = [q \in DOMAIN got[r] \cup {cur[r]} |-> IF q = cur[r] THEN val[r] ELSE got[r][q]]
      BY <1>1, <1>3, <1>2 DEF IInv, TypeOK, Set, graph, Hit, DropHand
    <3>3. revision' = revision /\ past' = past /\ setup' = setup
      BY <1>1 DEF graph
    <3> QED
      BY <3>1, <3>2, <3>3, <1>1 DEF RequestOK, HandOK, ResultsOK, PhaseOK, Holding, Valued, WasAnswer, Kind
  <2>3. \A q \in Request \ {r} : Same(q)
    BY <1>1, <1>3, <1>2 DEF IInv, TypeOK, Set, graph, Same, Hit, DropHand
  <2> QED
    BY <1>1, <1>3, <1>2, <2>1, <2>2, <2>3, EntriesStay, PermitsStay, RequestStep
<1>4. CASE Miss(r, cur[r])
  <2>1. TypeOK'
    BY <1>1, <1>4, <1>2 DEF IInv, TypeOK, Set, graph, Slots, Miss, DropHand
  <2>2. RequestOK(r)'
    <3>1. RequestOK(r) /\ revision \in Nat \ {0}
      BY DEF IInv, TypeOK
    <3>2. /\ pc'[r] = "cache" /\ task'[r] = task[r] /\ got'[r] = got[r] /\ since'[r] = since[r]
      BY <1>1, <1>4, <1>2 DEF IInv, TypeOK, Set, graph, Miss, DropHand
    <3>3. revision' = revision /\ past' = past /\ setup' = setup
      BY <1>1 DEF graph
    <3> QED
      BY <3>1, <3>2, <3>3, <1>1 DEF RequestOK, HandOK, ResultsOK, PhaseOK, Holding, Valued, WasAnswer, Kind
  <2>3. \A q \in Request \ {r} : Same(q)
    BY <1>1, <1>4, <1>2 DEF IInv, TypeOK, Set, graph, Same, Miss, DropHand
  <2> QED
    BY <1>1, <1>4, <1>2, <2>1, <2>2, <2>3, EntriesStay, PermitsStay, RequestStep
<1> QED
  BY <1>3, <1>4 DEF Recheck

LEMMA CacheDoneKeepsInv ==
    ASSUME IInv, NEW r \in Request, CacheDone(r)
    PROVE  IInv'
<1>1. /\ UNCHANGED <<setup, graph, entries, free, targets, hand, since, task>> /\ pc[r] = "cache"
      /\ \E at \in {"second", "respond", "acquire"} : pc' = Set(pc, r, at)
  BY DEF CacheDone, Next1
<1>2. TypeOK'
  BY <1>1 DEF IInv, TypeOK, Set, graph, Slots, hand, targets
<1>3. RequestOK(r)'
  <2>1. RequestOK(r) /\ revision \in Nat \ {0}
    BY DEF IInv, TypeOK
  <2>2. /\ pc'[r] \in {"second", "respond", "acquire"} /\ task'[r] = task[r] /\ got'[r] = got[r] /\ since'[r] = since[r]
    BY <1>1 DEF IInv, TypeOK, Set, graph, hand, targets
  <2>3. revision' = revision /\ past' = past /\ setup' = setup
    BY <1>1 DEF graph
  <2> QED
    BY <2>1, <2>2, <2>3, <1>1 DEF RequestOK, HandOK, ResultsOK, PhaseOK, Holding, Valued, WasAnswer, Kind
<1>4. \A q \in Request \ {r} : Same(q)
  BY <1>1 DEF IInv, TypeOK, Set, graph, Same, hand, targets
<1> QED
  BY <1>1, <1>2, <1>3, <1>4, EntriesStay, PermitsStay, RequestStep

\* A permit is taken for a task that starts.
LEMMA SpawnKeepsInv ==
    ASSUME IInv, NEW r \in Request, UNCHANGED <<setup, graph, entries, targets, hand, since>>,
           pc[r] \in {"acquire", "waiting", "second"}, free > 0,
           Spawn(r, "revision", "running") \/ Spawn(r, "plain", "finishing")
    PROVE  IInv'
<1>1. task[r] = "none"
  BY DEF IInv, RequestOK, PhaseOK
<1>2. UNCHANGED <<setup, graph, entries, targets, hand, since>> /\ pc[r] \in {"acquire", "waiting", "second"}
  OBVIOUS
<1>3. CASE Spawn(r, "revision", "running")
  <2>1. PermitsAccounted' /\ free' \in (0..Slots)'
    <3>1. task' = Set(task, r, "revision") /\ free' = free - 1
      BY <1>3 DEF Spawn
    <3> QED
      BY <1>1, <1>2, <3>1, PermitTaken DEF Working
  <2>2. TypeOK'
    BY <1>2, <1>3, <2>1 DEF IInv, TypeOK, Set, graph, Slots, Spawn, targets, hand, Working
  <2>3. RequestOK(r)'
    <3>1. RequestOK(r) /\ revision \in Nat \ {0}
      BY DEF IInv, TypeOK
    <3>2. /\ pc'[r] = "running" /\ task'[r] = "revision" /\ got'[r] = got[r] /\ since'[r] = since[r]
      BY <1>2, <1>3, <2>1 DEF IInv, TypeOK, Set, graph, Spawn, targets, hand, Working
    <3>3. revision' = revision /\ past' = past /\ setup' = setup
      BY <1>2 DEF graph
    <3> QED
      BY <3>1, <3>2, <3>3, <1>1 DEF RequestOK, HandOK, ResultsOK, PhaseOK, Holding, Valued, WasAnswer, Kind
  <2>4. \A q \in Request \ {r} : Same(q)
    BY <1>2, <1>3, <2>1 DEF IInv, TypeOK, Set, graph, Same, Spawn, targets, hand, Working
  <2> QED
    BY <1>2, <1>3, <2>1, <2>2, <2>3, <2>4, EntriesStay, <2>1, RequestStep
<1>4. CASE Spawn(r, "plain", "finishing")
  <2>1. PermitsAccounted' /\ free' \in (0..Slots)'
    <3>1. task' = Set(task, r, "plain") /\ free' = free - 1
      BY <1>4 DEF Spawn
    <3> QED
      BY <1>1, <1>2, <3>1, PermitTaken DEF Working
  <2>2. TypeOK'
    BY <1>2, <1>4, <2>1 DEF IInv, TypeOK, Set, graph, Slots, Spawn, targets, hand, Working
  <2>3. RequestOK(r)'
    <3>1. RequestOK(r) /\ revision \in Nat \ {0}
      BY DEF IInv, TypeOK
    <3>2. /\ pc'[r] = "finishing" /\ task'[r] = "plain" /\ got'[r] = got[r] /\ since'[r] = since[r]
      BY <1>2, <1>4, <2>1 DEF IInv, TypeOK, Set, graph, Spawn, targets, hand, Working
    <3>3. revision' = revision /\ past' = past /\ setup' = setup
      BY <1>2 DEF graph
    <3> QED
      BY <3>1, <3>2, <3>3, <1>1 DEF RequestOK, HandOK, ResultsOK, PhaseOK, Holding, Valued, WasAnswer, Kind
  <2>4. \A q \in Request \ {r} : Same(q)
    BY <1>2, <1>4, <2>1 DEF IInv, TypeOK, Set, graph, Same, Spawn, targets, hand, Working
  <2> QED
    BY <1>2, <1>4, <2>1, <2>2, <2>3, <2>4, EntriesStay, <2>1, RequestStep
<1> QED
  BY <1>3, <1>4

LEMMA PermitKeepsInv ==
    ASSUME IInv, NEW r \in Request, Permit(r) \/ DvmPermit(r)
    PROVE  IInv'
<1>1. free > 0
  BY AvailableMeansFree DEF Permit, DvmPermit
<1> QED
  BY <1>1, SpawnKeepsInv DEF Permit, DvmPermit

LEMMA DvmWaitKeepsInv ==
    ASSUME IInv, NEW r \in Request, DvmWait(r)
    PROVE  IInv'
<1>1. /\ UNCHANGED <<setup, graph, entries, free, targets, hand, since, task>> /\ pc[r] = "acquire"
      /\ pc' = Set(pc, r, "waiting")
  BY DEF DvmWait
<1>2. TypeOK'
  BY <1>1 DEF IInv, TypeOK, Set, graph, Slots, hand, targets
<1>3. RequestOK(r)'
  <2>1. RequestOK(r) /\ revision \in Nat \ {0}
    BY DEF IInv, TypeOK
  <2>2. /\ pc'[r] = "waiting" /\ task'[r] = task[r] /\ got'[r] = got[r] /\ since'[r] = since[r]
    BY <1>1 DEF IInv, TypeOK, Set, graph, hand, targets
  <2>3. revision' = revision /\ past' = past /\ setup' = setup
    BY <1>1 DEF graph
  <2> QED
    BY <2>1, <2>2, <2>3, <1>1 DEF RequestOK, HandOK, ResultsOK, PhaseOK, Holding, Valued, WasAnswer, Kind
<1>4. \A q \in Request \ {r} : Same(q)
  BY <1>1 DEF IInv, TypeOK, Set, graph, Same, hand, targets
<1> QED
  BY <1>1, <1>2, <1>3, <1>4, EntriesStay, PermitsStay, RequestStep

LEMMA CancelKeepsInv ==
    ASSUME IInv, NEW r \in Request, Cancel(r)
    PROVE  IInv'
<1>1. /\ UNCHANGED <<setup, graph, entries, free, targets, hand, since, task>>
      /\ pc[r] \in {"running", "finishing"} /\ pc' = Set(pc, r, "gone")
  BY DEF Cancel
<1>2. TypeOK'
  BY <1>1 DEF IInv, TypeOK, Set, graph, Slots, hand, targets
<1>3. RequestOK(r)'
  <2>1. RequestOK(r) /\ revision \in Nat \ {0}
    BY DEF IInv, TypeOK
  <2>2. /\ pc'[r] = "gone" /\ task'[r] = task[r] /\ got'[r] = got[r] /\ since'[r] = since[r] /\ cur'[r] = cur[r] /\ rev'[r] = rev[r] /\ val'[r] = val[r]
    BY <1>1 DEF IInv, TypeOK, Set, graph, hand, targets
  <2>3. revision' = revision /\ past' = past /\ setup' = setup
    BY <1>1 DEF graph
  <2> QED
    BY <2>1, <2>2, <2>3, <1>1 DEF RequestOK, HandOK, ResultsOK, PhaseOK, Holding, Valued, WasAnswer, Kind
<1>4. \A q \in Request \ {r} : Same(q)
  BY <1>1 DEF IInv, TypeOK, Set, graph, Same, hand, targets
<1> QED
  BY <1>1, <1>2, <1>3, <1>4, EntriesStay, PermitsStay, RequestStep

\* A request ends.
LEMMA ClearKeepsInv ==
    ASSUME IInv, NEW r \in Request, UNCHANGED <<setup, graph, entries, free>>,
           pc' = Set(pc, r, "idle"), Clear(r), task' = Set(task, r, "none"), task[r] \notin Working
    PROVE  IInv'
<1>1. UNCHANGED <<setup, graph, entries, free>>
  OBVIOUS
<1>2. /\ pc' = Set(pc, r, "idle") /\ Clear(r) /\ task' = Set(task, r, "none")
  OBVIOUS
<1>3. PermitsAccounted' /\ free' \in (0..Slots)'
  <2>1. \A q \in Request : task'[q] \in Working <=> task[q] \in Working
    BY <1>2 DEF IInv, TypeOK, Set, Working
  <2> QED
    BY <1>1, <2>1, PermitsStay
<1>4. keyed' \in [Request -> BOOLEAN]
  <2>1. keyed' = Set(keyed, r, FALSE) /\ keyed \in [Request -> BOOLEAN]
    BY <1>2 DEF Clear, IInv, TypeOK
  <2>2. FALSE \in BOOLEAN
    OBVIOUS
  <2>3. Set(keyed, r, FALSE) \in [Request -> BOOLEAN]
    BY <2>1, <2>2, SetType
  <2> QED
    BY <2>1, <2>3
<1>5. TypeOK'
  BY <1>1, <1>2, <1>3, <1>4 DEF IInv, TypeOK, Set, graph, Slots, Clear, DropHand, NoPair
<1>6. RequestOK(r)'
  <2>1. RequestOK(r) /\ revision \in Nat \ {0}
    BY DEF IInv, TypeOK
  <2>2. /\ pc'[r] = "idle" /\ task'[r] = "none" /\ DOMAIN got'[r] = {} /\ since'[r] = 0
    BY <1>1, <1>2, <1>3, <1>4 DEF IInv, TypeOK, Set, graph, Clear, DropHand, NoPair
  <2>3. revision' = revision /\ past' = past /\ setup' = setup
    BY <1>1 DEF graph
  <2> QED
    BY <2>1, <2>2, <2>3 DEF RequestOK, HandOK, ResultsOK, PhaseOK, Holding, Valued, WasAnswer, Kind
<1>7. \A q \in Request \ {r} : Same(q)
  BY <1>1, <1>2, <1>3, <1>4 DEF IInv, TypeOK, Set, graph, Same, Clear, DropHand, NoPair
<1> QED
  BY <1>1, <1>2, <1>3, <1>4, <1>5, <1>6, <1>7, EntriesStay, PermitsStay, RequestStep

LEMMA EndKeepsInv ==
    ASSUME IInv, NEW r \in Request, Busy(r) \/ Respond(r)
    PROVE  IInv'
<1>1. task[r] = "none"
  BY DEF Busy, Respond, IInv, RequestOK, PhaseOK
<1>2. task' = task
  BY DEF Busy, Respond
<1>3. task' = Set(task, r, "none")
  BY <1>1, <1>2 DEF Set, IInv, TypeOK
<1>4. task[r] \notin Working
  BY <1>1 DEF Working
<1> QED
  BY <1>3, <1>4, ClearKeepsInv DEF Busy, Respond

LEMMA CollectKeepsInv ==
    ASSUME IInv, NEW r \in Request, Collect(r)
    PROVE  IInv'
<1>1. UNCHANGED <<setup, graph, entries, free>> /\ task[r] \in {"done", "panicked"} /\ task' = Set(task, r, "none")
  BY DEF Collect
<1>2. PermitsAccounted' /\ free' \in (0..Slots)'
  <2>1. \A q \in Request : task'[q] \in Working <=> task[q] \in Working
    BY <1>1 DEF IInv, TypeOK, Set, Working
  <2> QED
    BY <1>1, <2>1, PermitsStay
<1>3. task[r] \notin Working
  BY <1>1 DEF Working
<1>4. CASE /\ pc[r] = "running" /\ task[r] = "done" /\ Kind(r) = "batch"
           /\ pc' = Set(pc, r, "respond") /\ UNCHANGED <<targets, hand, since>>
  <2>1. TypeOK'
    BY <1>1, <1>4, <1>2 DEF IInv, TypeOK, Set, graph, Slots, targets, hand
  <2>2. RequestOK(r)'
    <3>1. RequestOK(r) /\ revision \in Nat \ {0}
      BY DEF IInv, TypeOK
    <3>2. /\ pc'[r] = "respond" /\ task'[r] = "none" /\ got'[r] = got[r] /\ since'[r] = since[r]
      BY <1>1, <1>4, <1>2 DEF IInv, TypeOK, Set, graph, targets, hand
    <3>3. revision' = revision /\ past' = past /\ setup' = setup
      BY <1>1 DEF graph
    <3> QED
      BY <3>1, <3>2, <3>3, <1>4 DEF RequestOK, HandOK, ResultsOK, PhaseOK, Holding, Valued, WasAnswer, Kind
  <2>3. \A q \in Request \ {r} : Same(q)
    BY <1>1, <1>4, <1>2 DEF IInv, TypeOK, Set, graph, Same, targets, hand
  <2> QED
    BY <1>1, <1>4, <1>2, <2>1, <2>2, <2>3, EntriesStay, PermitsStay, RequestStep
<1>5. CASE /\ pc[r] = "running" /\ task[r] = "done" /\ Kind(r) # "batch"
           /\ pc' = Set(pc, r, "insert") /\ UNCHANGED <<targets, hand, since>>
  <2>1. TypeOK'
    BY <1>1, <1>5, <1>2 DEF IInv, TypeOK, Set, graph, Slots, targets, hand
  <2>2. RequestOK(r)'
    <3>1. RequestOK(r) /\ revision \in Nat \ {0}
      BY DEF IInv, TypeOK
    <3>2. /\ pc'[r] = "insert" /\ task'[r] = "none" /\ got'[r] = got[r] /\ since'[r] = since[r] /\ cur'[r] = cur[r] /\ rev'[r] = rev[r] /\ val'[r] = val[r]
      BY <1>1, <1>5, <1>2 DEF IInv, TypeOK, Set, graph, targets, hand
    <3>3. revision' = revision /\ past' = past /\ setup' = setup
      BY <1>1 DEF graph
    <3> QED
      BY <3>1, <3>2, <3>3, <1>5 DEF RequestOK, HandOK, ResultsOK, PhaseOK, Holding, Valued, WasAnswer, Kind
  <2>3. \A q \in Request \ {r} : Same(q)
    BY <1>1, <1>5, <1>2 DEF IInv, TypeOK, Set, graph, Same, targets, hand
  <2> QED
    BY <1>1, <1>5, <1>2, <2>1, <2>2, <2>3, EntriesStay, PermitsStay, RequestStep
<1>6. CASE /\ pc[r] = "finishing"
           /\ pc' = Set(pc, r, "respond") /\ UNCHANGED <<targets, hand, since>>
  <2>1. TypeOK'
    BY <1>1, <1>6, <1>2 DEF IInv, TypeOK, Set, graph, Slots, targets, hand
  <2>2. RequestOK(r)'
    <3>1. RequestOK(r) /\ revision \in Nat \ {0}
      BY DEF IInv, TypeOK
    <3>2. /\ pc'[r] = "respond" /\ task'[r] = "none" /\ got'[r] = got[r] /\ since'[r] = since[r]
      BY <1>1, <1>6, <1>2 DEF IInv, TypeOK, Set, graph, targets, hand
    <3>3. revision' = revision /\ past' = past /\ setup' = setup
      BY <1>1 DEF graph
    <3> QED
      BY <3>1, <3>2, <3>3, <1>6 DEF RequestOK, HandOK, ResultsOK, PhaseOK, Holding, Valued, WasAnswer, Kind
  <2>3. \A q \in Request \ {r} : Same(q)
    BY <1>1, <1>6, <1>2 DEF IInv, TypeOK, Set, graph, Same, targets, hand
  <2> QED
    BY <1>1, <1>6, <1>2, <2>1, <2>2, <2>3, EntriesStay, PermitsStay, RequestStep
<1>7. CASE pc' = Set(pc, r, "idle") /\ Clear(r)
  BY <1>1, <1>3, <1>7, ClearKeepsInv
<1> QED
  BY <1>4, <1>5, <1>6, <1>7 DEF Collect

\* A value goes to the cache under the revision it was computed at.
LEMMA EntryPut ==
    ASSUME IInv, NEW r \in Request, pc[r] = "put" \/ task[r] = "put", UNCHANGED graph,
           entries' = [entries EXCEPT ![cur[r]] = CacheEntry(r)]
    PROVE  /\ EntriesMatchRevision'
           /\ entries' \in [Pair -> [revision : Nat, value : Answer] \cup {None}]
<1> DEFINE e == CacheEntry(r)
<1>1. cur[r] \in Pair /\ rev[r] \in 1..revision /\ val[r] = past[rev[r]][cur[r]]
  BY DEF IInv, RequestOK, HandOK, Holding
<1>2. e.revision = rev[r] /\ e.value = val[r] /\ e \in [revision : Nat, value : Answer]
  BY <1>1 DEF CacheEntry, IInv, TypeOK
<1> HIDE DEF e
<1>3. entries' = [entries EXCEPT ![cur[r]] = e]
  BY DEF e
<1>4. entries \in [Pair -> [revision : Nat, value : Answer] \cup {None}]
  BY DEF IInv, TypeOK
<1>5. \A p \in Pair : entries'[p] = IF p = cur[r] THEN e ELSE entries[p]
  BY <1>3, <1>4
<1>6. EntriesMatchRevision'
  BY <1>1, <1>2, <1>5 DEF IInv, EntriesMatchRevision, graph
<1> QED
  BY <1>1, <1>2, <1>3, <1>4, <1>6

\* What a handler's computation found is its result.
LEMMA FinishedKeepsInv ==
    ASSUME IInv, NEW r \in Request, pc[r] \in {"insert", "put"}, Finished(r),
           UNCHANGED <<setup, graph, free, keyed, since, task>>, EntriesMatchRevision',
           entries' \in [Pair -> [revision : Nat, value : Answer] \cup {None}]
    PROVE  IInv'
<1>1. /\ UNCHANGED <<setup, graph, free, keyed, since, task>> /\ EntriesMatchRevision'
      /\ entries' \in [Pair -> [revision : Nat, value : Answer] \cup {None}]
      /\ Hit(r, cur[r], val[r]) /\ DropHand(r)
      /\ \E at \in {"second", "respond"} : pc' = Set(pc, r, at)
  BY DEF Finished, Next1
<1>2. RequestOK(r) /\ task[r] = "none" /\ cur[r] \in Pair
  BY DEF IInv, RequestOK, PhaseOK, HandOK, Holding, Valued
<1>3. WasAnswer(cur[r], val[r], since[r])
  <2>1. rev[r] \in 1..revision /\ since[r] <= rev[r] /\ since[r] \in Nat /\ revision \in Nat
    BY DEF IInv, RequestOK, HandOK, Holding, Valued, TypeOK
  <2>2. WasAnswer(cur[r], val[r], rev[r])
    BY <2>1 DEF IInv, RequestOK, HandOK, Holding, Valued, WasAnswer
  <2> QED
    BY <2>1, <2>2 DEF WasAnswer
<1>4. TypeOK'
  BY <1>1, <1>2 DEF IInv, TypeOK, Set, graph, Slots, Hit, DropHand
<1>5. RequestOK(r)'
  <2>1. RequestOK(r) /\ revision \in Nat \ {0}
    BY DEF IInv, TypeOK
  <2>2. /\ pc'[r] \in {"second", "respond"} /\ task'[r] = "none" /\ since'[r] = since[r]
        /\ got'[r] = [q \in DOMAIN got[r] \cup {cur[r]} |-> IF q = cur[r] THEN val[r] ELSE got[r][q]]
    BY <1>1, <1>2 DEF IInv, TypeOK, Set, graph, Hit, DropHand
  <2>3. revision' = revision /\ past' = past /\ setup' = setup
    BY <1>1 DEF graph
  <2> QED
    BY <2>1, <2>2, <2>3, <1>2, <1>3 DEF RequestOK, HandOK, ResultsOK, PhaseOK, Holding, Valued, WasAnswer, Kind
<1>6. \A q \in Request \ {r} : Same(q)
  BY <1>1, <1>2 DEF IInv, TypeOK, Set, graph, Same, Hit, DropHand
<1> QED
  BY <1>1, <1>2, <1>4, <1>5, <1>6, <1>1, PermitsStay, RequestStep

LEMMA InsertKeepsInv ==
    ASSUME IInv, NEW r \in Request, Insert(r)
    PROVE  IInv'
<1>1. UNCHANGED <<setup, graph, entries, free, keyed, since, task>> /\ pc[r] = "insert"
  BY DEF Insert
<1>2. CASE /\ Current(r) /\ pc' = Set(pc, r, "put")
           /\ UNCHANGED <<targets, cur, rev, val>>
  <2>1. TypeOK'
    BY <1>1, <1>2 DEF IInv, TypeOK, Set, graph, Slots, targets
  <2>2. RequestOK(r)'
    <3>1. RequestOK(r) /\ revision \in Nat \ {0}
      BY DEF IInv, TypeOK
    <3>2. /\ pc'[r] = "put" /\ task'[r] = task[r] /\ got'[r] = got[r] /\ since'[r] = since[r] /\ cur'[r] = cur[r] /\ rev'[r] = rev[r] /\ val'[r] = val[r]
      BY <1>1, <1>2 DEF IInv, TypeOK, Set, graph, targets
    <3>3. revision' = revision /\ past' = past /\ setup' = setup
      BY <1>1 DEF graph
    <3> QED
      BY <3>1, <3>2, <3>3, <1>1, <1>2 DEF RequestOK, HandOK, ResultsOK, PhaseOK, Holding, Valued, WasAnswer, Kind, Current
  <2>3. \A q \in Request \ {r} : Same(q)
    BY <1>1, <1>2 DEF IInv, TypeOK, Set, graph, Same, targets
  <2> QED
    BY <1>1, <1>2, <2>1, <2>2, <2>3, EntriesStay, PermitsStay, RequestStep
<1>3. CASE Finished(r)
  <2>1. entries' \in [Pair -> [revision : Nat, value : Answer] \cup {None}]
    BY <1>1 DEF IInv, TypeOK
  <2> QED
    BY <1>1, <1>3, <2>1, EntriesStay, FinishedKeepsInv
<1> QED
  BY <1>2, <1>3 DEF Insert

LEMMA PutKeepsInv ==
    ASSUME IInv, NEW r \in Request, Put(r)
    PROVE  IInv'
BY EntryPut, FinishedKeepsInv DEF Put

-------------------------------------------------------------------------------
(* The blocking task. *)

LEMMA TaskRevisionKeepsInv ==
    ASSUME IInv, NEW r \in Request, TaskRevision(r)
    PROVE  IInv'
<1>1. /\ UNCHANGED <<setup, graph, entries, free, pc, targets, val, keyed, since>>
      /\ task[r] = "revision" /\ task' = Set(task, r, "ids") /\ rev' = Set(rev, r, revision)
  BY DEF TaskRevision
<1>2. PICK p \in misses[r] : cur' = Set(cur, r, p)
  BY DEF TaskRevision
<1>3. p \in Pair
  BY DEF IInv, TypeOK
<1>4. PermitsAccounted' /\ free' \in (0..Slots)'
  <2>1. \A q \in Request : task'[q] \in Working <=> task[q] \in Working
    BY <1>1 DEF IInv, TypeOK, Set, Working
  <2> QED
    BY <1>1, <2>1, PermitsStay
<1>5. TypeOK'
  BY <1>1, <1>2, <1>3, <1>4 DEF IInv, TypeOK, Set, graph, Slots, targets, Working
<1>6. RequestOK(r)'
  <2>1. RequestOK(r) /\ revision \in Nat \ {0}
    BY DEF IInv, TypeOK
  <2>2. /\ pc'[r] = pc[r] /\ task'[r] = "ids" /\ got'[r] = got[r] /\ since'[r] = since[r] /\ cur'[r] = p /\ rev'[r] = revision
    BY <1>1, <1>2, <1>3, <1>4 DEF IInv, TypeOK, Set, graph, targets, Working
  <2>3. revision' = revision /\ past' = past /\ setup' = setup
    BY <1>1 DEF graph
  <2> QED
    BY <2>1, <2>2, <2>3, <1>1, <1>3 DEF RequestOK, HandOK, ResultsOK, PhaseOK, Holding, Valued, WasAnswer, Kind
<1>7. \A q \in Request \ {r} : Same(q)
  BY <1>1, <1>2, <1>3, <1>4 DEF IInv, TypeOK, Set, graph, Same, targets, Working
<1> QED
  BY <1>1, <1>2, <1>3, <1>4, <1>5, <1>6, <1>7, EntriesStay, <1>4, RequestStep

LEMMA TaskIdsKeepsInv ==
    ASSUME IInv, NEW r \in Request, TaskIds(r)
    PROVE  IInv'
<1>1. UNCHANGED <<setup, graph, entries, free, pc, targets, hand, since>> /\ task[r] = "ids"
  BY DEF TaskIds
<1>2. cur[r] \in Pair
  BY <1>1 DEF IInv, RequestOK, HandOK, Holding
<1>3. CASE cur[r] \in known /\ task' = Set(task, r, "walk")
  <2>1. TypeOK'
    BY <1>1, <1>3, <1>2 DEF IInv, TypeOK, Set, graph, Slots, targets, hand, Working
  <2>2. RequestOK(r)'
    <3>1. RequestOK(r) /\ revision \in Nat \ {0}
      BY DEF IInv, TypeOK
    <3>2. /\ pc'[r] = pc[r] /\ task'[r] = "walk" /\ got'[r] = got[r] /\ since'[r] = since[r] /\ cur'[r] = cur[r] /\ rev'[r] = rev[r] /\ val'[r] = val[r]
      BY <1>1, <1>3, <1>2 DEF IInv, TypeOK, Set, graph, targets, hand, Working
    <3>3. revision' = revision /\ past' = past /\ setup' = setup
      BY <1>1 DEF graph
    <3> QED
      BY <3>1, <3>2, <3>3, <1>1 DEF RequestOK, HandOK, ResultsOK, PhaseOK, Holding, Valued, WasAnswer, Kind
  <2>3. \A q \in Request \ {r} : Same(q)
    BY <1>1, <1>3, <1>2 DEF IInv, TypeOK, Set, graph, Same, targets, hand, Working
  <2>4. PermitsAccounted' /\ free' \in (0..Slots)'
    <3>1. \A q \in Request : task'[q] \in Working <=> task[q] \in Working
      BY <1>1, <1>3 DEF IInv, TypeOK, Set, Working
    <3> QED
      BY <1>1, <1>3, <3>1, PermitsStay
  <2> QED
    BY <1>1, <1>3, <1>2, <2>1, <2>2, <2>3, EntriesStay, <2>4, RequestStep
<1>4. CASE cur[r] \notin known /\ task' = Set(task, r, "unknown")
  <2>1. TypeOK'
    BY <1>1, <1>4, <1>2 DEF IInv, TypeOK, Set, graph, Slots, targets, hand, Working
  <2>2. RequestOK(r)'
    <3>1. RequestOK(r) /\ revision \in Nat \ {0}
      BY DEF IInv, TypeOK
    <3>2. /\ pc'[r] = pc[r] /\ task'[r] = "unknown" /\ got'[r] = got[r] /\ since'[r] = since[r] /\ cur'[r] = cur[r] /\ rev'[r] = rev[r] /\ val'[r] = val[r]
      BY <1>1, <1>4, <1>2 DEF IInv, TypeOK, Set, graph, targets, hand, Working
    <3>3. revision' = revision /\ past' = past /\ setup' = setup
      BY <1>1 DEF graph
    <3>4. WasAnswer(cur[r], NotFound, rev[r])
      BY <1>1, <1>2, <1>4 DEF IInv, GraphOK, RequestOK, HandOK, Holding, WasAnswer, TypeOK
    <3> QED
      BY <3>1, <3>2, <3>3, <1>1, <3>4 DEF RequestOK, HandOK, ResultsOK, PhaseOK, Holding, Valued, WasAnswer, Kind
  <2>3. \A q \in Request \ {r} : Same(q)
    BY <1>1, <1>4, <1>2 DEF IInv, TypeOK, Set, graph, Same, targets, hand, Working
  <2>4. PermitsAccounted' /\ free' \in (0..Slots)'
    <3>1. \A q \in Request : task'[q] \in Working <=> task[q] \in Working
      BY <1>1, <1>4 DEF IInv, TypeOK, Set, Working
    <3> QED
      BY <1>1, <1>4, <3>1, PermitsStay
  <2> QED
    BY <1>1, <1>4, <1>2, <2>1, <2>2, <2>3, EntriesStay, <2>4, RequestStep
<1> QED
  BY <1>3, <1>4 DEF TaskIds

LEMMA ComputedKeepsInv ==
    ASSUME IInv, NEW r \in Request, task[r] \in {"unknown", "walk"}, NEW v \in Answer,
           WasAnswer(cur[r], v, rev[r]), Computed(r, v)
    PROVE  IInv'
<1>1. /\ UNCHANGED <<setup, graph, entries, pc, targets, cur, rev, keyed, since>>
      /\ val' = Set(val, r, v) /\ task[r] \in {"unknown", "walk"} /\ WasAnswer(cur[r], v, rev[r])
  BY DEF Computed
<1>2. task[r] \in Working
  BY DEF Working
<1>3. CASE Kind(r) = "batch" /\ task' = Set(task, r, "insert") /\ UNCHANGED free
  <2>1. TypeOK'
    BY <1>1, <1>3 DEF IInv, TypeOK, Set, graph, Slots, targets, Working
  <2>2. RequestOK(r)'
    <3>1. RequestOK(r) /\ revision \in Nat \ {0}
      BY DEF IInv, TypeOK
    <3>2. /\ pc'[r] = pc[r] /\ task'[r] = "insert" /\ got'[r] = got[r] /\ since'[r] = since[r] /\ cur'[r] = cur[r] /\ rev'[r] = rev[r] /\ val'[r] = v
      BY <1>1, <1>3 DEF IInv, TypeOK, Set, graph, targets, Working
    <3>3. revision' = revision /\ past' = past /\ setup' = setup
      BY <1>1 DEF graph
    <3> QED
      BY <3>1, <3>2, <3>3, <1>1, <1>3 DEF RequestOK, HandOK, ResultsOK, PhaseOK, Holding, Valued, WasAnswer, Kind
  <2>3. \A q \in Request \ {r} : Same(q)
    BY <1>1, <1>3 DEF IInv, TypeOK, Set, graph, Same, targets, Working
  <2>4. PermitsAccounted' /\ free' \in (0..Slots)'
    <3>1. \A q \in Request : task'[q] \in Working <=> task[q] \in Working
      BY <1>1, <1>3 DEF IInv, TypeOK, Set, Working
    <3> QED
      BY <1>1, <1>3, <3>1, PermitsStay
  <2> QED
    BY <1>1, <1>3, <2>1, <2>2, <2>3, EntriesStay, <2>4, RequestStep
<1>4. CASE Kind(r) # "batch" /\ Done(r, "done")
  <2>1. PermitsAccounted' /\ free' \in (0..Slots)'
    <3>1. "done" \notin Working /\ setup' = setup
      BY <1>1 DEF Working
    <3> QED
      BY <1>2, <1>4, <3>1, PermitGivenBack DEF Done
  <2>2. TypeOK'
    BY <1>1, <1>4, <2>1 DEF IInv, TypeOK, Set, graph, Slots, targets, Working, Done
  <2>3. RequestOK(r)'
    <3>1. RequestOK(r) /\ revision \in Nat \ {0}
      BY DEF IInv, TypeOK
    <3>2. /\ pc'[r] = pc[r] /\ task'[r] = "done" /\ got'[r] = got[r] /\ since'[r] = since[r] /\ cur'[r] = cur[r] /\ rev'[r] = rev[r] /\ val'[r] = v
      BY <1>1, <1>4, <2>1 DEF IInv, TypeOK, Set, graph, targets, Working, Done
    <3>3. revision' = revision /\ past' = past /\ setup' = setup
      BY <1>1 DEF graph
    <3> QED
      BY <3>1, <3>2, <3>3, <1>1, <1>4 DEF RequestOK, HandOK, ResultsOK, PhaseOK, Holding, Valued, WasAnswer, Kind
  <2>4. \A q \in Request \ {r} : Same(q)
    BY <1>1, <1>4, <2>1 DEF IInv, TypeOK, Set, graph, Same, targets, Working, Done
  <2> QED
    BY <1>1, <1>4, <2>1, <2>2, <2>3, <2>4, EntriesStay, <2>1, RequestStep
<1> QED
  BY <1>3, <1>4 DEF Computed

LEMMA TaskUnknownKeepsInv ==
    ASSUME IInv, NEW r \in Request, TaskUnknown(r)
    PROVE  IInv'
<1>1. task[r] = "unknown" /\ Computed(r, NotFound)
  BY DEF TaskUnknown
<1>2. WasAnswer(cur[r], NotFound, rev[r])
  BY <1>1 DEF IInv, RequestOK, HandOK
<1> QED
  BY <1>1, <1>2, ComputedKeepsInv

\* Adjacency is locked by the walk: it sees the graph at its revision.
LEMMA TaskWalkKeepsInv ==
    ASSUME IInv, NEW r \in Request, TaskWalk(r)
    PROVE  IInv'
<1>1. task[r] = "walk" /\ Computed(r, answer[cur[r]])
  BY DEF TaskWalk
<1>2. cur[r] \in Pair /\ rev[r] \in 1..revision
  BY <1>1 DEF IInv, RequestOK, HandOK, Holding
<1>3. answer[cur[r]] \in Answer
  BY <1>2 DEF IInv, TypeOK
<1>4. WasAnswer(cur[r], answer[cur[r]], rev[r])
  BY <1>2 DEF IInv, TypeOK, GraphOK, WasAnswer
<1> QED
  BY <1>1, <1>3, <1>4, ComputedKeepsInv

\* A batch takes the value as a result and goes on.
LEMMA BatchNextKeepsInv ==
    ASSUME IInv, NEW r \in Request, task[r] \in {"insert", "put"}, BatchNext(r),
           UNCHANGED <<setup, graph, pc, keyed, since>>, EntriesMatchRevision',
           entries' \in [Pair -> [revision : Nat, value : Answer] \cup {None}]
    PROVE  IInv'
<1>1. /\ UNCHANGED <<setup, graph, pc, keyed, since>> /\ EntriesMatchRevision'
      /\ entries' \in [Pair -> [revision : Nat, value : Answer] \cup {None}]
      /\ Hit(r, cur[r], val[r]) /\ DropHand(r) /\ task[r] \in {"insert", "put"}
  BY DEF BatchNext
<1>2. RequestOK(r) /\ cur[r] \in Pair /\ Kind(r) = "batch" /\ task[r] \in Working
  BY DEF IInv, RequestOK, PhaseOK, HandOK, Holding, Valued, Working
<1>3. WasAnswer(cur[r], val[r], since[r])
  <2>1. rev[r] \in 1..revision /\ since[r] <= rev[r] /\ since[r] \in Nat /\ revision \in Nat
    BY DEF IInv, RequestOK, HandOK, Holding, Valued, TypeOK
  <2>2. WasAnswer(cur[r], val[r], rev[r])
    BY <2>1 DEF IInv, RequestOK, HandOK, Holding, Valued, WasAnswer
  <2> QED
    BY <2>1, <2>2 DEF WasAnswer
<1>4. /\ task' = Set(task, r, "done") \/ task' = Set(task, r, "revision")
      /\ PermitsAccounted' /\ free' \in (0..Slots)'
  <2>1. CASE Done(r, "done")
    <3>1. "done" \notin Working /\ setup' = setup
      BY <1>1 DEF Working
    <3> QED
      BY <1>2, <2>1, <3>1, PermitGivenBack DEF Done
  <2>2. CASE task' = Set(task, r, "revision") /\ UNCHANGED free
    <3>1. \A q \in Request : task'[q] \in Working <=> task[q] \in Working
      BY <1>1, <2>2 DEF IInv, TypeOK, Set, Working
    <3> QED
      BY <1>1, <2>2, <3>1, PermitsStay
  <2> QED
    BY <2>1, <2>2 DEF BatchNext
<1>5. TypeOK'
  BY <1>1, <1>2, <1>4 DEF IInv, TypeOK, Set, graph, Slots, Hit, DropHand, Working
<1>6. RequestOK(r)'
  <2>1. RequestOK(r) /\ revision \in Nat \ {0}
    BY DEF IInv, TypeOK
  <2>2. /\ pc'[r] = pc[r] /\ task'[r] \in {"done", "revision"} /\ since'[r] = since[r]
        /\ got'[r] = [q \in DOMAIN got[r] \cup {cur[r]} |-> IF q = cur[r] THEN val[r] ELSE got[r][q]]
    BY <1>1, <1>2, <1>4 DEF IInv, TypeOK, Set, graph, Hit, DropHand, Working
  <2>3. revision' = revision /\ past' = past /\ setup' = setup
    BY <1>1 DEF graph
  <2> QED
    BY <2>1, <2>2, <2>3, <1>1, <1>2, <1>3 DEF RequestOK, HandOK, ResultsOK, PhaseOK, Holding, Valued, WasAnswer, Kind
<1>7. \A q \in Request \ {r} : Same(q)
  BY <1>1, <1>2, <1>4 DEF IInv, TypeOK, Set, graph, Same, Hit, DropHand, Working
<1> QED
  BY <1>1, <1>2, <1>4, <1>5, <1>6, <1>7, <1>1, <1>4, RequestStep

LEMMA TaskInsertKeepsInv ==
    ASSUME IInv, NEW r \in Request, TaskInsert(r)
    PROVE  IInv'
<1>1. UNCHANGED <<setup, graph, entries, pc, keyed, since>> /\ task[r] = "insert"
  BY DEF TaskInsert
<1>2. CASE /\ Current(r) /\ task' = Set(task, r, "put")
           /\ UNCHANGED <<free, targets, cur, rev, val>>
  <2>1. TypeOK'
    BY <1>1, <1>2 DEF IInv, TypeOK, Set, graph, Slots, targets, Working
  <2>2. RequestOK(r)'
    <3>1. RequestOK(r) /\ revision \in Nat \ {0}
      BY DEF IInv, TypeOK
    <3>2. /\ pc'[r] = pc[r] /\ task'[r] = "put" /\ got'[r] = got[r] /\ since'[r] = since[r] /\ cur'[r] = cur[r] /\ rev'[r] = rev[r] /\ val'[r] = val[r]
      BY <1>1, <1>2 DEF IInv, TypeOK, Set, graph, targets, Working
    <3>3. revision' = revision /\ past' = past /\ setup' = setup
      BY <1>1 DEF graph
    <3> QED
      BY <3>1, <3>2, <3>3, <1>1, <1>2 DEF RequestOK, HandOK, ResultsOK, PhaseOK, Holding, Valued, WasAnswer, Kind, Current
  <2>3. \A q \in Request \ {r} : Same(q)
    BY <1>1, <1>2 DEF IInv, TypeOK, Set, graph, Same, targets, Working
  <2>4. PermitsAccounted' /\ free' \in (0..Slots)'
    <3>1. \A q \in Request : task'[q] \in Working <=> task[q] \in Working
      BY <1>1, <1>2 DEF IInv, TypeOK, Set, Working
    <3> QED
      BY <1>1, <1>2, <3>1, PermitsStay
  <2> QED
    BY <1>1, <1>2, <2>1, <2>2, <2>3, EntriesStay, <2>4, RequestStep
<1>3. CASE BatchNext(r)
  <2>1. entries' \in [Pair -> [revision : Nat, value : Answer] \cup {None}]
    BY <1>1 DEF IInv, TypeOK
  <2> QED
    BY <1>1, <1>3, <2>1, EntriesStay, BatchNextKeepsInv
<1> QED
  BY <1>2, <1>3 DEF TaskInsert

LEMMA TaskPutKeepsInv ==
    ASSUME IInv, NEW r \in Request, TaskPut(r)
    PROVE  IInv'
BY EntryPut, BatchNextKeepsInv DEF TaskPut

\* A task ends without a value.
LEMMA TaskEndsKeepsInv ==
    ASSUME IInv, NEW r \in Request, TaskPlain(r) \/ TaskPanics(r)
    PROVE  IInv'
<1>1. /\ UNCHANGED <<setup, graph, entries, pc, targets, hand, since>>
      /\ task[r] \in {"walk", "plain"} /\ free' = free + 1
      /\ \/ task' = Set(task, r, "done") /\ task[r] = "plain"
         \/ task' = Set(task, r, "panicked")
  BY DEF TaskPlain, TaskPanics, Done
<1>2. PermitsAccounted' /\ free' \in (0..Slots)'
  <2>1. task[r] \in Working /\ "done" \notin Working /\ "panicked" \notin Working
    BY <1>1 DEF Working
  <2> QED
    BY <1>1, <2>1, PermitGivenBack
<1>3. TypeOK'
  BY <1>1, <1>2 DEF IInv, TypeOK, Set, graph, Slots, targets, hand, Working
<1>4. RequestOK(r)'
  <2>1. RequestOK(r) /\ revision \in Nat \ {0}
    BY DEF IInv, TypeOK
  <2>2. /\ pc'[r] = pc[r] /\ got'[r] = got[r] /\ since'[r] = since[r]
        /\ (task'[r] = "done" /\ task[r] = "plain") \/ task'[r] = "panicked"
    BY <1>1, <1>2 DEF IInv, TypeOK, Set, graph, targets, hand, Working
  <2>3. revision' = revision /\ past' = past /\ setup' = setup
    BY <1>1 DEF graph
  <2> QED
    BY <2>1, <2>2, <2>3, <1>1 DEF RequestOK, HandOK, ResultsOK, PhaseOK, Holding, Valued, WasAnswer, Kind
<1>5. \A q \in Request \ {r} : Same(q)
  BY <1>1, <1>2 DEF IInv, TypeOK, Set, graph, Same, targets, hand, Working
<1> QED
  BY <1>1, <1>2, <1>3, <1>4, <1>5, EntriesStay, <1>2, RequestStep

-------------------------------------------------------------------------------
(* A change of the graph: what was an answer still is, at a later revision. *)

LEMMA GraphChangeKeepsInv ==
    ASSUME IInv, UNCHANGED <<setup, entries, free, pc, targets, hand, since, task>>, TypeOK', GraphOK',
           revision' = revision + 1, NEW a, past' = Append(past, a)
    PROVE  IInv'
<1>1. revision \in Nat \ {0} /\ Len(past) = revision /\ past \in Seq([Pair -> Answer])
  BY DEF IInv, TypeOK, GraphOK
<1>2. \A k \in 1..revision : past'[k] = past[k]
  BY <1>1
<1>3. 1..revision \subseteq 1..revision'
  BY <1>1
<1>4. EntriesMatchRevision'
  BY <1>1, <1>2, <1>3 DEF IInv, EntriesMatchRevision
<1>5. PermitsAccounted'
  BY DEF IInv, PermitsAccounted, Slots
<1>6. ASSUME NEW q \in Request PROVE RequestOK(q)'
  <2>1. RequestOK(q) /\ since[q] \in Nat /\ rev[q] \in Nat
    BY DEF IInv, TypeOK
  <2>2. \A p, v, from : WasAnswer(p, v, from) => WasAnswer(p, v, from)'
    BY <1>1, <1>2, <1>3 DEF WasAnswer
  <2>3. Same(q) /\ setup' = setup /\ (Holding(q)' <=> Holding(q)) /\ (Valued(q)' <=> Valued(q))
    BY DEF Same, targets, hand, Holding, Valued, Kind
  <2>4. HandOK(q)'
    <3>1. Holding(q) => cur[q] \in Pair /\ rev[q] \in 1..revision' /\ since[q] <= rev[q]
      BY <2>1, <1>3 DEF RequestOK, HandOK
    <3>2. task[q] = "unknown" => WasAnswer(cur[q], NotFound, rev[q])'
      BY <2>1, <2>2, <2>3 DEF RequestOK, HandOK, Same
    <3>3. Valued(q) => WasAnswer(cur[q], val[q], rev[q])'
      BY <2>1, <2>2, <2>3 DEF RequestOK, HandOK, Same
    <3>4. pc[q] \in {"recheck", "put"} \/ task[q] = "put" => val[q] = past'[rev[q]][cur[q]]
      BY <2>1, <1>2 DEF RequestOK, HandOK, Holding
    <3> QED
      BY <3>1, <3>2, <3>3, <3>4, <2>3 DEF HandOK, Same
  <2>5. ResultsOK(q)'
    BY <2>1, <2>2, <2>3 DEF RequestOK, ResultsOK, Same
  <2>6. PhaseOK(q)'
    BY <2>1, <2>3 DEF RequestOK, PhaseOK, Same, Kind
  <2> QED
    BY <2>1, <2>3, <2>4, <2>5, <2>6, <1>1 DEF RequestOK, Same
<1> QED
  BY <1>4, <1>5, <1>6 DEF IInv

LEMMA CountNodeKeepsInv ==
    ASSUME IInv, CountNode
    PROVE  IInv'
<1>1. TypeOK'
  <2>1. creating' \in BOOLEAN
    BY DEF CountNode
  <2>2. past' \in Seq([Pair -> Answer]) /\ revision' \in Nat \ {0}
    BY DEF CountNode, IInv, TypeOK
  <2>3. UNCHANGED <<setup, known, answer, entries, free, pc, targets, hand, since, task>>
    BY DEF CountNode
  <2> QED
    BY <2>1, <2>2, <2>3 DEF IInv, TypeOK, Slots, targets, hand
<1>2. GraphOK'
  BY DEF IInv, TypeOK, GraphOK, CountNode
<1> QED
  BY <1>1, <1>2, GraphChangeKeepsInv DEF CountNode

LEMMA UpdateKeepsInv ==
    ASSUME IInv, Update
    PROVE  IInv'
<1>1. TypeOK'
  BY DEF IInv, TypeOK, Update, Slots, targets, hand
<1>2. GraphOK'
  BY DEF IInv, TypeOK, GraphOK, Update
<1> QED
  BY <1>1, <1>2, GraphChangeKeepsInv DEF Update

LEMMA PublishNodeKeepsInv ==
    ASSUME IInv, PublishNode
    PROVE  IInv'
<1>1. /\ UNCHANGED <<setup, answer, revision, past, entries, free, pc, targets, hand, since, task>>
      /\ known \subseteq known' /\ known' \subseteq Pair /\ creating' = TRUE
  BY DEF PublishNode, IInv, TypeOK
<1>2. TypeOK'
  BY <1>1 DEF IInv, TypeOK, Slots, targets, hand
<1>3. GraphOK'
  BY <1>1 DEF IInv, GraphOK
<1>4. EntriesMatchRevision'
  BY <1>1 DEF IInv, EntriesMatchRevision
<1>5. PermitsAccounted'
  BY <1>1 DEF IInv, PermitsAccounted, Slots
<1>6. \A q \in Request : RequestOK(q)'
  BY <1>1 DEF IInv, targets, hand, RequestOK, HandOK, ResultsOK, PhaseOK, Holding, Valued, WasAnswer, Kind
<1> QED
  BY <1>2, <1>3, <1>4, <1>5, <1>6 DEF IInv

LEMMA EvictKeepsInv ==
    ASSUME IInv, Evict
    PROVE  IInv'
<1>1. UNCHANGED <<setup, graph, free, pc, targets, hand, since, task>>
  BY DEF Evict
<1>2. PICK p \in Pair : entries' = [entries EXCEPT ![p] = None]
  BY DEF Evict
<1>3. TypeOK'
  BY <1>1, <1>2 DEF IInv, TypeOK, graph, targets, hand, Slots
<1>4. EntriesMatchRevision'
  <2>1. entries \in [Pair -> [revision : Nat, value : Answer] \cup {None}]
    BY DEF IInv, TypeOK
  <2>2. \A q \in Pair : entries'[q] # None => entries'[q] = entries[q]
    BY <1>2, <2>1
  <2> QED
    BY <1>1, <2>2 DEF IInv, EntriesMatchRevision, graph
<1>5. GraphOK' /\ PermitsAccounted'
  BY <1>1 DEF IInv, GraphOK, PermitsAccounted, graph, Slots
<1>6. \A q \in Request : RequestOK(q)'
  BY <1>1, OtherRequest DEF IInv, Same, targets, hand
<1> QED
  BY <1>3, <1>4, <1>5, <1>6 DEF IInv

-------------------------------------------------------------------------------
(* The invariant holds. *)

LEMMA InvInit == Init => IInv
<1> SUFFICES ASSUME Init PROVE IInv
  OBVIOUS
<1>1. TypeOK
  <2>1. setup.slots \in Nat \ {0}
    BY DEF Init
  <2>2. keyed \in [Request -> BOOLEAN]
    BY DEF Init
  <2>3. answer \in [Pair -> Answer] /\ past = <<answer>>
    BY DEF Init
  <2>4. past \in Seq([Pair -> Answer])
    BY <2>3
  <2>5. entries \in [Pair -> [revision : Nat, value : Answer] \cup {None}]
    BY DEF Init
  <2>6. /\ setup \in Setup /\ known \subseteq Pair /\ creating \in BOOLEAN
        /\ revision \in Nat \ {0} /\ free \in 0..Slots
    <3>1. creating \in BOOLEAN
      BY DEF Init
    <3>2. setup \in Setup /\ known \subseteq Pair /\ revision = 1 /\ free = setup.slots
      BY DEF Init, Slots
    <3> QED
      BY <2>1, <3>1, <3>2 DEF Slots
  <2>7. /\ pc \in [Request -> {"idle", "cache", "entry", "recheck", "acquire", "waiting", "running",
                               "insert", "put", "second", "finishing", "gone", "respond"}]
        /\ task \in [Request -> Working \cup {"none", "done", "panicked"}]
    BY DEF Init
  <2>8. /\ look \in [Request -> SUBSET Pair] /\ misses \in [Request -> SUBSET Pair]
    BY DEF Init
  <2>9. got = [r \in Request |-> got[r]] /\ \A r \in Request : DOMAIN got[r] \subseteq Pair
    <3>1. got = [r \in Request |-> NoPair] /\ DOMAIN NoPair = {}
      BY DEF Init, NoPair
    <3> QED
      BY <3>1
  <2>10. /\ cur \in [Request -> Pair \cup {None}] /\ rev \in [Request -> Nat]
        /\ val \in [Request -> Answer] /\ since \in [Request -> Nat]
    BY DEF Init
  <2> QED
    BY <2>2, <2>3, <2>4, <2>5, <2>6, <2>7, <2>8, <2>10, <2>9 DEF TypeOK
<1>2. GraphOK
  BY DEF Init, GraphOK
<1>3. EntriesMatchRevision
  BY DEF Init, EntriesMatchRevision
<1>4. PermitsAccounted
  <2>1. Workers = {}
    BY DEF Workers, Working, Init
  <2>2. Cardinality(Workers) = 0
    BY <2>1, FS_EmptySet
  <2>3. free \in Nat /\ free = Slots
    BY DEF Init, Slots
  <2> QED
    BY <2>2, <2>3 DEF PermitsAccounted, Workers
<1>5. \A r \in Request : RequestOK(r)
  BY DEF Init, RequestOK, HandOK, ResultsOK, PhaseOK, Holding, Valued, NoPair
<1> QED
  BY <1>1, <1>2, <1>3, <1>4, <1>5 DEF IInv

LEMMA InvStep == IInv /\ [Next]_vars => IInv'
<1> SUFFICES ASSUME IInv, [Next]_vars PROVE IInv'
  OBVIOUS
<1>1. CASE UNCHANGED vars
  <2>1. UNCHANGED <<setup, graph, entries, free>> /\ \A q \in Request : Same(q)
    BY <1>1 DEF vars, targets, hand, graph, Same
  <2>2. \A q \in Request : RequestOK(q)'
    BY <2>1, OtherRequest
  <2>3. TypeOK' /\ GraphOK' /\ EntriesMatchRevision' /\ PermitsAccounted'
    BY <1>1 DEF IInv, TypeOK, GraphOK, EntriesMatchRevision, PermitsAccounted, Slots, vars, targets, hand, graph
  <2> QED
    BY <2>2, <2>3 DEF IInv
<1>2. CASE PublishNode \/ CountNode \/ Update \/ Evict
  BY <1>2, PublishNodeKeepsInv, CountNodeKeepsInv, UpdateKeepsInv, EvictKeepsInv
<1>3. ASSUME NEW r \in Request, Handle(r) PROVE IInv'
  BY <1>3, LookUpKeepsInv, ReadEntryKeepsInv, RecheckKeepsInv, CacheDoneKeepsInv, PermitKeepsInv, EndKeepsInv,
     DvmWaitKeepsInv, CollectKeepsInv, InsertKeepsInv, PutKeepsInv DEF Handle
<1>4. ASSUME NEW r \in Request, Work(r) \/ TaskPanics(r) PROVE IInv'
  BY <1>4, TaskRevisionKeepsInv, TaskIdsKeepsInv, TaskUnknownKeepsInv, TaskWalkKeepsInv, TaskInsertKeepsInv,
     TaskPutKeepsInv, TaskEndsKeepsInv DEF Work
<1>5. ASSUME NEW r \in Request, Client(r) PROVE IInv'
  BY <1>5, AskKeepsInv, AskPlainKeepsInv, CancelKeepsInv DEF Client
<1> QED
  BY <1>1, <1>2, <1>3, <1>4, <1>5 DEF Next

LEMMA Invariant == Spec => []IInv
BY InvInit, InvStep, PTL DEF Spec

\* The states are what the code's types allow.
THEOREM TypeCorrect == Spec => []TypeOK
<1>1. IInv => TypeOK
  BY DEF IInv
<1> QED
  BY <1>1, Invariant, PTL

\* Every result of a request, cached or computed, was the graph's answer at some
\* revision between the request and its response: get_distance, get_trust,
\* batch_distance and the DVM, however often the graph changes in between.
THEOREM AnswersAreCurrent == Spec => []AnswersCurrent
<1>1. IInv => AnswersCurrent
  <2> SUFFICES ASSUME IInv, NEW r \in Request, NEW p \in DOMAIN got[r]
               PROVE  \E k \in since[r]..revision : got[r][p] = past[k][p]
    BY DEF AnswersCurrent
  <2>1. WasAnswer(p, got[r][p], since[r]) /\ since[r] \in Nat /\ revision \in Nat
    BY DEF IInv, RequestOK, ResultsOK, TypeOK
  <2> QED
    BY <2>1 DEF WasAnswer
<1> QED
  BY <1>1, Invariant, PTL

\* QueryCache::insert never relabels an old computation: an entry holds the
\* answer of the revision it is labelled with.
THEOREM EntriesCorrect == Spec => []EntriesMatchRevision
<1>1. IInv => EntriesMatchRevision
  BY DEF IInv
<1> QED
  BY <1>1, Invariant, PTL

\* No permit of query_slots is lost or given back twice: the computations that
\* run, those of cancelled requests included, and the free permits add up.
THEOREM PermitsCorrect == Spec => []PermitsAccounted
<1>1. IInv => PermitsAccounted
  BY DEF IInv
<1> QED
  BY <1>1, Invariant, PTL
===============================================================================
