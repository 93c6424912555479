---------------------------- MODULE Database_proofs ----------------------------
(***************************************************************************)
(* Two facts, for any batches, any pubkeys and any number of faults.       *)
(*                                                                         *)
(* Whatever is on disk loads.  The argument is about the transaction in    *)
(* flight: after each of its statements the tables it sees are complete,   *)
(* because the id of an edge's end, cached or not, is that of a row the    *)
(* transaction holds.                                                      *)
(*                                                                         *)
(* The statements implement ListStore.  Here the argument is per author:   *)
(* until the author's turn its list in the transaction is the old one,     *)
(* during it its edges lie between the old list and the new one, and after *)
(* it its list is the newest of stored and offered.                        *)
(***************************************************************************)
EXTENDS Database, FiniteSetTheorems, SequenceTheorems, TLAPS

USE BatchAssumption, NoneAssumption, BoundAssumption

\* The cache agrees with the rows the transaction sees.
CacheAgrees == \A p \in DOMAIN node_ids : HasRow(tx, p) /\ node_ids[p] = tx.nodes[p].id

\* While edges are written, the author has a row, and a mute list if it is one.
AuthorStored ==
    pc = "edges" =>
        /\ author \in Pubkey /\ HasRow(tx, author)
        /\ call.mutes => tx.nodes[author].id \in DOMAIN tx.mute_lists

\* The winner kept for an author is one of that author's.
WinnersOwn == \A p \in Pubkey : winners[p] # None => winners[p].author = p

IInv ==
    /\ TypeOK /\ AlwaysLoads /\ Complete(tx)
    /\ pc \in {"author", "edges"} => CacheAgrees
    /\ AuthorStored /\ WinnersOwn

-------------------------------------------------------------------------------
(* Operators on tables. *)

LEMMA CallType == TypeOK => call.mutes \in BOOLEAN /\ call.updates \in Seq(Update)
<1> SUFFICES ASSUME TypeOK PROVE call.mutes \in BOOLEAN /\ call.updates \in Seq(Update)
  OBVIOUS
<1>1. CASE call = NoCall
  BY <1>1 DEF NoCall
<1>2. CASE call \in Batch
  BY <1>2
<1> QED
  BY <1>1, <1>2 DEF TypeOK

\* Changing the edges of one kind leaves the rest.
WithEdges(t, m, E) == [t EXCEPT !.edges[m] = E]

LEMMA EdgesChange ==
    ASSUME NEW t, IsTables(t), NEW m \in BOOLEAN, NEW E \in SUBSET (Nat \X Nat),
           NEW s, s = WithEdges(t, m, E)
    PROVE  /\ IsTables(s)
           /\ s.nodes = t.nodes /\ s.last = t.last /\ s.mute_lists = t.mute_lists
           /\ s.edges = [t.edges EXCEPT ![m] = E]
<1>1. t = [nodes |-> t.nodes, last |-> t.last, mute_lists |-> t.mute_lists, edges |-> t.edges]
  BY DEF IsTables
<1>2. s = [nodes |-> t.nodes, last |-> t.last, mute_lists |-> t.mute_lists,
           edges |-> [t.edges EXCEPT ![m] = E]]
  BY <1>1 DEF WithEdges
<1>3. t.edges \in [BOOLEAN -> SUBSET (Nat \X Nat)]
  BY DEF IsTables
<1>4. [t.edges EXCEPT ![m] = E] \in [BOOLEAN -> SUBSET (Nat \X Nat)]
  BY <1>3
<1> QED
  BY <1>2, <1>4 DEF IsTables

\* A new row has a new id; the others stay.
LEMMA InsertedRow ==
    ASSUME NEW t, IsTables(t), NEW p \in Pubkey, NEW s, s = Inserted(t, p)
    PROVE  /\ IsTables(s) /\ HasRow(s, p)
           /\ s.mute_lists = t.mute_lists /\ s.edges = t.edges
           /\ \A q \in Pubkey : HasRow(t, q) => s.nodes[q] = t.nodes[q]
           /\ \A q \in Pubkey : q # p => s.nodes[q] = t.nodes[q]
<1>1. CASE HasRow(t, p)
  BY <1>1 DEF Inserted
<1>2. CASE ~HasRow(t, p)
  <2> DEFINE row == [id |-> t.last + 1, version |-> NoVersion]
  <2>1. t = [nodes |-> t.nodes, last |-> t.last, mute_lists |-> t.mute_lists, edges |-> t.edges]
    BY DEF IsTables
  <2>2. s = [nodes |-> [t.nodes EXCEPT ![p] = row], last |-> t.last + 1,
             mute_lists |-> t.mute_lists, edges |-> t.edges]
    BY <1>2, <2>1 DEF Inserted
  <2>3. t.nodes \in [Pubkey -> [id : Nat, version : Version]] /\ t.last \in Nat
    BY DEF IsTables
  <2>4. row \in [id : Nat, version : Version]
    BY <2>3 DEF NoVersion, Version, Opt
  <2>5. [t.nodes EXCEPT ![p] = row] \in [Pubkey -> [id : Nat, version : Version]]
    BY <2>3, <2>4
  <2>6. IsTables(s)
    BY <2>2, <2>3, <2>5 DEF IsTables
  <2>7. s.nodes[p].id # 0
    BY <2>2, <2>3
  <2> QED
    BY <1>2, <2>2, <2>3, <2>6, <2>7 DEF HasRow
<1> QED
  BY <1>1, <1>2

LEMMA InsertedComplete ==
    ASSUME NEW t, IsTables(t), Complete(t), NEW p \in Pubkey
    PROVE  Complete(Inserted(t, p))
<1>1. CASE HasRow(t, p)
  BY <1>1 DEF Inserted
<1>2. CASE ~HasRow(t, p)
  <2> DEFINE s == Inserted(t, p)
  <2>1. t = [nodes |-> t.nodes, last |-> t.last, mute_lists |-> t.mute_lists, edges |-> t.edges]
    BY DEF IsTables
  <2>2. t.nodes \in [Pubkey -> [id : Nat, version : Version]] /\ t.last \in Nat
    BY DEF IsTables
  <2>3. /\ s.nodes = [t.nodes EXCEPT ![p] = [id |-> t.last + 1, version |-> NoVersion]]
        /\ s.last = t.last + 1 /\ s.mute_lists = t.mute_lists /\ s.edges = t.edges
    BY <1>2, <2>1 DEF Inserted
  <2>4. \A q \in Pubkey : s.nodes[q].id = IF q = p THEN t.last + 1 ELSE t.nodes[q].id
    BY <2>2, <2>3
  <2>5. \A q \in Pubkey : s.nodes[q].id <= s.last
    BY <2>2, <2>3, <2>4 DEF Complete
  <2>6. \A q, r \in Pubkey : HasRow(s, q) /\ s.nodes[q].id = s.nodes[r].id => q = r
    BY <2>2, <2>3, <2>4 DEF Complete, HasRow
  <2>7. Ids(t) \subseteq Ids(s)
    BY <1>2, <2>4 DEF Ids, HasRow
  <2> HIDE DEF s
  <2>8. Valid(s)
    <3>1. Valid(t)
      BY DEF Complete
    <3>2. \A m \in BOOLEAN : s.edges[m] \subseteq Ids(s) \X Ids(s)
      BY <3>1, <2>3, <2>7 DEF Valid
    <3> QED
      BY <3>1, <3>2, <2>3, <2>7 DEF Valid
  <2> QED
    BY <2>5, <2>6, <2>8 DEF Complete, s
<1> QED
  BY <1>1, <1>2

\* The author's row and, for mutes, its list exist afterwards.
LEMMA UpsertedRow ==
    ASSUME NEW t, IsTables(t), NEW m \in BOOLEAN, NEW u \in Update, NEW s, s = Upserted(t, m, u)
    PROVE  /\ IsTables(s) /\ HasRow(s, u.author)
           /\ m => s.nodes[u.author].id \in DOMAIN s.mute_lists
           /\ \A q \in Pubkey : s.nodes[q].id = Inserted(t, u.author).nodes[q].id
           /\ s.last = Inserted(t, u.author).last /\ s.edges = t.edges
           /\ m  => DOMAIN s.mute_lists = DOMAIN t.mute_lists \cup {s.nodes[u.author].id}
           /\ ~m => s.mute_lists = t.mute_lists
<1> DEFINE i == Inserted(t, u.author)
           version == [created_at |-> u.created_at, event_id |-> u.event_id]
           id == i.nodes[u.author].id
           lists == [j \in DOMAIN i.mute_lists \cup {id} |-> IF j = id THEN version ELSE i.mute_lists[j]]
<1>1. u.author \in Pubkey /\ version \in Version
  BY DEF Update, Version, Opt
<1>2. /\ IsTables(i) /\ HasRow(i, u.author)
      /\ i.mute_lists = t.mute_lists /\ i.edges = t.edges
  BY <1>1, InsertedRow
<1>3. i = [nodes |-> i.nodes, last |-> i.last, mute_lists |-> i.mute_lists, edges |-> i.edges]
  BY <1>2 DEF IsTables
<1>4. i.nodes \in [Pubkey -> [id : Nat, version : Version]]
  BY <1>2 DEF IsTables
<1> HIDE DEF i, version
<1>5. CASE m
  <2>1. s = [i EXCEPT !.mute_lists = lists]
    BY <1>5 DEF Upserted, i, version
  <2>2. s = [nodes |-> i.nodes, last |-> i.last, mute_lists |-> lists, edges |-> i.edges]
    BY <1>3, <2>1
  <2>3. /\ s.nodes = i.nodes /\ s.last = i.last /\ s.edges = i.edges /\ s.mute_lists = lists
        /\ s = [nodes |-> s.nodes, last |-> s.last, mute_lists |-> s.mute_lists, edges |-> s.edges]
    BY <2>2
  <2>4. id \in Nat
    BY <1>1, <1>4
  <2>5. DOMAIN lists \subseteq Nat /\ \A j \in DOMAIN lists : lists[j] \in Version
    BY <1>1, <1>2, <2>4 DEF IsTables
  <2>6. IsTables(s)
    BY <1>2, <2>3, <2>5 DEF IsTables
  <2> QED
    BY <1>2, <1>5, <2>3, <2>6 DEF HasRow, i
<1>6. CASE ~m
  <2> DEFINE nodes == [i.nodes EXCEPT ![u.author].version = version]
  <2>1. s = [i EXCEPT !.nodes[u.author].version = version]
    BY <1>6 DEF Upserted, i, version
  <2>2. s = [nodes |-> nodes, last |-> i.last, mute_lists |-> i.mute_lists, edges |-> i.edges]
    BY <1>3, <2>1
  <2>3. nodes \in [Pubkey -> [id : Nat, version : Version]]
    BY <1>1, <1>4
  <2>4. \A q \in Pubkey : nodes[q].id = i.nodes[q].id
    BY <1>1, <1>4
  <2> HIDE DEF nodes
  <2>5. /\ s.nodes = nodes /\ s.last = i.last /\ s.edges = i.edges /\ s.mute_lists = i.mute_lists
        /\ s = [nodes |-> s.nodes, last |-> s.last, mute_lists |-> s.mute_lists, edges |-> s.edges]
    BY <2>2
  <2>6. IsTables(s)
    BY <1>2, <2>3, <2>5 DEF IsTables
  <2> QED
    BY <1>1, <1>2, <1>6, <2>4, <2>5, <2>6 DEF HasRow, i
<1> QED
  BY <1>5, <1>6

LEMMA UpsertedComplete ==
    ASSUME NEW t, IsTables(t), Complete(t), NEW m \in BOOLEAN, NEW u \in Update
    PROVE  Complete(Upserted(t, m, u))
<1> DEFINE i == Inserted(t, u.author)
           s == Upserted(t, m, u)
<1>1. u.author \in Pubkey
  BY DEF Update
<1>2. IsTables(i) /\ i.mute_lists = t.mute_lists /\ i.edges = t.edges /\ Complete(i)
  BY <1>1, InsertedRow, InsertedComplete
<1>3. /\ IsTables(s) /\ HasRow(s, u.author)
      /\ \A q \in Pubkey : s.nodes[q].id = i.nodes[q].id
      /\ s.last = i.last /\ s.edges = t.edges
      /\ m  => DOMAIN s.mute_lists = DOMAIN t.mute_lists \cup {s.nodes[u.author].id}
      /\ ~m => s.mute_lists = t.mute_lists
  BY UpsertedRow
<1> HIDE DEF i, s
<1>4. Ids(s) = Ids(i)
  BY <1>3 DEF Ids, HasRow
<1>5. s.nodes[u.author].id \in Ids(s)
  BY <1>1, <1>3 DEF Ids
<1>6. DOMAIN t.mute_lists \subseteq DOMAIN s.mute_lists
  BY <1>3
<1>7. DOMAIN s.mute_lists \subseteq Ids(s)
  BY <1>2, <1>3, <1>4, <1>5 DEF Complete, Valid
<1>8. Valid(s)
  BY <1>2, <1>3, <1>4, <1>6, <1>7 DEF Complete, Valid
<1>9. Complete(s)
  BY <1>2, <1>3, <1>8 DEF Complete, HasRow
<1> QED
  BY <1>9 DEF s

-------------------------------------------------------------------------------
(* The log. *)

LogOK(w) ==
    /\ w \in Seq({w[i] : i \in DOMAIN w}) /\ w # <<>>
    /\ \A i \in DOMAIN w : IsTables(w[i]) /\ Complete(w[i])

\* A sequence is one of its elements.
LEMMA OwnElements ==
    ASSUME NEW T, NEW v \in Seq(T)
    PROVE  v \in Seq({v[i] : i \in DOMAIN v})
<1> DEFINE R == {v[i] : i \in DOMAIN v}
<1>1. Len(v) \in Nat /\ v \in [1..Len(v) -> T] /\ DOMAIN v = 1..Len(v)
  BY LenProperties
<1>2. v \in [1..Len(v) -> R]
  BY <1>1
<1> HIDE DEF R
<1>3. v \in Seq(R)
  BY <1>1, <1>2, SeqDef
<1> QED
  BY <1>3 DEF R

LEMMA LogGrows ==
    ASSUME NEW w, LogOK(w), NEW t, IsTables(t), Complete(t), NEW v, v = Append(w, t)
    PROVE  LogOK(v) /\ t = v[Len(v)]
<1> DEFINE S == {w[i] : i \in DOMAIN w} \cup {t}
<1>1. w \in Seq(S)
  BY DEF LogOK
<1> HIDE DEF S
<1>2. v \in Seq(S \cup {t}) /\ Len(v) = Len(w) + 1 /\ v[Len(v)] = t
  BY <1>1
<1>3. DOMAIN v = 1..(Len(w) + 1) /\ Len(w) \in Nat /\ DOMAIN w = 1..Len(w)
  BY <1>1, <1>2
<1>4. \A i \in DOMAIN v : (i \in DOMAIN w /\ v[i] = w[i]) \/ v[i] = t
  BY <1>1, <1>3
<1>5. v \in Seq({v[i] : i \in DOMAIN v}) /\ v # <<>>
  <2>1. v \in Seq({v[i] : i \in DOMAIN v})
    BY <1>2, OwnElements
  <2>2. v # <<>>
    BY <1>2, <1>3, EmptySeq
  <2> QED
    BY <2>1, <2>2
<1> QED
  BY <1>2, <1>4, <1>5 DEF LogOK

LEMMA LogLosesItsEnd ==
    ASSUME NEW w, LogOK(w), NEW k \in DOMAIN w, NEW v, v = SubSeq(w, 1, k)
    PROVE  LogOK(v) /\ w[k] = v[Len(v)]
<1> DEFINE S == {w[i] : i \in DOMAIN w}
<1>1. w \in Seq(S)
  BY DEF LogOK
<1> HIDE DEF S
<1>2. Len(w) \in Nat /\ DOMAIN w = 1..Len(w)
  BY <1>1
<1>3. v \in Seq(S) /\ Len(v) = k /\ DOMAIN v = 1..k /\ \A i \in 1..k : v[i] = w[i]
  BY <1>1, <1>2
<1>4. v \in Seq({v[i] : i \in DOMAIN v}) /\ v # <<>>
  <2>1. v \in Seq({v[i] : i \in DOMAIN v})
    BY <1>3, OwnElements
  <2>2. v # <<>>
    BY <1>2, <1>3, EmptySeq
  <2> QED
    BY <2>1, <2>2
<1>5. \A i \in DOMAIN v : IsTables(v[i]) /\ Complete(v[i])
  BY <1>2, <1>3 DEF LogOK
<1>6. w[k] = v[Len(v)]
  BY <1>2, <1>3
<1> QED
  BY <1>4, <1>5, <1>6 DEF LogOK

LEMMA LogOfOne ==
    ASSUME NEW t, IsTables(t), Complete(t)
    PROVE  LogOK(<<t>>) /\ t = <<t>>[Len(<<t>>)]
<1>1. <<t>> \in Seq({t}) /\ Len(<<t>>) = 1 /\ DOMAIN <<t>> = {1} /\ <<t>>[1] = t /\ <<t>> # <<>>
  OBVIOUS
<1> QED
  BY <1>1 DEF LogOK

\* What IInv says of the disk.
LEMMA Disk == IInv => LogOK(wal) /\ tables = wal[Len(wal)] /\ IsTables(tables) /\ Complete(tables)
<1> SUFFICES ASSUME IInv PROVE LogOK(wal) /\ tables = wal[Len(wal)] /\ IsTables(tables) /\ Complete(tables)
  OBVIOUS
<1>1. LogOK(wal) /\ tables = wal[Len(wal)]
  BY DEF IInv, TypeOK, AlwaysLoads, LogOK
<1>2. Len(wal) \in DOMAIN wal
  BY <1>1 DEF LogOK
<1> QED
  BY <1>1, <1>2 DEF LogOK

-------------------------------------------------------------------------------
(* Initial states and steps. *)

LEMMA InvInit == Init => IInv
<1> SUFFICES ASSUME Init PROVE IInv
  OBVIOUS
<1>1. LogOK(wal) /\ tables = wal[Len(wal)] /\ IsTables(tables) /\ Complete(tables)
  BY EmptyAssumption, LogOfOne DEF Init
<1>2. winners \in [Pubkey -> Update \cup {None}]
  BY DEF Init
<1>3. TypeOK
  BY <1>1, <1>2 DEF Init, TypeOK, LogOK
<1> QED
  BY <1>1, <1>3 DEF Init, IInv, AlwaysLoads, LogOK, AuthorStored, WinnersOwn

\* The steps that leave the disk and the transaction alone.
LEMMA InvBegin ==
    ASSUME IInv, NEW b \in Batch, Begin(b)
    PROVE  IInv'
<1>1. winners' \in [Pubkey -> Update \cup {None}] /\ call' \in Batch /\ next' = 1
  BY DEF Begin
<1>2. TypeOK'
  BY <1>1 DEF IInv, TypeOK, Begin, disk
<1> QED
  BY <1>2 DEF IInv, TypeOK, Begin, disk, AlwaysLoads, CacheAgrees, AuthorStored, WinnersOwn

LEMMA InvCoalesce ==
    ASSUME IInv, Coalesce
    PROVE  IInv'
<1> DEFINE u == call.updates[next]
<1>1. call.updates \in Seq(Update) /\ next \in Nat \ {0} /\ winners \in [Pubkey -> Update \cup {None}]
  BY CallType DEF IInv, TypeOK
<1>2. u \in Update
  BY <1>1 DEF Coalesce
<1>3. u.author \in Pubkey
  BY <1>2 DEF Update
<1> HIDE DEF u
<1>4. winners' = winners \/ winners' = [winners EXCEPT ![u.author] = u]
  BY DEF Coalesce, u
<1>5. winners' \in [Pubkey -> Update \cup {None}]
  BY <1>1, <1>2, <1>3, <1>4
<1>6. next' \in Nat \ {0}
  BY <1>1 DEF Coalesce
<1>7. TypeOK'
  BY <1>5, <1>6 DEF IInv, TypeOK, Coalesce, disk
<1>8. WinnersOwn'
  BY <1>1, <1>2, <1>3, <1>4 DEF IInv, WinnersOwn
<1> QED
  BY <1>7, <1>8 DEF IInv, TypeOK, Coalesce, disk, AlwaysLoads, CacheAgrees, AuthorStored

LEMMA InvTransaction ==
    ASSUME IInv, Transaction
    PROVE  IInv'
<1>1. IsTables(tx') /\ Complete(tx)'
  BY Disk DEF Transaction, disk
<1>2. TypeOK'
  BY <1>1 DEF IInv, TypeOK, Transaction, disk
<1>3. DOMAIN node_ids' = {}
  BY DEF Transaction
<1> QED
  BY <1>1, <1>2, <1>3 DEF IInv, Transaction, disk, AlwaysLoads, CacheAgrees, AuthorStored, WinnersOwn

LEMMA InvSkip ==
    ASSUME IInv, NEW p \in Pubkey, Skip(p)
    PROVE  IInv'
<1>1. winners' \in [Pubkey -> Update \cup {None}]
  BY DEF IInv, TypeOK, Skip
<1>2. TypeOK'
  BY <1>1 DEF IInv, TypeOK, Skip, disk
<1> QED
  BY <1>2 DEF IInv, TypeOK, Skip, disk, AlwaysLoads, CacheAgrees, AuthorStored, WinnersOwn

LEMMA InvUpsert ==
    ASSUME IInv, NEW p \in Pubkey, Upsert(p)
    PROVE  IInv'
<1> DEFINE u == winners[p]
           m == call.mutes
           i == Inserted(tx, p)
<1>1. m \in BOOLEAN /\ IsTables(tx) /\ Complete(tx) /\ tx' = Upserted(tx, m, u)
  BY CallType DEF IInv, TypeOK, Upsert
<1>2. u \in Update
  BY DEF IInv, TypeOK, Upsert
<1>3. u.author = p /\ u # None
  BY DEF IInv, WinnersOwn, Upsert
<1> HIDE DEF u, m
<1>4. /\ IsTables(tx') /\ HasRow(tx', p)
      /\ m => tx'.nodes[p].id \in DOMAIN tx'.mute_lists
      /\ \A q \in Pubkey : tx'.nodes[q].id = i.nodes[q].id
  BY <1>1, <1>2, <1>3, UpsertedRow
<1>5. Complete(tx')
  BY <1>1, <1>2, UpsertedComplete
<1>6. \A q \in Pubkey : HasRow(tx, q) => i.nodes[q] = tx.nodes[q]
  BY <1>1, InsertedRow
<1> HIDE DEF i
<1>7. node_ids' = [q \in DOMAIN node_ids \cup {p} |-> IF q = p THEN tx'.nodes[p].id ELSE node_ids[q]]
  BY DEF Upsert
<1>8. DOMAIN node_ids \subseteq Pubkey /\ CacheAgrees
  BY DEF IInv, TypeOK, Upsert
<1>9. \A q \in DOMAIN node_ids' : HasRow(tx', q) /\ node_ids'[q] = tx'.nodes[q].id
  BY <1>4, <1>6, <1>7, <1>8 DEF CacheAgrees, HasRow
<1>10. \A q \in Pubkey : tx'.nodes[q].id \in Nat
  BY <1>4 DEF IsTables
<1>11. DOMAIN node_ids' \subseteq Pubkey /\ \A q \in DOMAIN node_ids' : node_ids'[q] \in Nat
  <2>1. DOMAIN node_ids' \subseteq Pubkey
    BY <1>7, <1>8
  <2> QED
    BY <1>9, <1>10, <2>1
<1>12. removed' \subseteq Pubkey /\ added' \subseteq Pubkey
  BY <1>2 DEF Upsert, Previous, Update, u
<1>13. TypeOK'
  <2>1. pc' = "edges" /\ author' = p /\ UNCHANGED <<disk, call, next, winners, accepted, result, snapshot, faults>>
    BY DEF Upsert
  <2> QED
    BY <1>4, <1>11, <1>12, <2>1 DEF IInv, TypeOK, disk
<1>14. AuthorStored'
  BY <1>4 DEF AuthorStored, Upsert, m, HasRow
<1> QED
  BY <1>5, <1>9, <1>13, <1>14 DEF IInv, Upsert, disk, AlwaysLoads, CacheAgrees, WinnersOwn, HasRow

LEMMA InvDeleteEdge ==
    ASSUME IInv, DeleteEdge
    PROVE  IInv'
<1> DEFINE m == call.mutes
<1>1. PICK q \in removed :
        /\ tx' = [tx EXCEPT !.edges[m] = @ \ {Edge(tx.nodes[author].id, tx.nodes[q].id)}]
        /\ removed' = removed \ {q}
  BY DEF DeleteEdge
<1> DEFINE E == tx.edges[m] \ {Edge(tx.nodes[author].id, tx.nodes[q].id)}
<1>2. m \in BOOLEAN /\ IsTables(tx) /\ Complete(tx)
  BY CallType DEF IInv, TypeOK
<1> HIDE DEF m
<1>3. tx.edges \in [BOOLEAN -> SUBSET (Nat \X Nat)]
  BY <1>2 DEF IsTables
<1>4. E \in SUBSET (Nat \X Nat) /\ tx' = WithEdges(tx, m, E) /\ E \subseteq tx.edges[m]
  BY <1>1, <1>2, <1>3 DEF WithEdges
<1> HIDE DEF E
<1>5. /\ IsTables(tx') /\ tx'.nodes = tx.nodes /\ tx'.last = tx.last
      /\ tx'.mute_lists = tx.mute_lists /\ tx'.edges = [tx.edges EXCEPT ![m] = E]
  BY <1>2, <1>4, EdgesChange
<1>6. \A k \in BOOLEAN : tx'.edges[k] \subseteq tx.edges[k]
  BY <1>3, <1>4, <1>5
<1>7. Ids(tx') = Ids(tx)
  BY <1>5 DEF Ids, HasRow
<1>8. Valid(tx')
  BY <1>2, <1>5, <1>6, <1>7 DEF Complete, Valid
<1>9. Complete(tx')
  BY <1>2, <1>5, <1>8 DEF Complete, HasRow
<1>10. removed' \subseteq Pubkey
  BY <1>1 DEF IInv, TypeOK
<1>11. TypeOK'
  BY <1>5, <1>10 DEF IInv, TypeOK, DeleteEdge, disk
<1> QED
  BY <1>5, <1>9, <1>11 DEF IInv, DeleteEdge, disk, AlwaysLoads, CacheAgrees, AuthorStored, WinnersOwn, HasRow

\* The heart of the argument: both ends of a new edge have rows.
LEMMA InvInsertEdge ==
    ASSUME IInv, InsertEdge
    PROVE  IInv'
<1> DEFINE m == call.mutes
           t(q) == IF q \in DOMAIN node_ids THEN tx ELSE Inserted(tx, q)
           id(q) == IF q \in DOMAIN node_ids THEN node_ids[q] ELSE t(q).nodes[q].id
<1>1. PICK q \in added :
        /\ tx' = [t(q) EXCEPT !.edges[m] = @ \cup {Edge(t(q).nodes[author].id, id(q))}]
        /\ node_ids' = [r \in DOMAIN node_ids \cup {q} |-> IF r = q THEN id(q) ELSE node_ids[r]]
        /\ added' = added \ {q}
  BY DEF InsertEdge
<1>2. /\ m \in BOOLEAN /\ IsTables(tx) /\ Complete(tx) /\ q \in Pubkey
      /\ DOMAIN node_ids \subseteq Pubkey /\ CacheAgrees
      /\ author \in Pubkey /\ HasRow(tx, author) /\ pc = "edges"
      /\ m => tx.nodes[author].id \in DOMAIN tx.mute_lists
  BY <1>1, CallType DEF IInv, TypeOK, InsertEdge, AuthorStored
<1> DEFINE s == t(q)
           a == s.nodes[author].id
           b == id(q)
           E == s.edges[m] \cup {Edge(a, b)}
<1> HIDE DEF m
<1>3. /\ IsTables(s) /\ Complete(s) /\ HasRow(s, q) /\ s.mute_lists = tx.mute_lists
      /\ \A r \in Pubkey : HasRow(tx, r) => s.nodes[r] = tx.nodes[r]
  <2>1. CASE q \in DOMAIN node_ids
    BY <1>2, <2>1 DEF CacheAgrees
  <2>2. CASE q \notin DOMAIN node_ids
    BY <1>2, <2>2, InsertedRow, InsertedComplete
  <2> QED
    BY <2>1, <2>2
<1>4. b = s.nodes[q].id
  BY <1>2 DEF CacheAgrees
<1>5. tx' = [s EXCEPT !.edges[m] = @ \cup {Edge(a, b)}]
  BY <1>1
<1>6. node_ids' = [r \in DOMAIN node_ids \cup {q} |-> IF r = q THEN b ELSE node_ids[r]]
  BY <1>1
<1> HIDE DEF t, id, s, b
<1>7. s.edges \in [BOOLEAN -> SUBSET (Nat \X Nat)] /\ \A r \in Pubkey : s.nodes[r].id \in Nat
  BY <1>3 DEF IsTables
<1>8. a \in Ids(s) /\ b \in Ids(s) /\ a \in Nat /\ b \in Nat /\ a = tx.nodes[author].id
  BY <1>2, <1>3, <1>4, <1>7 DEF Ids, HasRow
<1> HIDE DEF a
<1>9. E \in SUBSET (Nat \X Nat) /\ tx' = WithEdges(s, m, E)
  BY <1>2, <1>5, <1>7, <1>8 DEF Edge, WithEdges
<1> HIDE DEF E
<1>10. /\ IsTables(tx') /\ tx'.nodes = s.nodes /\ tx'.last = s.last
       /\ tx'.mute_lists = s.mute_lists /\ tx'.edges = [s.edges EXCEPT ![m] = E]
  BY <1>2, <1>3, <1>9, EdgesChange
<1>11. Ids(tx') = Ids(s)
  BY <1>10 DEF Ids, HasRow
<1>12. Valid(tx')
  <2>1. Valid(s)
    BY <1>3 DEF Complete
  <2>2. \A k \in BOOLEAN : \A e \in tx'.edges[k] : e \in s.edges[k] \/ (k = m /\ e = <<a, b>>)
    BY <1>2, <1>7, <1>10 DEF E, Edge
  <2>3. <<a, b>> \in Ids(s) \X Ids(s) /\ <<a, b>>[1] = a
    BY <1>8
  <2>4. \A k \in BOOLEAN : tx'.edges[k] \subseteq Ids(tx') \X Ids(tx')
    BY <1>11, <2>1, <2>2, <2>3 DEF Valid
  <2>5. \A e \in tx'.edges[TRUE] : e[1] \in DOMAIN tx'.mute_lists
    BY <1>2, <1>3, <1>8, <1>10, <2>1, <2>2, <2>3 DEF Valid
  <2>6. DOMAIN tx'.mute_lists \subseteq Ids(tx')
    BY <1>10, <1>11, <2>1 DEF Valid
  <2> QED
    BY <2>4, <2>5, <2>6 DEF Valid
<1>13. Complete(tx')
  BY <1>3, <1>10, <1>12 DEF Complete, HasRow
<1>14. \A r \in DOMAIN node_ids' : HasRow(tx', r) /\ node_ids'[r] = tx'.nodes[r].id
  BY <1>2, <1>3, <1>4, <1>6, <1>10 DEF CacheAgrees, HasRow
<1>15. DOMAIN node_ids' \subseteq Pubkey
  BY <1>2, <1>6
<1>16. \A r \in DOMAIN node_ids' : node_ids'[r] \in Nat
  BY <1>7, <1>10, <1>14, <1>15
<1>17. added' \subseteq Pubkey
  BY <1>1 DEF IInv, TypeOK
<1>18. pc = "edges" /\ UNCHANGED <<disk, pc, call, next, winners, author, removed, accepted,
                                    result, snapshot, faults>>
  BY DEF InsertEdge
<1>19. TypeOK'
  BY <1>10, <1>15, <1>17, <1>16, <1>18 DEF IInv, TypeOK, disk
<1>20. AuthorStored'
  BY <1>2, <1>3, <1>10 DEF AuthorStored, InsertEdge, HasRow, m
<1> QED
  BY <1>13, <1>14, <1>19, <1>20 DEF IInv, InsertEdge, disk, AlwaysLoads, CacheAgrees, WinnersOwn, HasRow

LEMMA InvAccept ==
    ASSUME IInv, Accept
    PROVE  IInv'
<1>1. winners \in [Pubkey -> Update \cup {None}] /\ winners' = [winners EXCEPT ![author] = None]
  BY DEF IInv, TypeOK, Accept
<1>2. winners' \in [Pubkey -> Update \cup {None}]
  BY <1>1
<1>3. accepted' \in Nat
  BY DEF IInv, TypeOK, Accept
<1>4. WinnersOwn'
  BY <1>1 DEF IInv, WinnersOwn
<1>5. TypeOK'
  BY <1>2, <1>3 DEF IInv, TypeOK, Accept, disk
<1> QED
  BY <1>4, <1>5 DEF IInv, Accept, disk, AlwaysLoads, CacheAgrees, AuthorStored

LEMMA InvCommit ==
    ASSUME IInv, Commit
    PROVE  IInv'
<1>1. LogOK(wal) /\ IsTables(tx) /\ Complete(tx)
  BY Disk DEF IInv, TypeOK
<1>2. wal' = Append(wal, tx) /\ tables' = tx
  BY DEF Commit
<1>3. LogOK(wal') /\ tables' = wal'[Len(wal')]
  <2>1. LogOK(Append(wal, tx)) /\ tx = Append(wal, tx)[Len(Append(wal, tx))]
    BY <1>1, LogGrows
  <2> QED
    BY <1>2, <2>1
<1>4. TypeOK'
  BY <1>3 DEF IInv, TypeOK, Commit, local, LogOK
<1> QED
  BY <1>3, <1>4 DEF IInv, Commit, local, AlwaysLoads, LogOK, CacheAgrees, AuthorStored, WinnersOwn

LEMMA InvStatementFails ==
    ASSUME IInv, StatementFails
    PROVE  IInv'
<1>1. IsTables(tx') /\ Complete(tx')
  BY Disk DEF StatementFails
<1>2. TypeOK'
  BY <1>1 DEF IInv, TypeOK, StatementFails, disk, Fault
<1> QED
  BY <1>1, <1>2 DEF IInv, StatementFails, disk, AlwaysLoads, AuthorStored, WinnersOwn

LEMMA InvCheckpoint ==
    ASSUME IInv, Checkpoint
    PROVE  IInv'
<1>1. LogOK(wal') /\ tables = wal'[Len(wal')]
  BY Disk, LogOfOne DEF Checkpoint
<1>2. TypeOK'
  BY <1>1 DEF IInv, TypeOK, Checkpoint, local, LogOK
<1> QED
  BY <1>1, <1>2 DEF IInv, Checkpoint, local, AlwaysLoads, LogOK, AuthorStored, WinnersOwn

\* Whatever log is left, the process begins anew with the last tables of it.
LEMMA LostKeepsInv ==
    ASSUME IInv, Lost, faults' \in Nat, LogOK(wal'), tables' = wal'[Len(wal')]
    PROVE  IInv'
<1>1. Len(wal') \in DOMAIN wal'
  BY DEF LogOK
<1>2. IsTables(tx') /\ Complete(tx') /\ DOMAIN node_ids' = {}
  BY <1>1 DEF Lost, LogOK
<1>3. TypeOK'
  BY <1>2 DEF IInv, TypeOK, Lost, LogOK
<1> QED
  BY <1>2, <1>3 DEF IInv, Lost, AlwaysLoads, LogOK, AuthorStored, WinnersOwn

LEMMA InvCrash ==
    ASSUME IInv, Crash
    PROVE  IInv'
<1>1. Lost /\ UNCHANGED disk
  BY DEF Crash
<1>2. LogOK(wal') /\ tables' = wal'[Len(wal')]
  BY <1>1, Disk DEF disk
<1>3. faults' \in Nat
  <2>1. faults \in Nat
    BY DEF IInv, TypeOK
  <2> QED
    BY <2>1 DEF Crash, Fault
<1> QED
  BY <1>1, <1>2, <1>3, LostKeepsInv

LEMMA InvHostFails ==
    ASSUME IInv, HostFails
    PROVE  IInv'
<1>1. PICK k \in DOMAIN wal : tables' = wal[k] /\ wal' = SubSeq(wal, 1, k)
  BY DEF HostFails
<1>2. LogOK(wal') /\ tables' = wal'[Len(wal')]
  <2>1. LogOK(wal)
    BY Disk
  <2> DEFINE v == SubSeq(wal, 1, k)
  <2>2. wal' = v /\ tables' = wal[k] /\ v = SubSeq(wal, 1, k)
    BY <1>1
  <2> HIDE DEF v
  <2>3. LogOK(v) /\ wal[k] = v[Len(v)]
    BY <2>1, <2>2, LogLosesItsEnd
  <2> QED
    BY <2>2, <2>3
<1>3. Lost
  BY DEF HostFails
<1>4. faults' \in Nat
  <2>1. faults \in Nat
    BY DEF IInv, TypeOK
  <2> QED
    BY <2>1 DEF HostFails, Fault
<1> QED
  BY <1>2, <1>3, <1>4, LostKeepsInv

LEMMA InvLoad ==
    ASSUME IInv, Load
    PROVE  IInv'
<1>1. TypeOK'
  BY DEF IInv, TypeOK, Load, disk, local
<1> QED
  BY <1>1 DEF IInv, Load, disk, local, AlwaysLoads, AuthorStored, WinnersOwn

LEMMA InvStutter == IInv /\ UNCHANGED vars => IInv'
BY DEF IInv, TypeOK, AlwaysLoads, CacheAgrees, AuthorStored, WinnersOwn, vars, disk, local

LEMMA InvStep == IInv /\ [Next]_vars => IInv'
BY InvBegin, InvCoalesce, InvTransaction, InvSkip, InvUpsert, InvDeleteEdge, InvInsertEdge,
   InvAccept, InvCommit, InvStatementFails, InvCheckpoint, InvCrash, InvHostFails, InvLoad,
   InvStutter DEF Next

(* The state has its type: outside a transaction the process sees exactly     *)
(* what is committed, because a failed statement's transaction is rolled back *)
(* as a whole.                                                                *)
THEOREM TypeCorrect == Spec => []TypeOK
<1>1. IInv => TypeOK
  BY DEF IInv
<1> QED
  BY <1>1, InvInit, InvStep, PTL DEF Spec

(* update_lists_batch never leaves on disk, under any faults, rows that       *)
(* load_graph refuses: every edge joins two rows, every mute edge has its     *)
(* list, and no two pubkeys share an id.                                      *)
THEOREM DiskAlwaysLoads == Spec => []AlwaysLoads
<1>1. IInv => AlwaysLoads
  BY DEF IInv
<1> QED
  BY <1>1, InvInit, InvStep, PTL DEF Spec

-------------------------------------------------------------------------------
(* Lists, as they are read off the rows. *)

\* A list of the abstract store, and how it is read off the rows.
StoredList == [created_at : Opt, event_id : Opt, targets : SUBSET Pubkey]
VersionOf(u) == [created_at |-> u.created_at, event_id |-> u.event_id]
ListAt(t, m, p) ==
    IF Stored(t, m, p) = NoVersion THEN None
    ELSE [created_at |-> Stored(t, m, p).created_at, event_id |-> Stored(t, m, p).event_id,
          targets |-> Previous(t, m, p)]

LEMMA ListsAt == \A t : \A m \in BOOLEAN : \A p \in Pubkey : Lists(t)[m][p] = ListAt(t, m, p)
BY DEF Lists, ListAt

LEMMA ListsSame ==
    ASSUME NEW t, NEW s, \A m \in BOOLEAN : \A p \in Pubkey : ListAt(s, m, p) = ListAt(t, m, p)
    PROVE  Lists(s) = Lists(t)
BY DEF Lists, ListAt

LEMMA StoredType ==
    ASSUME NEW t, IsTables(t), NEW m \in BOOLEAN, NEW p \in Pubkey
    PROVE  Stored(t, m, p) \in Version
<1>1. NoVersion \in Version
  BY DEF NoVersion, Version, Opt
<1>2. t.nodes[p].version \in Version /\ \A i \in DOMAIN t.mute_lists : t.mute_lists[i] \in Version
  BY DEF IsTables
<1> QED
  BY <1>1, <1>2 DEF Stored

LEMMA ListAtType ==
    ASSUME NEW t, IsTables(t), NEW m \in BOOLEAN, NEW p \in Pubkey
    PROVE  ListAt(t, m, p) \in StoredList \cup {None}
<1>1. Stored(t, m, p) \in Version
  BY StoredType
<1>2. Previous(t, m, p) \in SUBSET Pubkey
  BY DEF Previous
<1> QED
  BY <1>1, <1>2 DEF ListAt, StoredList, Version

-------------------------------------------------------------------------------
(* The order of versions. *)

LEMMA WinsTotal ==
    ASSUME NEW t \in Nat, NEW i \in Nat, NEW u \in Nat, NEW j \in Nat
    PROVE  /\ ~EventWins(t, i, t, i)
           /\ ~EventWins(t, i, u, j) /\ ~EventWins(u, j, t, i) => t = u /\ i = j
BY DEF EventWins

\* What loses to no new version loses to nothing that version loses to.
LEMMA WinsTransitive ==
    ASSUME NEW t \in Nat, NEW i \in Nat, NEW u \in Nat, NEW j \in Nat,
           NEW ot \in Opt, NEW oi \in Opt,
           EventWins(t, i, ot, oi), ~EventWins(t, i, u, j)
    PROVE  EventWins(u, j, ot, oi)
BY DEF EventWins, Opt

\* What loses to a version loses to what wins over it.
LEMMA WinsBoth ==
    ASSUME NEW t \in Nat, NEW i \in Nat, NEW u \in Nat, NEW j \in Nat, NEW v \in Nat, NEW k \in Nat,
           EventWins(u, j, v, k), ~EventWins(t, i, v, k)
    PROVE  ~EventWins(t, i, u, j)
BY DEF EventWins

LEMMA UpdateType ==
    ASSUME NEW u \in Update
    PROVE  /\ u.created_at \in Nat /\ u.event_id \in Nat /\ u.author \in Pubkey
           /\ u.targets \in SUBSET Pubkey /\ u # None
           /\ VersionOf(u) \in Version /\ VersionOf(u) # NoVersion
           /\ Promise!ListOf(u) \in StoredList /\ Promise!ListOf(u) # None
           /\ Promise!ListOf(u).created_at = u.created_at /\ Promise!ListOf(u).event_id = u.event_id
           /\ Promise!ListOf(u).targets = u.targets
<1>1. u.created_at \in Nat /\ u.event_id \in Nat /\ u.author \in Pubkey /\ u.targets \in SUBSET Pubkey
  BY DEF Update
<1>2. VersionOf(u) \in Version /\ VersionOf(u) # NoVersion
  BY <1>1 DEF VersionOf, Version, NoVersion, Opt
<1>3. Promise!ListOf(u) \in StoredList
  BY <1>1 DEF Promise!ListOf, StoredList, Opt
<1> QED
  BY <1>1, <1>2, <1>3, AbsentAssumption DEF Promise!ListOf, StoredList

LEMMA BeatsIsWins ==
    ASSUME NEW u \in Update, NEW v
    PROVE  Promise!Beats(Promise!ListOf(u), v)
             <=> v = None \/ EventWins(u.created_at, u.event_id, v.created_at, v.event_id)
<1>1. Promise!ListOf(u).created_at = u.created_at /\ Promise!ListOf(u).event_id = u.event_id
  BY UpdateType
<1> QED
  BY <1>1 DEF Promise!Beats, Promise!EventWins, EventWins

\* No update of the author's beats a winner that is among them, so that the
\* newest of stored and offered is the winner, or what is stored if it loses.
IsWinner(b, p, w) ==
    /\ w \in Update /\ w.author = p
    /\ \E i \in DOMAIN b.updates : b.updates[i] = w
    /\ \A i \in DOMAIN b.updates : b.updates[i].author = p => ~Wins(b.updates[i], w)

LEMMA NewestOfWinner ==
    ASSUME NEW b \in Batch, NEW p \in Pubkey, NEW w, IsWinner(b, p, w),
           NEW old \in StoredList \cup {None}
    PROVE  Promise!Newest(old, Promise!Offers(b, p)) =
             IF Promise!Beats(Promise!ListOf(w), old) THEN Promise!ListOf(w) ELSE old
<1> DEFINE L(u) == Promise!ListOf(u)
           offers == Promise!Offers(b, p)
           better == {o \in offers : Promise!Beats(o, old)}
<1>1. w \in Update /\ w.author = p
  BY DEF IsWinner
<1>2. PICK k \in DOMAIN b.updates : b.updates[k] = w
  BY DEF IsWinner
<1>3. offers = {L(b.updates[i]) : i \in {j \in DOMAIN b.updates : b.updates[j].author = p}}
  BY DEF Promise!Offers
<1>4. L(w) \in offers
  BY <1>1, <1>2, <1>3
<1>5. \A o \in offers : \E u \in Update : \E i \in DOMAIN b.updates :
        o = L(u) /\ b.updates[i] = u /\ u.author = p /\ ~Wins(u, w)
  <2>1. \A i \in DOMAIN b.updates : b.updates[i] \in Update
    OBVIOUS
  <2> QED
    BY <1>3, <2>1 DEF IsWinner
<1> HIDE DEF offers
<1>6. \A u, v \in Update : Promise!Beats(L(u), L(v)) <=> Wins(u, v)
  BY UpdateType, BeatsIsWins DEF Wins
<1>7. \A u \in Update : Promise!Beats(L(u), old) /\ ~Wins(u, w) => Promise!Beats(L(w), old)
  <2> SUFFICES ASSUME NEW u \in Update, Promise!Beats(L(u), old), ~Wins(u, w), old # None
               PROVE  Promise!Beats(L(w), old)
    BY <1>1, BeatsIsWins
  <2>1. old.created_at \in Opt /\ old.event_id \in Opt
    BY DEF StoredList
  <2> QED
    BY <1>1, <2>1, UpdateType, WinsTransitive, BeatsIsWins DEF Wins
<1>8. Promise!Newest(old, offers) =
        IF better = {} THEN old ELSE CHOOSE o \in better : \A q \in better : ~Promise!Beats(q, o)
  BY DEF Promise!Newest
<1>9. CASE ~Promise!Beats(L(w), old)
  <2>1. better = {}
    BY <1>5, <1>7, <1>9
  <2> HIDE DEF better
  <2> QED
    BY <1>8, <1>9, <2>1 DEF offers
<1>10. CASE Promise!Beats(L(w), old)
  <2>1. L(w) \in better
    BY <1>4, <1>10
  <2>2. \A q \in better : ~Promise!Beats(q, L(w))
    BY <1>1, <1>5, <1>6
  <2>3. \A o \in better : (\A q \in better : ~Promise!Beats(q, o)) => o = L(w)
    <3> SUFFICES ASSUME NEW o \in better, ~Promise!Beats(L(w), o)
                 PROVE  o = L(w)
      BY <2>1
    <3>1. PICK u \in Update : \E i \in DOMAIN b.updates :
            o = L(u) /\ b.updates[i] = u /\ u.author = p /\ ~Wins(u, w)
      BY <1>5
    <3>2. PICK i \in DOMAIN b.updates : o = L(u) /\ b.updates[i] = u /\ u.author = p /\ ~Wins(u, w)
      BY <3>1
    <3>3. ~Wins(w, u)
      BY <1>1, <1>6, <3>2
    <3>4. u.created_at = w.created_at /\ u.event_id = w.event_id
      BY <1>1, <3>2, <3>3, UpdateType, WinsTotal DEF Wins
    <3> QED
      BY <1>1, <1>2, <3>2, <3>4, HashAssumption
  <2> HIDE DEF better, L
  <2>4. (CHOOSE o \in better : \A q \in better : ~Promise!Beats(q, o)) = L(w)
    BY <2>1, <2>2, <2>3
  <2>5. Promise!Newest(old, offers) = L(w)
    BY <1>8, <2>1, <2>4
  <2> QED
    BY <1>10, <2>5 DEF L, offers
<1> QED
  BY <1>9, <1>10 DEF offers

LEMMA NewestOfNone ==
    ASSUME NEW b \in Batch, NEW p \in Pubkey, \A i \in DOMAIN b.updates : b.updates[i].author # p, NEW old
    PROVE  Promise!Newest(old, Promise!Offers(b, p)) = old
<1>1. Promise!Offers(b, p) = {}
  BY DEF Promise!Offers
<1> QED
  BY <1>1 DEF Promise!Newest

-------------------------------------------------------------------------------
(* What a statement does to the lists. *)

LEMMA InsertedLists ==
    ASSUME NEW t, IsTables(t), Complete(t), Rowless(t), NEW p \in Pubkey, NEW s, s = Inserted(t, p)
    PROVE  /\ Rowless(s)
           /\ \A k \in BOOLEAN : \A q \in Pubkey :
                Stored(s, k, q) = Stored(t, k, q) /\ Previous(s, k, q) = Previous(t, k, q)
<1>1. CASE HasRow(t, p)
  BY <1>1 DEF Inserted
<1>2. CASE ~HasRow(t, p)
  <2>1. t = [nodes |-> t.nodes, last |-> t.last, mute_lists |-> t.mute_lists, edges |-> t.edges]
    BY DEF IsTables
  <2>2. /\ t.nodes \in [Pubkey -> [id : Nat, version : Version]] /\ t.last \in Nat
        /\ t.edges \in [BOOLEAN -> SUBSET (Nat \X Nat)]
    BY DEF IsTables
  <2>3. /\ s.nodes = [t.nodes EXCEPT ![p] = [id |-> t.last + 1, version |-> NoVersion]]
        /\ s.mute_lists = t.mute_lists /\ s.edges = t.edges
    BY <1>2, <2>1 DEF Inserted
  <2>4. /\ s.nodes[p].id = t.last + 1 /\ s.nodes[p].version = NoVersion
        /\ \A q \in Pubkey \ {p} : s.nodes[q] = t.nodes[q]
    BY <2>2, <2>3
  <2>5. t.nodes[p].id = 0 /\ t.nodes[p].version = NoVersion
    BY <1>2 DEF HasRow, Rowless
  <2>6. \A i \in Ids(t) : i \in Nat /\ i # 0 /\ i <= t.last
    BY <2>2 DEF Complete, Ids, HasRow
  <2>7. DOMAIN t.mute_lists \subseteq Ids(t) /\ \A k \in BOOLEAN : t.edges[k] \subseteq Ids(t) \X Ids(t)
    BY DEF Complete, Valid
  <2>8. t.last + 1 \notin Ids(t) /\ 0 \notin Ids(t)
    BY <2>2, <2>6
  <2>9. Rowless(s)
    BY <2>4 DEF Rowless, HasRow
  <2>10. \A k \in BOOLEAN : \A q \in Pubkey : Stored(s, k, q) = Stored(t, k, q)
    BY <2>3, <2>4, <2>5, <2>7, <2>8 DEF Stored
  <2>11. \A k \in BOOLEAN : \A q, r \in Pubkey :
           <<s.nodes[q].id, s.nodes[r].id>> \in s.edges[k] <=> <<t.nodes[q].id, t.nodes[r].id>> \in t.edges[k]
    <3> SUFFICES ASSUME NEW k \in BOOLEAN, NEW q \in Pubkey, NEW r \in Pubkey
                 PROVE  <<s.nodes[q].id, s.nodes[r].id>> \in t.edges[k]
                          <=> <<t.nodes[q].id, t.nodes[r].id>> \in t.edges[k]
      BY <2>3
    <3>1. \A x, y : <<x, y>> \in t.edges[k] => x \in Ids(t) /\ y \in Ids(t)
      BY <2>7
    <3>2. CASE q = p \/ r = p
      BY <2>4, <2>5, <2>8, <3>1, <3>2
    <3>3. CASE q # p /\ r # p
      BY <2>4, <3>3
    <3> QED
      BY <3>2, <3>3
  <2> QED
    BY <2>9, <2>10, <2>11 DEF Previous
<1> QED
  BY <1>1, <1>2

LEMMA UpsertedLists ==
    ASSUME NEW t, IsTables(t), Complete(t), Rowless(t), NEW m \in BOOLEAN, NEW u \in Update,
           NEW s, s = Upserted(t, m, u)
    PROVE  /\ Rowless(s)
           /\ Stored(s, m, u.author) = VersionOf(u)
           /\ \A k \in BOOLEAN : \A q \in Pubkey :
                /\ (k = m /\ q = u.author) \/ Stored(s, k, q) = Stored(t, k, q)
                /\ Previous(s, k, q) = Previous(t, k, q)
<1> DEFINE i == Inserted(t, u.author)
           id == i.nodes[u.author].id
<1>1. u.author \in Pubkey
  BY UpdateType
<1>2. /\ IsTables(i) /\ HasRow(i, u.author) /\ Complete(i) /\ Rowless(i)
      /\ \A k \in BOOLEAN : \A q \in Pubkey :
           Stored(i, k, q) = Stored(t, k, q) /\ Previous(i, k, q) = Previous(t, k, q)
  BY <1>1, InsertedRow, InsertedComplete, InsertedLists
<1>3. i = [nodes |-> i.nodes, last |-> i.last, mute_lists |-> i.mute_lists, edges |-> i.edges]
  BY <1>2 DEF IsTables
<1>4. i.nodes \in [Pubkey -> [id : Nat, version : Version]]
  BY <1>2 DEF IsTables
<1>5. \A q \in Pubkey : q # u.author => i.nodes[q].id # id
  BY <1>1, <1>2 DEF Complete
<1>6. CASE m
  <2> DEFINE lists == [j \in DOMAIN i.mute_lists \cup {id} |->
                         IF j = id THEN VersionOf(u) ELSE i.mute_lists[j]]
  <2>1. s = [i EXCEPT !.mute_lists = lists]
    BY <1>6 DEF Upserted, VersionOf
  <2> HIDE DEF i, lists
  <2>2. s.nodes = i.nodes /\ s.edges = i.edges /\ s.mute_lists = lists
    BY <1>3, <2>1
  <2>3. Stored(s, TRUE, u.author) = VersionOf(u)
    BY <2>2 DEF Stored, lists
  <2>4. \A q \in Pubkey : q # u.author => Stored(s, TRUE, q) = Stored(i, TRUE, q)
    BY <1>5, <2>2 DEF Stored, lists
  <2>5. \A q \in Pubkey : Stored(s, FALSE, q) = Stored(i, FALSE, q)
    BY <2>2 DEF Stored
  <2>6. \A k \in BOOLEAN : \A q \in Pubkey : Previous(s, k, q) = Previous(i, k, q)
    BY <2>2 DEF Previous
  <2>7. Rowless(s)
    BY <1>2, <2>2 DEF Rowless, HasRow, i
  <2> QED
    <3>1. \A q \in Pubkey :
            /\ q # u.author => Stored(s, TRUE, q) = Stored(t, TRUE, q)
            /\ Stored(s, FALSE, q) = Stored(t, FALSE, q)
      BY <1>2, <2>4, <2>5 DEF i
    <3>2. \A k \in BOOLEAN : \A q \in Pubkey : Previous(s, k, q) = Previous(t, k, q)
      BY <1>2, <2>6 DEF i
    <3> QED
      BY <1>6, <2>3, <2>7, <3>1, <3>2
<1>7. CASE ~m
  <2> DEFINE nodes == [i.nodes EXCEPT ![u.author].version = VersionOf(u)]
  <2>1. s = [i EXCEPT !.nodes[u.author].version = VersionOf(u)]
    BY <1>7 DEF Upserted, VersionOf
  <2> HIDE DEF i
  <2>2. s.nodes = nodes /\ s.edges = i.edges /\ s.mute_lists = i.mute_lists
    BY <1>3, <2>1
  <2>3. \A q \in Pubkey : nodes[q].id = i.nodes[q].id
    BY <1>1, <1>4
  <2>4. /\ nodes[u.author].version = VersionOf(u)
        /\ \A q \in Pubkey : q # u.author => nodes[q].version = i.nodes[q].version
    BY <1>1, <1>4
  <2> HIDE DEF nodes
  <2>5. Stored(s, FALSE, u.author) = VersionOf(u)
    BY <2>2, <2>4 DEF Stored
  <2>6. \A q \in Pubkey : q # u.author => Stored(s, FALSE, q) = Stored(i, FALSE, q)
    BY <2>2, <2>4 DEF Stored
  <2>7. \A q \in Pubkey : Stored(s, TRUE, q) = Stored(i, TRUE, q)
    BY <2>2, <2>3 DEF Stored
  <2>8. \A k \in BOOLEAN : \A q \in Pubkey : Previous(s, k, q) = Previous(i, k, q)
    BY <2>2, <2>3 DEF Previous
  <2>9. Rowless(s)
    BY <1>1, <1>2, <2>2, <2>3, <2>4 DEF Rowless, HasRow
  <2> QED
    <3>1. \A q \in Pubkey :
            /\ q # u.author => Stored(s, FALSE, q) = Stored(t, FALSE, q)
            /\ Stored(s, TRUE, q) = Stored(t, TRUE, q)
      BY <1>2, <2>6, <2>7 DEF i
    <3>2. \A k \in BOOLEAN : \A q \in Pubkey : Previous(s, k, q) = Previous(t, k, q)
      BY <1>2, <2>8 DEF i
    <3> QED
      BY <1>7, <2>5, <2>9, <3>1, <3>2
<1> QED
  BY <1>6, <1>7

\* Edges of one kind and one author, changed at one target.
LEMMA EdgeLists ==
    ASSUME NEW t, IsTables(t), Complete(t), NEW m \in BOOLEAN,
           NEW p \in Pubkey, HasRow(t, p), NEW q \in Pubkey, HasRow(t, q),
           NEW E \in SUBSET (Nat \X Nat), NEW s, s = WithEdges(t, m, E),
           \A e : e # <<t.nodes[p].id, t.nodes[q].id>> => (e \in E <=> e \in t.edges[m])
    PROVE  /\ Rowless(s) <=> Rowless(t)
           /\ \A k \in BOOLEAN : \A r \in Pubkey :
                /\ Stored(s, k, r) = Stored(t, k, r)
                /\ (k = m /\ r = p) \/ Previous(s, k, r) = Previous(t, k, r)
           /\ Previous(s, m, p) = IF <<t.nodes[p].id, t.nodes[q].id>> \in E
                                  THEN Previous(t, m, p) \cup {q} ELSE Previous(t, m, p) \ {q}
<1>1. /\ s.nodes = t.nodes /\ s.mute_lists = t.mute_lists
      /\ s.edges = [t.edges EXCEPT ![m] = E]
  BY EdgesChange
<1>2. t.edges \in [BOOLEAN -> SUBSET (Nat \X Nat)]
  BY DEF IsTables
<1>3. s.edges[m] = E /\ \A k \in BOOLEAN : k # m => s.edges[k] = t.edges[k]
  BY <1>1, <1>2
<1>4. \A r \in Pubkey : t.nodes[p].id = t.nodes[r].id => p = r
  BY DEF Complete
<1>5. \A r \in Pubkey : t.nodes[q].id = t.nodes[r].id => q = r
  BY DEF Complete
<1>6. Rowless(s) <=> Rowless(t)
  BY <1>1 DEF Rowless, HasRow
<1>7. \A k \in BOOLEAN : \A r \in Pubkey : Stored(s, k, r) = Stored(t, k, r)
  BY <1>1 DEF Stored
<1>8. \A k \in BOOLEAN : \A r \in Pubkey : k # m => Previous(s, k, r) = Previous(t, k, r)
  BY <1>1, <1>3 DEF Previous
<1>9. \A r, x \in Pubkey : r # p \/ x # q =>
        <<t.nodes[r].id, t.nodes[x].id>> # <<t.nodes[p].id, t.nodes[q].id>>
  BY <1>4, <1>5
<1>10. \A r, x \in Pubkey : r # p \/ x # q =>
        (<<t.nodes[r].id, t.nodes[x].id>> \in E <=> <<t.nodes[r].id, t.nodes[x].id>> \in t.edges[m])
  BY <1>9
<1>11. \A r \in Pubkey : Previous(s, m, r) = {x \in Pubkey : <<t.nodes[r].id, t.nodes[x].id>> \in E}
  BY <1>1, <1>3 DEF Previous
<1>12. \A r \in Pubkey : r # p => Previous(s, m, r) = Previous(t, m, r)
  BY <1>10, <1>11 DEF Previous
<1>13. Previous(s, m, p) = IF <<t.nodes[p].id, t.nodes[q].id>> \in E
                           THEN Previous(t, m, p) \cup {q} ELSE Previous(t, m, p) \ {q}
  BY <1>10, <1>11 DEF Previous
<1> QED
  BY <1>6, <1>7, <1>8, <1>12, <1>13

-------------------------------------------------------------------------------
(* The batch in flight: what is settled for each author, and what is not.    *)

\* The winner of the updates before the n-th.
BestBefore(b, n, p, w) ==
    /\ w \in Update /\ w.author = p
    /\ \E i \in DOMAIN b.updates : i < n /\ b.updates[i] = w
    /\ \A i \in DOMAIN b.updates : i < n /\ b.updates[i].author = p => ~Wins(b.updates[i], w)

OldAt(b, t, p) == ListAt(t, b.mutes, p)
NewAt(b, t, p) == Promise!Newest(ListAt(t, b.mutes, p), Promise!Offers(b, p))
Changed(b, t, W) == {p \in Pubkey : W[p] = None /\ NewAt(b, t, p) # OldAt(b, t, p)}

Coalesced ==
    pc = "coalesce" =>
        /\ call \in Batch
        /\ \A p \in Pubkey :
             \/ winners[p] # None /\ BestBefore(call, next, p, winners[p])
             \/ /\ winners[p] = None
                /\ \A i \in DOMAIN call.updates : i < next => call.updates[i].author # p

\* Per author: still to be written and as it was, in hand, or as it will be.
AuthorSettled(p) ==
    \/ winners[p] = None /\ ListAt(tx, call.mutes, p) = NewAt(call, tables, p)
    \/ /\ winners[p] # None /\ IsWinner(call, p, winners[p])
       /\ (pc = "edges" /\ p = author) \/ ListAt(tx, call.mutes, p) = OldAt(call, tables, p)

Settled ==
    pc \in {"author", "edges"} =>
        /\ call \in Batch
        /\ \A p \in Pubkey : AuthorSettled(p)
        /\ \A k \in BOOLEAN : k = call.mutes \/ \A p \in Pubkey : ListAt(tx, k, p) = ListAt(tables, k, p)
        /\ accepted = Cardinality(Changed(call, tables, winners))

\* The edges of the author in hand, between the old list and the new one.
InHand ==
    pc = "edges" =>
        /\ winners[author] # None
        /\ Promise!Beats(Promise!ListOf(winners[author]), OldAt(call, tables, author))
        /\ Stored(tx, call.mutes, author) = VersionOf(winners[author])
        /\ added \subseteq winners[author].targets /\ removed \cap winners[author].targets = {}
        /\ Previous(tx, call.mutes, author) = (winners[author].targets \ added) \cup removed

RowsFirst == Rowless(tx) /\ \A i \in DOMAIN wal : Rowless(wal[i])

RInv == RowsFirst /\ Coalesced /\ Settled /\ InHand

\* Outside a call nothing is in flight.
LEMMA NothingInFlight ==
    ASSUME RowsFirst', pc' \notin {"coalesce", "author", "edges"}
    PROVE  RInv'
BY DEF RInv, Coalesced, Settled, InHand

LEMMA DiskRowless == IInv /\ RInv => Rowless(tables)
<1> SUFFICES ASSUME IInv, RInv PROVE Rowless(tables)
  OBVIOUS
<1>1. tables = wal[Len(wal)] /\ Len(wal) \in DOMAIN wal
  BY Disk DEF LogOK
<1> QED
  BY <1>1 DEF RInv, RowsFirst

LEMMA RInit == Init => RInv
<1> SUFFICES ASSUME Init PROVE RInv
  OBVIOUS
<1>1. wal = <<Empty>> /\ tx = Empty /\ tables = Empty /\ pc = "idle"
  BY DEF Init
<1>2. DOMAIN wal = {1} /\ wal[1] = Empty
  BY <1>1
<1>3. RowsFirst
  BY <1>1, <1>2, EmptyAssumption DEF RowsFirst
<1> QED
  BY <1>1, <1>3 DEF RInv, Coalesced, Settled, InHand

LEMMA RBegin ==
    ASSUME IInv, RInv, NEW b \in Batch, Begin(b)
    PROVE  RInv'
<1>1. RowsFirst'
  BY DEF RInv, RowsFirst, Begin, disk
<1>2. winners' = [p \in Pubkey |-> None] /\ next' = 1 /\ call' = b /\ pc' = "coalesce"
  BY DEF Begin
<1>3. \A i \in DOMAIN b.updates : ~(i < 1)
  OBVIOUS
<1>4. Coalesced'
  BY <1>2, <1>3 DEF Coalesced
<1> QED
  BY <1>1, <1>2, <1>4 DEF RInv, Settled, InHand

LEMMA RCoalesce ==
    ASSUME IInv, RInv, Coalesce
    PROVE  RInv'
<1> DEFINE u == call.updates[next]
<1>1. /\ call \in Batch /\ next \in DOMAIN call.updates /\ next \in Nat
      /\ winners \in [Pubkey -> Update \cup {None}] /\ pc = "coalesce"
  BY DEF IInv, TypeOK, RInv, Coalesced, Coalesce
<1>2. u \in Update /\ u.author \in Pubkey /\ u # None
  BY <1>1, UpdateType
<1>3. next' = next + 1 /\ call' = call /\ pc' = "coalesce"
  BY <1>1 DEF Coalesce
<1>4. winners' = IF winners[u.author] # None /\ ~Wins(u, winners[u.author]) THEN winners
                 ELSE [winners EXCEPT ![u.author] = u]
  BY DEF Coalesce
<1>5. \A i \in DOMAIN call.updates : i < next + 1 <=> i < next \/ i = next
  BY <1>1
<1>6. \A p \in Pubkey :
         \/ winners[p] # None /\ BestBefore(call, next, p, winners[p])
         \/ /\ winners[p] = None
            /\ \A i \in DOMAIN call.updates : i < next => call.updates[i].author # p
  BY <1>1 DEF RInv, Coalesced
<1>7. ASSUME NEW p \in Pubkey
      PROVE  \/ winners'[p] # None /\ BestBefore(call, next + 1, p, winners'[p])
             \/ /\ winners'[p] = None
                /\ \A i \in DOMAIN call.updates : i < next + 1 => call.updates[i].author # p
  <2>1. CASE p # u.author
    <3>1. winners'[p] = winners[p]
      BY <1>1, <1>2, <1>4, <2>1
    <3>2. \A i \in DOMAIN call.updates : i < next + 1 /\ call.updates[i].author = p => i < next
      BY <1>5, <2>1
    <3> HIDE DEF u
    <3> QED
      BY <1>5, <1>6, <3>1, <3>2 DEF BestBefore
  <2>2. CASE p = u.author /\ winners[p] # None /\ ~Wins(u, winners[p])
    <3>1. winners'[p] = winners[p] /\ BestBefore(call, next, p, winners[p])
      BY <1>4, <1>6, <2>2
    <3>2. \A i \in DOMAIN call.updates : i < next + 1 => i < next \/ call.updates[i] = u
      BY <1>5
    <3>3. \A i \in DOMAIN call.updates : i < next => i < next + 1
      BY <1>5
    <3> HIDE DEF u
    <3>4. BestBefore(call, next + 1, p, winners[p])
      BY <2>2, <3>1, <3>2, <3>3 DEF BestBefore
    <3> QED
      BY <2>2, <3>1, <3>4
  <2>3. CASE p = u.author /\ ~(winners[p] # None /\ ~Wins(u, winners[p]))
    <3>1. winners'[p] = u
      BY <1>1, <1>2, <1>4, <2>3
    <3>2. \A i \in DOMAIN call.updates : i < next /\ call.updates[i].author = p => ~Wins(call.updates[i], u)
      <4> SUFFICES ASSUME NEW i \in DOMAIN call.updates, i < next, call.updates[i].author = p
                   PROVE  ~Wins(call.updates[i], u)
        OBVIOUS
      <4>1. winners[p] # None /\ BestBefore(call, next, p, winners[p])
        BY <1>6
      <4>2. ~Wins(call.updates[i], winners[p]) /\ winners[p] \in Update /\ Wins(u, winners[p])
        BY <2>3, <4>1 DEF BestBefore
      <4>3. call.updates[i] \in Update
        BY <1>1
      <4> DEFINE x == call.updates[i]
                 y == winners[p]
      <4> HIDE DEF u, x, y
      <4>4. x \in Update /\ y \in Update /\ u \in Update /\ ~Wins(x, y) /\ Wins(u, y)
        BY <1>2, <4>2, <4>3 DEF x, y
      <4>5. ~Wins(x, u)
        <5>1. /\ x.created_at \in Nat /\ x.event_id \in Nat /\ y.created_at \in Nat /\ y.event_id \in Nat
              /\ u.created_at \in Nat /\ u.event_id \in Nat
          BY <4>4, UpdateType
        <5> QED
          BY <4>4, <5>1, WinsBoth DEF Wins
      <4> QED
        BY <4>5 DEF x
    <3>3. ~Wins(u, u)
      BY <1>2, UpdateType, WinsTotal DEF Wins
    <3>4. \A i \in DOMAIN call.updates : i < next + 1 => i < next \/ call.updates[i] = u
      BY <1>5
    <3>5. \E i \in DOMAIN call.updates : i < next + 1 /\ call.updates[i] = u
      BY <1>1, <1>5
    <3> HIDE DEF u
    <3>6. BestBefore(call, next + 1, p, u)
      BY <1>2, <2>3, <3>2, <3>3, <3>4, <3>5 DEF BestBefore
    <3> QED
      BY <1>2, <3>1, <3>6
  <2> QED
    BY <2>1, <2>2, <2>3
<1>8. Coalesced'
  BY <1>1, <1>3, <1>7 DEF Coalesced
<1>9. RowsFirst'
  BY DEF RInv, RowsFirst, Coalesce, disk
<1> QED
  BY <1>3, <1>8, <1>9 DEF RInv, Settled, InHand

LEMMA RTransaction ==
    ASSUME IInv, RInv, Transaction
    PROVE  RInv'
<1>1. /\ pc = "coalesce" /\ pc' = "author" /\ tx' = tables /\ accepted' = 0 /\ tables' = tables
      /\ wal' = wal /\ call' = call /\ winners' = winners /\ call \in Batch
      /\ \A i \in DOMAIN call.updates : i < next
  <2>1. call \in Batch /\ next \in Nat
    BY DEF RInv, Coalesced, IInv, TypeOK, Transaction
  <2> QED
    BY <2>1 DEF Transaction, disk
<1>2. \A p \in Pubkey :
         \/ winners[p] # None /\ IsWinner(call, p, winners[p])
         \/ winners[p] = None /\ \A i \in DOMAIN call.updates : call.updates[i].author # p
  BY <1>1 DEF RInv, Coalesced, BestBefore, IsWinner
<1>3. \A p \in Pubkey : winners[p] = None => NewAt(call, tables, p) = OldAt(call, tables, p)
  BY <1>1, <1>2, NewestOfNone DEF NewAt, OldAt
<1>4. Changed(call, tables, winners) = {}
  BY <1>3 DEF Changed
<1>5. \A p \in Pubkey : AuthorSettled(p)'
  BY <1>1, <1>2, <1>3 DEF AuthorSettled, OldAt
<1>6. Settled'
  BY <1>1, <1>4, <1>5, FS_EmptySet DEF Settled
<1>7. RowsFirst'
  BY <1>1, DiskRowless DEF RInv, RowsFirst
<1> QED
  BY <1>1, <1>6, <1>7 DEF RInv, Coalesced, InHand

\* A list of an update is compared as the row it is compared with.
LEMMA BeatsStored ==
    ASSUME NEW t, IsTables(t), NEW m \in BOOLEAN, NEW p \in Pubkey, NEW u \in Update
    PROVE  Promise!Beats(Promise!ListOf(u), ListAt(t, m, p)) <=> Wins(u, Stored(t, m, p))
<1>1. Stored(t, m, p) \in Version /\ Previous(t, m, p) \in SUBSET Pubkey
  BY StoredType DEF Previous
<1>2. None \notin StoredList
  BY AbsentAssumption DEF StoredList
<1>3. CASE Stored(t, m, p) = NoVersion
  BY <1>3, BeatsIsWins DEF ListAt, Wins, NoVersion, EventWins
<1>4. CASE Stored(t, m, p) # NoVersion
  <2> DEFINE l == [created_at |-> Stored(t, m, p).created_at, event_id |-> Stored(t, m, p).event_id,
                   targets |-> Previous(t, m, p)]
  <2>1. ListAt(t, m, p) = l
    BY <1>4 DEF ListAt
  <2>2. l \in StoredList
    BY <1>1 DEF StoredList, Version
  <2>3. l.created_at = Stored(t, m, p).created_at /\ l.event_id = Stored(t, m, p).event_id
    OBVIOUS
  <2> HIDE DEF l
  <2>4. /\ ListAt(t, m, p) # None
        /\ ListAt(t, m, p).created_at = Stored(t, m, p).created_at
        /\ ListAt(t, m, p).event_id = Stored(t, m, p).event_id
    BY <1>2, <2>1, <2>2, <2>3
  <2> QED
    BY <2>4, BeatsIsWins DEF Wins
<1> QED
  BY <1>3, <1>4

\* What every step of a transaction needs of the state.
LEMMA InTransaction ==
    ASSUME IInv, RInv, pc \in {"author", "edges"}
    PROVE  /\ call \in Batch /\ call.mutes \in BOOLEAN
           /\ winners \in [Pubkey -> Update \cup {None}]
           /\ IsTables(tx) /\ Complete(tx) /\ Rowless(tx) /\ IsTables(tables)
           /\ \A p \in Pubkey : AuthorSettled(p)
           /\ \A k \in BOOLEAN : k = call.mutes \/ \A p \in Pubkey : ListAt(tx, k, p) = ListAt(tables, k, p)
           /\ accepted = Cardinality(Changed(call, tables, winners))
<1>1. call \in Batch
  BY DEF RInv, Settled
<1> QED
  BY <1>1, Disk DEF IInv, TypeOK, RInv, RowsFirst, Settled

LEMMA RSkip ==
    ASSUME IInv, RInv, NEW p \in Pubkey, Skip(p)
    PROVE  RInv'
<1>1. /\ pc = "author" /\ pc' = "author" /\ tx' = tx /\ tables' = tables /\ wal' = wal /\ call' = call
      /\ accepted' = accepted /\ winners' = [winners EXCEPT ![p] = None] /\ winners[p] # None
      /\ ~Wins(winners[p], Stored(tx, call.mutes, p))
  BY DEF Skip, disk
<1>2. /\ call \in Batch /\ call.mutes \in BOOLEAN
      /\ winners \in [Pubkey -> Update \cup {None}]
      /\ IsTables(tx) /\ IsTables(tables)
      /\ \A q \in Pubkey : AuthorSettled(q)
      /\ \A k \in BOOLEAN : k = call.mutes \/ \A q \in Pubkey : ListAt(tx, k, q) = ListAt(tables, k, q)
      /\ accepted = Cardinality(Changed(call, tables, winners))
  BY <1>1, InTransaction
<1>3. winners[p] \in Update /\ IsWinner(call, p, winners[p])
      /\ ListAt(tx, call.mutes, p) = OldAt(call, tables, p)
  BY <1>1, <1>2 DEF AuthorSettled
<1>4. ~Promise!Beats(Promise!ListOf(winners[p]), OldAt(call, tables, p))
  BY <1>1, <1>2, <1>3, BeatsStored
<1>5. NewAt(call, tables, p) = OldAt(call, tables, p)
  <2>1. ListAt(tables, call.mutes, p) \in StoredList \cup {None}
    BY <1>2, ListAtType
  <2> QED
    BY <1>2, <1>3, <1>4, <2>1, NewestOfWinner DEF NewAt, OldAt
<1>6. /\ winners'[p] = None
      /\ \A q \in Pubkey : q # p => winners'[q] = winners[q]
  BY <1>1, <1>2
<1>7. \A q \in Pubkey : AuthorSettled(q)'
  BY <1>1, <1>2, <1>3, <1>5, <1>6 DEF AuthorSettled
<1>8. Changed(call, tables, winners') = Changed(call, tables, winners)
  BY <1>5, <1>6 DEF Changed
<1>9. Settled'
  BY <1>1, <1>2, <1>7, <1>8 DEF Settled
<1>10. RowsFirst'
  BY <1>1 DEF RInv, RowsFirst
<1> QED
  BY <1>1, <1>9, <1>10 DEF RInv, Coalesced, InHand

\* A list is what its version and its edges make it.
LEMMA ListAtSame ==
    ASSUME NEW t, NEW s, NEW m, NEW p, Stored(s, m, p) = Stored(t, m, p), Previous(s, m, p) = Previous(t, m, p)
    PROVE  ListAt(s, m, p) = ListAt(t, m, p)
BY DEF ListAt

LEMMA RUpsert ==
    ASSUME IInv, RInv, NEW p \in Pubkey, Upsert(p)
    PROVE  RInv'
<1> DEFINE u == winners[p]
           m == call.mutes
<1>1. /\ pc = "author" /\ pc' = "edges" /\ tables' = tables /\ wal' = wal /\ call' = call
      /\ accepted' = accepted /\ winners' = winners /\ author' = p /\ u # None
      /\ Wins(u, Stored(tx, m, p)) /\ tx' = Upserted(tx, m, u)
      /\ removed' = Previous(tx', m, p) \ u.targets /\ added' = u.targets \ Previous(tx', m, p)
  BY DEF Upsert, disk
<1>2. /\ call \in Batch /\ m \in BOOLEAN
      /\ winners \in [Pubkey -> Update \cup {None}]
      /\ IsTables(tx) /\ Complete(tx) /\ Rowless(tx) /\ IsTables(tables)
      /\ \A q \in Pubkey : AuthorSettled(q)
      /\ \A k \in BOOLEAN : k = m \/ \A q \in Pubkey : ListAt(tx, k, q) = ListAt(tables, k, q)
      /\ accepted = Cardinality(Changed(call, tables, winners))
  BY <1>1, InTransaction
<1>3. u \in Update /\ IsWinner(call, p, u) /\ u.author = p /\ ListAt(tx, m, p) = OldAt(call, tables, p)
  BY <1>1, <1>2 DEF AuthorSettled, IsWinner
<1>4. Promise!Beats(Promise!ListOf(u), OldAt(call, tables, p))
  BY <1>1, <1>2, <1>3, BeatsStored
<1> HIDE DEF u, m
<1>5. /\ Rowless(tx') /\ Stored(tx', m, p) = VersionOf(u)
      /\ \A k \in BOOLEAN : \A q \in Pubkey :
           /\ (k = m /\ q = p) \/ Stored(tx', k, q) = Stored(tx, k, q)
           /\ Previous(tx', k, q) = Previous(tx, k, q)
  BY <1>1, <1>2, <1>3, UpsertedLists
<1>6. \A k \in BOOLEAN : \A q \in Pubkey : (k = m /\ q = p) \/ ListAt(tx', k, q) = ListAt(tx, k, q)
  BY <1>5, ListAtSame
<1>7. \A q \in Pubkey : AuthorSettled(q)'
  <2> SUFFICES ASSUME NEW q \in Pubkey PROVE AuthorSettled(q)'
    OBVIOUS
  <2>1. CASE q = p
    BY <1>1, <1>3, <2>1 DEF AuthorSettled, u
  <2>2. CASE q # p
    BY <1>1, <1>2, <1>6, <2>2 DEF AuthorSettled, m
  <2> QED
    BY <2>1, <2>2
<1>8. Settled'
  BY <1>1, <1>2, <1>6, <1>7 DEF Settled, m
<1>9. InHand'
  BY <1>1, <1>4, <1>5 DEF InHand, u, m
<1>10. RowsFirst'
  BY <1>1, <1>5 DEF RInv, RowsFirst
<1> QED
  BY <1>1, <1>8, <1>9, <1>10 DEF RInv, Coalesced

\* A statement that changes nothing but the edges of the author in hand.
EdgeStatement ==
    /\ pc = "edges" /\ pc' = "edges" /\ tables' = tables /\ wal' = wal /\ call' = call
    /\ accepted' = accepted /\ winners' = winners /\ author' = author
    /\ Rowless(tx')
    /\ \A k \in BOOLEAN : \A r \in Pubkey :
         /\ Stored(tx', k, r) = Stored(tx, k, r)
         /\ (k = call.mutes /\ r = author) \/ Previous(tx', k, r) = Previous(tx, k, r)

LEMMA EdgeKeepsLists ==
    ASSUME IInv, RInv, EdgeStatement,
           added' \subseteq winners[author].targets, removed' \cap winners[author].targets = {},
           Previous(tx', call.mutes, author) = (winners[author].targets \ added') \cup removed'
    PROVE  RInv'
<1>1. /\ call \in Batch /\ call.mutes \in BOOLEAN
      /\ \A q \in Pubkey : AuthorSettled(q)
      /\ \A k \in BOOLEAN : k = call.mutes \/ \A q \in Pubkey : ListAt(tx, k, q) = ListAt(tables, k, q)
      /\ accepted = Cardinality(Changed(call, tables, winners))
  BY InTransaction DEF EdgeStatement
<1>2. author \in Pubkey
  BY DEF IInv, AuthorStored, EdgeStatement
<1>3. \A k \in BOOLEAN : \A q \in Pubkey : (k = call.mutes /\ q = author) \/ ListAt(tx', k, q) = ListAt(tx, k, q)
  BY ListAtSame DEF EdgeStatement
<1>4. winners[author] # None
  BY DEF RInv, InHand, EdgeStatement
<1>5. \A q \in Pubkey : AuthorSettled(q)'
  <2> SUFFICES ASSUME NEW q \in Pubkey PROVE AuthorSettled(q)'
    OBVIOUS
  <2>1. CASE q = author
    BY <1>1, <1>4, <2>1 DEF AuthorSettled, EdgeStatement
  <2>2. CASE q # author
    BY <1>1, <1>3, <2>2 DEF AuthorSettled, EdgeStatement
  <2> QED
    BY <2>1, <2>2
<1>6. Settled'
  BY <1>1, <1>3, <1>5 DEF Settled, EdgeStatement
<1>7. InHand'
  BY <1>1, <1>2 DEF RInv, InHand, EdgeStatement
<1>8. RowsFirst'
  BY DEF RInv, RowsFirst, EdgeStatement
<1> QED
  BY <1>6, <1>7, <1>8 DEF RInv, Coalesced, EdgeStatement

LEMMA RDeleteEdge ==
    ASSUME IInv, RInv, DeleteEdge
    PROVE  RInv'
<1> DEFINE m == call.mutes
           e(q) == Edge(tx.nodes[author].id, tx.nodes[q].id)
           T == winners[author].targets
<1>1. PICK q \in removed :
        /\ tx' = [tx EXCEPT !.edges[m] = @ \ {e(q)}]
        /\ removed' = removed \ {q}
  BY DEF DeleteEdge
<1>2. /\ pc = "edges" /\ pc' = "edges" /\ tables' = tables /\ wal' = wal /\ call' = call
      /\ accepted' = accepted /\ winners' = winners /\ author' = author /\ added' = added
  BY DEF DeleteEdge, disk
<1>3. /\ m \in BOOLEAN /\ IsTables(tx) /\ Complete(tx) /\ Rowless(tx)
  BY <1>2, InTransaction
<1>4. author \in Pubkey /\ HasRow(tx, author) /\ removed \subseteq Pubkey
  BY <1>2 DEF IInv, TypeOK, AuthorStored
<1>5. added \subseteq T /\ removed \cap T = {} /\ Previous(tx, m, author) = (T \ added) \cup removed
  BY <1>2 DEF RInv, InHand
<1>6. q \in Pubkey /\ e(q) = <<tx.nodes[author].id, tx.nodes[q].id>> /\ e(q) \in tx.edges[m]
  BY <1>4, <1>5 DEF Previous, Edge
<1>7. HasRow(tx, q)
  <2>1. tx.nodes[q].id \in Ids(tx)
    BY <1>3, <1>6 DEF Complete, Valid
  <2> QED
    BY <2>1 DEF Ids, HasRow
<1> DEFINE E == tx.edges[m] \ {e(q)}
<1>8. E \in SUBSET (Nat \X Nat) /\ tx' = WithEdges(tx, m, E)
  BY <1>1, <1>3 DEF IsTables, WithEdges
<1>9. \A d : d # <<tx.nodes[author].id, tx.nodes[q].id>> => (d \in E <=> d \in tx.edges[m])
  BY <1>6
<1>10. <<tx.nodes[author].id, tx.nodes[q].id>> \notin E
  BY <1>6
<1> HIDE DEF E, m, T, e
<1>11. /\ Rowless(tx')
       /\ \A k \in BOOLEAN : \A r \in Pubkey :
            /\ Stored(tx', k, r) = Stored(tx, k, r)
            /\ (k = m /\ r = author) \/ Previous(tx', k, r) = Previous(tx, k, r)
       /\ Previous(tx', m, author) = Previous(tx, m, author) \ {q}
  BY <1>3, <1>4, <1>6, <1>7, <1>8, <1>9, <1>10, EdgeLists
<1>12. EdgeStatement
  BY <1>2, <1>11 DEF EdgeStatement, m
<1>13. q \notin T
  BY <1>1, <1>5
<1>14. added' \subseteq T /\ removed' \cap T = {} /\ Previous(tx', m, author) = (T \ added') \cup removed'
  BY <1>1, <1>2, <1>5, <1>11, <1>13
<1> QED
  BY <1>12, <1>14, EdgeKeepsLists DEF T, m

LEMMA RInsertEdge ==
    ASSUME IInv, RInv, InsertEdge
    PROVE  RInv'
<1> DEFINE m == call.mutes
           t(q) == IF q \in DOMAIN node_ids THEN tx ELSE Inserted(tx, q)
           id(q) == IF q \in DOMAIN node_ids THEN node_ids[q] ELSE t(q).nodes[q].id
           T == winners[author].targets
<1>1. PICK q \in added :
        /\ tx' = [t(q) EXCEPT !.edges[m] = @ \cup {Edge(t(q).nodes[author].id, id(q))}]
        /\ added' = added \ {q}
  BY DEF InsertEdge
<1>2. /\ pc = "edges" /\ pc' = "edges" /\ tables' = tables /\ wal' = wal /\ call' = call
      /\ accepted' = accepted /\ winners' = winners /\ author' = author /\ removed' = removed
      /\ removed = {}
  BY DEF InsertEdge, disk
<1>3. /\ m \in BOOLEAN /\ IsTables(tx) /\ Complete(tx) /\ Rowless(tx)
  BY <1>2, InTransaction
<1>4. /\ author \in Pubkey /\ HasRow(tx, author) /\ added \subseteq Pubkey /\ q \in Pubkey
      /\ DOMAIN node_ids \subseteq Pubkey /\ CacheAgrees
  BY <1>1, <1>2 DEF IInv, TypeOK, AuthorStored
<1>5. added \subseteq T /\ Previous(tx, m, author) = T \ added
  BY <1>2 DEF RInv, InHand
<1> DEFINE s == t(q)
           E == s.edges[m] \cup {Edge(s.nodes[author].id, id(q))}
<1>6. /\ IsTables(s) /\ Complete(s) /\ HasRow(s, q) /\ Rowless(s) /\ HasRow(s, author)
      /\ \A k \in BOOLEAN : \A r \in Pubkey :
           Stored(s, k, r) = Stored(tx, k, r) /\ Previous(s, k, r) = Previous(tx, k, r)
  <2>1. CASE q \in DOMAIN node_ids
    BY <1>3, <1>4, <2>1 DEF CacheAgrees
  <2>2. CASE q \notin DOMAIN node_ids
    <3>1. s = Inserted(tx, q)
      BY <2>2
    <3> HIDE DEF s
    <3>2. /\ IsTables(s) /\ HasRow(s, q)
          /\ \A r \in Pubkey : HasRow(tx, r) => s.nodes[r] = tx.nodes[r]
      BY <1>3, <1>4, <3>1, InsertedRow
    <3>3. Complete(s)
      BY <1>3, <1>4, <3>1, InsertedComplete
    <3>4. /\ Rowless(s)
          /\ \A k \in BOOLEAN : \A r \in Pubkey :
               Stored(s, k, r) = Stored(tx, k, r) /\ Previous(s, k, r) = Previous(tx, k, r)
      BY <1>3, <1>4, <3>1, InsertedLists
    <3> QED
      BY <1>4, <3>2, <3>3, <3>4 DEF HasRow
  <2> QED
    BY <2>1, <2>2
<1>7. id(q) = s.nodes[q].id
  BY <1>4 DEF CacheAgrees
<1>8. tx' = [s EXCEPT !.edges[m] = E] /\ E = s.edges[m] \cup {Edge(s.nodes[author].id, s.nodes[q].id)}
  BY <1>1, <1>3, <1>6, <1>7 DEF IsTables
<1> HIDE DEF t, id, s, E, m, T
<1>9. E \in SUBSET (Nat \X Nat) /\ tx' = WithEdges(s, m, E)
  BY <1>3, <1>4, <1>6, <1>8 DEF IsTables, WithEdges, Edge
<1>10. /\ \A d : d # <<s.nodes[author].id, s.nodes[q].id>> => (d \in E <=> d \in s.edges[m])
       /\ <<s.nodes[author].id, s.nodes[q].id>> \in E
  BY <1>8 DEF Edge
<1>11. /\ Rowless(tx')
       /\ \A k \in BOOLEAN : \A r \in Pubkey :
            /\ Stored(tx', k, r) = Stored(s, k, r)
            /\ (k = m /\ r = author) \/ Previous(tx', k, r) = Previous(s, k, r)
       /\ Previous(tx', m, author) = Previous(s, m, author) \cup {q}
  BY <1>3, <1>4, <1>6, <1>9, <1>10, EdgeLists
<1>12. EdgeStatement
  BY <1>2, <1>6, <1>11 DEF EdgeStatement, m
<1>13. added' \subseteq T /\ removed' \cap T = {} /\ Previous(tx', m, author) = (T \ added') \cup removed'
  BY <1>1, <1>2, <1>3, <1>4, <1>5, <1>6, <1>11
<1> QED
  BY <1>12, <1>13, EdgeKeepsLists DEF T, m

LEMMA RAccept ==
    ASSUME IInv, RInv, Accept
    PROVE  RInv'
<1> DEFINE w == winners[author]
           m == call.mutes
<1>1. /\ pc = "edges" /\ pc' = "author" /\ tx' = tx /\ tables' = tables /\ wal' = wal /\ call' = call
      /\ accepted' = accepted + 1 /\ winners' = [winners EXCEPT ![author] = None]
      /\ removed = {} /\ added = {}
  BY DEF Accept, disk
<1>2. /\ call \in Batch /\ m \in BOOLEAN
      /\ winners \in [Pubkey -> Update \cup {None}]
      /\ IsTables(tx) /\ IsTables(tables)
      /\ \A q \in Pubkey : AuthorSettled(q)
      /\ \A k \in BOOLEAN : k = m \/ \A q \in Pubkey : ListAt(tx, k, q) = ListAt(tables, k, q)
      /\ accepted = Cardinality(Changed(call, tables, winners))
  BY <1>1, InTransaction
<1>3. author \in Pubkey
  BY <1>1 DEF IInv, AuthorStored
<1>4. /\ w # None /\ Promise!Beats(Promise!ListOf(w), OldAt(call, tables, author))
      /\ Stored(tx, m, author) = VersionOf(w) /\ Previous(tx, m, author) = w.targets
  BY <1>1 DEF RInv, InHand
<1>5. w \in Update /\ IsWinner(call, author, w)
  BY <1>2, <1>3, <1>4 DEF AuthorSettled
<1>6. ListAt(tx, m, author) = Promise!ListOf(w)
  BY <1>4, <1>5, UpdateType DEF ListAt, VersionOf, Promise!ListOf
<1>7. NewAt(call, tables, author) = Promise!ListOf(w)
  <2>1. ListAt(tables, m, author) \in StoredList \cup {None}
    BY <1>2, <1>3, ListAtType
  <2> QED
    BY <1>2, <1>3, <1>4, <1>5, <2>1, NewestOfWinner DEF NewAt, OldAt
<1>8. NewAt(call, tables, author) # OldAt(call, tables, author)
  <2>1. ~Promise!Beats(Promise!ListOf(w), Promise!ListOf(w))
    BY <1>5, UpdateType, WinsTotal, BeatsIsWins
  <2> QED
    BY <1>4, <1>7, <2>1
<1>9. winners'[author] = None /\ \A q \in Pubkey : q # author => winners'[q] = winners[q]
  BY <1>1, <1>2, <1>3
<1>10. \A q \in Pubkey : AuthorSettled(q)'
  <2> SUFFICES ASSUME NEW q \in Pubkey PROVE AuthorSettled(q)'
    OBVIOUS
  <2>1. CASE q = author
    BY <1>1, <1>6, <1>7, <1>9, <2>1 DEF AuthorSettled
  <2>2. CASE q # author
    BY <1>1, <1>2, <1>9, <2>2 DEF AuthorSettled
  <2> QED
    BY <2>1, <2>2
<1>11. accepted' = Cardinality(Changed(call, tables, winners'))
  <2>1. Changed(call, tables, winners') = Changed(call, tables, winners) \cup {author}
    BY <1>3, <1>8, <1>9 DEF Changed
  <2>2. author \notin Changed(call, tables, winners)
    BY <1>4 DEF Changed
  <2>3. IsFiniteSet(Changed(call, tables, winners))
    BY PubkeyAssumption, FS_Subset DEF Changed
  <2> QED
    BY <1>1, <1>2, <2>1, <2>2, <2>3, FS_AddElement
<1>12. Settled'
  BY <1>1, <1>2, <1>10, <1>11 DEF Settled
<1>13. RowsFirst'
  BY <1>1 DEF RInv, RowsFirst
<1> QED
  BY <1>1, <1>12, <1>13 DEF RInv, Coalesced, InHand

LEMMA RCommit ==
    ASSUME IInv, RInv, Commit
    PROVE  RInv'
<1>1. wal' = Append(wal, tx) /\ tx' = tx /\ pc' = "idle"
  BY DEF Commit, local
<1>2. LogOK(wal)
  BY Disk
<1>3. \A i \in DOMAIN wal' : (i \in DOMAIN wal /\ wal'[i] = wal[i]) \/ wal'[i] = tx
  BY <1>1, <1>2 DEF LogOK
<1>4. RowsFirst'
  BY <1>1, <1>3 DEF RInv, RowsFirst
<1> QED
  BY <1>1, <1>4, NothingInFlight

LEMMA RStatementFails ==
    ASSUME IInv, RInv, StatementFails
    PROVE  RInv'
<1>1. RowsFirst'
  BY DiskRowless DEF RInv, RowsFirst, StatementFails, disk
<1> QED
  BY <1>1, NothingInFlight DEF StatementFails

LEMMA RCheckpoint ==
    ASSUME IInv, RInv, Checkpoint
    PROVE  RInv'
<1>1. wal' = <<tables>> /\ tx' = tx /\ pc' = "idle"
  BY DEF Checkpoint, local
<1>2. \A i \in DOMAIN wal' : wal'[i] = tables
  BY <1>1
<1>3. RowsFirst'
  BY <1>1, <1>2, DiskRowless DEF RInv, RowsFirst
<1> QED
  BY <1>1, <1>3, NothingInFlight

LEMMA RCrash ==
    ASSUME IInv, RInv, Crash
    PROVE  RInv'
<1>1. RowsFirst'
  BY DiskRowless DEF RInv, RowsFirst, Crash, Lost, disk
<1> QED
  BY <1>1, NothingInFlight DEF Crash, Lost

LEMMA RHostFails ==
    ASSUME IInv, RInv, HostFails
    PROVE  RInv'
<1>1. PICK k \in DOMAIN wal : tables' = wal[k] /\ wal' = SubSeq(wal, 1, k)
  BY DEF HostFails
<1>2. LogOK(wal)
  BY Disk
<1>3. \A i \in DOMAIN wal' : i \in DOMAIN wal /\ wal'[i] = wal[i]
  BY <1>1, <1>2 DEF LogOK
<1>4. tx' = wal[k] /\ pc' = "down"
  BY <1>1 DEF HostFails, Lost
<1>5. RowsFirst'
  BY <1>3, <1>4 DEF RInv, RowsFirst
<1> QED
  BY <1>4, <1>5, NothingInFlight

LEMMA RLoad ==
    ASSUME IInv, RInv, Load
    PROVE  RInv'
<1>1. RowsFirst'
  BY DEF RInv, RowsFirst, Load, disk, local
<1> QED
  BY <1>1, NothingInFlight DEF Load

LEMMA RStutter == RInv /\ UNCHANGED vars => RInv'
BY DEF RInv, RowsFirst, Coalesced, Settled, AuthorSettled, InHand, vars, disk, local

LEMMA RStep == IInv /\ RInv /\ [Next]_vars => RInv'
BY RBegin, RCoalesce, RTransaction, RSkip, RUpsert, RDeleteEdge, RInsertEdge, RAccept, RCommit,
   RStatementFails, RCheckpoint, RCrash, RHostFails, RLoad, RStutter DEF Next

-------------------------------------------------------------------------------
(* The log, list by list. *)

Past(w) == [i \in DOMAIN w |-> Lists(w[i])]
Reads(w) == {Lists(w[i]) : i \in DOMAIN w}

LEMMA PastSeq ==
    ASSUME NEW w, LogOK(w)
    PROVE  /\ Len(w) \in Nat /\ DOMAIN w = 1..Len(w)
           /\ Past(w) \in Seq(Reads(w)) /\ Len(Past(w)) = Len(w) /\ DOMAIN Past(w) = DOMAIN w
           /\ \A i \in DOMAIN w : Past(w)[i] = Lists(w[i])
<1>1. Len(w) \in Nat /\ DOMAIN w = 1..Len(w)
  BY DEF LogOK
<1>2. Past(w) \in [1..Len(w) -> Reads(w)]
  BY <1>1 DEF Past, Reads
<1>3. Past(w) \in Seq(Reads(w))
  BY <1>1, <1>2, SeqDef
<1>4. Len(Past(w)) = Len(w)
  BY <1>1, <1>2, <1>3, LenProperties
<1> QED
  BY <1>1, <1>2, <1>3, <1>4 DEF Past

LEMMA PastOfOne ==
    ASSUME NEW t, IsTables(t), Complete(t)
    PROVE  Past(<<t>>) = <<Lists(t)>>
<1>1. LogOK(<<t>>) /\ Len(<<t>>) = 1 /\ <<t>>[1] = t
  BY LogOfOne
<1>2. Past(<<t>>) \in Seq(Reads(<<t>>)) /\ Len(Past(<<t>>)) = 1 /\ Past(<<t>>)[1] = Lists(t)
  BY <1>1, PastSeq
<1>3. <<Lists(t)>> \in Seq(Reads(<<t>>))
  BY <1>1 DEF Reads
<1>4. Len(<<Lists(t)>>) = 1 /\ <<Lists(t)>>[1] = Lists(t)
  OBVIOUS
<1> QED
  BY <1>2, <1>3, <1>4, SeqEqual

LEMMA PastGrows ==
    ASSUME NEW w, LogOK(w), NEW t, IsTables(t), Complete(t)
    PROVE  Past(Append(w, t)) = Append(Past(w), Lists(t))
<1> DEFINE v == Append(w, t)
           S == Reads(w) \cup {Lists(t)}
<1>1. LogOK(v)
  BY LogGrows
<1>2. Len(v) = Len(w) + 1 /\ v[Len(w) + 1] = t /\ \A i \in 1..Len(w) : v[i] = w[i]
  <2>1. w \in Seq({w[i] : i \in DOMAIN w})
    BY DEF LogOK
  <2>2. w \in Seq({w[i] : i \in DOMAIN w} \cup {t})
    BY <2>1, SeqMonotonic
  <2> QED
    BY <2>2, AppendProperties
<1> HIDE DEF v
<1>3. /\ Len(w) \in Nat /\ DOMAIN w = 1..Len(w)
      /\ Past(w) \in Seq(Reads(w)) /\ Len(Past(w)) = Len(w)
      /\ \A i \in DOMAIN w : Past(w)[i] = Lists(w[i])
  BY PastSeq
<1>4. /\ Past(v) \in Seq(Reads(v)) /\ Len(Past(v)) = Len(w) + 1 /\ DOMAIN v = 1..(Len(w) + 1)
      /\ \A i \in 1..(Len(w) + 1) : Past(v)[i] = Lists(v[i])
  BY <1>1, <1>2, PastSeq
<1>5. Reads(v) \subseteq S
  BY <1>2, <1>3, <1>4 DEF Reads
<1>6. Past(v) \in Seq(S) /\ Past(w) \in Seq(S)
  BY <1>3, <1>4, <1>5, SeqMonotonic
<1>7. /\ Append(Past(w), Lists(t)) \in Seq(S)
      /\ Len(Append(Past(w), Lists(t))) = Len(w) + 1
      /\ \A i \in 1..Len(w) : Append(Past(w), Lists(t))[i] = Past(w)[i]
      /\ Append(Past(w), Lists(t))[Len(w) + 1] = Lists(t)
  BY <1>3, <1>6, AppendProperties
<1> HIDE DEF S
<1>8. \A i \in 1..(Len(w) + 1) : Past(v)[i] = Append(Past(w), Lists(t))[i]
  BY <1>2, <1>3, <1>4, <1>7
<1>9. Past(v) = Append(Past(w), Lists(t))
  BY <1>4, <1>6, <1>7, <1>8, SeqEqual
<1> QED
  BY <1>9 DEF v

LEMMA PastLosesItsEnd ==
    ASSUME NEW w, LogOK(w), NEW k \in DOMAIN w
    PROVE  Past(SubSeq(w, 1, k)) = SubSeq(Past(w), 1, k)
<1> DEFINE v == SubSeq(w, 1, k)
           x == SubSeq(Past(w), 1, k)
<1>1. LogOK(v)
  BY LogLosesItsEnd
<1>2. /\ Len(w) \in Nat /\ DOMAIN w = 1..Len(w)
      /\ Past(w) \in Seq(Reads(w)) /\ Len(Past(w)) = Len(w)
      /\ \A i \in DOMAIN w : Past(w)[i] = Lists(w[i])
  BY PastSeq
<1>3. k \in Nat /\ 1 <= k /\ k <= Len(w)
  BY <1>2
<1>4. Len(v) = k /\ \A i \in 1..k : v[i] = w[i]
  <2>1. \A i \in 1..k : w[i] \in {w[j] : j \in DOMAIN w}
    BY <1>2, <1>3
  <2> QED
    BY <1>3, <2>1, SubSeqProperties
<1>5. x \in Seq(Reads(w)) /\ Len(x) = k /\ \A i \in 1..k : x[i] = Past(w)[i]
  <2>1. \A i \in 1..k : Past(w)[i] \in Reads(w)
    BY <1>2, <1>3 DEF Reads
  <2> QED
    BY <1>3, <2>1, SubSeqProperties
<1> HIDE DEF v, x
<1>6. /\ Past(v) \in Seq(Reads(v)) /\ Len(Past(v)) = k /\ DOMAIN v = 1..k
      /\ \A i \in 1..k : Past(v)[i] = Lists(v[i])
  BY <1>1, <1>4, PastSeq
<1>7. Reads(v) \subseteq Reads(w)
  BY <1>2, <1>3, <1>4, <1>6 DEF Reads
<1>8. Past(v) \in Seq(Reads(w))
  BY <1>6, <1>7, SeqMonotonic
<1>9. \A i \in 1..k : Past(v)[i] = x[i]
  BY <1>2, <1>3, <1>4, <1>5, <1>6
<1>10. Past(v) = x
  BY <1>5, <1>6, <1>8, <1>9, SeqEqual
<1> QED
  BY <1>10 DEF v, x

-------------------------------------------------------------------------------
(* The snapshot numbers the rows from 0, in order of their ids.              *)

Below(t, i) == {j \in Ids(t) : j < i}
Size(t) == Cardinality(Ids(t))

LEMMA PositionsOrder ==
    ASSUME NEW t, IsTables(t), Complete(t)
    PROVE  /\ Size(t) \in Nat
           /\ \A i \in Ids(t) : Position(t, i) \in 0..(Size(t) - 1)
           /\ \A i, j \in Ids(t) : Position(t, i) = Position(t, j) => i = j
           /\ \A k \in 0..(Size(t) - 1) : \E i \in Ids(t) : Position(t, i) = k
<1> DEFINE I == Ids(t)
           n == Size(t)
           f == [i \in I |-> Position(t, i)]
<1>1. \A i \in I : i \in Nat /\ i <= t.last
  BY DEF Ids, IsTables, Complete
<1>2. t.last \in Nat
  BY DEF IsTables
<1> HIDE DEF I
<1>3. IsFiniteSet(I)
  BY <1>1, <1>2, FS_BoundedSetOfNaturals
<1>4. n \in Nat /\ n = Cardinality(I)
  BY <1>3, FS_CardinalityType DEF Size, I
<1> HIDE DEF n
<1>5. \A i : Position(t, i) = Cardinality(Below(t, i)) /\ Below(t, i) = {j \in I : j < i}
  BY DEF Position, Below, I
<1>6. \A i \in I : IsFiniteSet(Below(t, i)) /\ Position(t, i) \in Nat
  <2> SUFFICES ASSUME NEW i \in I PROVE IsFiniteSet(Below(t, i)) /\ Position(t, i) \in Nat
    OBVIOUS
  <2>1. Below(t, i) \in SUBSET I
    BY <1>5
  <2>2. IsFiniteSet(Below(t, i))
    BY <1>3, <2>1, FS_Subset
  <2> QED
    BY <1>5, <2>2, FS_CardinalityType
<1>7. \A i \in I : Position(t, i) < n
  <2> SUFFICES ASSUME NEW i \in I PROVE Position(t, i) < n
    OBVIOUS
  <2>1. Below(t, i) \in SUBSET I /\ i \notin Below(t, i)
    BY <1>1, <1>5
  <2>2. Cardinality(Below(t, i)) <= n /\ (n = Cardinality(Below(t, i)) => I = Below(t, i))
    BY <1>3, <1>4, <2>1, FS_Subset
  <2> QED
    BY <1>4, <1>5, <1>6, <2>1, <2>2
<1>8. \A i, j \in I : i < j => Position(t, i) < Position(t, j)
  <2> SUFFICES ASSUME NEW i \in I, NEW j \in I, i < j PROVE Position(t, i) < Position(t, j)
    OBVIOUS
  <2>1. \A k \in I : k < i => k < j
    BY <1>1
  <2>2. Below(t, i) \in SUBSET Below(t, j) /\ i \in Below(t, j) /\ i \notin Below(t, i)
    BY <1>1, <1>5, <2>1
  <2>3. /\ Cardinality(Below(t, i)) <= Cardinality(Below(t, j))
        /\ Cardinality(Below(t, j)) = Cardinality(Below(t, i)) => Below(t, j) = Below(t, i)
    BY <1>6, <2>2, FS_Subset
  <2> QED
    BY <1>5, <1>6, <2>2, <2>3
<1>9. \A i, j \in I : Position(t, i) = Position(t, j) => i = j
  <2> SUFFICES ASSUME NEW i \in I, NEW j \in I, Position(t, i) = Position(t, j), i # j PROVE FALSE
    OBVIOUS
  <2>1. i < j \/ j < i
    BY <1>1
  <2>2. Position(t, i) < Position(t, j) \/ Position(t, j) < Position(t, i)
    BY <1>8, <2>1
  <2> QED
    BY <1>6, <2>2
<1>10. \A i \in I : Position(t, i) \in 0..(n - 1)
  BY <1>4, <1>6, <1>7
<1>11. f \in Injection(I, 0..(n - 1))
  BY <1>9, <1>10 DEF Injection, IsInjective
<1>12. IsFiniteSet(0..(n - 1)) /\ Cardinality(0..(n - 1)) = n
  <2>1. 0 \in Int /\ n - 1 \in Int
    BY <1>4
  <2>2. /\ IsFiniteSet(0..(n - 1))
        /\ Cardinality(0..(n - 1)) = IF 0 > n - 1 THEN 0 ELSE (n - 1) - 0 + 1
    BY <2>1, FS_Interval
  <2> QED
    BY <1>4, <2>2
<1> HIDE DEF f
<1>13. f \in Surjection(I, 0..(n - 1))
  BY <1>4, <1>11, <1>12, FS_Injection
<1>14. \A k \in 0..(n - 1) : \E i \in I : f[i] = k
  BY <1>13 DEF Surjection
<1>15. \A k \in 0..(n - 1) : \E i \in I : Position(t, i) = k
  BY <1>14 DEF f
<1> QED
  BY <1>4, <1>9, <1>10, <1>15 DEF I, n

\* The row at a position of the snapshot.
RowAt(t, k) == CHOOSE p \in Pubkey : HasRow(t, p) /\ Position(t, t.nodes[p].id) = k

LEMMA RowAtPosition ==
    ASSUME NEW t, IsTables(t), Complete(t)
    PROVE  /\ \A p \in Pubkey : HasRow(t, p) =>
                /\ Position(t, t.nodes[p].id) \in 0..(Size(t) - 1)
                /\ RowAt(t, Position(t, t.nodes[p].id)) = p
           /\ \A k \in 0..(Size(t) - 1) :
                /\ RowAt(t, k) \in Pubkey /\ HasRow(t, RowAt(t, k))
                /\ Position(t, t.nodes[RowAt(t, k)].id) = k
<1>1. /\ \A i \in Ids(t) : Position(t, i) \in 0..(Size(t) - 1)
      /\ \A i, j \in Ids(t) : Position(t, i) = Position(t, j) => i = j
      /\ \A k \in 0..(Size(t) - 1) : \E i \in Ids(t) : Position(t, i) = k
  BY PositionsOrder
<1>2. \A p \in Pubkey : HasRow(t, p) => t.nodes[p].id \in Ids(t)
  BY DEF Ids
<1>3. \A p, q \in Pubkey :
        HasRow(t, p) /\ HasRow(t, q) /\ Position(t, t.nodes[p].id) = Position(t, t.nodes[q].id) => p = q
  BY <1>1, <1>2 DEF Complete
<1>4. \A k \in 0..(Size(t) - 1) : \E p \in Pubkey : HasRow(t, p) /\ Position(t, t.nodes[p].id) = k
  BY <1>1 DEF Ids
<1>5. \A k \in 0..(Size(t) - 1) :
        /\ RowAt(t, k) \in Pubkey /\ HasRow(t, RowAt(t, k))
        /\ Position(t, t.nodes[RowAt(t, k)].id) = k
  BY <1>4 DEF RowAt
<1> QED
  BY <1>1, <1>2, <1>3, <1>5

\* What load_graph hands over reads as what is stored.
LEMMA ReadsBack ==
    ASSUME NEW t, IsTables(t), Complete(t), Rowless(t)
    PROVE  ReadLists(Snapshot(t)) = Lists(t)
<1> DEFINE S == Snapshot(t)
           At(p) == Position(t, t.nodes[p].id)
<1>1. /\ \A p \in Pubkey : HasRow(t, p) => At(p) \in 0..(Size(t) - 1) /\ RowAt(t, At(p)) = p
      /\ \A k \in 0..(Size(t) - 1) :
           RowAt(t, k) \in Pubkey /\ HasRow(t, RowAt(t, k)) /\ At(RowAt(t, k)) = k
  BY RowAtPosition
<1>2. DOMAIN S = 0..(Size(t) - 1) /\ \A k \in DOMAIN S : S[k] = SnapshotNode(t, RowAt(t, k))
  BY DEF Snapshot, Size, RowAt
<1>3. \A k \in DOMAIN S : S[k].pubkey = RowAt(t, k)
  <2>1. \A p : SnapshotNode(t, p).pubkey = p
    BY DEF SnapshotNode
  <2> HIDE DEF S
  <2> QED
    BY <1>2, <2>1
<1> HIDE DEF S
<1>4. \A p \in Pubkey : HasRow(t, p) => {k \in DOMAIN S : S[k].pubkey = p} = {At(p)}
  BY <1>1, <1>2, <1>3
<1>5. \A p \in Pubkey : ~HasRow(t, p) => {k \in DOMAIN S : S[k].pubkey = p} = {}
  BY <1>1, <1>2, <1>3
<1>6. \A m \in BOOLEAN : t.edges[m] \subseteq Ids(t) \X Ids(t)
  BY DEF Complete, Valid
<1>7. ASSUME NEW m \in BOOLEAN, NEW p \in Pubkey
      PROVE  {S[k].pubkey : k \in Positions(t, t.edges[m], t.nodes[p].id)} = Previous(t, m, p)
  <2>1. \A e \in t.edges[m] : e = <<e[1], e[2]>> /\ \E r \in Pubkey : HasRow(t, r) /\ e[2] = t.nodes[r].id
    <3> SUFFICES ASSUME NEW e \in t.edges[m]
                 PROVE  e = <<e[1], e[2]>> /\ \E r \in Pubkey : HasRow(t, r) /\ e[2] = t.nodes[r].id
      OBVIOUS
    <3>1. e \in Ids(t) \X Ids(t)
      BY <1>6
    <3>2. e = <<e[1], e[2]>> /\ e[2] \in Ids(t)
      BY <3>1
    <3> QED
      BY <3>2 DEF Ids
  <2>2. \A r \in Pubkey : HasRow(t, r) => S[At(r)].pubkey = r
    BY <1>1, <1>2, <1>3
  <2>3. \A r \in Pubkey : <<t.nodes[p].id, t.nodes[r].id>> \in t.edges[m] => HasRow(t, r)
    <3> SUFFICES ASSUME NEW r \in Pubkey, <<t.nodes[p].id, t.nodes[r].id>> \in t.edges[m]
                 PROVE  HasRow(t, r)
      OBVIOUS
    <3>1. t.nodes[r].id \in Ids(t)
      BY <1>6
    <3> QED
      BY <3>1 DEF Ids, HasRow
  <2>4. ASSUME NEW r \in Previous(t, m, p)
        PROVE  r \in {S[k].pubkey : k \in Positions(t, t.edges[m], t.nodes[p].id)}
    <3>1. r \in Pubkey /\ <<t.nodes[p].id, t.nodes[r].id>> \in t.edges[m] /\ HasRow(t, r)
      BY <2>3, <2>4 DEF Previous
    <3>2. At(r) \in Positions(t, t.edges[m], t.nodes[p].id)
      BY <3>1 DEF Positions
    <3> QED
      BY <2>2, <3>1, <3>2
  <2>5. ASSUME NEW k \in Positions(t, t.edges[m], t.nodes[p].id)
        PROVE  S[k].pubkey \in Previous(t, m, p)
    <3>1. PICK e \in t.edges[m] : e[1] = t.nodes[p].id /\ k = Position(t, e[2])
      BY <2>5 DEF Positions
    <3>2. PICK r \in Pubkey : HasRow(t, r) /\ e[2] = t.nodes[r].id
      BY <2>1
    <3>3. S[k].pubkey = r
      BY <2>2, <3>1, <3>2
    <3>4. <<t.nodes[p].id, t.nodes[r].id>> \in t.edges[m]
      BY <2>1, <3>1, <3>2
    <3> QED
      BY <3>3, <3>4 DEF Previous
  <2> QED
    BY <2>4, <2>5
<1>8. ASSUME NEW m \in BOOLEAN, NEW p \in Pubkey
      PROVE  ReadLists(S)[m][p] = ListAt(t, m, p)
  <2> DEFINE found == {k \in DOMAIN S : S[k].pubkey = p}
             node  == S[CHOOSE k \in found : TRUE]
  <2>1. ReadLists(S)[m][p] =
           IF found = {} THEN None
           ELSE IF ~m THEN ReadList(S, node.info, node.follows)
           ELSE IF node.mutes = None THEN None
           ELSE ReadList(S, node.mutes.info, node.mutes.ids)
    BY DEF ReadLists
  <2>2. CASE ~HasRow(t, p)
    <3>1. found = {}
      BY <1>5, <2>2
    <3>2. t.nodes[p].version = NoVersion /\ t.nodes[p].id = 0
      BY <2>2 DEF Rowless, HasRow
    <3>3. 0 \notin DOMAIN t.mute_lists
      BY DEF Complete, Valid, Ids, HasRow
    <3>4. Stored(t, m, p) = NoVersion
      BY <3>2, <3>3 DEF Stored
    <3> QED
      BY <2>1, <3>1, <3>4 DEF ListAt
  <2>3. CASE HasRow(t, p)
    <3> DEFINE id == t.nodes[p].id
    <3>1. found = {At(p)}
      BY <1>4, <2>3
    <3>2. node = SnapshotNode(t, p)
      <4>1. (CHOOSE k \in found : TRUE) = At(p)
        BY <3>1
      <4> QED
        BY <1>1, <1>2, <2>3, <4>1
    <3>3. found # {}
      BY <3>1
    <3> HIDE DEF found, node
    <3>4. /\ node.info = t.nodes[p].version
          /\ node.follows = Positions(t, t.edges[FALSE], id)
          /\ node.mutes = IF id \in DOMAIN t.mute_lists
                          THEN [info |-> t.mute_lists[id], ids |-> Positions(t, t.edges[TRUE], id)]
                          ELSE None
      BY <3>2 DEF SnapshotNode
    <3>5. CASE ~m
      <4>1. ReadLists(S)[m][p] = ReadList(S, t.nodes[p].version, Positions(t, t.edges[m], id))
        BY <2>1, <3>3, <3>4, <3>5
      <4>2. Stored(t, m, p) = t.nodes[p].version
        BY <3>5 DEF Stored
      <4> QED
        BY <1>7, <4>1, <4>2 DEF ReadList, ListAt
    <3>6. CASE m /\ id \notin DOMAIN t.mute_lists
      <4>1. ReadLists(S)[m][p] = None
        BY <2>1, <3>3, <3>4, <3>6
      <4>2. Stored(t, m, p) = NoVersion
        BY <3>6 DEF Stored
      <4> QED
        BY <4>1, <4>2 DEF ListAt
    <3>7. CASE m /\ id \in DOMAIN t.mute_lists
      <4> DEFINE record == [info |-> t.mute_lists[id], ids |-> Positions(t, t.edges[TRUE], id)]
      <4>1. t.mute_lists[id] \in Version
        BY <3>7 DEF IsTables
      <4>2. Positions(t, t.edges[TRUE], id) \in SUBSET Nat
        <5>1. \A e \in t.edges[TRUE] : e[2] \in Ids(t)
          BY <1>6
        <5>2. \A i \in Ids(t) : Position(t, i) \in Nat
          BY PositionsOrder
        <5> QED
          BY <5>1, <5>2 DEF Positions
      <4>3. record \in [info : Version, ids : SUBSET Nat]
        BY <4>1, <4>2
      <4>4. record # None
        BY <4>3, AbsentAssumption
      <4>5. record.info = t.mute_lists[id] /\ record.ids = Positions(t, t.edges[TRUE], id)
        OBVIOUS
      <4>6. node.mutes = record
        BY <3>4, <3>7
      <4> HIDE DEF record
      <4>7. ReadLists(S)[m][p] = ReadList(S, t.mute_lists[id], Positions(t, t.edges[m], id))
        BY <2>1, <3>3, <3>7, <4>4, <4>5, <4>6
      <4>8. Stored(t, m, p) = t.mute_lists[id]
        BY <3>7 DEF Stored
      <4> QED
        BY <1>7, <4>7, <4>8 DEF ReadList, ListAt
    <3> QED
      BY <3>5, <3>6, <3>7
  <2> QED
    BY <2>2, <2>3
<1>9. /\ ReadLists(S) = [m \in BOOLEAN |-> [p \in Pubkey |-> ReadLists(S)[m][p]]]
      /\ Lists(t) = [m \in BOOLEAN |-> [p \in Pubkey |-> Lists(t)[m][p]]]
  BY DEF ReadLists, Lists
<1>10. \A m \in BOOLEAN : \A p \in Pubkey : ReadLists(S)[m][p] = Lists(t)[m][p]
  BY <1>8, ListsAt
<1>11. ReadLists(S) = Lists(t)
  BY <1>9, <1>10
<1> QED
  BY <1>11 DEF S

-------------------------------------------------------------------------------
(* Initial states and steps of the abstract store. *)

LEMMA ListsType ==
    ASSUME NEW t, IsTables(t)
    PROVE  Lists(t) \in [BOOLEAN -> [Pubkey -> StoredList \cup {None}]]
<1>1. \A m \in BOOLEAN : \A p \in Pubkey : Lists(t)[m][p] \in StoredList \cup {None}
  BY ListsAt, ListAtType
<1>2. Lists(t) = [m \in BOOLEAN |-> [p \in Pubkey |-> Lists(t)[m][p]]]
  BY DEF Lists
<1> QED
  BY <1>1, <1>2

LEMMA InitPromise == Init => Promise!Init
<1> SUFFICES ASSUME Init PROVE Promise!Init
  OBVIOUS
<1>1. /\ tables = Empty /\ wal = <<Empty>> /\ pc = "idle" /\ snapshot = Snapshot(Empty) /\ result = 0
      /\ IsTables(Empty) /\ Complete(Empty) /\ Rowless(Empty)
  BY EmptyAssumption DEF Init
<1>2. Lists(tables) \in [BOOLEAN -> [Pubkey -> StoredList \cup {None}]]
  BY <1>1, ListsType
<1>3. Past(wal) = <<Lists(tables)>>
  BY <1>1, PastOfOne
<1>4. (IF pc = "down" THEN snapshot ELSE ReadLists(snapshot)) = Lists(tables)
  BY <1>1, ReadsBack
<1> QED
  BY <1>1, <1>2, <1>3, <1>4 DEF Promise!Init, Promise!List, Promise!Opt, StoredList, Opt, Past

\* Inside a call nothing of the store changes.
LEMMA Quiet ==
    ASSUME UNCHANGED <<disk, result, snapshot>>, pc # "down", pc' # "down"
    PROVE  UNCHANGED Promise!vars
BY DEF Promise!vars, disk

LEMMA SameCardinality == \A S : Promise!Cardinality(S) = Cardinality(S)
BY DEF Promise!Cardinality, Cardinality

LEMMA CommitStores ==
    ASSUME IInv, RInv, Commit
    PROVE  Promise!Store(call) /\ call \in Batch
<1> DEFINE m == call.mutes
           old == Lists(tables)
<1>1. /\ pc = "author" /\ pc' = "idle" /\ tables' = tx /\ wal' = Append(wal, tx) /\ result' = accepted
      /\ snapshot' = snapshot /\ \A p \in Pubkey : winners[p] = None
  BY DEF Commit
<1>2. /\ call \in Batch /\ m \in BOOLEAN /\ IsTables(tx) /\ Complete(tx) /\ IsTables(tables)
      /\ \A q \in Pubkey : AuthorSettled(q)
      /\ \A k \in BOOLEAN : k = m \/ \A q \in Pubkey : ListAt(tx, k, q) = ListAt(tables, k, q)
      /\ accepted = Cardinality(Changed(call, tables, winners))
  BY <1>1, InTransaction
<1> HIDE DEF m
<1>3. \A p \in Pubkey : ListAt(tx, m, p) = NewAt(call, tables, p)
  BY <1>1, <1>2 DEF AuthorSettled, m
<1>4. Promise!After(call) = [p \in Pubkey |-> NewAt(call, tables, p)]
  BY <1>2, ListsAt DEF Promise!After, NewAt, m
<1>5. /\ Lists(tx) \in [BOOLEAN -> [Pubkey -> StoredList \cup {None}]]
      /\ old \in [BOOLEAN -> [Pubkey -> StoredList \cup {None}]]
  BY <1>2, ListsType
<1>6. Lists(tx)[m] = Promise!After(call)
  <2>1. Lists(tx)[m] = [p \in Pubkey |-> Lists(tx)[m][p]]
    BY <1>2, <1>5
  <2> QED
    BY <1>2, <1>3, <1>4, <2>1, ListsAt
<1>7. \A k \in BOOLEAN : k # m => Lists(tx)[k] = old[k]
  <2> SUFFICES ASSUME NEW k \in BOOLEAN, k # m PROVE Lists(tx)[k] = old[k]
    OBVIOUS
  <2>1. \A p \in Pubkey : Lists(tx)[k][p] = old[k][p]
    BY <1>2, ListsAt
  <2> QED
    BY <1>5, <2>1
<1>8. Lists(tx) = [old EXCEPT ![m] = Promise!After(call)]
  BY <1>2, <1>5, <1>6, <1>7
<1>9. Past(Append(wal, tx)) = Append(Past(wal), Lists(tx))
  BY <1>2, Disk, PastGrows
<1>10. Changed(call, tables, winners) = {p \in Pubkey : Promise!After(call)[p] # old[m][p]}
  BY <1>1, <1>2, <1>4, ListsAt DEF Changed, OldAt, m
<1>11. result' = Promise!Cardinality({p \in Pubkey : Promise!After(call)[p] # old[m][p]})
  BY <1>1, <1>2, <1>10, SameCardinality
<1> QED
  BY <1>1, <1>2, <1>8, <1>9, <1>11 DEF Promise!Store, Past, m

LEMMA StepPromise ==
    ASSUME IInv, RInv, [Next]_vars
    PROVE  [Promise!Next]_(Promise!vars)
<1>1. ASSUME NEW b \in Batch, Begin(b) PROVE UNCHANGED Promise!vars
  BY <1>1, Quiet DEF Begin
<1>2. CASE Coalesce
  BY <1>2, Quiet DEF Coalesce
<1>3. CASE Transaction
  BY <1>3, Quiet DEF Transaction
<1>4. ASSUME NEW p \in Pubkey, Skip(p) PROVE UNCHANGED Promise!vars
  BY <1>4, Quiet DEF Skip
<1>5. ASSUME NEW p \in Pubkey, Upsert(p) PROVE UNCHANGED Promise!vars
  BY <1>5, Quiet DEF Upsert
<1>6. CASE DeleteEdge
  BY <1>6, Quiet DEF DeleteEdge
<1>7. CASE InsertEdge
  BY <1>7, Quiet DEF InsertEdge
<1>8. CASE Accept
  BY <1>8, Quiet DEF Accept
<1>9. CASE Commit
  BY <1>9, CommitStores DEF Promise!Next
<1>10. CASE StatementFails
  <2>1. /\ pc # "down" /\ pc' # "down" /\ tables' = tables /\ wal' = wal /\ snapshot' = snapshot
        /\ result' = Error
    BY <1>10 DEF StatementFails, disk
  <2>2. Promise!Refuse
    BY <2>1 DEF Promise!Refuse
  <2> QED
    BY <2>2 DEF Promise!Next
<1>11. CASE Checkpoint
  <2>1. /\ pc # "down" /\ pc' # "down" /\ tables' = tables /\ wal' = <<tables>> /\ snapshot' = snapshot
        /\ result' = result
    BY <1>11 DEF Checkpoint
  <2>2. Past(wal') = <<Lists(tables)>>
    BY <2>1, Disk, PastOfOne
  <2>3. Promise!Checkpoint
    BY <2>1, <2>2 DEF Promise!Checkpoint, Past
  <2> QED
    BY <2>3 DEF Promise!Next
<1>12. CASE Crash
  <2>1. pc' = "down" /\ snapshot' = None /\ result' = 0 /\ tables' = tables /\ wal' = wal
    BY <1>12 DEF Crash, Lost, disk
  <2>2. Promise!Crash
    BY <2>1 DEF Promise!Crash
  <2> QED
    BY <2>2 DEF Promise!Next
<1>13. CASE HostFails
  <2>1. pc' = "down" /\ snapshot' = None /\ result' = 0
    BY <1>13 DEF HostFails, Lost
  <2>2. PICK k \in DOMAIN wal : tables' = wal[k] /\ wal' = SubSeq(wal, 1, k)
    BY <1>13 DEF HostFails
  <2>3. Past(wal') = SubSeq(Past(wal), 1, k)
    BY <2>2, Disk, PastLosesItsEnd
  <2>4. k \in DOMAIN Past(wal) /\ Lists(tables') = Past(wal)[k]
    BY <2>2 DEF Past
  <2>5. Promise!HostFails
    BY <2>1, <2>3, <2>4 DEF Promise!HostFails, Past
  <2> QED
    BY <2>5 DEF Promise!Next
<1>14. CASE Load
  <2>1. IsTables(tables) /\ Complete(tables) /\ Rowless(tables)
    BY Disk, DiskRowless
  <2>2. /\ pc' = "idle" /\ snapshot' = Snapshot(tables) /\ tables' = tables /\ wal' = wal
        /\ result' = result
    BY <1>14, <2>1 DEF Load, Complete, disk
  <2>3. ReadLists(snapshot') = Lists(tables)
    BY <2>1, <2>2, ReadsBack
  <2>4. Promise!Load
    BY <2>2, <2>3 DEF Promise!Load
  <2> QED
    BY <2>4 DEF Promise!Next
<1>15. CASE UNCHANGED vars
  BY <1>15 DEF vars, disk, Promise!vars
<1> QED
  BY <1>1, <1>2, <1>3, <1>4, <1>5, <1>6, <1>7, <1>8, <1>9, <1>10, <1>11, <1>12, <1>13, <1>14, <1>15
     DEF Next

(* Every step of the statements, the faults and the restart is a step of the  *)
(* store that keeps whole lists, a batch at a time, or changes nothing of it: *)
(* for any batches, any pubkeys and any database to begin with.               *)
THEOREM DatabaseImplementsListStore == Spec => ImplementsListStore
<1>1. Init => IInv /\ RInv /\ Promise!Init
  BY InvInit, RInit, InitPromise
<1>2. IInv /\ RInv /\ [Next]_vars => IInv' /\ RInv'
  BY InvStep, RStep
<1>3. IInv /\ RInv /\ [Next]_vars => [Promise!Next]_(Promise!vars)
  BY StepPromise
<1> QED
  BY <1>1, <1>2, <1>3, PTL DEF Spec, ImplementsListStore, Promise!Spec
===============================================================================
