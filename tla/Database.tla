------------------------------- MODULE Database -------------------------------
(***************************************************************************)
(* db/sqlite.rs: how a batch of lists becomes rows, statement by statement *)
(* inside one transaction, and how rows become the graph at startup.       *)
(* Statements fail, the process dies, and the host fails: with             *)
(* journal_mode=WAL and synchronous=NORMAL the commits since the last      *)
(* checkpoint are then lost from some point on.                            *)
(*                                                                         *)
(* The connection is behind a mutex, so batches and loads come one after   *)
(* the other.  Rows of nodes are never deleted, so that the rowid SQLite   *)
(* gives a new one, the largest plus one, follows the last one given.      *)
(***************************************************************************)
EXTENDS Integers, Sequences, FiniteSets, EventOrder

CONSTANTS
    Pubkey,
    Batch,          \* calls: [mutes: BOOLEAN, updates: a sequence of updates]
    Empty,          \* the tables to start from
    Error,          \* a returned error
    MaxUnsynced,    \* bound: commits since the last checkpoint
    MaxFaults       \* bound: failed statements, crashes, failures of the host

Update == [author : Pubkey, targets : SUBSET Pubkey, created_at : Nat, event_id : Nat]
Version == [created_at : Opt, event_id : Opt]

ASSUME PubkeyAssumption == IsFiniteSet(Pubkey)
ASSUME BatchAssumption ==
    \A b \in Batch : b.mutes \in BOOLEAN /\ b.updates \in Seq(Update) /\ b.updates # <<>>
\* An event id is the hash of the event.
ASSUME HashAssumption ==
    \A b \in Batch : \A i, j \in DOMAIN b.updates :
        LET u == b.updates[i]
            v == b.updates[j]
        IN u.author = v.author /\ u.created_at = v.created_at /\ u.event_id = v.event_id => u = v
\* The absent value is none of the values it can stand beside.
ASSUME AbsentAssumption ==
    /\ None \notin Update
    /\ None \notin [created_at : Opt, event_id : Opt, targets : SUBSET Pubkey]
    /\ None \notin [info : Version, ids : SUBSET Nat]
ASSUME ErrorAssumption == Error \notin Nat
ASSUME BoundAssumption == MaxUnsynced \in Nat /\ MaxFaults \in Nat

VARIABLES
    \* nodes: per pubkey [id, version], id 0 if it has no row; last: the largest
    \* id; mute_lists: versions by id; edges: pairs of ids, at TRUE mute_edges
    tables,     \* committed
    wal,        \* committed tables since the last checkpoint, from it on
    pc,         \* "down", "idle", "coalesce", "author" or "edges"
    \* a call of update_lists_batch
    call, next, \* the batch, and the update to coalesce next
    winners,    \* per author still to be written
    tx,         \* the tables as the transaction sees them
    node_ids,   \* transaction-local cache
    author, removed, added,     \* the author in hand, edges to delete and to insert
    accepted, result,
    \* startup
    snapshot,   \* what load_graph hands to restore_nodes, or None
    faults

disk  == <<tables, wal>>
local == <<call, next, winners, tx, node_ids, author, removed, added, accepted>>
vars  == <<disk, pc, local, result, snapshot, faults>>

NoVersion == [created_at |-> None, event_id |-> None]
NoCall == [mutes |-> FALSE, updates |-> <<>>]
Fault == faults < MaxFaults /\ faults' = faults + 1

-------------------------------------------------------------------------------
(* Rows. *)

HasRow(t, p) == t.nodes[p].id # 0
Ids(t) == {t.nodes[p].id : p \in {q \in Pubkey : HasRow(t, q)}}

\* get_node: the stored version of an author's list.
Stored(t, mutes, p) ==
    IF ~mutes THEN t.nodes[p].version
    ELSE IF t.nodes[p].id \in DOMAIN t.mute_lists THEN t.mute_lists[t.nodes[p].id]
    ELSE NoVersion

Wins(u, v) == EventWins(u.created_at, u.event_id, v.created_at, v.event_id)

\* insert_node: ON CONFLICT(pubkey) DO NOTHING.
Inserted(t, p) ==
    IF HasRow(t, p) THEN t
    ELSE [t EXCEPT !.nodes[p] = [id |-> t.last + 1, version |-> NoVersion], !.last = t.last + 1]

\* upsert_node: the author's row gets the version of the new list.
Upserted(t, mutes, u) ==
    LET version == [created_at |-> u.created_at, event_id |-> u.event_id]
        s       == Inserted(t, u.author)
        id      == s.nodes[u.author].id
    IN IF mutes
       THEN [s EXCEPT !.mute_lists =
                [i \in DOMAIN s.mute_lists \cup {id} |->
                    IF i = id THEN version ELSE s.mute_lists[i]]]
       ELSE [s EXCEPT !.nodes[u.author].version = version]

\* old_edges, joined with nodes.
Previous(t, mutes, p) == {q \in Pubkey : <<t.nodes[p].id, t.nodes[q].id>> \in t.edges[mutes]}

\* "Validate everything before publishing."
Valid(t) ==
    /\ \A mutes \in BOOLEAN : t.edges[mutes] \subseteq Ids(t) \X Ids(t)
    /\ DOMAIN t.mute_lists \subseteq Ids(t)
    /\ \A e \in t.edges[TRUE] : e[1] \in DOMAIN t.mute_lists

IsTables(t) ==
    /\ t = [nodes |-> t.nodes, last |-> t.last, mute_lists |-> t.mute_lists, edges |-> t.edges]
    /\ t.nodes \in [Pubkey -> [id : Nat, version : Version]] /\ t.last \in Nat
    /\ DOMAIN t.mute_lists \subseteq Nat /\ \A i \in DOMAIN t.mute_lists : t.mute_lists[i] \in Version
    /\ t.edges \in [BOOLEAN -> SUBSET (Nat \X Nat)]

(* A row's id is its own and was given before; every edge and mute list is of *)
(* nodes that exist, and a mute edge is of a list that does.                  *)
Complete(t) ==
    /\ \A p \in Pubkey : t.nodes[p].id <= t.last
    /\ \A p, q \in Pubkey : HasRow(t, p) /\ t.nodes[p].id = t.nodes[q].id => p = q
    /\ Valid(t)

\* The version of a list is a column of its author's row.
Rowless(t) == \A p \in Pubkey : ~HasRow(t, p) => t.nodes[p].version = NoVersion

\* The database that is opened first.
ASSUME EmptyAssumption == IsTables(Empty) /\ Complete(Empty) /\ Rowless(Empty)

-------------------------------------------------------------------------------
(* update_lists_batch. *)

Begin(b) ==
    /\ pc = "idle" /\ Len(wal) <= MaxUnsynced
    /\ pc' = "coalesce" /\ call' = b /\ next' = 1
    /\ winners' = [p \in Pubkey |-> None]
    /\ UNCHANGED <<disk, tx, node_ids, author, removed, added, accepted, result, snapshot, faults>>

\* One update into the map of winners.  Mistake: the last one wins.
CoalesceLast ==
    /\ pc = "coalesce" /\ next <= Len(call.updates)
    /\ LET u == call.updates[next] IN winners' = [winners EXCEPT ![u.author] = u]
    /\ next' = next + 1
    /\ UNCHANGED <<disk, pc, call, tx, node_ids, author, removed, added, accepted, result, snapshot, faults>>

Coalesce ==
    /\ pc = "coalesce" /\ next <= Len(call.updates)
    /\ LET u == call.updates[next] IN
       winners' = IF winners[u.author] # None /\ ~Wins(u, winners[u.author]) THEN winners
                  ELSE [winners EXCEPT ![u.author] = u]
    /\ next' = next + 1
    /\ UNCHANGED <<disk, pc, call, tx, node_ids, author, removed, added, accepted, result, snapshot, faults>>

\* Mistake: the cache of ids outlives the transaction.
TransactionCached ==
    /\ pc = "coalesce" /\ next > Len(call.updates)
    /\ pc' = "author" /\ tx' = tables /\ accepted' = 0
    /\ UNCHANGED <<disk, call, next, winners, node_ids, author, removed, added, result, snapshot, faults>>

Transaction ==
    /\ pc = "coalesce" /\ next > Len(call.updates)
    /\ pc' = "author" /\ tx' = tables /\ accepted' = 0 /\ node_ids' = <<>>
    /\ UNCHANGED <<disk, call, next, winners, author, removed, added, result, snapshot, faults>>

\* A winner that loses to what is stored.
Skip(p) ==
    /\ pc = "author" /\ winners[p] # None
    /\ ~Wins(winners[p], Stored(tx, call.mutes, p))
    /\ winners' = [winners EXCEPT ![p] = None]
    /\ UNCHANGED <<disk, pc, call, next, tx, node_ids, author, removed, added, accepted, result, snapshot, faults>>

\* The version is written, and the edges are compared with the new list.
Upsert(p) ==
    /\ pc = "author" /\ winners[p] # None
    /\ Wins(winners[p], Stored(tx, call.mutes, p))
    /\ tx' = Upserted(tx, call.mutes, winners[p])
    /\ author' = p
    /\ node_ids' = [q \in DOMAIN node_ids \cup {p} |->
                       IF q = p THEN tx'.nodes[p].id ELSE node_ids[q]]
    /\ removed' = Previous(tx', call.mutes, p) \ winners[p].targets
    /\ added' = winners[p].targets \ Previous(tx', call.mutes, p)
    /\ pc' = "edges"
    /\ UNCHANGED <<disk, call, next, winners, accepted, result, snapshot, faults>>

Edge(from, to) == <<from, to>>
DeleteEdge ==
    /\ pc = "edges"
    /\ \E q \in removed :
         /\ tx' = [tx EXCEPT !.edges[call.mutes] =
                      @ \ {Edge(tx.nodes[author].id, tx.nodes[q].id)}]
         /\ removed' = removed \ {q}
    /\ UNCHANGED <<disk, pc, call, next, winners, node_ids, author, added, accepted, result, snapshot, faults>>

\* The target's id comes from the cache, or from its row, which may be new.
InsertEdge ==
    /\ pc = "edges" /\ removed = {}
    /\ \E q \in added :
         LET t  == IF q \in DOMAIN node_ids THEN tx ELSE Inserted(tx, q)
             id == IF q \in DOMAIN node_ids THEN node_ids[q] ELSE t.nodes[q].id
         IN /\ tx' = [t EXCEPT !.edges[call.mutes] = @ \cup {Edge(t.nodes[author].id, id)}]
            /\ node_ids' = [r \in DOMAIN node_ids \cup {q} |->
                               IF r = q THEN id ELSE node_ids[r]]
            /\ added' = added \ {q}
    /\ UNCHANGED <<disk, pc, call, next, winners, author, removed, accepted, result, snapshot, faults>>

Accept ==
    /\ pc = "edges" /\ removed = {} /\ added = {}
    /\ winners' = [winners EXCEPT ![author] = None]
    /\ accepted' = accepted + 1 /\ pc' = "author"
    /\ UNCHANGED <<disk, call, next, tx, node_ids, author, removed, added, result, snapshot, faults>>

Commit ==
    /\ pc = "author" /\ \A p \in Pubkey : winners[p] = None
    /\ tables' = tx /\ wal' = Append(wal, tx)
    /\ result' = accepted /\ pc' = "idle"
    /\ UNCHANGED <<local, snapshot, faults>>

\* A statement fails: the transaction is dropped, which rolls it back.
\* Mistake: it stays open.
StatementFailsOpen ==
    /\ pc \in {"author", "edges"} /\ Fault
    /\ result' = Error /\ pc' = "idle"
    /\ UNCHANGED <<disk, local, snapshot>>

StatementFails ==
    /\ pc \in {"author", "edges"} /\ Fault
    /\ tx' = tables /\ result' = Error /\ pc' = "idle"
    /\ UNCHANGED <<disk, call, next, winners, node_ids, author, removed, added, accepted, snapshot>>

-------------------------------------------------------------------------------
(* SQLite, the process and the host. *)

Checkpoint ==
    /\ pc = "idle" /\ Len(wal) > 1
    /\ wal' = <<tables>>
    /\ UNCHANGED <<tables, pc, local, result, snapshot, faults>>

Lost ==
    /\ pc' = "down" /\ snapshot' = None /\ result' = 0
    /\ tx' = tables' /\ node_ids' = <<>>
    /\ UNCHANGED <<call, next, winners, author, removed, added, accepted>>

\* The log holds whole transactions: what reaches the disk is a prefix of it.
Crash == pc # "down" /\ Fault /\ UNCHANGED disk /\ Lost
HostFails ==
    /\ Fault
    /\ \E k \in DOMAIN wal : tables' = wal[k] /\ wal' = SubSeq(wal, 1, k)
    /\ Lost

-------------------------------------------------------------------------------
(* load_graph. *)

\* Rowids in order: the position of a row is its index in the snapshot.
Position(t, id) == Cardinality({i \in Ids(t) : i < id})
Positions(t, E, id) == {Position(t, e[2]) : e \in {d \in E : d[1] = id}}

SnapshotNode(t, p) ==
    LET id == t.nodes[p].id IN
    [pubkey |-> p, info |-> t.nodes[p].version,
     follows |-> Positions(t, t.edges[FALSE], id),
     mutes |-> IF id \in DOMAIN t.mute_lists
               THEN [info |-> t.mute_lists[id], ids |-> Positions(t, t.edges[TRUE], id)]
               ELSE None]

Snapshot(t) ==
    [i \in 0..(Cardinality(Ids(t)) - 1) |->
        SnapshotNode(t, CHOOSE p \in Pubkey : HasRow(t, p) /\ Position(t, t.nodes[p].id) = i)]

\* main returns an error of load_graph: the process is down again.
Load ==
    /\ pc = "down"
    /\ \/ Valid(tables) /\ snapshot' = Snapshot(tables) /\ pc' = "idle"
       \/ ~Valid(tables) /\ pc' = "down" /\ snapshot' = Error
    /\ UNCHANGED <<disk, local, result, faults>>

-------------------------------------------------------------------------------
Init ==
    /\ tables = Empty /\ wal = <<tables>>
    /\ pc = "idle" /\ snapshot = Snapshot(tables)
    /\ call = NoCall /\ next = 1 /\ winners = [p \in Pubkey |-> None]
    /\ tx = tables /\ node_ids = <<>>
    /\ author = None /\ removed = {} /\ added = {}
    /\ accepted = 0 /\ result = 0 /\ faults = 0

Next ==
    \/ \E b \in Batch : Begin(b)
    \/ Coalesce \/ Transaction
    \/ \E p \in Pubkey : Skip(p) \/ Upsert(p)
    \/ DeleteEdge \/ InsertEdge \/ Accept \/ Commit
    \/ StatementFails \/ Checkpoint \/ Crash \/ HostFails \/ Load

Spec == Init /\ [][Next]_vars

-------------------------------------------------------------------------------
(* Properties. *)

TypeOK ==
    /\ IsTables(tx) /\ \A i \in DOMAIN wal : IsTables(wal[i])
    /\ wal \in Seq({wal[i] : i \in DOMAIN wal}) /\ wal # <<>> /\ tables = wal[Len(wal)]
    /\ pc \in {"down", "idle", "coalesce", "author", "edges"}
    /\ pc \notin {"author", "edges"} => tx = tables
    /\ call \in Batch \cup {NoCall} /\ next \in Nat \ {0}
    /\ winners \in [Pubkey -> Update \cup {None}]
    /\ DOMAIN node_ids \subseteq Pubkey /\ \A p \in DOMAIN node_ids : node_ids[p] \in Nat
    /\ author \in Pubkey \cup {None} /\ removed \subseteq Pubkey /\ added \subseteq Pubkey
    /\ accepted \in Nat /\ result \in Nat \cup {Error} /\ faults \in Nat

(* Whatever a failed statement, a crash or a failure of the host leaves on    *)
(* disk, load_graph finds no "edge referencing a missing node" and no         *)
(* "invalid mute edges": the service never needs a repair to start.           *)
AlwaysLoads == \A i \in DOMAIN wal : Complete(wal[i])

(* The rows read as lists, and the snapshot of load_graph read as lists.      *)
Lists(t) ==
    [mutes \in BOOLEAN |-> [p \in Pubkey |->
        LET v == Stored(t, mutes, p) IN
        IF v = NoVersion THEN None
        ELSE [created_at |-> v.created_at, event_id |-> v.event_id,
              targets |-> Previous(t, mutes, p)]]]

ReadList(loaded, info, ids) ==
    IF info = NoVersion THEN None
    ELSE [created_at |-> info.created_at, event_id |-> info.event_id,
          targets |-> {loaded[i].pubkey : i \in ids}]

ReadLists(loaded) ==
    [mutes \in BOOLEAN |-> [p \in Pubkey |->
        LET found == {i \in DOMAIN loaded : loaded[i].pubkey = p}
            node  == loaded[CHOOSE i \in found : TRUE]
        IN IF found = {} THEN None
           ELSE IF ~mutes THEN ReadList(loaded, node.info, node.follows)
           ELSE IF node.mutes = None THEN None
           ELSE ReadList(loaded, node.mutes.info, node.mutes.ids)]]

Promise == INSTANCE ListStore WITH
    Author <- Pubkey,
    lists <- Lists(tables),
    past <- [i \in DOMAIN wal |-> Lists(wal[i])],
    loaded <- IF pc = "down" THEN snapshot ELSE ReadLists(snapshot)

(* "SQLite transactions select the winning event per author, compare with     *)
(* persisted provenance, and insert/delete changed edges" (ARCHITECTURE.md):  *)
(* through coalescing, edge differences, cached ids, failed statements and    *)
(* lost tails of the log, each list is stored whole with the event it belongs *)
(* to, a batch at a time; the count returned is of the lists that changed;    *)
(* and a restart finds exactly what is stored.                                *)
ImplementsListStore == Promise!Spec
===============================================================================
