------------------------------- MODULE Queries -------------------------------
(***************************************************************************)
(* Answering queries (api/http.rs, api/dvm.rs, cache.rs) while ingestion   *)
(* changes the graph: the cache whose entries carry a graph revision, the  *)
(* permits that bound computation, the blocking tasks that outlive a       *)
(* cancelled request, and the DVM that waits for a permit where HTTP       *)
(* refuses.                                                                *)
(*                                                                         *)
(* A pair stands for a cache key (from, to, max_hops, include_bridges)     *)
(* with two different ends; an answer for the distance result.  A query    *)
(* from a key to itself is answered without the graph, known to it or not, *)
(* and is left out.  A traversal holds the adjacency locks, so it is one   *)
(* step (GraphStore has the locks, Bfs the search); what happens between   *)
(* the steps of this module is the interesting part.                       *)
(***************************************************************************)
EXTENDS Naturals, Sequences, FiniteSets

CONSTANTS
    Pair, Answer, NotFound, None,
    Request,        \* slots for requests in flight
    Loaded,         \* pairs of which load_graph restored both nodes
    Setup,          \* kinds of the request slots, and permits (the program has four)
    MaxRevision     \* bound: changes of the graph

ASSUME AnswerAssumption == NotFound \in Answer /\ None \notin Answer
ASSUME SetupAssumption ==
    \A s \in Setup : /\ s.kind \in [Request -> {"distance", "trust", "batch", "plain", "dvm"}]
                     /\ s.slots \in Nat \ {0}
ASSUME RequestAssumption == IsFiniteSet(Request)
ASSUME BoundAssumption == Loaded \subseteq Pair /\ MaxRevision \in Nat \ {0}

VARIABLES
    setup,      \* the one of Setup that runs
    \* the graph, as far as queries see it
    known,      \* pairs of which both pubkeys have an id
    answer,     \* what a traversal of the adjacency returns now
    creating,   \* an id is published, its revision not yet counted, adjacency locked
    revision,   \* from 1
    past,       \* history: answer at each revision
    \* shared by the requests
    entries,    \* QueryCache.entries
    free,       \* permits of query_slots
    \* a request
    pc,
    look,       \* targets still to be looked up in the cache
    misses,     \* targets to compute
    got,        \* results
    cur,        \* target in hand
    rev,        \* revision read for it
    val,        \* value read or computed for it
    keyed,      \* both ids of the target in hand were found
    since,      \* history: revision when the request began
    \* its blocking task, which owns the permit
    task

graph   == <<known, answer, creating, revision, past>>
targets == <<look, misses, got>>
hand    == <<cur, rev, val, keyed>>
vars    == <<setup, graph, entries, free, pc, targets, hand, since, task>>

Kind(r) == setup.kind[r]
Slots == setup.slots        \* Semaphore::new

NoPair == [p \in {} |-> NotFound]
Set(f, r, v) == [f EXCEPT ![r] = v]

-------------------------------------------------------------------------------
(* The graph: see GraphStore. *)

\* get_or_create_node_locked: the id is published, then the revision counted.
\* Adjacency stays locked in between.
PublishNode ==
    /\ ~creating /\ revision < MaxRevision
    /\ \E p \in Pair \ known : known' = known \cup {p}
    /\ creating' = TRUE
    /\ UNCHANGED <<setup, answer, revision, past, entries, free, pc, targets, hand, since, task>>

CountNode ==
    /\ creating
    /\ creating' = FALSE
    /\ revision' = revision + 1
    /\ past' = Append(past, answer)
    /\ UNCHANGED <<setup, known, answer, entries, free, pc, targets, hand, since, task>>

\* update_follows changes edges, update_mutes does not: both count.
Update ==
    /\ ~creating /\ revision < MaxRevision
    /\ answer' \in [Pair -> Answer]
    /\ \A p \in Pair \ known : answer'[p] = NotFound
    /\ revision' = revision + 1
    /\ past' = Append(past, answer')
    /\ UNCHANGED <<setup, known, creating, entries, free, pc, targets, hand, since, task>>

\* An entry expires, or gives way to another.
Evict ==
    /\ \E p \in Pair : entries[p] # None /\ entries' = [entries EXCEPT ![p] = None]
    /\ UNCHANGED <<setup, graph, free, pc, targets, hand, since, task>>

-------------------------------------------------------------------------------
(* A request: get_distance, batch_distance, handle_request, get_trust. *)

\* The locals of one target's lookup or computation go out of scope.
DropHand(r) ==
    /\ cur' = Set(cur, r, None) /\ rev' = Set(rev, r, 0) /\ val' = Set(val, r, NotFound)

\* A target has its result: the next one, or the end of the cache phase.
Hit(r, p, v) ==
    /\ got' = Set(got, r, [q \in DOMAIN got[r] \cup {p} |-> IF q = p THEN v ELSE got[r][q]])
    /\ look' = Set(look, r, look[r] \ {p})
    /\ misses' = Set(misses, r, misses[r] \ {p})
Miss(r, p) ==
    /\ misses' = Set(misses, r, misses[r] \cup {p})
    /\ look' = Set(look, r, look[r] \ {p})
    /\ UNCHANGED got

Ask(r, T, bypass) ==
    /\ pc[r] = "idle" /\ Kind(r) # "plain"
    /\ T # {} /\ (Kind(r) # "batch" => Cardinality(T) = 1)
    /\ bypass => Kind(r) # "dvm"
    /\ pc' = Set(pc, r, "cache")
    /\ look' = Set(look, r, IF bypass THEN {} ELSE T)
    /\ misses' = Set(misses, r, IF bypass THEN T ELSE {})
    /\ since' = Set(since, r, revision)
    /\ UNCHANGED <<setup, graph, entries, free, got, hand, task>>

\* get_path and get_common_follows go straight to a permit.
AskPlain(r) ==
    /\ pc[r] = "idle" /\ Kind(r) = "plain"
    /\ pc' = Set(pc, r, "second")
    /\ UNCHANGED <<setup, graph, entries, free, targets, hand, since, task>>

\* get_node_id of both ends, then QueryCache::get's first look at the revision.
LookUp(r) ==
    /\ pc[r] = "cache"
    /\ \E p \in look[r] :
         /\ keyed' = Set(keyed, r, p \in known)
         /\ \/ p \notin known /\ Miss(r, p) /\ UNCHANGED <<cur, rev, pc>>
            \/ /\ p \in known
               /\ cur' = Set(cur, r, p) /\ rev' = Set(rev, r, revision)
               /\ pc' = Set(pc, r, "entry")
               /\ UNCHANGED targets
    /\ UNCHANGED <<setup, graph, entries, free, val, since, task>>

\* The entry's revision against the one read.  Mistake: it is not compared.
UsableAlways(entry, current) == TRUE
Usable(entry, current) == entry.revision = current

ReadEntry(r) ==
    /\ pc[r] = "entry"
    /\ LET entry == entries[cur[r]] IN
       \/ /\ entry # None /\ Usable(entry, rev[r])
          /\ val' = Set(val, r, entry.value)
          /\ pc' = Set(pc, r, "recheck")
          /\ UNCHANGED <<targets, cur, rev>>
       \/ /\ ~(entry # None /\ Usable(entry, rev[r]))
          /\ Miss(r, cur[r])
          /\ pc' = Set(pc, r, "cache")
          /\ DropHand(r)
    /\ UNCHANGED <<setup, graph, entries, free, keyed, since, task>>

\* The entry is resolved to pubkeys, then the revision is looked at again.
Recheck(r) ==
    /\ pc[r] = "recheck"
    /\ \/ revision = rev[r] /\ Hit(r, cur[r], val[r])
       \/ revision # rev[r] /\ Miss(r, cur[r])
    /\ pc' = Set(pc, r, "cache") /\ DropHand(r)
    /\ UNCHANGED <<setup, graph, entries, free, keyed, since, task>>

\* get_trust goes on to its second computation.
Next1(r) == IF Kind(r) = "trust" THEN "second" ELSE "respond"

CacheDone(r) ==
    /\ pc[r] = "cache" /\ look[r] = {}
    /\ pc' = Set(pc, r, IF misses[r] = {} THEN Next1(r) ELSE "acquire")
    /\ UNCHANGED <<setup, graph, entries, free, targets, hand, since, task>>

\* A permit released while the DVM waits is the DVM's at once.
Waiting == {r \in Request : pc[r] = "waiting"}
Available == free > Cardinality(Waiting)

Spawn(r, first, at) ==
    /\ free' = free - 1
    /\ task' = Set(task, r, first)
    /\ pc' = Set(pc, r, at)

Clear(r) ==
    /\ look' = Set(look, r, {}) /\ misses' = Set(misses, r, {}) /\ got' = Set(got, r, NoPair)
    /\ DropHand(r) /\ keyed' = Set(keyed, r, FALSE) /\ since' = Set(since, r, 0)

\* query_permit: 503 QUERY_BUSY when no permit is free.
Permit(r) ==
    /\ pc[r] \in {"acquire", "second"} /\ Kind(r) # "dvm"
    /\ Available
    /\ \/ pc[r] = "acquire" /\ Spawn(r, "revision", "running")
       \/ pc[r] = "second" /\ Spawn(r, "plain", "finishing")
    /\ UNCHANGED <<setup, graph, entries, targets, hand, since>>

Busy(r) ==
    /\ pc[r] \in {"acquire", "second"} /\ Kind(r) # "dvm"
    /\ ~Available
    /\ pc' = Set(pc, r, "idle") /\ Clear(r)
    /\ UNCHANGED <<setup, graph, entries, free, task>>

\* acquire_owned().await, with nothing else to do for the DVM's loop.
DvmPermit(r) ==
    /\ pc[r] \in {"acquire", "waiting"} /\ Kind(r) = "dvm"
    /\ \/ pc[r] = "acquire" /\ Available
       \/ pc[r] = "waiting" /\ free > 0
    /\ Spawn(r, "revision", "running")
    /\ UNCHANGED <<setup, graph, entries, targets, hand, since>>

DvmWait(r) ==
    /\ pc[r] = "acquire" /\ Kind(r) = "dvm" /\ ~Available
    /\ pc' = Set(pc, r, "waiting")
    /\ UNCHANGED <<setup, graph, entries, free, targets, hand, since, task>>

\* The handler's future is dropped at an await.  Mistake: the permit is the
\* handler's, and is dropped with it.
CancelReleasing(r) ==
    /\ pc[r] \in {"running", "finishing"} /\ Kind(r) # "dvm"
    /\ pc' = Set(pc, r, "gone")
    /\ free' = free + 1
    /\ UNCHANGED <<setup, graph, entries, targets, hand, since, task>>

Cancel(r) ==
    /\ pc[r] \in {"running", "finishing"} /\ Kind(r) # "dvm"
    /\ pc' = Set(pc, r, "gone")
    /\ UNCHANGED <<setup, graph, entries, free, targets, hand, since, task>>

\* The task's result arrives; a panic is an internal error, and a cancelled
\* request leaves nobody to look at it.
Collect(r) ==
    /\ task[r] \in {"done", "panicked"}
    /\ task' = Set(task, r, "none")
    /\ \/ /\ pc[r] = "running" /\ task[r] = "done"
          /\ pc' = Set(pc, r, IF Kind(r) = "batch" THEN "respond" ELSE "insert")
          /\ UNCHANGED <<targets, hand, since>>
       \/ /\ pc[r] = "finishing" /\ task[r] = "done"
          /\ pc' = Set(pc, r, "respond")
          /\ UNCHANGED <<targets, hand, since>>
       \/ /\ pc[r] = "gone" \/ task[r] = "panicked"
          /\ pc' = Set(pc, r, "idle") /\ Clear(r)
    /\ UNCHANGED <<setup, graph, entries, free>>

\* HTTP looks ids up again that were missing before; the DVM does not.
HasKey(r) == IF Kind(r) = "dvm" THEN keyed[r] ELSE cur[r] \in known

\* QueryCache::insert: "Never relabel an old computation with a newer graph
\* revision."  Mistake: the entry is labelled with the revision of its insertion.
Current(r) == revision = rev[r]
CacheEntryNow(r) == [revision |-> revision, value |-> val[r]]
CacheEntry(r) == [revision |-> rev[r], value |-> val[r]]

Finished(r) ==
    /\ Hit(r, cur[r], val[r])
    /\ pc' = Set(pc, r, Next1(r)) /\ DropHand(r)

Insert(r) ==
    /\ pc[r] = "insert"
    /\ \/ /\ HasKey(r) /\ Current(r)
          /\ pc' = Set(pc, r, "put") /\ UNCHANGED <<targets, cur, rev, val>>
       \/ ~(HasKey(r) /\ Current(r)) /\ Finished(r)
    /\ UNCHANGED <<setup, graph, entries, free, keyed, since, task>>

Put(r) ==
    /\ pc[r] = "put"
    /\ entries' = [entries EXCEPT ![cur[r]] = CacheEntry(r)]
    /\ Finished(r)
    /\ UNCHANGED <<setup, graph, free, keyed, since, task>>

Respond(r) ==
    /\ pc[r] = "respond"
    /\ pc' = Set(pc, r, "idle") /\ Clear(r)
    /\ UNCHANGED <<setup, graph, entries, free, task>>

-------------------------------------------------------------------------------
(* The blocking task. *)

Done(r, how) ==
    /\ task' = Set(task, r, how)
    /\ free' = free + 1

TaskRevision(r) ==
    /\ task[r] = "revision"
    /\ \E p \in misses[r] : cur' = Set(cur, r, p)
    /\ rev' = Set(rev, r, revision)
    /\ task' = Set(task, r, "ids")
    /\ UNCHANGED <<setup, graph, entries, free, pc, targets, val, keyed, since>>

\* compute_distance: get_node_id_and_arc of both ends, without a lock.
TaskIds(r) ==
    /\ task[r] = "ids"
    /\ task' = Set(task, r, IF cur[r] \in known THEN "walk" ELSE "unknown")
    /\ UNCHANGED <<setup, graph, entries, free, pc, targets, hand, since>>

\* A batch inserts inside its task and goes on to the next target.
Computed(r, v) ==
    /\ val' = Set(val, r, v)
    /\ IF Kind(r) = "batch"
       THEN task' = Set(task, r, "insert") /\ UNCHANGED free
       ELSE Done(r, "done")
    /\ UNCHANGED <<setup, graph, entries, pc, targets, cur, rev, keyed, since>>

TaskUnknown(r) == task[r] = "unknown" /\ Computed(r, NotFound)
TaskWalk(r) == task[r] = "walk" /\ ~creating /\ Computed(r, answer[cur[r]])

BatchNext(r) ==
    /\ Hit(r, cur[r], val[r]) /\ DropHand(r)
    /\ IF misses[r] = {cur[r]}
       THEN Done(r, "done")
       ELSE task' = Set(task, r, "revision") /\ UNCHANGED free

TaskInsert(r) ==
    /\ task[r] = "insert"
    /\ \/ /\ cur[r] \in known /\ Current(r)
          /\ task' = Set(task, r, "put") /\ UNCHANGED <<free, targets, cur, rev, val>>
       \/ ~(cur[r] \in known /\ Current(r)) /\ BatchNext(r)
    /\ UNCHANGED <<setup, graph, entries, pc, keyed, since>>

TaskPut(r) ==
    /\ task[r] = "put"
    /\ entries' = [entries EXCEPT ![cur[r]] = CacheEntry(r)]
    /\ BatchNext(r)
    /\ UNCHANGED <<setup, graph, pc, keyed, since>>

TaskPlain(r) ==
    /\ task[r] = "plain"
    /\ Done(r, "done")
    /\ UNCHANGED <<setup, graph, entries, pc, targets, hand, since>>

\* Mistake: a panic keeps the permit.
TaskPanicsKeeping(r) ==
    /\ task[r] \in {"walk", "plain"}
    /\ task' = Set(task, r, "panicked")
    /\ UNCHANGED <<setup, graph, entries, free, pc, targets, hand, since>>

TaskPanics(r) ==
    /\ task[r] \in {"walk", "plain"}
    /\ Done(r, "panicked")
    /\ UNCHANGED <<setup, graph, entries, pc, targets, hand, since>>

-------------------------------------------------------------------------------
\* Queries are served once the graph is loaded from the database.
Init ==
    /\ setup \in Setup
    /\ known = Loaded /\ answer = [p \in Pair |-> NotFound] /\ creating = FALSE
    /\ revision = 1 /\ past = <<answer>>
    /\ entries = [p \in Pair |-> None] /\ free = Slots
    /\ pc = [r \in Request |-> "idle"] /\ task = [r \in Request |-> "none"]
    /\ look = [r \in Request |-> {}] /\ misses = [r \in Request |-> {}]
    /\ got = [r \in Request |-> NoPair]
    /\ cur = [r \in Request |-> None] /\ rev = [r \in Request |-> 0]
    /\ val = [r \in Request |-> NotFound] /\ keyed = [r \in Request |-> FALSE]
    /\ since = [r \in Request |-> 0]

Handle(r) ==
    \/ LookUp(r) \/ ReadEntry(r) \/ Recheck(r) \/ CacheDone(r)
    \/ Permit(r) \/ Busy(r) \/ DvmPermit(r) \/ DvmWait(r)
    \/ Collect(r) \/ Insert(r) \/ Put(r) \/ Respond(r)

Work(r) ==
    \/ TaskRevision(r) \/ TaskIds(r) \/ TaskUnknown(r) \/ TaskWalk(r)
    \/ TaskInsert(r) \/ TaskPut(r) \/ TaskPlain(r)

Client(r) ==
    \/ \E T \in SUBSET Pair, bypass \in BOOLEAN : Ask(r, T, bypass)
    \/ AskPlain(r) \/ Cancel(r)

Next ==
    \/ PublishNode \/ CountNode \/ Update \/ Evict
    \/ \E r \in Request : Handle(r) \/ Work(r) \/ TaskPanics(r) \/ Client(r)

Spec == Init /\ [][Next]_vars

-------------------------------------------------------------------------------
(* Properties. *)

Working == {"revision", "ids", "walk", "unknown", "insert", "put", "plain"}

TypeOK ==
    /\ setup \in Setup
    /\ known \subseteq Pair /\ answer \in [Pair -> Answer] /\ creating \in BOOLEAN
    /\ revision \in Nat \ {0} /\ past \in Seq([Pair -> Answer])
    /\ entries \in [Pair -> [revision : Nat, value : Answer] \cup {None}]
    /\ free \in 0..Slots
    /\ pc \in [Request -> {"idle", "cache", "entry", "recheck", "acquire", "waiting", "running",
                           "insert", "put", "second", "finishing", "gone", "respond"}]
    /\ task \in [Request -> Working \cup {"none", "done", "panicked"}]
    /\ look \in [Request -> SUBSET Pair] /\ misses \in [Request -> SUBSET Pair]
    /\ got = [r \in Request |-> got[r]] /\ \A r \in Request : DOMAIN got[r] \subseteq Pair
    /\ cur \in [Request -> Pair \cup {None}] /\ rev \in [Request -> Nat]
    /\ val \in [Request -> Answer] /\ keyed \in [Request -> BOOLEAN]
    /\ since \in [Request -> Nat]

(* "Results are snapshots of indexed events" (docs/API.md:51), with or        *)
(* without the cache: every result of a request was the graph's answer at     *)
(* some revision between its beginning and its end.                           *)
AnswersCurrent ==
    \A r \in Request : pc[r] = "respond" =>
        \A p \in DOMAIN got[r] : \E k \in since[r]..revision : got[r][p] = past[k][p]

(* "Cache entries become invalid when the graph revision changes": an entry   *)
(* labelled with a revision holds the answer of that revision, even if the    *)
(* node appeared, or the graph changed, while the entry was being made.       *)
EntriesMatchRevision ==
    \A p \in Pair : entries[p] # None =>
        /\ entries[p].revision \in 1..revision
        /\ entries[p].value = past[entries[p].revision][p]

(* "Graph computation shares a bounded worker budget with DVM requests"       *)
(* (docs/API.md:61): no more tasks run than there are permits, cancelled      *)
(* requests included, and no permit is lost to one, or to a panic.            *)
PermitsAccounted ==
    free + Cardinality({r \in Request : task[r] \in Working}) = Slots

(* Every request is answered or refused: the DVM, which waits, is not starved *)
(* by HTTP requests, which do not.                                            *)
RequestsEnd == \A r \in Request : pc[r] # "idle" ~> pc[r] = "idle"
===============================================================================
