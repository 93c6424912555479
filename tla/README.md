# A TLA+ verification of nostr-wot-oracle

The oracle follows Nostr relays, keeps the newest follow list (kind 3) and mute list (kind
10000) of every author in SQLite, mirrors them in an in-memory graph, and answers web-of-trust
queries (distance, path, trust, common follows) over HTTP and, optionally, as a NIP-90 data
vending machine (DVM). This directory holds TLA+ models of its parts, TLC configurations that
check them on small instances, and proofs that TLAPS checks for every value of the constants.
Paths below are relative to the repository.

Run in this directory: `tlc -config X.cfg M` for a row of the table of runs, `tlapm M.tla` for a
module of proofs. `PROJECT.json` maps every definition to the lines it translates, every
property to a mistake in the code that it would catch, and every hazard of the code to the
properties that cover it.

## 1. The system

| Component | State it keeps | Operations | Talks to |
|---|---|---|---|
| Ingestion service (`src/sync/ingestion.rs`, started by `src/main.rs`) | the batch, the LRU of seen events, `SyncStatus`, its receiver on the SDK's broadcast channel | receive, suppress, flush with three attempts, resync after lag, drain on shutdown | relays and the SDK client; SQLite (blocking task); graph |
| SQLite (`src/db/sqlite.rs`) | a row per pubkey with the version of its follow list, a row per mute list, two tables of edges between row ids; the write-ahead log | `update_follows_batch`, `update_mutes_batch`: one transaction each; `load_graph` | written by ingestion only; read at start |
| Replaceable-event order | none | `accepts_event`, `event_wins`, choice of a batch's winners, `newer_or_equal` | used in four places that must agree |
| In-memory graph (`src/graph/store.rs`) | pubkey/id maps, forward and reverse adjacency, metadata, mutes, a revision; the mutation mutex and five reader-writer locks | `update_follows`, `update_mutes`, `get_or_create_node`, `restore_nodes`; paged and traversing readers | written by ingestion, read by every query |
| Distance and path search (`src/graph/bfs.rs`) | per-thread scratch state, reused by later queries | `compute_distance`, `compute_path`: bidirectional search | holds the adjacency locks through `with_adjacency` |
| Query path (`src/api/http.rs`, `src/cache.rs`) | the cache (entries labelled with a graph revision), the semaphore of query permits | cache lookup, permit, blocking task, insertion | graph; shared with the DVM |
| DVM (`src/api/dvm.rs`) | relay subscription, its receiver on the SDK's broadcast channel | `start`: subscribe, receive, sleep after a lag; `handle_request`: read tags, wait for a permit where HTTP refuses, compute, send | relays and the SDK client; cache, permits, graph; started by main |
| Supervision (`src/main.rs`, `run_server`) | the select!, the shutdown watch channel, the join handles | start, stop, awaiting, exit code | all tasks; the container's restart policy |
| Interner, lock metrics, configuration, rate limiting, deployment files | see section 8 | | |

Data flows one way: relay -> SDK channel -> batch -> SQLite commit -> graph -> query. Control
flows over the shutdown channel from main to ingestion and HTTP, and back through the join
handles.

### What is hard

* **Ordering and partial failure.** Follow lists and mute lists of one batch are two
  transactions; either may fail, be retried up to three times, or commit just before a crash,
  and only then is the batch applied to the graph. Events arrive in any order, twice, or not at
  all (the broadcast channel overwrites); four independent comparisons decide which wins.
* **Rows.** One transaction is many statements: winners are coalesced, edges compared with what
  is stored, row ids allocated and cached. Any statement may fail; the process or the host may
  fail between any two; with `synchronous=NORMAL` the last commits may be gone afterwards.
* **Suppression.** A seen cache with eviction, the SDK's own deduplication and a future filter
  all drop events; each must only drop what is redundant.
* **Locks.** Six locks with an order, one of them a mutex that writers hold throughout, ids
  looked up without any lock and used later under locks, and reverse adjacency updated from a
  clone.
* **Stale values.** Results are computed at one revision and inserted into the cache later,
  while a node may be published before its revision is counted.
* **Bounded resources.** Permits survive in blocking tasks whose request was cancelled.
* **Search.** Two frontiers with a hop limit, saturating path counts, and scratch state left by
  the previous query of the thread.
* **Supervision.** Tasks may end in any order with the signal, and the exit code decides whether
  a received batch may be taken as written.

### What makes each component correct

* ingestion: only committed lists are served; graph and database agree between flushes; no
  received event is lost while the task lives; lists never roll back; they converge;
* graph: no deadlock, indices in bounds, the two adjacencies mirror each other, a list belongs
  to the version it is compared by, readers see whole and current lists;
* search: hops, counts and bridges are those of the set of all routes; paths are shortest;
* database: each list is stored whole with its event, a batch at a time; whatever a fault leaves
  behind loads; what is loaded is what was stored;
* queries: an answer was true at some moment of its request; a cache entry belongs to its label;
  no permit is lost; every request ends;
* DVM: the answer is to the question that was asked; a request it heard is handled, or its loss
  is logged;
* supervision: exit 0 means drained; failures and signals end the process.

## 2. Modules

| Module | Models | Needs |
|---|---|---|
| `EventOrder` | the order as each of the four places writes it | |
| `ReplaceableLists` | abstract: a last-writer-wins register per list and a served copy that catches up | `EventOrder` |
| `Ingestion` | relays, SDK client, ingestion task, transactions, graph as a map of lists, crash and restart | `EventOrder`; refines `ReplaceableLists` |
| `MCIngestion` | events for TLC | `Ingestion` |
| `Ingestion_proofs` | graph and database decide alike; types, `Agreement`, `ServedIsCommitted`, `IdleAgreement`, `ListsOnlyAdvance`, provenance, refinement; `ReceivedNotLost`, `DrainedOnShutdown`, `NoFutureDated`, `ReadyMeansPersisting`; a transaction is a batch of `ListStore` | `Ingestion` |
| `PublishedGraph` | abstract: what those who keep what they have read of the graph rely on: ids stay, changes are counted, versions advance | |
| `GraphStore`, `MCGraphStore` | the graph at the grain of its locks | refines `PublishedGraph` |
| `GraphStore_proofs` | freedom from deadlock; types, `IdsInBounds`, `Mirror`, `ListsMatchVersions`, `QueriesShowWholeLists`; the refinement of `PublishedGraph` | `GraphStore` |
| `ListStore` | abstract: per author two lists, batches stored as a whole, what each fault may lose, what a restart finds | `EventOrder` |
| `Database`, `MCDatabase` | `update_lists_batch` statement by statement, log and checkpoint, faults, `load_graph` | `EventOrder`; refines `ListStore` |
| `Database_proofs` | types (a failed transaction leaves nothing), `AlwaysLoads`, the refinement of `ListStore` | `Database` |
| `Queries`, `MCQueries` | cache, permits, handlers, blocking tasks, the DVM's way through them | |
| `Queries_proofs` | types, `AnswersCurrent`, `EntriesMatchRevision`, `PermitsAccounted` | `Queries` |
| `Dvm`, `MCDvm` | the DVM's loop, channel, requests and replies | extends `Queries` |
| `Dvm_proofs` | what reading the tags computes; the DVM is a behaviour of `Queries`; `AnswersTheQuestion` | `Dvm`, `Queries_proofs` |
| `Routes` | reference definitions: routes, distance | |
| `Bfs` | `compute_distance` | its properties compare it with `Routes` |
| `Bfs_proofs` | what `Routes` defines, for every graph; types, `LevelsExact`, `DistanceExact`, `PathCountExact`, `BridgesAreOneLayer` | `Bfs` |
| `BfsPath` | `compute_path` | |
| `Search`, `MCSearch` | both searches on one graph and one question | `Bfs`, instance of `BfsPath` |
| `Search_proofs` | `PathIsShortest`, `EndpointsAgree` | `Search`, `Bfs_proofs` |
| `Supervisor` | main, its tasks as main sees them, operator and container | |
| `Supervisor_proofs` | types, what exit code 0 means | `Supervisor` |

The modules fit together by abstraction. `Ingestion` treats a graph update as one step, which
`GraphStore` justifies (a writer holds the mutation mutex throughout, and readers see whole
lists), and a transaction as one step, which `Database` justifies: it implements `ListStore`, and
each transaction of `Ingestion` stores its batch as `ListStore` says (`TransactionsAreStores`); `Dvm`
is `Queries` with one of its request slots driven by the DVM's loop; `Queries` treats a traversal
as one step and splits only what the locks do not cover (the id is published before the revision
is counted): its `PublishNode`, `CountNode` and `Update` are those of `PublishedGraph`, which
`GraphStore` implements; `Bfs` and `BfsPath` search a fixed graph
because `with_adjacency` holds the locks; `Supervisor` keeps of the tasks only what main can
observe.

### How state and actions correspond to the code

**Ingestion.** `pc` is the place in `start`, `flush` and `persist_and_apply`: `connect`, `recv`
(the select!), `follows` and `mutes` (about to commit the transaction of that name), `apply`
(both committed, publishing), `backoff`, `resync`, `closed`, `drain`, `stopped` (the task has
ended), `down` (no process). `after` is where `flush` returns to. An event *is* its list: the id
is a hash of the content, so database rows and adjacency lists are named by the event they come
from. `Suppress` and `Receive` are the two outcomes of a received notification; `CommitFollows`,
`CommitMutes`, `TransactionFails`, `Retry`, `PersistPanics` and `Apply` are the parts of
`persist_and_apply` and the attempts around it. The seen cache is a set whose eviction victim is
arbitrary: a superset of LRU. `select!` is biased, so `Drain` is the only receiving step once
shutdown is set. `Disconnect` ends the task after the drain, `DisconnectFails` with an error.
`Crash` loses everything but `db`; `Boot` loads the graph. `Ready` leaves out the age of the last
event (`src/sync/ingestion.rs:47`-`48`), which can only turn readiness off: the states it calls
ready are a superset of the code's.

**GraphStore.** A thread's `want` is the list of locks it still has to take, in order.
`Announce`/`Exclude`/`Share` are the two halves of taking a write lock and the taking of a read
lock: a waiting writer already keeps new readers out, as the locks used do. The other actions
are what a thread does when it holds what it needs: `Found`, `Create`, `Push`, `PublishId`,
`BumpRevision` (creating a node), `Accept`, `Reject`, `Clone`, `Swap`, `Stamp` (follow update),
`Store` (mute update), `Merge` (restoring a snapshot), `Ask`, `Look`, `Read` (every reader).
Guards that the code drops together at the end of a scope are dropped in one step.

**Database.** A batch goes through `Coalesce` (once per update), `Transaction`, and per winner `Skip`
or `Upsert`, `DeleteEdge`s, `InsertEdge`s and `Accept`; `Commit` appends the tables to `wal`, the
tables committed since the last checkpoint. `node_ids` is the code's cache of ids inside the
transaction. `StatementFails` drops the transaction, which rolls it back; `Crash` loses what is
not committed, `HostFails` also commits from some point of the log on. `Load` validates and
builds the snapshot by the ranks of row ids. The list of an author is the version in its row with
the edges that leave it; the refinement reads tables, log and snapshot as such lists.

**Dvm.** `Subscribe` and `Listen` are apart as in the code; `Arrive` is the client passing a
request to the channel, which overwrites its oldest entry when full; `Recv` reads the tags with
`Read`, a fold of `ReadTag` over them, where the parts of an "i" value are what `split(':')` gives
(an empty value is one empty string) and a depth that is no u8 means the default (`Hops`). What happens then is `Handle` of the slot `Server` in
`Queries`, until `Result` or `Panicked`. The history `fate` follows one marked request.

**Queries.** A request's `pc` is its handler's place, `task` its blocking task's. `Cancel` drops
the handler and leaves the task running with its permit, as dropping a `spawn_blocking` join
handle does. `rev`, `val`, `keyed` are the locals between reading the revision, looking up ids,
traversing and inserting; the cache may evict at any time. `setup`, chosen once, says which kind
of request each slot sends and how many permits there are, so that one run covers several. A pair
has two different ends: a key asked about itself is answered without the graph, whether the graph
knows it or not (`src/graph/bfs.rs:119`-`124`), and is not modelled.

**Bfs, BfsPath, Search.** One step expands one level of one side (`ExpandForward`, `ExpandBackward`) and
records its meetings (`Meet`); `Finished` is the loop's test; scratch state (reset by `Clear`)
is per thread and survives from query to query, so the runs ask several queries in a row. Ids
are unordered: the order in which a level is visited, and so the parents `compute_path`
remembers, is nondeterministic. `Search` puts a question that `compute_distance` has answered to
`compute_path` as well.

**Supervisor.** The variable `main` is main's place; `finished` is the handle the select! has
already consumed and must not be awaited again. `SelectSignalFails` is `shutdown_signal` returning
an error, which main reports after both drains. A disconnect that fails behind the drain is here a
`Flush` followed by `IngestionFails`.

## 3. Runs

Every passing run explores its whole state space.

| Run | Bounds | Shows |
|---|---|---|
| `ingestion_safety` | one author, two follow lists with one timestamp, a newer one, a mute list; channel 2, batch 2, seen cache 1; 3 failures, 1 crash or signal, 1 lost notification | `TypeOK`, `Agreement`, `ServedIsCommitted`, `IdleAgreement`, `ReceivedNotLost`, `DrainedOnShutdown`, `ReadyMeansPersisting`, `ListsOnlyAdvance`, and that the service implements `ReplaceableLists` |
| `ingestion_convergence` | two authors, all kinds, a future-dated event, a clock that ticks once; 1 failure, 1 crash, 1 lost notification | `NoFutureDated`; `Convergence` under `FairSpec` |
| `ingestion_count` | one author, a tie and a mute list | violates `PersistedCountExact` (finding 1) |
| `graphstore_updates` | three threads, three pubkeys, two follow updates and a mute update of one author, three kinds of reader | `TypeOK`, `NoCircularWait`, `IdsInBounds`, `ListsMatchVersions`, `QueriesShowWholeLists` |
| `graphstore_restore` | two threads, a snapshot, an older and a newer live update of its author, a node lookup, five kinds of reader | `Mirror` with `restore_nodes`, and that the graph implements `PublishedGraph`; `CallsReturn` under `FairSpec` |
| `database` | three pubkeys, five batches (two events of one author, ties, empty lists, new pubkeys, both kinds), a database of an older version with gaps in its ids; 3 commits in the log, 2 faults | `TypeOK`, `AlwaysLoads`, and that rows implement lists: `ImplementsListStore` |
| `queries_cache` | two request slots, one pair, graph revisions 1 to 4; three setups: trust and batch with two permits, plain and DVM with one, batch and DVM with one | `TypeOK`, `AnswersCurrent`, `EntriesMatchRevision`, `PermitsAccounted` |
| `dvm` | the DVM and plain HTTP requests over one permit, a channel of one, three messages: one tag with both pubkeys and the default depth, the two ends in reverse order with four depths of which the last is valid, and one to be refused; the question at two depths and its opposite as cache keys; one change of the graph | `AnswersTheQuestion`; `HeardIsHandled`, `RequestsEnd` under `DvmSpec` |
| `search` | two families of graphs over seven nodes, nine questions (hop limits 0 to 5, equal ends, an unknown node), counts saturating at 2 | `TypeOK`, `LevelsExact`, `DistanceExact`, `PathCountExact`, `BridgesAreOneLayer`, `PathIsShortest`, `EndpointsAgree` |
| `bfs_bridges` | the same (`Search_bridges.cfg`) | violates `BridgesReturned` (finding 2) |
| `supervisor_exit` | two requests in flight, three faults anywhere, DVM on | `TypeOK`, `CleanExit`, `FailureEndsProcess`, `SignalEndsProcess` |
| `supervisor_dvm` | one request, one fault | violates `EveryServiceSupervised` (finding 3) |

### Why the bounds are enough

* *Ingestion.* Four events give every relation two lists can have (newer, tie decided by id,
  other kind) and three follow lists let a retried batch meet a newer row. A batch of two holds
  both kinds; a seen cache of one is always evicting. Three failures reach the last attempt. The
  proofs in section 6 remove every one of these bounds for the properties proved.
* *GraphStore.* Mutation lets one writer at a time past it, so a cycle can have at most that
  writer and readers that hold one lock and ask for another; two readers and a writer fit into
  three threads. Two lists with a shared target exercise edges that stay, come and go.
* *Database.* Ids are compared, ranked and cached; three pubkeys, of which one has no row and two
  have ids with a gap before each, give every rank that differs from its id. Two faults are a
  failed statement followed by a crash, or a host failure after the rollback; three commits in the
  log let a failure lose none, some or all. `EmptyAssumption` says what a database that is opened
  first must satisfy; the model starts from one of an older version. The proofs remove the bounds.
* *Dvm.* One entry is enough for a channel to overwrite; the marked request may be any of the
  requests that arrive, before, after or instead of others. The question of `AnswersTheQuestion`
  is which message is read how, and does not depend on the graph, which changes once, nor on the
  values of answers, of which there is one. Two pubkeys have two questions, one the other turned
  around; depths that are no number, too big for a u8, out of range and valid come before each
  other. The two "i" tags of the third format occur only in the message that is refused: the proof
  removes the bounds for `AnswersTheQuestion`, and covers all formats.
* *Queries.* An entry is wrong only if its revision, ids and value were read on different sides
  of a change: two changes per request are enough to be on both sides of one. Counters of
  revisions grow without bound in the code; `MaxRevision` stops the model at 4.
* *Search.* The search alternates sides by frontier size; the families contain every graph over
  three middle nodes (with edges back to the source), and layered graphs in which routes part,
  join and skip a level, so that each side is expanded at least twice and counts are summed on
  both. `MaxCount` 2 stands for the saturation at `u64::MAX`: the graphs have more routes than
  that. The proofs remove these bounds: the properties hold for every finite graph, every
  question and every positive `MaxCount`.
* *Supervisor.* Three faults let every task fail in one process.

Deadlock is not checked where the system may stop: `Ingestion` and `GraphStore` have bounded
work, after which nothing happens; a stopped container stays stopped in `Supervisor`. `Database`,
`Queries`, `Dvm` and `Search` never stop, and are checked for deadlock.

## 4. Fairness

* `Ingestion!FairSpec`: the runtime schedules the task and the container restarts an exited
  process (`restart: unless-stopped`), both in `WF(Service)`; relays send at least the newest
  event of each list to a client that lacks it (replaceable events; the subscription has no
  `since`). Failures, crashes and losses are unfair: they need not happen, and are bounded,
  because a database that fails for ever converges to nothing.
* `GraphStore!FairSpec`: a thread inside a call runs; nobody has to call. No strong fairness: a
  waiting writer holds the lock's writer bit, so readers cannot starve it.
* `Dvm!DvmSpec`: the runtime schedules the DVM's loop, the handlers and the blocking tasks, and a
  writer leaves its critical section (`CountNode`). The waiting request needs no more: the
  semaphore is fair, which `Available` models: a permit released while the DVM waits is out of
  reach of everybody else. Arrivals, graph updates, panics and cancellations are unfair.
* `Supervisor!FairSpec`: main and each task's next step, responses (justified by `RequestsEnd`),
  and the container's restart. `WF(Drain)`: select! is biased towards shutdown, so receiving
  cannot starve it.

## 5. Findings

Three places where a document or comment and the code disagree; each is a run that TLC refutes.

1. **`persisted_events` can undercount** (`ingestion_count`). When the follow transaction
   commits and the mute transaction fails, the count of the first is lost with the error; the
   retry finds its rows already stored and counts 0 for them (`src/sync/ingestion.rs:319`,
   against `docs/API.md:54`).
2. **Bridges may be empty although there is an intermediate** (`bfs_bridges`). Ties expand the
   forward side, so on a chain of two follows both levels are expanded forward, the searches
   meet at the target, and the target is not a bridge (`src/graph/bfs.rs:338`, against
   `docs/BRD.md:38` and `:58`).
3. **The DVM is not supervised** (`supervisor_dvm`). Its handle is in no select!; a failure
   leaves the process running without it (`src/main.rs:89`, against the comment at
   `src/main.rs:83`).

A fourth one has no run of its own: `docs/BRD.md:92`-`98` shows DVM requests with
`["param", "target", ...]` tags, which `handle_request` does not read and answers with an error
(`ReadTag`, last case). `docs/DVM.md` gives the formats that the code accepts; `AnswersTheQuestion`
is about those, and about the depth: the last `max_hops` is honoured if it is in range, and the
default is taken if there is none (`Honours`).

## 6. Proofs

| Theorem | Module | Says |
|---|---|---|
| `GraphAndDatabaseAgree` | `Ingestion_proofs` | `accepts_event` and `event_wins` decide alike for events with timestamp and id |
| `TypeCorrect` | `Ingestion_proofs` | `Spec => []TypeOK` |
| `AgreementCorrect` | `Ingestion_proofs` | `Spec => []Agreement` |
| `ServedCommitted` | `Ingestion_proofs` | `Spec => []ServedIsCommitted` |
| `IdleAgreementCorrect` | `Ingestion_proofs` | `Spec => []IdleAgreement` |
| `ListsAdvance` | `Ingestion_proofs` | `Spec => ListsOnlyAdvance` |
| `ProvenanceCorrect` | `Ingestion_proofs` | `Spec => []Provenance`: everything anywhere was published |
| `IngestionImplementsLists` | `Ingestion_proofs` | `Spec => ImplementsLists` |
| `NothingReceivedIsLost` | `Ingestion_proofs` | `Spec => []ReceivedNotLost` |
| `DrainCorrect` | `Ingestion_proofs` | `Spec => []DrainedOnShutdown` |
| `NothingFutureDated` | `Ingestion_proofs` | `Spec => []NoFutureDated` |
| `ReadyCorrect` | `Ingestion_proofs` | `Spec => []ReadyMeansPersisting` |
| `TransactionsAreStores` | `Ingestion_proofs` | `Spec => TransactionsStoreBatches`: the rows change only as `ListStore` stores a batch |
| `NoDeadlock` | `GraphStore_proofs` | `Spec => []NoCircularWait` |
| `IdsAlwaysInBounds` | `GraphStore_proofs` | `Spec => []IdsInBounds` |
| `MirrorCorrect` | `GraphStore_proofs` | `Spec => []Mirror` |
| `ListsMatchVersionsCorrect` | `GraphStore_proofs` | `Spec => []ListsMatchVersions` |
| `QueriesCorrect` | `GraphStore_proofs` | `Spec => []QueriesShowWholeLists` |
| `GraphImplementsPublished` | `GraphStore_proofs` | `Spec => ImplementsPublishedGraph` |
| `TypeCorrect` | `GraphStore_proofs` | `Spec => []TypeOK` |
| `TypeCorrect` | `Database_proofs` | `Spec => []TypeOK` |
| `DiskAlwaysLoads` | `Database_proofs` | `Spec => []AlwaysLoads` |
| `DatabaseImplementsListStore` | `Database_proofs` | `Spec => ImplementsListStore` |
| `TypeCorrect` | `Queries_proofs` | `Spec => []TypeOK` |
| `AnswersAreCurrent` | `Queries_proofs` | `Spec => []AnswersCurrent` |
| `EntriesCorrect` | `Queries_proofs` | `Spec => []EntriesMatchRevision` |
| `PermitsCorrect` | `Queries_proofs` | `Spec => []PermitsAccounted` |
| `DvmUsesQueries` | `Dvm_proofs` | `DvmSpec => Spec`: the DVM beside HTTP is a behaviour of `Queries` |
| `DvmKeepsQueries` | `Dvm_proofs` | `DvmSpec => [](AnswersCurrent /\ EntriesMatchRevision /\ PermitsAccounted)` |
| `QuestionsAnswered` | `Dvm_proofs` | `DvmSpec => []AnswersTheQuestion` |
| `TypeCorrect` | `Bfs_proofs` | `Spec => []TypeOK` |
| `LevelsCorrect` | `Bfs_proofs` | `Spec => []LevelsExact` |
| `DistanceCorrect` | `Bfs_proofs` | `Spec => []DistanceExact` |
| `PathCountCorrect` | `Bfs_proofs` | `Spec => []PathCountExact` |
| `BridgesCorrect` | `Bfs_proofs` | `Spec => []BridgesAreOneLayer` |
| `PathCorrect` | `Search_proofs` | `SearchSpec => []PathIsShortest` |
| `EndpointsCorrect` | `Search_proofs` | `SearchSpec => []EndpointsAgree` |
| `TypeCorrect` | `Supervisor_proofs` | `Spec => []TypeOK` |
| `CleanExitCorrect` | `Supervisor_proofs` | `Spec => CleanExit` |

The proofs about ingestion assume only what `Ingestion` names: `EventAssumption` (ids identify
events: they are hashes) and `BoundAssumption` (sizes are natural numbers, capacities positive).
`Event` may be infinite, and the bounds are arbitrary.

*Ingestion.* `ServedIsCommitted` is not inductive: between the two transactions, or after one of
them has committed and the other failed, the graph and the database differ, and one must know
that the difference will be made good. `Agreement` says by how much they may differ: only by
lists that are winners of the batch in hand and beat what the graph serves (`Behind`); once both
transactions have committed every winner is in the database or superseded there; during
publication the graph lacks only what is still to be applied. Then `FlushDone` finds them equal.
The proof has one lemma per group of actions; the order's laws (total on events, transitive,
antisymmetric) and `GraphAndDatabaseAgree`, without which an event accepted by one store and
refused by the other would break the equality, are lemmas of their own. `ProvenanceCorrect` is
the further invariant that the refinement needs: the abstract register may only store what was
published.

`ReceivedNotLost` becomes inductive with `Delivery`: the seen cache suppresses only for events
that were received themselves, a flush starts with nothing left of the one before, and the task
leaves its loop with an empty batch. An update that a flush drops is redundant because of a winner
(`WinnerExists`): of the updates of a list that beat it, one that the fewest others beat is beaten
by none, since proper subsets of a finite set are well-founded. `DrainedOnShutdown` is then what
is left of `Delivery` when nothing is in hand. `NoFutureDated` needs the bound for what waits in
the batches, `ReadyMeansPersisting` that an attempt number above 0 means `failed`.

`TransactionsAreStores` joins the service to its database. `Database` proves that
`update_lists_batch`, with its own coalescing, edge differences and faults, does what `ListStore`
says of a batch; `Ingestion` takes a transaction as one step that writes the winners that beat
their rows. The theorem says that these are the same: with `Rows` for the lists the rows hold
(`Targets` gives an event its list, any at all), no step but `CommitFollows` and `CommitMutes`
changes the rows; given the winners of its kind in any order, each leaves exactly `After` of that
batch, and adds to `count` the number of authors whose row changed, which is what the call returns.
It needs that winners are unique per list (`OneOffer`), so that `ListStore`'s choice of the newest
offer has nothing to choose, and that the test on rows is the test on events (`RowBeats`); its one
hypothesis is that no row is `None`. This is what makes finding 1 a matter of the service: the
calls report right, `Retry` throws a report away.

*GraphStore.* Absence of a circular wait is a property of all threads together; what is
inductive is `Discipline`, which speaks of one thread at a time: at each place of its code it
holds only certain locks, it asks for locks in ascending rank, and every lock it holds ranks
below every lock it still asks for, with one exception: a writer that waits for readers to leave
owns the writer bit of the lock it is waiting for. `Level` orders threads by the rank of the
lock they wait for, with such a writer half a rank higher and threads that wait for nothing at
the top. Every wait goes from a lower to a higher level (`WaitsUp`), so in any set of threads
one at the highest level waits for none of the set. The number of threads, jobs and queries is
arbitrary; the assumptions used are `ThreadAssumption`, `JobAssumption` and `QueryAssumption`.

What the graph holds is the second half of `GraphStore_proofs`. `Contents` starts from exclusion
(`Owner`: a thread in an update and past its wait for mutation is its writer), so that every
other thread's knowledge survives a step of that one (`TaskWaiting`), and says what the owner is
in the middle of (`Task`): which pubkeys have ids already and which are still to be given one,
that the node just pushed is the last and has no id yet, and that the list cloned for an update
is still the one in place when the difference to it is applied. From this every id is a name's
position and `Mirror` survives `Swap`, although it applies a difference computed from a copy.
`Records` adds history: every list comes from one update together with its version, except a
list that has been swapped and waits for its stamp; an accepted update stays newer than what is
stored until it is stored itself; and an update that is done is not newer than the version at its
author's node. A query reads under locks taken after its lookup, and `QueriesShowWholeLists`
follows because ids are never reassigned. `PubkeyAssumption` (finitely many pubkeys) is used only
to bound ids by their number.

The cache keeps ids and a revision after the locks are gone, and relies on more than a state can
say. `PublishedGraph` says it as steps: a node is published before anything is known of it and
counted by the graph's next step (`Uncounted` holds in between, and nothing else changes while it
does); the lists of published nodes change only in a step that counts a revision; the version a
list is compared by never goes back; an id never changes. `GraphImplementsPublished` maps `PublishId`,
`BumpRevision`, `Swap`, `Stamp`, `Store` and `Merge` to those steps and all others to stutters,
with `Contents` and `Records`: a node whose id is about to be published has no list yet
(`FreshNode`), the list that `Swap` compares with is the one in place, and the version that `Stamp`
writes was found newer than the one it replaces and still is (`PassedCheck`).

*Queries.* `IInv` follows a value on its way. What is in hand (`HandOK`) was an answer at some
revision not before the one read for it (`WasAnswer`), and that one not before the request; when
an insertion has passed its last check, or a lookup has matched an entry, the value is the answer
at exactly that revision. The critical step is a node that appears: `TaskIds` may look before
`PublishNode` and read the revision before `CountNode`, but a pair that is not known has the
answer `NotFound` at the present revision (`GraphOK`), so that "unknown" is an answer too.
`PhaseOK` ties the handler's place to its task's: a permit is taken only by a request that has no
task, so each of `Permit`, the task's end, a panic and a cancellation changes the number of
working tasks by what it changes `free` by. `GraphChangeKeepsInv` carries it all over a change of
the graph: what was an answer still is one. Kinds, permits, requests, pairs and the number of
graph changes are arbitrary, the set of requests finite.

*Database.* `AlwaysLoads` needs to know what a transaction is in the middle of. The invariant says
that the tables a transaction sees are themselves complete (edges join rows, a mute edge has its
list, ids are distinct and not above `last`), that the author in hand has its row and, for mutes,
its list before any edge is made, and that the cache of ids agrees with the rows the transaction
sees, which is why it has to die with the transaction. Every committed table is then complete,
and with it every prefix of the log. The only assumption about the database opened first is
`EmptyAssumption`: complete tables, with a version only in a row that exists.

`ImplementsListStore` needs to know, of every author of a batch, how far its list is (`RInv`).
While coalescing, the winner is beaten by none of the updates seen (`Coalesced`), which takes the
order's transitivity; that makes it the newest of what is offered, and of what is stored if it
beats that (`NewestOfWinner`). In the transaction an author's list is the old one or the new one
(`Settled`), except for the author in hand, whose version is new and whose edges are the new list
without `added` and with `removed` (`InHand`); `accepted` counts the new ones that differ.
Statement lemmas (`InsertedLists`, `UpsertedLists`, `EdgeLists`) say that a new row, a new version
or one edge changes no other list, because ids are distinct and edges join rows. For the restart,
a row's position in the snapshot is a bijection between ids and indexes (`PositionsOrder`), so that
the snapshot reads back as what is stored (`ReadsBack`). The assumptions are that pubkeys are
finitely many, that the updates of one batch with one author, timestamp and id are one update
(`HashAssumption`: an id is a hash), and that the absent value is no other value
(`AbsentAssumption`).

*DVM.* What `Read` computes depends on a fold over any number of tags. The library's induction
theorems take an operator, which the provers cannot instantiate; `NatInduct` states induction for
a *set* of numbers instead, from the well-foundedness of `<`, and with it the recursive function
behind the fold is shown to exist, and to make one `ReadTag` step per tag (`ReadSteps`).
`ReadAlong` then carries a claim about the inputs along the tags, once for each documented format:
a "to" that comes first waits for the "from" to be put before it, and no other tag changes the
inputs. With it goes what the depth is after each tag (`Honoured`). `StepOfQueries` shows that every step of the DVM is one of `Queries` or leaves its state
alone, so `IInv` of `Queries` holds with the DVM too (`DvmUsesQueries`). `Serving` follows the
question through the slot: it is the only one among what is to be looked up, what was missed and
what is answered, it is the one in hand wherever one is, and the steps of other slots leave all
that alone (`OtherSlot`); the reply is therefore a result for that question. The assumptions are
`ServerAssumption` (the loop is the one handler of kind "dvm"), `CapacityAssumption`,
`HopsAssumption` (1 <= default <= limit, as configuration clamps them, the limit a u8, and no
number absent) and `MessageAssumption` (a message is a sequence of tags, a `max_hops` value a
number or none, an "i" value has a part, and the accepted questions are among the cache's keys).

*Distance search.* First `Routes`, for every finite graph: the recursive function behind `Within`
exists (`NatInduct` again), its n-th value is the ball of radius n, the ring n the nodes at
distance n. Balls are the same seen from the other end of the edges (`Mirrors`), `Distance` is the
number of a ring, and the shortest routes between two nodes are the walks that step from ring to
ring. Then the search: a side holds a ball, each node with its ring and the number of shortest
walks to it (`Side`), and a level extends it by a ring (`VisitNext`): the number of walks to a node
of the next ring is the sum over its predecessors, for which the fold over a set is shown to exist
and to be that sum (`FoldExists`), and saturating each partial sum is saturating the sum. `IInv`
says that while nothing is met, no route is as short as the levels of both sides together
(`Apart`), or else that the level just expanded met over exactly the edges between the two last
rings (`Joined`, `MetIsCrossing`), so that all meetings of a level are equally near and none is
dropped. Each shortest walk takes exactly one of these edges, so the products of the counts at
their ends add up to the number of routes (`CrossingCounts`), and the met nodes are one layer of
them. The invariant does not say which side is extended when: the answer does not depend on it.
The assumptions are `NodeAssumption` (finitely many ids), `GraphAssumption`, `QueryAssumption` and
`MaxCountAssumption` (positive).

*Path search.* Here a side remembers parents, each one ring nearer and itself with a parent or the
root (`Chained`), so climbing from ring i arrives at the root in i steps (`ClimbReaches`; `Up` and
`Down` are recursive functions again). The search stops at the first meeting, which lies in ring i of one
side and ring j of the other while no route is shorter than i + j (`MetAt`): both climbs together
are a shortest route, whichever node was met and whichever parents were kept
(`RouteIsShortest`). `EndpointsAgree` needs nothing more: both answers are right about one graph.
The only further assumption is `NoNodeAssumption` (the absent meeting node is no id).

*Supervisor.* `Carried` says what outcome 0 stands for at each of main's two awaits: a signal
was seen, no handle is consumed, and behind the first await ingestion has ended well. Only
`AwaitHttp` exits with 0.

## 7. Only model-checked

Every invariant and every safety property of a step that a run checks is proved. What stays with
TLC is liveness (`Convergence`, `CallsReturn`, `RequestsEnd`, `HeardIsHandled`,
`FailureEndsProcess`, `SignalEndsProcess`): fairness and ENABLED are beyond the prover. Those
properties hold for the bounds of section 3 only.

## 8. Abstractions, and what is not modelled

* Wall clock: monotone. Timers are steps that may come at any time.
* SQLite itself keeps its promises: a transaction is atomic, rowids are one above the largest, and
  the log is recovered up to a commit. Its page cache and file layout are not modelled, nor are
  the functions of `src/db/sqlite.rs` that the service does not call (`upsert_node`, sync state,
  statistics, marked dead) and the dropping of redundant indexes at start.
* The DVM's channel closes only with its client, which lives as long as the loop: that branch of
  the loop is left out. Signing and relaying of a response is one step that may fail.
* Counters nothing decides by (`lagged_notifications`, `persistence_errors`, cache hits, lock
  metrics) and the `last_*` timestamps are no state.
* The cache library's eviction is arbitrary: any entry, any time.
* `include_bridges` is always on in `Bfs`; turning it off only empties the field. The search's
  followers are taken to mirror the follows, which `MirrorCorrect` proves of `GraphStore`.
* Request validation and rate limiting are functions of one request or a library's (the limiter is
  tower_governor's, its key extractor reads one header); configuration is read once at start. The
  interner is a map from a string to its shared copy whose only effect is memory. The lock
  metrics are counters that nothing reads back.
* Three hazards have no property: relays that lag the fresh client again and again
  (`src/sync/ingestion.rs:169`: the rates are outside the code), `get_trust` answering 503 at its
  second permit (`src/api/http.rs:485`: nothing promises otherwise), and a restart that waits for
  a client that never reads (`src/main.rs:154`: the program sets no timeout).
* Not modelled: benchmarks, container and proxy files (the restart policy and stop signal are
  environment actions).

## 9. Plan

Order of the work: the ingestion pipeline first, because every other part reads what it writes;
then the graph it publishes to, the queries over it, the searches, the supervision; then the rows
under the lists, and the DVM around its queries. All of it is modelled, and every safety property
that a run checks is proved, and so are the joints of `Ingestion` with `ListStore` and of
`GraphStore` with what `Queries` assumes. What is left:

1. That a finished follow update of `GraphStore` is one step of the map of lists that `Ingestion`
   serves, and that a traversal of it is what `Queries` calls `answer`: section 2 argues this in
   words, from exclusion and `QueriesCorrect`.
2. The safety halves of the liveness properties: what must hold at a place where a request or a
   thread waits, for someone else to be able to move.
