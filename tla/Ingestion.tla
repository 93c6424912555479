------------------------------- MODULE Ingestion -------------------------------
(***************************************************************************)
(* The ingestion service (sync/ingestion.rs) between the relays, the SDK   *)
(* client, SQLite and the in-memory graph: receiving and suppressing       *)
(* events, batching, the three persistence attempts, the separate follow   *)
(* and mute transactions, publication to the graph, lag recovery, graceful *)
(* drain, and the crash and restart of the whole process (main.rs).        *)
(*                                                                         *)
(* An event stands for its list: the ID is a hash of the content, so a     *)
(* database row set or an adjacency list is named by the event it came     *)
(* from.  A transaction commits as a whole or not at all; the locks of the *)
(* graph are GraphStore's subject, the rest of main is Supervisor's.       *)
(***************************************************************************)
EXTENDS EventOrder, Sequences, FiniteSets

CONSTANTS
    Author,           \* authors of lists
    Event,            \* the events that may ever be published
    BatchSize,        \* BATCH_SIZE
    SeenCapacity,     \* SEEN_CACHE_CAPACITY
    ChannelCapacity,  \* slots of the SDK's broadcast channel
    FutureSkew,       \* 600 seconds, in clock units
    MaxClock,         \* bound: the clock stops here
    MaxFailures,      \* bound: transactions, connections and tasks that fail
    MaxCrashes,       \* bound: kills and SIGTERMs
    MaxLost           \* bound: notifications overwritten by the channel

Kind == {"follow", "mute"}
Key == Author \X Kind
Attempts == 3

\* IDs are content hashes: two events with one ID are the same event.
ASSUME EventAssumption ==
    /\ Event \subseteq [author : Author, kind : Kind \cup {"other"},
                        created_at : Nat, id : Nat]
    /\ \A e, f \in Event : e.id = f.id => e = f
    /\ None \notin Event
ASSUME BoundAssumption ==
    /\ {BatchSize, SeenCapacity, ChannelCapacity} \subseteq Nat \ {0}
    /\ {FutureSkew, MaxClock, MaxFailures, MaxCrashes, MaxLost} \subseteq Nat

VARIABLES
    published,   \* events the relays hold
    clock,       \* wall clock of the service
    db,          \* committed list per (author, kind): an event or None
    pc,          \* where the ingestion task is
    after,       \* where flush returns to
    channel,     \* the SDK's notification channel
    lagged,      \* the receiver has missed notifications
    sdkSeen,     \* event IDs the SDK client suppresses
    seen,        \* the LRU of dominating events, as a set
    batch,       \* updates received and not yet flushed
    updates,     \* the batch the current flush has taken
    attempt,     \* flush's attempt number, from 0
    count,       \* what the running persist_and_apply will return
    applying,    \* winners not yet published to the graph
    graph,       \* list the graph serves per (author, kind)
    running,     \* SyncStatus.running
    failed,      \* SyncStatus.failed
    persisted,   \* SyncStatus.persisted_events
    shutdown,    \* the watch channel's value
    failures,    \* bound: failures so far
    crashes,     \* bound: kills and signals so far
    lost,        \* bound: lost notifications so far
    received,    \* history: list events this process took from the channel
    rejected,    \* history: events this client dropped as future-dated
    accepted     \* history: author updates committed by this process

env      == <<published, clock>>
client   == <<channel, lagged, sdkSeen, rejected>>
inbox    == <<seen, batch, received>>
flushing == <<after, updates, attempt, count, applying>>
stores   == <<db, graph, accepted>>
status   == <<running, failed, persisted>>
budget   == <<failures, crashes, lost>>
vars     == <<env, client, inbox, flushing, stores, pc, status, shutdown, budget>>

KeyOf(e) == <<e.author, e.kind>>
Ts(e) == IF e = None THEN None ELSE e.created_at
Id(e) == IF e = None THEN None ELSE e.id
Empty == [k \in Key |-> None]

\* Mistakes the mutation runs make: the database or the graph leaves out the
\* tie-break on IDs, or the graph trusts the database's decision.
DbAcceptsTies(e, row) == row = None \/ e.created_at >= row.created_at
GraphAcceptsNewer(e, row) == row = None \/ e.created_at > row.created_at
GraphAcceptsAll(e, row) == TRUE

\* update_lists_batch's test against the stored row, update_follows' and
\* update_mutes' test against the stored metadata, and the batch's own.
DbAccepts(e, row) == EventWins(Ts(e), Id(e), Ts(row), Id(row))
GraphAccepts(e, row) == AcceptsEvent(Ts(row), Id(row), Ts(e), Id(e))
Beats(e, f) == Supersedes(e.created_at, e.id, f.created_at, f.id)

\* The events persist_and_apply selects: one per (kind, author).
Winners(s) ==
    {s[i] : i \in {i \in DOMAIN s :
        \A j \in DOMAIN s : KeyOf(s[j]) = KeyOf(s[i]) => ~Beats(s[j], s[i])}}

Items(kind) == {e \in Winners(updates) : e.kind = kind}

\* The winners of one transaction that change their author's row.
Accepted(kind) == {e \in Items(kind) : DbAccepts(e, db[KeyOf(e)])}

\* Mistake: only the rows of the batch survive.
CommitOnly(S) == [k \in {KeyOf(e) : e \in S} |-> CHOOSE e \in S : KeyOf(e) = k]

Commit(S) ==
    [k \in Key |-> IF \E e \in S : KeyOf(e) = k
                   THEN CHOOSE e \in S : KeyOf(e) = k ELSE db[k]]

Live == {"recv", "follows", "mutes", "apply", "backoff", "resync", "closed", "drain"}
Persisting == {"follows", "mutes", "apply"}

\* Mistake: start() forgets to clear running.
StopRunning(error) ==
    /\ pc' = "stopped"
    /\ failed' = (failed \/ error)
    /\ UNCHANGED <<running, persisted>>

Stop(error) ==
    /\ pc' = "stopped"
    /\ running' = FALSE
    /\ failed' = (failed \/ error)
    /\ UNCHANGED persisted

Fail ==
    /\ failures < MaxFailures /\ failures' = failures + 1
    /\ UNCHANGED <<crashes, lost>>
Die ==
    /\ crashes < MaxCrashes /\ crashes' = crashes + 1
    /\ UNCHANGED <<failures, lost>>
Lose ==
    /\ lost < MaxLost /\ lost' = lost + 1
    /\ UNCHANGED <<failures, crashes>>

-------------------------------------------------------------------------------
(* The relays and the SDK client (outside src/). *)

Publish(e) ==
    /\ e \notin published
    /\ published' = published \cup {e}
    /\ UNCHANGED <<clock, client, inbox, flushing, stores, pc, status, shutdown, budget>>

Tick ==
    /\ clock < MaxClock
    /\ clock' = clock + 1
    /\ UNCHANGED <<published, client, inbox, flushing, stores, pc, status, shutdown, budget>>

\* The client marks the ID seen, then broadcasts; a full channel loses its
\* oldest notification and the receiver will be told that it lagged.
Deliver(e) ==
    /\ pc \in Live
    /\ e \in published \ sdkSeen
    /\ sdkSeen' = sdkSeen \cup {e}
    /\ \/ /\ Len(channel) < ChannelCapacity
          /\ channel' = Append(channel, e)
          /\ UNCHANGED <<lagged, budget>>
       \/ /\ Len(channel) = ChannelCapacity
          /\ channel' = Append(Tail(channel), e)
          /\ lagged' = TRUE
          /\ Lose
    /\ UNCHANGED <<env, rejected, inbox, flushing, stores, pc, status, shutdown>>

-------------------------------------------------------------------------------
(* The process: main.rs up to the ingestion task, its end, and its death. *)

NewClient ==
    /\ channel' = <<>> /\ lagged' = FALSE /\ sdkSeen' = {} /\ rejected' = {}

\* Open the database, load_graph, spawn the services.
Boot ==
    /\ pc = "down"
    /\ graph' = db
    /\ pc' = "connect"
    /\ UNCHANGED <<env, client, inbox, flushing, db, accepted, status, shutdown, budget>>

Connect ==
    /\ pc = "connect"
    /\ NewClient
    /\ pc' = "recv"
    /\ running' = TRUE
    /\ UNCHANGED <<failed, persisted, env, inbox, flushing, stores, shutdown, budget>>

\* connect_list_client or restart_list_client returns an error.
ConnectFails ==
    /\ pc \in {"connect", "resync"}
    /\ Fail
    /\ Stop(TRUE)
    /\ UNCHANGED <<env, client, inbox, flushing, stores, shutdown>>

LoseMemory ==
    /\ pc' = "down"
    /\ graph' = Empty
    /\ NewClient
    /\ seen' = {} /\ batch' = <<>> /\ received' = {}
    /\ after' = "recv" /\ updates' = <<>> /\ attempt' = 0 /\ count' = 0 /\ applying' = {}
    /\ running' = FALSE /\ failed' = FALSE /\ persisted' = 0
    /\ accepted' = 0
    /\ shutdown' = FALSE
    /\ UNCHANGED <<env, db>>

\* main returns once ingestion has ended.
ProcessExit ==
    /\ pc = "stopped"
    /\ LoseMemory
    /\ UNCHANGED budget

\* SIGKILL, abort or out-of-memory at any point.
Crash ==
    /\ pc \notin {"down", "stopped"}
    /\ Die
    /\ LoseMemory

\* SIGTERM or SIGINT: main sends true on the watch channel.
Signal ==
    /\ pc \notin {"down", "stopped"}
    /\ ~shutdown /\ shutdown' = TRUE
    /\ Die
    /\ UNCHANGED <<env, client, inbox, flushing, stores, pc, status>>

-------------------------------------------------------------------------------
(* Ingestion::run. *)

\* flush: nothing to do, or the batch is taken and its first attempt begins.
TakeBatch(b, next) ==
    /\ updates' = b /\ batch' = <<>>
    /\ attempt' = 0 /\ count' = 0 /\ after' = next
    /\ pc' = "follows"
    /\ UNCHANGED applying

Flush(next) ==
    \/ batch # <<>> /\ TakeBatch(batch, next)
    \/ batch = <<>> /\ pc' = next /\ UNCHANGED <<batch, flushing>>

\* Mistake: the loop breaks without a last flush.
DrainNothing ==
    /\ pc = "recv" /\ shutdown
    /\ pc' = "drain"
    /\ UNCHANGED <<env, client, inbox, flushing, stores, status, shutdown, budget>>

\* The select loop is biased: a signalled shutdown is taken before the rest.
Drain ==
    /\ pc = "recv" /\ shutdown
    /\ Flush("drain")
    /\ UNCHANGED <<env, client, seen, received, stores, status, shutdown, budget>>

Disconnect ==
    /\ pc = "drain"
    /\ Stop(FALSE)
    /\ UNCHANGED <<env, client, inbox, flushing, stores, shutdown, budget>>

\* client.disconnect() returns an error: what was received is stored all the
\* same, but the task, and so the process, ends in an error.
DisconnectFails ==
    /\ pc = "drain"
    /\ Fail
    /\ Stop(TRUE)
    /\ UNCHANGED <<env, client, inbox, flushing, stores, shutdown>>

FlushTick ==
    /\ pc = "recv" /\ ~shutdown
    /\ batch # <<>> /\ TakeBatch(batch, "recv")
    /\ UNCHANGED <<env, client, seen, received, stores, status, shutdown, budget>>

Receivable == pc = "recv" /\ ~shutdown /\ ~lagged /\ channel # <<>>

Listed(e) == e.kind \in Kind
\* Mistakes: the filter is missing; the seen cache is keyed by author alone.
FutureNever(e) == FALSE
SuppressedByAuthor(e) ==
    \E s \in seen : /\ s.author = e.author
                    /\ Dominates(s.created_at, s.id, e.created_at, e.id)

Future(e) == e.created_at > clock + FutureSkew
Suppressed(e) ==
    \E s \in seen : /\ KeyOf(s) = KeyOf(e)
                    /\ Dominates(s.created_at, s.id, e.created_at, e.id)

\* Kinds not asked for and far-future events are dropped before bookkeeping.
Discard ==
    /\ Receivable
    /\ LET e == Head(channel) IN
       /\ \/ ~Listed(e) /\ UNCHANGED rejected
          \/ Listed(e) /\ Future(e) /\ rejected' = rejected \cup {e}
    /\ channel' = Tail(channel)
    /\ UNCHANGED <<env, lagged, sdkSeen, inbox, flushing, stores, pc, status, shutdown, budget>>

Suppress ==
    /\ Receivable
    /\ LET e == Head(channel) IN
       /\ Listed(e) /\ ~Future(e) /\ Suppressed(e)
       /\ received' = received \cup {e}
    /\ channel' = Tail(channel)
    /\ UNCHANGED <<env, lagged, sdkSeen, rejected, seen, batch, flushing, stores, pc, status,
                   shutdown, budget>>

\* The LRU drops some other entry when it is full: which one is abstracted.
PutSeen(e) ==
    LET others == {s \in seen : KeyOf(s) # KeyOf(e)} IN
    IF Cardinality(others) < SeenCapacity
    THEN seen' = others \cup {e}
    ELSE \E victim \in others : seen' = (others \ {victim}) \cup {e}

Receive ==
    /\ Receivable
    /\ LET e == Head(channel) IN
       /\ Listed(e) /\ ~Future(e) /\ ~Suppressed(e)
       /\ received' = received \cup {e}
       /\ PutSeen(e)
       /\ \/ /\ Len(batch) + 1 >= BatchSize
             /\ TakeBatch(Append(batch, e), "recv")
          \/ /\ Len(batch) + 1 < BatchSize
             /\ batch' = Append(batch, e)
             /\ UNCHANGED <<pc, flushing>>
    /\ channel' = Tail(channel)
    /\ UNCHANGED <<env, lagged, sdkSeen, rejected, stores, status, shutdown, budget>>

\* RecvError::Lagged: flush, then Resync clears the cache and replaces the client.
Lagged ==
    /\ pc = "recv" /\ ~shutdown /\ lagged
    /\ Flush("resync")
    /\ UNCHANGED <<env, client, seen, received, stores, status, shutdown, budget>>

\* Mistake: the client, and with it the set of IDs it suppresses, is kept.
ResyncSameClient ==
    /\ pc = "resync"
    /\ seen' = {} /\ channel' = <<>> /\ lagged' = FALSE
    /\ pc' = "recv"
    /\ UNCHANGED <<env, sdkSeen, rejected, batch, received, flushing, stores, status, shutdown,
                   budget>>

Resync ==
    /\ pc = "resync"
    /\ seen' = {}
    /\ NewClient
    /\ pc' = "recv"
    /\ UNCHANGED <<env, batch, received, flushing, stores, status, shutdown, budget>>

\* RecvError::Closed: flush, then the task ends in an error.
ChannelCloses ==
    /\ pc = "recv" /\ ~shutdown /\ channel = <<>> /\ ~lagged
    /\ Fail
    /\ Flush("closed")
    /\ UNCHANGED <<env, client, seen, received, stores, status, shutdown>>

ChannelClosed ==
    /\ pc = "closed"
    /\ Stop(TRUE)
    /\ UNCHANGED <<env, client, inbox, flushing, stores, shutdown, budget>>

-------------------------------------------------------------------------------
(* Ingestion::flush and persist_and_apply. *)

\* update_follows_batch, then update_mutes_batch: one transaction each.
CommitLists(kind, here, next) ==
    /\ pc = here
    /\ db' = Commit(Accepted(kind))
    /\ count' = count + Cardinality(Accepted(kind))
    /\ accepted' = accepted + Cardinality(Accepted(kind))
    /\ pc' = next
    /\ UNCHANGED <<env, client, inbox, after, updates, attempt, graph, status, shutdown, budget>>

\* Mistake: publication begins between the two transactions.
CommitFollowsAndApply ==
    CommitLists("follow", "follows", "apply") /\ applying' = Winners(updates)

CommitFollows == CommitLists("follow", "follows", "mutes") /\ UNCHANGED applying
CommitMutes == CommitLists("mute", "mutes", "apply") /\ applying' = Winners(updates)

\* A transaction with something to write fails and rolls back.
TransactionFails ==
    /\ \/ pc = "follows" /\ Items("follow") # {}
       \/ pc = "mutes" /\ Items("mute") # {}
    /\ Fail
    /\ \/ /\ attempt = Attempts - 1
          /\ Stop(TRUE)
          /\ UNCHANGED attempt
       \/ /\ attempt < Attempts - 1
          /\ attempt' = attempt + 1
          /\ pc' = "backoff"
          /\ failed' = TRUE
          /\ UNCHANGED <<running, persisted>>
    /\ UNCHANGED <<env, client, inbox, after, updates, count, applying, stores, shutdown>>

Retry ==
    /\ pc = "backoff"
    /\ pc' = "follows"
    /\ count' = 0
    /\ UNCHANGED <<env, client, inbox, after, updates, attempt, applying, stores, status,
                   shutdown, budget>>

\* Winners reach the graph in batch order, each under the graph's own test.
Apply ==
    /\ pc = "apply" /\ applying # {}
    /\ \E i \in DOMAIN updates :
         /\ updates[i] \in applying
         /\ \A j \in 1..(i - 1) : updates[j] \notin applying
         /\ graph' = [graph EXCEPT ![KeyOf(updates[i])] =
                         IF GraphAccepts(updates[i], @) THEN updates[i] ELSE @]
         /\ applying' = applying \ {updates[i]}
    /\ UNCHANGED <<env, client, inbox, after, updates, attempt, count, db, accepted, pc, status,
                   shutdown, budget>>

FlushDone ==
    /\ pc = "apply" /\ applying = {}
    /\ failed' = FALSE /\ persisted' = persisted + count /\ UNCHANGED running
    /\ updates' = <<>> /\ attempt' = 0 /\ count' = 0 /\ after' = "recv"
    /\ pc' = after
    /\ UNCHANGED <<env, client, inbox, applying, stores, shutdown, budget>>

\* The blocking task panics: flush returns "persistence task failed" at once.
PersistPanics ==
    /\ pc \in Persisting
    /\ Fail
    /\ Stop(TRUE)
    /\ UNCHANGED <<env, client, inbox, flushing, stores, shutdown>>

-------------------------------------------------------------------------------
Init ==
    /\ published = {} /\ clock = 0
    /\ db = Empty /\ graph = Empty /\ accepted = 0
    /\ pc = "down"
    /\ channel = <<>> /\ lagged = FALSE /\ sdkSeen = {} /\ rejected = {}
    /\ seen = {} /\ batch = <<>> /\ received = {}
    /\ after = "recv" /\ updates = <<>> /\ attempt = 0 /\ count = 0 /\ applying = {}
    /\ running = FALSE /\ failed = FALSE /\ persisted = 0
    /\ shutdown = FALSE
    /\ failures = 0 /\ crashes = 0 /\ lost = 0

Service ==
    \/ Boot \/ Connect \/ ProcessExit
    \/ Drain \/ Disconnect \/ FlushTick \/ Discard \/ Suppress \/ Receive
    \/ Lagged \/ Resync \/ ChannelClosed
    \/ CommitFollows \/ CommitMutes \/ Retry \/ Apply \/ FlushDone

Faults ==
    \/ ConnectFails \/ DisconnectFails \/ Crash \/ Signal \/ ChannelCloses
    \/ TransactionFails \/ PersistPanics

Environment == Tick \/ \E e \in Event : Publish(e) \/ Deliver(e)

Next == Service \/ Faults \/ Environment

Spec == Init /\ [][Next]_vars

\* The event a relay keeps of a list when it keeps only one.
Newest(e) == \A f \in published : KeyOf(f) = KeyOf(e) => ~Beats(f, e)

(* The supervisor restarts the container, the task is scheduled, and relays  *)
(* send at least the newest event of every list to a client that lacks it.   *)
Fairness ==
    /\ WF_vars(Service)
    /\ \A e \in Event : WF_vars(Newest(e) /\ Deliver(e))

FairSpec == Spec /\ Fairness

-------------------------------------------------------------------------------
(* Properties. *)

TypeOK ==
    /\ published \subseteq Event /\ clock \in Nat
    /\ db \in [Key -> Event \cup {None}] /\ graph \in [Key -> Event \cup {None}]
    /\ pc \in Live \cup {"down", "connect", "stopped"}
    /\ after \in {"recv", "resync", "closed", "drain"}
    /\ channel \in Seq(Event) /\ lagged \in BOOLEAN
    /\ sdkSeen \subseteq Event /\ rejected \subseteq Event
    /\ seen \subseteq Event /\ received \subseteq Event
    /\ applying \subseteq Event
    /\ batch \in Seq(Event) /\ updates \in Seq(Event)
    /\ attempt \in 0..(Attempts - 1) /\ count \in Nat /\ accepted \in Nat
    /\ running \in BOOLEAN /\ failed \in BOOLEAN /\ persisted \in Nat
    /\ shutdown \in BOOLEAN
    /\ failures \in Nat /\ crashes \in Nat /\ lost \in Nat

\* f makes e redundant: the same list, and not older.
AtLeast(f, e) ==
    f # None /\ KeyOf(f) = KeyOf(e) /\ Dominates(f.created_at, f.id, e.created_at, e.id)

(* "Commit before publishing changes to readers" (ingestion.rs:287): whatever *)
(* the graph serves is committed, or superseded by what is committed, through *)
(* failed attempts, retries of a half-committed batch, panics and restarts.   *)
ServedIsCommitted ==
    \A k \in Key : graph[k] # None => AtLeast(db[k], graph[k])

(* Whenever the task is not inside persist_and_apply or between two attempts, *)
(* the graph and the database hold the same lists: a batch of which one       *)
(* transaction was committed and the other retried leaves nothing behind.     *)
IdleAgreement ==
    pc \in {"connect", "recv", "resync", "closed", "drain"} => graph = db

\* The list the graph lacks is a winner of the batch in hand, and beats what
\* the graph still serves.
Behind(k) ==
    /\ db[k] \in Winners(updates)
    /\ graph[k] = None \/ Beats(db[k], graph[k])

(* The inductive form of the two properties above.  During a flush the graph  *)
(* may lack only winners of the batch; once both transactions are committed   *)
(* every winner is in the database or superseded there, and the graph lacks   *)
(* only what is still to be applied, so that the end of a flush finds them    *)
(* equal again.                                                               *)
Agreement ==
    /\ \A k \in Key : /\ db[k] # None => KeyOf(db[k]) = k
                      /\ graph[k] # None => KeyOf(graph[k]) = k
    /\ \A i \in DOMAIN batch : Listed(batch[i])
    /\ \A i \in DOMAIN updates : Listed(updates[i])
    /\ pc = "down" => graph = Empty
    /\ pc \in {"connect", "recv", "resync", "closed", "drain"} => graph = db
    /\ pc \in Persisting \cup {"backoff", "stopped"} =>
         \A k \in Key : graph[k] # db[k] => Behind(k)
    /\ pc = "mutes" => \A e \in Items("follow") : AtLeast(db[KeyOf(e)], e)
    /\ pc = "apply" =>
         /\ applying \subseteq Winners(updates)
         /\ \A e \in Winners(updates) : AtLeast(db[KeyOf(e)], e)
         /\ \A k \in Key : graph[k] # db[k] => db[k] \in applying

(* No received event is forgotten while the task lives: suppression by the    *)
(* seen cache, winner selection, retries and lag recovery only drop an event  *)
(* for one that dominates it and is itself committed or waiting.              *)
ReceivedNotLost ==
    pc \in Live =>
        \A e \in received :
            \/ AtLeast(db[KeyOf(e)], e)
            \/ \E i \in DOMAIN batch : AtLeast(batch[i], e)
            \/ \E i \in DOMAIN updates : AtLeast(updates[i], e)

(* "ingestion stops accepting new events and flushes its received batch       *)
(* before exiting" (docs/SYNC.md:11): a task that ends without an error has   *)
(* committed all it ever received.                                            *)
DrainedOnShutdown ==
    pc = "stopped" /\ ~failed =>
        /\ graph = db
        /\ \A e \in received : AtLeast(db[KeyOf(e)], e)

(* The future filter keeps every list within ten minutes of the clock, so an  *)
(* author's far-future event never blocks that author's later updates.        *)
NoFutureDated ==
    \A k \in Key : db[k] # None => db[k].created_at <= clock + FutureSkew

(* /ready is off from a failed attempt until a flush succeeds, and whenever   *)
(* no task is consuming notifications.  ready() also asks for an event within *)
(* the last 300 s; that test only turns it off, and is left out: what is      *)
(* claimed here is claimed of more states than the code calls ready.          *)
Ready == running /\ ~failed
ReadyMeansPersisting == Ready => pc \in Live /\ pc # "backoff" /\ attempt = 0

(* A committed list is only ever replaced by one that beats it: no stale      *)
(* replay, retry, crash or restart rolls a list back.                         *)
ListsOnlyAdvance ==
    [][\A k \in Key : db'[k] # db[k] => db[k] = None \/ Beats(db'[k], db[k])]_vars

(* Every list converges to the newest event the relays hold, unless the       *)
(* current client dropped that one as future-dated: after crashes, failed     *)
(* transactions, suppressed replays and lost notifications.                   *)
Converged ==
    \A e \in published \ rejected : Listed(e) /\ Newest(e) => graph[KeyOf(e)] = e
Convergence == <>[]Converged

(* "accepted persisted author-update count" (docs/API.md:54): with no flush   *)
(* in progress, the counter equals the author updates this process committed. *)
PersistedCountExact == pc = "recv" => persisted = accepted

(* Ingestion implements a last-writer-wins register per list with a served    *)
(* copy that only ever catches up with the stored one.                        *)
Lists == INSTANCE ReplaceableLists WITH stored <- db, served <- graph
ImplementsLists == Lists!Spec
===============================================================================
