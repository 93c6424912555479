------------------------------ MODULE GraphStore ------------------------------
(***************************************************************************)
(* The in-memory graph (graph/store.rs) at the grain of its locks: the     *)
(* mutation mutex that writers hold throughout, the reader-writer locks    *)
(* over adjacency, names, metadata and mute lists, and the concurrent map  *)
(* from pubkeys to ids that is read without any lock.                      *)
(*                                                                         *)
(* Node ids count from 1 here (the program's, less one, index its          *)
(* vectors), so that 0 can stand for "no id".  A sorted, deduplicated      *)
(* vector of ids is a set.  An event of a list is a version number (the    *)
(* order of events is EventOrder's subject); 0 stands for None.            *)
(***************************************************************************)
EXTENDS Naturals, Sequences, FiniteSets

CONSTANTS
    Thread, NoThread,
    Pubkey,
    Job,    \* calls that change the graph: each is made once, by any thread
    Query   \* calls that only read: made by any thread, any number of times

Update == [do : {"follow", "mute"}, author : Pubkey, targets : Seq(Pubkey), version : Nat \ {0}]
Lookup == [do : {"node"}, author : Pubkey]

ASSUME ThreadAssumption == NoThread \notin Thread
ASSUME PubkeyAssumption == IsFiniteSet(Pubkey)
ASSUME JobAssumption ==
    \A j \in Job :
        \/ j.do \in {"follow", "mute"} /\ j \in Update
        \/ j.do = "node" /\ j \in Lookup
        \* a snapshot has at most one list of a kind per author, over its own nodes
        \/ /\ j.do = "restore"
           /\ DOMAIN j = {"do", "nodes", "lists"}
           /\ j.nodes \in Seq(Pubkey)
           /\ \A u \in j.lists :
                /\ u \in Update
                /\ u.author \in {j.nodes[i] : i \in DOMAIN j.nodes}
                /\ \A i \in DOMAIN u.targets :
                     u.targets[i] \in {j.nodes[n] : n \in DOMAIN j.nodes}
           /\ \A u, v \in j.lists : u.do = v.do /\ u.author = v.author => u = v
ASSUME QueryAssumption ==
    Query \subseteq [do : {"page", "common", "walk", "followers", "mutes", "evidence"},
                     from : Pubkey, to : Pubkey]

\* "Lock order throughout the graph"; writers hold mutation before any of them.
Order == <<"mutation", "follows", "followers", "pubkeys", "metadata", "mutes">>
Lock == {"mutation", "follows", "followers", "pubkeys", "metadata", "mutes"}
Rank == [l \in Lock |-> CHOOSE i \in 1..6 : Order[i] = l]

VARIABLES
    \* the graph
    idOf,       \* pubkey_to_id
    names,      \* id_to_pubkey
    follows, followers,
    meta,       \* node_info: version of the list that follows holds
    mutes,      \* per id: the ids muted, and the version of that list
    revision,
    \* the locks: a writer that waits for readers to leave owns the lock's
    \* writer bit already, and keeps new readers out
    writer, readers,
    \* the threads
    pc, job,
    want,       \* locks still to be taken, in order
    pending,    \* pubkeys still to be given ids
    after,      \* where creation of ids returns to
    old,        \* update_follows' clone of the old list
    found,      \* ids a query has looked up
    floor,      \* history: updates completed before the query began
    \* the callers
    todo,       \* jobs not yet begun
    done        \* history: updates completed

graph   == <<idOf, names, follows, followers, meta, mutes, revision>>
locks   == <<writer, readers>>
query   == <<found, floor>>
update  == <<pending, after, old>>
callers == <<todo, done>>
vars    == <<graph, locks, pc, job, want, query, update, callers>>

NoJob == [do |-> "none"]
NodeId == 1..Cardinality(Pubkey)
None == 0
Elems(s) == {s[i] : i \in DOMAIN s}
Ids(s) == {idOf[p] : p \in Elems(s)}
Lists(j) == CASE j.do = "restore" -> j.lists
              [] j.do = "node" -> {}
              [] OTHER -> {j}

-------------------------------------------------------------------------------
(* Locks. *)

Writes == {"create", "push", "swap", "stamp", "store", "merge"}

\* A writer takes the writer bit, and the lock once the readers have left.
Announce(t) ==
    /\ want[t] # <<>> /\ pc[t] \in Writes
    /\ writer[Head(want[t])] = NoThread
    /\ writer' = [writer EXCEPT ![Head(want[t])] = t]
    /\ UNCHANGED <<graph, readers, pc, job, want, query, update, callers>>

Exclude(t) ==
    /\ want[t] # <<>> /\ pc[t] \in Writes
    /\ writer[Head(want[t])] = t /\ readers[Head(want[t])] = {}
    /\ want' = [want EXCEPT ![t] = Tail(@)]
    /\ UNCHANGED <<graph, locks, pc, job, query, update, callers>>

Share(t) ==
    /\ want[t] # <<>> /\ pc[t] \notin Writes
    /\ writer[Head(want[t])] = NoThread
    /\ readers' = [readers EXCEPT ![Head(want[t])] = @ \cup {t}]
    /\ want' = [want EXCEPT ![t] = Tail(@)]
    /\ UNCHANGED <<graph, writer, pc, job, query, update, callers>>

Release(t, S) ==
    /\ writer' = [l \in Lock |-> IF l \in S /\ writer[l] = t THEN NoThread ELSE writer[l]]
    /\ readers' = [l \in Lock |-> IF l \in S THEN readers[l] \ {t} ELSE readers[l]]

Ready(t, at) == pc[t] = at /\ want[t] = <<>>
Go(t, at, locksNeeded) ==
    /\ pc' = [pc EXCEPT ![t] = at]
    /\ want' = [want EXCEPT ![t] = locksNeeded]

\* A call returns, dropping every guard.  The locals of the thread are cleared.
Return(t) ==
    /\ Release(t, Lock)
    /\ Go(t, "idle", <<>>)
    /\ done' = done \cup Lists(job[t])
    /\ job' = [job EXCEPT ![t] = NoJob]
    /\ pending' = [pending EXCEPT ![t] = <<>>]
    /\ after' = [after EXCEPT ![t] = "idle"]
    /\ old' = [old EXCEPT ![t] = {}]
    /\ UNCHANGED <<query, todo>>

-------------------------------------------------------------------------------
(* Writers. *)

\* get_or_create_node finds the id without any lock.
NodeKnown(t, j) ==
    /\ pc[t] = "idle"
    /\ j.do = "node" /\ idOf[j.author] # None
    /\ todo' = todo \ {j}
    /\ UNCHANGED <<graph, locks, pc, job, want, query, update, done>>

\* Mistake: update_follows and update_mutes do not serialize.
NoLocks == <<>>
MutationLocks == <<"mutation">>

Begin(t, j) ==
    /\ pc[t] = "idle"
    /\ j.do = "node" => idOf[j.author] = None
    /\ todo' = todo \ {j}
    /\ job' = [job EXCEPT ![t] = j]
    /\ pending' = [pending EXCEPT ![t] = IF j.do = "restore" THEN j.nodes ELSE <<j.author>>]
    /\ after' = [after EXCEPT ![t] = CASE j.do = "restore" -> "merge"
                                       [] j.do = "node" -> "idle"
                                       [] j.do \in {"follow", "mute"} -> "check"]
    /\ Go(t, "create", MutationLocks)
    /\ UNCHANGED <<graph, locks, old, query, done>>

\* get_or_create_node_locked, for each pending pubkey in turn.
\* Mistake: the map is not consulted.
KnownNever(t) == FALSE
Known(t) == idOf[Head(pending[t])] # None

Found(t) ==
    /\ Ready(t, "create") /\ pending[t] # <<>> /\ Known(t)
    /\ pending' = [pending EXCEPT ![t] = Tail(@)]
    /\ UNCHANGED <<graph, locks, pc, job, want, after, old, query, callers>>

Create(t) ==
    /\ Ready(t, "create") /\ pending[t] # <<>> /\ ~Known(t)
    /\ Go(t, "push", <<"follows", "followers", "pubkeys", "metadata">>)
    /\ UNCHANGED <<graph, locks, job, update, query, callers>>

\* Mistake: the reverse adjacency is not extended.
PushForward(t) ==
    /\ Ready(t, "push")
    /\ names' = Append(names, Head(pending[t]))
    /\ follows' = Append(follows, {})
    /\ meta' = Append(meta, None)
    /\ Go(t, "publish", <<>>)
    /\ UNCHANGED <<idOf, followers, mutes, revision, locks, job, update, query, callers>>

\* The second look at the map under the locks finds nothing: mutation is held.
Push(t) ==
    /\ Ready(t, "push") /\ ~Known(t)
    /\ names' = Append(names, Head(pending[t]))
    /\ follows' = Append(follows, {})
    /\ followers' = Append(followers, {})
    /\ meta' = Append(meta, None)
    /\ Go(t, "publish", <<>>)
    /\ UNCHANGED <<idOf, mutes, revision, locks, job, update, query, callers>>

PublishId(t) ==
    /\ Ready(t, "publish")
    /\ idOf' = [idOf EXCEPT ![Head(pending[t])] = Len(names)]
    /\ Go(t, "bump", <<>>)
    /\ UNCHANGED <<names, follows, followers, meta, mutes, revision, locks, job, update, query,
                   callers>>

BumpRevision(t) ==
    /\ Ready(t, "bump")
    /\ revision' = revision + 1
    /\ pending' = [pending EXCEPT ![t] = Tail(@)]
    /\ Release(t, Lock \ {"mutation"})
    /\ Go(t, "create", <<>>)
    /\ UNCHANGED <<idOf, names, follows, followers, meta, mutes, job, after, old, query, callers>>

LocksFor(at, j) ==
    CASE at = "check" -> IF j.do = "mute" THEN <<"mutes">> ELSE <<"metadata">>
      [] at = "clone" -> <<"follows">>
      [] at = "store" -> <<"mutes">>
      [] at = "merge" -> <<"follows", "followers", "metadata", "mutes">>

Created(t) ==
    /\ Ready(t, "create") /\ pending[t] = <<>>
    /\ \/ after[t] # "idle"
          /\ Go(t, after[t], LocksFor(after[t], job[t]))
          /\ UNCHANGED <<locks, job, update, query, callers>>
       \/ after[t] = "idle" /\ Return(t)
    /\ UNCHANGED graph

Stored(t) ==
    LET i == idOf[job[t].author] IN
    IF job[t].do = "mute" THEN mutes[i].version ELSE meta[i]

\* accepts_event, on versions.  Mistake: nothing is compared.
NewerAlways(new, stored) == TRUE
Newer(new, stored) == stored = None \/ new > stored

Accept(t) ==
    /\ Ready(t, "check") /\ Newer(job[t].version, Stored(t))
    /\ Release(t, Lock \ {"mutation"})
    /\ pending' = [pending EXCEPT ![t] = job[t].targets]
    /\ after' = [after EXCEPT ![t] = IF job[t].do = "mute" THEN "store" ELSE "clone"]
    /\ Go(t, "create", <<>>)
    /\ UNCHANGED <<graph, job, old, query, callers>>

\* Mistake: the mutation guard is never dropped.
RejectKeepingMutation(t) ==
    /\ Ready(t, "check") /\ ~Newer(job[t].version, Stored(t))
    /\ Release(t, Lock \ {"mutation"})
    /\ Go(t, "idle", <<>>)
    /\ UNCHANGED <<graph, job, update, query, callers>>

Reject(t) ==
    /\ Ready(t, "check") /\ ~Newer(job[t].version, Stored(t))
    /\ Return(t)
    /\ UNCHANGED graph

Clone(t) ==
    /\ Ready(t, "clone")
    /\ old' = [old EXCEPT ![t] = follows[idOf[job[t].author]]]
    /\ Release(t, {"follows"})
    /\ Go(t, "swap", <<"follows", "followers">>)
    /\ UNCHANGED <<graph, job, pending, after, query, callers>>

\* The difference to the cloned list is applied to the reverse adjacency.
Swap(t) ==
    /\ Ready(t, "swap")
    /\ LET i      == idOf[job[t].author]
           new    == Ids(job[t].targets)
           add    == new \ old[t]
           remove == old[t] \ new
       IN /\ follows' = [follows EXCEPT ![i] = new]
          /\ followers' = [k \in DOMAIN followers |->
                (followers[k] \ (IF k \in remove THEN {i} ELSE {}))
                    \cup (IF k \in add THEN {i} ELSE {})]
          /\ revision' = IF add \cup remove # {} THEN revision + 1 ELSE revision
    /\ Release(t, {"follows", "followers"})
    /\ Go(t, "stamp", <<"metadata">>)
    /\ UNCHANGED <<idOf, names, meta, mutes, job, update, query, callers>>

Stamp(t) ==
    /\ Ready(t, "stamp")
    /\ meta' = [meta EXCEPT ![idOf[job[t].author]] = job[t].version]
    /\ Return(t)
    /\ UNCHANGED <<idOf, names, follows, followers, mutes, revision>>

\* Mistake: the list is replaced, the event it came from is not recorded.
StoreIdsOnly(t) ==
    /\ Ready(t, "store")
    /\ mutes' = [mutes EXCEPT ![idOf[job[t].author]].ids = Ids(job[t].targets)]
    /\ revision' = revision + 1
    /\ Return(t)
    /\ UNCHANGED <<idOf, names, follows, followers, meta>>

Store(t) ==
    /\ Ready(t, "store")
    /\ mutes' = [mutes EXCEPT ![idOf[job[t].author]] =
                    [ids |-> Ids(job[t].targets), version |-> job[t].version]]
    /\ revision' = revision + 1
    /\ Return(t)
    /\ UNCHANGED <<idOf, names, follows, followers, meta>>

\* restore_nodes, once every node of the snapshot has an id.
Taken(t, do, i, stored) ==
    {u \in job[t].lists : u.do = do /\ idOf[u.author] = i /\ Newer(u.version, stored)}
Restored(t, do, i, stored) == CHOOSE u \in Taken(t, do, i, stored) : TRUE

\* The reverse adjacency, rebuilt.  Mistake: the lists are not cleared first.
RebuiltOnTop(forward) ==
    [k \in DOMAIN followers |-> followers[k] \cup {i \in DOMAIN forward : k \in forward[i]}]
Rebuilt(forward) == [k \in DOMAIN followers |-> {i \in DOMAIN forward : k \in forward[i]}]

\* Mistake: only a change of the follow lists is counted.
MergeCountingFollows(t) ==
    /\ Ready(t, "merge")
    /\ follows' = [i \in DOMAIN follows |->
          IF Taken(t, "follow", i, meta[i]) = {} THEN follows[i]
          ELSE Ids(Restored(t, "follow", i, meta[i]).targets)]
    /\ meta' = [i \in DOMAIN meta |->
          IF Taken(t, "follow", i, meta[i]) = {} THEN meta[i]
          ELSE Restored(t, "follow", i, meta[i]).version]
    /\ mutes' = [i \in NodeId |->
          IF Taken(t, "mute", i, mutes[i].version) = {} THEN mutes[i]
          ELSE LET u == Restored(t, "mute", i, mutes[i].version)
               IN [ids |-> Ids(u.targets), version |-> u.version]]
    /\ followers' = IF follows' = follows THEN followers ELSE Rebuilt(follows')
    /\ revision' = IF follows' = follows THEN revision ELSE revision + 1
    /\ Return(t)
    /\ UNCHANGED <<idOf, names>>

Merge(t) ==
    /\ Ready(t, "merge")
    /\ follows' = [i \in DOMAIN follows |->
          IF Taken(t, "follow", i, meta[i]) = {} THEN follows[i]
          ELSE Ids(Restored(t, "follow", i, meta[i]).targets)]
    /\ meta' = [i \in DOMAIN meta |->
          IF Taken(t, "follow", i, meta[i]) = {} THEN meta[i]
          ELSE Restored(t, "follow", i, meta[i]).version]
    /\ mutes' = [i \in NodeId |->
          IF Taken(t, "mute", i, mutes[i].version) = {} THEN mutes[i]
          ELSE LET u == Restored(t, "mute", i, mutes[i].version)
               IN [ids |-> Ids(u.targets), version |-> u.version]]
    /\ followers' = IF follows' = follows THEN followers ELSE Rebuilt(follows')
    /\ revision' = IF follows' = follows /\ mutes' = mutes THEN revision ELSE revision + 1
    /\ Return(t)
    /\ UNCHANGED <<idOf, names>>

-------------------------------------------------------------------------------
(* Readers: two lookups without a lock, then all the locks, then the answer. *)

\* Mistake: the traversal takes the reverse adjacency first.
ReadLocksReversed(do) ==
    CASE do = "walk"      -> <<"followers", "follows", "pubkeys">>
      [] do = "followers" -> <<"followers", "pubkeys">>
      [] do = "mutes"     -> <<"pubkeys", "mutes">>
      [] do = "evidence"  -> <<"follows", "pubkeys", "mutes">>
      [] do \in {"page", "common"} -> <<"follows", "pubkeys">>

\* get_follows_page, get_follows and common_follows; with_adjacency with the
\* resolution of bridges inside it; get_followers; get_mutes_page;
\* mute_evidence and stats.
ReadLocks(do) ==
    CASE do = "walk"      -> <<"follows", "followers", "pubkeys">>
      [] do = "followers" -> <<"followers", "pubkeys">>
      [] do = "mutes"     -> <<"pubkeys", "mutes">>
      [] do = "evidence"  -> <<"follows", "pubkeys", "mutes">>
      [] do \in {"page", "common"} -> <<"follows", "pubkeys">>

Ask(t, q) ==
    /\ pc[t] = "idle"
    /\ job' = [job EXCEPT ![t] = q]
    /\ found' = [found EXCEPT ![t] = <<idOf[q.from], None>>]
    /\ floor' = [floor EXCEPT ![t] = done]
    /\ Go(t, "look", <<>>)
    /\ UNCHANGED <<graph, locks, update, callers>>

Missing(do, ids) ==
    \/ do \in {"page", "followers", "mutes", "common", "walk"} /\ ids[1] = None
    \/ do \in {"common", "walk"} /\ ids[2] = None

Answered(t) ==
    /\ Go(t, "idle", <<>>)
    /\ found' = [found EXCEPT ![t] = <<None, None>>]
    /\ floor' = [floor EXCEPT ![t] = {}]
    /\ job' = [job EXCEPT ![t] = NoJob]
    /\ UNCHANGED <<graph, update, callers>>

Look(t) ==
    /\ Ready(t, "look")
    /\ LET ids == <<found[t][1], idOf[job[t].to]>> IN
       \/ Missing(job[t].do, ids) /\ Answered(t)
       \/ /\ ~Missing(job[t].do, ids)
          /\ found' = [found EXCEPT ![t] = ids]
          /\ Go(t, "read", ReadLocks(job[t].do))
          /\ UNCHANGED <<graph, job, floor, update, callers>>
    /\ UNCHANGED locks

Read(t) ==
    /\ Ready(t, "read")
    /\ Release(t, Lock)
    /\ Answered(t)

-------------------------------------------------------------------------------
Init ==
    /\ idOf = [p \in Pubkey |-> None] /\ names = <<>>
    /\ follows = <<>> /\ followers = <<>> /\ meta = <<>>
    /\ mutes = [i \in NodeId |-> [ids |-> {}, version |-> None]]
    /\ revision = 0
    /\ writer = [l \in Lock |-> NoThread] /\ readers = [l \in Lock |-> {}]
    /\ pc = [t \in Thread |-> "idle"] /\ job = [t \in Thread |-> NoJob]
    /\ want = [t \in Thread |-> <<>>] /\ pending = [t \in Thread |-> <<>>]
    /\ after = [t \in Thread |-> "idle"] /\ old = [t \in Thread |-> {}]
    /\ found = [t \in Thread |-> <<None, None>>] /\ floor = [t \in Thread |-> {}]
    /\ todo = Job /\ done = {}

\* A thread inside a call.
Step(t) ==
    \/ Announce(t) \/ Exclude(t) \/ Share(t)
    \/ Found(t) \/ Create(t) \/ Push(t) \/ PublishId(t) \/ BumpRevision(t) \/ Created(t)
    \/ Accept(t) \/ Reject(t) \/ Clone(t) \/ Swap(t) \/ Stamp(t) \/ Store(t) \/ Merge(t)
    \/ Look(t) \/ Read(t)

Call(t) ==
    \/ \E j \in todo : NodeKnown(t, j) \/ Begin(t, j)
    \/ \E q \in Query : Ask(t, q)

Next == \E t \in Thread : Step(t) \/ Call(t)

Spec == Init /\ [][Next]_vars

\* A thread inside a call keeps running; nobody has to call.
FairSpec == Spec /\ \A t \in Thread : WF_vars(Step(t))

-------------------------------------------------------------------------------
(* Properties. *)

Steps == {"idle", "create", "push", "publish", "bump", "check", "clone", "swap", "stamp",
          "store", "merge", "look", "read"}

TypeOK ==
    /\ idOf \in [Pubkey -> NodeId \cup {None}] /\ names \in Seq(Pubkey)
    /\ follows \in Seq(SUBSET Nat) /\ followers \in Seq(SUBSET Nat) /\ meta \in Seq(Nat)
    /\ mutes \in [NodeId -> [ids : SUBSET Nat, version : Nat]]
    /\ revision \in Nat
    /\ writer \in [Lock -> Thread \cup {NoThread}] /\ readers \in [Lock -> SUBSET Thread]
    /\ pc \in [Thread -> Steps] /\ job \in [Thread -> Job \cup Query \cup {NoJob}]
    /\ want \in [Thread -> Seq(Lock)] /\ pending \in [Thread -> Seq(Pubkey)]
    /\ after \in [Thread -> {"idle", "check", "clone", "store", "merge"}]
    /\ old \in [Thread -> SUBSET Nat] /\ found \in [Thread -> Nat \X Nat]
    /\ floor \in [Thread -> SUBSET UNION {Lists(j) : j \in Job}]
    /\ done \in SUBSET UNION {Lists(j) : j \in Job} /\ todo \subseteq Job

(* "readers never acquire mutation" and the lock order (store.rs:198) exclude *)
(* deadlock: in no set of threads does every thread wait for one of the set,  *)
(* although a waiting writer already keeps new readers out.                   *)
Waits(t, u) ==
    /\ want[t] # <<>>
    /\ LET l == Head(want[t]) IN
       \/ writer[l] = u /\ u # t
       \/ writer[l] = u /\ pc[t] \notin Writes
       \/ writer[l] = t /\ pc[t] \in Writes /\ u \in readers[l]
NoCircularWait ==
    \A S \in (SUBSET Thread) \ {{}} : \E t \in S : \A u \in S : ~Waits(t, u)

(* An id found without a lock can be used under any lock taken later: every   *)
(* published id, and every id in a list, is within bounds of every vector     *)
(* (mute_evidence and common_follows index without a check).  A pubkey has    *)
(* one node, whose name maps back to it.                                      *)
IdsInBounds ==
    /\ \A p \in Pubkey : idOf[p] # None =>
         /\ idOf[p] <= Len(follows) /\ idOf[p] <= Len(followers) /\ idOf[p] <= Len(meta)
         /\ idOf[p] <= Len(names) /\ names[idOf[p]] = p
    /\ \A i, j \in DOMAIN names : names[i] = names[j] => i = j
    /\ \A i \in DOMAIN follows : follows[i] \subseteq DOMAIN names
    /\ \A i \in DOMAIN followers : followers[i] \subseteq DOMAIN names
    /\ \A i \in NodeId : mutes[i].ids \subseteq DOMAIN names

(* The reverse adjacency mirrors the forward one, although updates apply the  *)
(* difference to a list cloned under an earlier lock: a bidirectional search  *)
(* never crosses an edge that its other side does not have.                   *)
Mirror ==
    /\ DOMAIN follows = DOMAIN followers
    /\ \A i, j \in DOMAIN follows : j \in follows[i] <=> i \in followers[j]

(* When no writer is at work a list and the version it is compared by belong  *)
(* together: they come from one update.                                       *)
Updates == UNION {Lists(j) : j \in Job}
From(u, do, i) == u.do = do /\ idOf[u.author] = i
ListsMatchVersions ==
    writer["mutation"] = NoThread =>
        /\ \A i \in DOMAIN follows :
             \/ meta[i] = None /\ follows[i] = {}
             \/ \E u \in Updates : /\ From(u, "follow", i)
                                    /\ u.version = meta[i] /\ Ids(u.targets) = follows[i]
        /\ \A i \in NodeId :
             \/ mutes[i].version = None /\ mutes[i].ids = {}
             \/ \E u \in Updates : /\ From(u, "mute", i)
                                    /\ u.version = mutes[i].version
                                    /\ Ids(u.targets) = mutes[i].ids

(* A query shows whole lists, never a mixture of two, and never one that is   *)
(* older than an update completed before the query began.                     *)
Shows(t, do, ids) ==
    LET p     == job[t].from
        shown == {names[i] : i \in ids}
        mine  == {u \in Updates : u.do = do /\ u.author = p}
    IN \/ shown = {} /\ mine \cap floor[t] = {}
       \/ \E u \in mine : /\ shown = Elems(u.targets)
                          /\ \A f \in mine \cap floor[t] : f.version <= u.version
QueriesShowWholeLists ==
    \A t \in Thread : Ready(t, "read") /\ found[t][1] # None =>
        /\ t \in readers["follows"] => Shows(t, "follow", follows[found[t][1]])
        /\ t \in readers["mutes"] => Shows(t, "mute", mutes[found[t][1]].ids)

(* A cached answer is dropped because the revision has moved, and found by    *)
(* ids that stay: every change of the lists is counted by the step that       *)
(* makes it, a new node by the step after, whichever locks are held; and no   *)
(* update, checked under one lock and applied under others, takes a list      *)
(* back behind a newer one.                                                   *)
ListKind == {"follow", "mute"}
NodeLists == [k \in ListKind |-> [p \in Pubkey |->
    IF idOf[p] = None THEN {} ELSE IF k = "mute" THEN mutes[idOf[p]].ids ELSE follows[idOf[p]]]]
Versions == [k \in ListKind |-> [p \in Pubkey |->
    IF idOf[p] = None THEN None ELSE IF k = "mute" THEN mutes[idOf[p]].version ELSE meta[idOf[p]]]]
Uncounted == \E t \in Thread : pc[t] = "bump"
Shared == INSTANCE PublishedGraph WITH
    NoId <- None, ids <- idOf, lists <- NodeLists, versions <- Versions, creating <- Uncounted
ImplementsPublishedGraph == Shared!Spec

(* Every call returns, whatever other threads do.                             *)
CallsReturn == \A t \in Thread : pc[t] # "idle" ~> pc[t] = "idle"
===============================================================================
