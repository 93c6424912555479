--------------------------------- MODULE Bfs ----------------------------------
(***************************************************************************)
(* compute_distance (graph/bfs.rs): the bidirectional breadth-first search *)
(* behind /distance, one worker thread, one step per level.  The thread's  *)
(* scratch state (BFS_STATE) outlives a query and is cleared by the next.  *)
(*                                                                         *)
(* The graph does not change during a search (with_adjacency holds both    *)
(* read locks), and its reverse adjacency mirrors the forward one (Mirror  *)
(* in GraphStore).  A level is handled at once: the order of the nodes of  *)
(* a frontier decides nothing but the order of the bridges in the answer.  *)
(* Counts saturate at MaxCount, the program's u64::MAX.                    *)
(***************************************************************************)
EXTENDS Integers, FiniteSets, Functions, FiniteSetsExt, Routes

CONSTANTS
    Node,
    Graph,      \* adjacency lists to start from: functions Node -> SUBSET Node
    Query,      \* what may be asked, by pubkeys that need not be in the graph
    MaxCount

ASSUME NodeAssumption == IsFiniteSet(Node)      \* ids are interned as u32
ASSUME GraphAssumption == \A g \in Graph : g \in [Node -> SUBSET Node]
ASSUME QueryAssumption == \A q \in Query : DOMAIN q = {"from", "to", "max_hops"} /\ q.max_hops \in Nat
ASSUME MaxCountAssumption == MaxCount \in Nat \ {0}

VARIABLES
    follows,
    pc, query, answer,
    \* BfsState: per node reached, its level and the routes that lead to it
    fwd_visited, bwd_visited,
    fwd_current, bwd_current,
    meeting_nodes,      \* with the node whose list was walked when they were met
    \* locals of the search
    fwd_dist, bwd_dist, best_distance

scratch == <<fwd_visited, bwd_visited, fwd_current, bwd_current, meeting_nodes>>
locals  == <<fwd_dist, bwd_dist, best_distance>>
vars    == <<follows, pc, query, answer, scratch, locals>>

followers == [n \in Node |-> {m \in Node : n \in follows[m]}]

\* Mistake: one more than the limit fits.
SaturatedLate(n) == IF n > MaxCount + 1 THEN MaxCount ELSE n
Saturated(n) == IF n > MaxCount THEN MaxCount ELSE n
NoQuery == [max_hops |-> None]
Answer(hops, path_count, mutual, bridges) ==
    [hops |-> hops, path_count |-> path_count, mutual_follow |-> mutual, bridges |-> bridges]
not_found == Answer(None, 0, FALSE, {})
same_node == Answer(0, 1, FALSE, {})

-------------------------------------------------------------------------------
is_direct(from, to) == to \in follows[from]
Mutual(q) == is_direct(q.from, q.to) /\ is_direct(q.to, q.from)

Reply(a) == pc' = "done" /\ answer' = a

\* The answers that need no search: self, unknown pubkeys, a direct follow.
Shortcut(q) ==
    \/ q.from = q.to /\ Reply(same_node)
    \/ q.from # q.to /\ {q.from, q.to} \notin SUBSET Node /\ Reply(not_found)
    \/ /\ q.from # q.to /\ {q.from, q.to} \subseteq Node
       /\ q.max_hops > 0 /\ is_direct(q.from, q.to)
       /\ Reply(Answer(1, 1, Mutual(q), {}))

\* Mistake: the levels of the last search stay.
ClearFrontiers(q) ==
    /\ fwd_visited' = [n \in DOMAIN fwd_visited \cup {q.from} |->
          IF n = q.from THEN [dist |-> 0, paths |-> 1] ELSE fwd_visited[n]]
    /\ bwd_visited' = [n \in DOMAIN bwd_visited \cup {q.to} |->
          IF n = q.to THEN [dist |-> 0, paths |-> 1] ELSE bwd_visited[n]]
    /\ fwd_current' = {q.from} /\ bwd_current' = {q.to}
    /\ meeting_nodes' = {}

Clear(q) ==
    /\ fwd_visited' = [n \in {q.from} |-> [dist |-> 0, paths |-> 1]]
    /\ bwd_visited' = [n \in {q.to} |-> [dist |-> 0, paths |-> 1]]
    /\ fwd_current' = {q.from} /\ bwd_current' = {q.to}
    /\ meeting_nodes' = {}

Search(q) ==
    /\ q.from # q.to /\ {q.from, q.to} \subseteq Node
    /\ ~(q.max_hops > 0 /\ is_direct(q.from, q.to))
    /\ Clear(q)
    /\ fwd_dist' = 0 /\ bwd_dist' = 0 /\ best_distance' = None
    /\ pc' = "search" /\ answer' = not_found

Ask(q) ==
    /\ pc = "idle"
    /\ query' = q
    /\ \/ Shortcut(q) /\ UNCHANGED <<scratch, locals>>
       \/ Search(q)
    /\ UNCHANGED follows

\* Mistake: the hop limit is off by one.
FinishedEarly ==
    \/ fwd_current = {} \/ bwd_current = {}
    \/ best_distance # None /\ fwd_dist + bwd_dist >= best_distance
    \/ fwd_dist + bwd_dist + 1 >= query.max_hops

Finished ==
    \/ fwd_current = {} \/ bwd_current = {}
    \/ best_distance # None /\ fwd_dist + bwd_dist >= best_distance
    \/ fwd_dist + bwd_dist >= query.max_hops

\* The entry of every node reached from a level: a node not seen before gets
\* the sum of the counts of the nodes that lead to it.
\* Mistake: only the first of them counts.
VisitFirst(visited, current, adjacency, dist) ==
    [v \in DOMAIN visited \cup UNION {adjacency[n] : n \in current} |->
        IF v \in DOMAIN visited THEN visited[v]
        ELSE [dist |-> dist,
              paths |-> visited[CHOOSE n \in current : v \in adjacency[n]].paths]]

RoutesThrough(visited, nodes) == Saturated(MapThenSumSet(LAMBDA n : visited[n].paths, nodes))

Visit(visited, current, adjacency, dist) ==
    [v \in DOMAIN visited \cup UNION {adjacency[n] : n \in current} |->
        IF v \in DOMAIN visited THEN visited[v]
        ELSE [dist |-> dist,
              paths |-> RoutesThrough(visited, {n \in current : v \in adjacency[n]})]]

\* Edges from the level to nodes the other side has visited.
Met(visited, current, adjacency, other, dist) ==
    UNION {{[via |-> n, id |-> v, here |-> visited[n].paths, there |-> other[v].paths,
             total |-> dist + other[v].dist] : v \in adjacency[n] \cap DOMAIN other}
           : n \in current}

\* The nearest meetings replace farther ones and join equally near ones.
\* Mistake: the search settles for its first meeting.
MeetOnce(met) ==
    IF met = {} THEN UNCHANGED <<best_distance, meeting_nodes>>
    ELSE LET m == CHOOSE m \in met : TRUE IN
         best_distance' = m.total /\ meeting_nodes' = {m}

Meet(met) ==
    LET totals == {m.total : m \in met} \cup ({best_distance} \ {None}) IN
    IF met = {} THEN UNCHANGED <<best_distance, meeting_nodes>>
    ELSE /\ best_distance' = Min(totals)
         /\ meeting_nodes' = {m \in met \cup meeting_nodes : m.total = Min(totals)}

ExpandForward ==
    /\ pc = "search" /\ ~Finished
    /\ Cardinality(fwd_current) <= Cardinality(bwd_current)
    /\ fwd_dist' = fwd_dist + 1
    /\ Meet(Met(fwd_visited, fwd_current, follows, bwd_visited, fwd_dist + 1))
    /\ fwd_visited' = Visit(fwd_visited, fwd_current, follows, fwd_dist + 1)
    /\ fwd_current' = DOMAIN fwd_visited' \ DOMAIN fwd_visited
    /\ UNCHANGED <<follows, pc, query, answer, bwd_visited, bwd_current, bwd_dist>>

ExpandBackward ==
    /\ pc = "search" /\ ~Finished
    /\ Cardinality(fwd_current) > Cardinality(bwd_current)
    /\ bwd_dist' = bwd_dist + 1
    /\ Meet(Met(bwd_visited, bwd_current, followers, fwd_visited, bwd_dist + 1))
    /\ bwd_visited' = Visit(bwd_visited, bwd_current, followers, bwd_dist + 1)
    /\ bwd_current' = DOMAIN bwd_visited' \ DOMAIN bwd_visited
    /\ UNCHANGED <<follows, pc, query, answer, fwd_visited, fwd_current, fwd_dist>>

path_count == Saturated(MapThenSumSet(LAMBDA m : Saturated(m.here * m.there), meeting_nodes))
bridge_ids == {m.id : m \in meeting_nodes} \ {query.from, query.to}

Finish ==
    /\ pc = "search" /\ Finished
    /\ Reply(IF best_distance # None /\ best_distance <= query.max_hops
             THEN Answer(best_distance, path_count, Mutual(query), bridge_ids)
             ELSE not_found)
    /\ UNCHANGED <<follows, query, scratch, locals>>

Return ==
    /\ pc = "done"
    /\ pc' = "idle" /\ query' = NoQuery /\ answer' = not_found
    /\ fwd_dist' = 0 /\ bwd_dist' = 0 /\ best_distance' = None
    /\ UNCHANGED <<follows, scratch>>

-------------------------------------------------------------------------------
Init ==
    /\ follows \in Graph
    /\ pc = "idle" /\ query = NoQuery /\ answer = not_found
    /\ fwd_visited = <<>> /\ bwd_visited = <<>>
    /\ fwd_current = {} /\ bwd_current = {} /\ meeting_nodes = {}
    /\ fwd_dist = 0 /\ bwd_dist = 0 /\ best_distance = None

Next == (\E q \in Query : Ask(q)) \/ ExpandForward \/ ExpandBackward \/ Finish \/ Return

Spec == Init /\ [][Next]_vars

-------------------------------------------------------------------------------
(* Properties. *)

Level == [dist : Nat, paths : 1..MaxCount]
TypeOK ==
    /\ follows \in [Node -> SUBSET Node]
    /\ pc \in {"idle", "search", "done"} /\ query \in Query \cup {NoQuery}
    /\ answer \in [hops : Nat \cup {None}, path_count : 0..MaxCount,
                   mutual_follow : BOOLEAN, bridges : SUBSET Node]
    /\ DOMAIN fwd_visited \subseteq Node /\ Range(fwd_visited) \subseteq Level
    /\ DOMAIN bwd_visited \subseteq Node /\ Range(bwd_visited) \subseteq Level
    /\ fwd_current \subseteq Node /\ bwd_current \subseteq Node
    /\ meeting_nodes \subseteq [via : Node, id : Node, here : 1..MaxCount,
                                there : 1..MaxCount, total : Nat]
    /\ fwd_dist \in Nat /\ bwd_dist \in Nat /\ best_distance \in Nat \cup {None}

Known(q) == {q.from, q.to} \subseteq Node
Shortest(n) == RoutesOf(follows, query.from, query.to, n)

(* Each side of a search holds exactly the nodes within its number of levels, *)
(* each at its distance, and its frontier is exactly the last level: scratch  *)
(* state of earlier searches never shows.                                     *)
LevelsExact ==
    pc = "search" =>
        \A v \in Node :
            LET out  == Distance(follows, query.from, v, fwd_dist)
                back == Distance(follows, v, query.to, bwd_dist)
            IN /\ (v \in DOMAIN fwd_visited) = (out # None)
               /\ v \in DOMAIN fwd_visited => fwd_visited[v].dist = out
               /\ (v \in fwd_current) = (out = fwd_dist)
               /\ (v \in DOMAIN bwd_visited) = (back # None)
               /\ v \in DOMAIN bwd_visited => bwd_visited[v].dist = back
               /\ (v \in bwd_current) = (back = bwd_dist)

(* The answer's hops are the length of a shortest route, whenever that is     *)
(* within max_hops, and null otherwise, also at the boundary (API.md:21).     *)
DistanceExact ==
    pc = "done" /\ Known(query) =>
        answer.hops = Distance(follows, query.from, query.to, query.max_hops)

(* path_count is the number of shortest directed routes, saturated, whichever *)
(* levels the two sides met at.                                               *)
PathCountExact ==
    pc = "done" /\ Known(query) /\ answer.hops > 0 =>
        answer.path_count = Saturated(Cardinality(Shortest(answer.hops)))

(* The bridges are one whole layer of the shortest routes: every shortest     *)
(* route passes, at one and the same hop, through one of them, or they met at *)
(* an end and there are none.                                                 *)
BridgesAreOneLayer ==
    pc = "done" /\ Known(query) /\ answer.hops > 1 =>
        \E i \in 1..answer.hops :
            answer.bridges = {Stop(r, query.from, query.to, i) : r \in Shortest(answer.hops)}
                                \ {query.to}

(* docs/BRD.md:38: include_bridges returns intermediate pubkeys.              *)
BridgesReturned ==
    pc = "done" /\ answer.hops > 1 => answer.bridges # {}
===============================================================================
