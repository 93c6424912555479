------------------------------- MODULE BfsPath --------------------------------
(***************************************************************************)
(* compute_path (graph/bfs.rs): the bidirectional search behind /path, one *)
(* step per level.  It is a second implementation of Bfs's search: it      *)
(* remembers a parent per node instead of counting, stops at the first     *)
(* meeting, and rebuilds one route from the parents.                       *)
(*                                                                         *)
(* Which meeting comes first, and which of several parents a node gets,    *)
(* depends on the order of ids in the lists: any may.                      *)
(***************************************************************************)
EXTENDS Integers, Sequences, FiniteSets, Functions, Routes

CONSTANTS Node, Graph, Query      \* as in Bfs

VARIABLES
    follows,
    pc, query,
    path,                       \* the answer: intermediate nodes, or NoPath
    fwd_parent, bwd_parent,     \* with the visited sets, below
    fwd_current, bwd_current,
    fwd_dist, bwd_dist,
    meeting_node

search == <<fwd_parent, bwd_parent, fwd_current, bwd_current, fwd_dist, bwd_dist>>
vars   == <<follows, pc, query, path, search, meeting_node>>

NoPath == <<"none">>
NoNode == "none"
NoQuery == [max_hops |-> None]
followers == [n \in Node |-> {m \in Node : n \in follows[m]}]

\* Every visited node but the first has a parent.
fwd_visited == DOMAIN fwd_parent \cup {query.from}
bwd_visited == DOMAIN bwd_parent \cup {query.to}

-------------------------------------------------------------------------------
Known(q) == {q.from, q.to} \subseteq Node
Direct(q) == q.max_hops > 0 /\ q.to \in follows[q.from]

Start ==
    /\ fwd_current' = {query'.from} /\ bwd_current' = {query'.to}
    /\ fwd_parent' = <<>> /\ bwd_parent' = <<>>
    /\ fwd_dist' = 0 /\ bwd_dist' = 0

Ask(q) ==
    /\ pc = "idle" /\ query' = q
    /\ \/ /\ q.from = q.to \/ (Known(q) /\ Direct(q))
          /\ pc' = "done" /\ path' = <<>> /\ UNCHANGED search
       \/ /\ q.from # q.to /\ ~Known(q)
          /\ pc' = "done" /\ path' = NoPath /\ UNCHANGED search
       \/ /\ q.from # q.to /\ Known(q) /\ ~Direct(q)
          /\ pc' = "search" /\ path' = NoPath /\ Start
    /\ UNCHANGED <<follows, meeting_node>>

\* Mistake: the hop limit bounds each side by itself.
FinishedPerSide ==
    \/ meeting_node # NoNode \/ fwd_current = {} \/ bwd_current = {}
    \/ fwd_dist >= query.max_hops \/ bwd_dist >= query.max_hops
Finished ==
    \/ meeting_node # NoNode \/ fwd_current = {} \/ bwd_current = {}
    \/ fwd_dist + bwd_dist >= query.max_hops

\* Edges from a level into a set of nodes; and a parent for each new node.
Edges(current, adjacency, S) == {e \in current \X S : e[2] \in adjacency[e[1]]}
Parents(current, adjacency, visited) ==
    LET new == (UNION {adjacency[n] : n \in current}) \ visited
    IN {p \in [new -> current] : \A v \in new : v \in adjacency[p[v]]}
Extend(parent, p) ==
    [v \in DOMAIN parent \cup DOMAIN p |-> IF v \in DOMAIN p THEN p[v] ELSE parent[v]]

\* Up to the first meeting the level gives parents too; that they are left out
\* of the step that meets makes no difference to the route.
Expand(current, adjacency, here, there, parent, parent1, current1) ==
    LET edges == Edges(current, adjacency, there) IN
    \/ \E e \in edges :
          /\ meeting_node' = e[2]
          /\ parent1 = Extend(parent, [v \in {e[2]} |-> e[1]])
          /\ current1 = current
    \/ /\ edges = {}
       /\ \E p \in Parents(current, adjacency, here) :
            parent1 = Extend(parent, p) /\ current1 = DOMAIN p
       /\ UNCHANGED meeting_node

ExpandForward ==
    /\ pc = "search" /\ ~Finished
    /\ Cardinality(fwd_current) <= Cardinality(bwd_current)
    /\ fwd_dist' = fwd_dist + 1
    /\ Expand(fwd_current, follows, fwd_visited, bwd_visited, fwd_parent, fwd_parent', fwd_current')
    /\ UNCHANGED <<follows, pc, query, path, bwd_parent, bwd_current, bwd_dist>>

\* Mistake: both sides walk the forward lists.
ExpandBackwardOverFollows ==
    /\ pc = "search" /\ ~Finished
    /\ Cardinality(fwd_current) > Cardinality(bwd_current)
    /\ bwd_dist' = bwd_dist + 1
    /\ Expand(bwd_current, follows, bwd_visited, fwd_visited, bwd_parent, bwd_parent', bwd_current')
    /\ UNCHANGED <<follows, pc, query, path, fwd_parent, fwd_current, fwd_dist>>

ExpandBackward ==
    /\ pc = "search" /\ ~Finished
    /\ Cardinality(fwd_current) > Cardinality(bwd_current)
    /\ bwd_dist' = bwd_dist + 1
    /\ Expand(bwd_current, followers, bwd_visited, fwd_visited, bwd_parent, bwd_parent', bwd_current')
    /\ UNCHANGED <<follows, pc, query, path, fwd_parent, fwd_current, fwd_dist>>

\* Following the parents of one side from the meeting node to its end.  A node
\* without a parent ends the walk as well.
Up[k \in 0..Cardinality(Node)] ==
    IF k = 0 THEN meeting_node
    ELSE IF Up[k - 1] \in DOMAIN fwd_parent THEN fwd_parent[Up[k - 1]] ELSE Up[k - 1]
Down[k \in 0..Cardinality(Node)] ==
    IF k = 0 THEN meeting_node
    ELSE IF Down[k - 1] \in DOMAIN bwd_parent THEN bwd_parent[Down[k - 1]] ELSE Down[k - 1]

Steps(walk, last) == CHOOSE k \in 0..Cardinality(Node) :
    walk[k] = last /\ \A i \in 0..(k - 1) : walk[i] # last

\* Mistake: the forward half is not reversed.
RouteUnreversed ==
    LET up == Steps(Up, query.from)  down == Steps(Down, query.to)
        first == IF meeting_node = query.to THEN 1 ELSE 0
    IN [i \in 1..(up - first) |-> Up[i + first - 1]] \o [i \in 1..(down - 1) |-> Down[i]]

\* The forward half, reversed, with the meeting node unless that is the target;
\* then the backward half without the target.
Route ==
    LET up == Steps(Up, query.from)  down == Steps(Down, query.to)
        first == IF meeting_node = query.to THEN 1 ELSE 0
    IN [i \in 1..(up - first) |-> Up[up - i]] \o [i \in 1..(down - 1) |-> Down[i]]

Finish ==
    /\ pc = "search" /\ Finished
    /\ pc' = "done"
    /\ path' = IF meeting_node = NoNode THEN NoPath ELSE Route
    /\ UNCHANGED <<follows, query, search, meeting_node>>

Return ==
    /\ pc = "done" /\ pc' = "idle"
    /\ query' = NoQuery /\ path' = NoPath /\ meeting_node' = NoNode
    /\ fwd_parent' = <<>> /\ bwd_parent' = <<>>
    /\ fwd_current' = {} /\ bwd_current' = {} /\ fwd_dist' = 0 /\ bwd_dist' = 0
    /\ UNCHANGED follows

-------------------------------------------------------------------------------
Init ==
    /\ follows \in Graph
    /\ pc = "idle" /\ query = NoQuery /\ path = NoPath /\ meeting_node = NoNode
    /\ fwd_parent = <<>> /\ bwd_parent = <<>>
    /\ fwd_current = {} /\ bwd_current = {} /\ fwd_dist = 0 /\ bwd_dist = 0

Next == (\E q \in Query : Ask(q)) \/ ExpandForward \/ ExpandBackward \/ Finish \/ Return

Spec == Init /\ [][Next]_vars

-------------------------------------------------------------------------------
(* Properties. *)

(* The answer is the interior of a shortest route, and there is none exactly  *)
(* when no route is within max_hops: the condition under which /distance      *)
(* answers null, so that the two endpoints never contradict each other.       *)
PathIsShortest ==
    pc = "done" /\ query.from # query.to =>
        LET hops == Distance(follows, query.from, query.to, query.max_hops) IN
        IF ~Known(query) \/ hops = None THEN path = NoPath
        ELSE path # NoPath /\ path \in RoutesOf(follows, query.from, query.to, hops)
===============================================================================
