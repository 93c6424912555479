-------------------------------- MODULE Routes --------------------------------
(***************************************************************************)
(* What the two searches of graph/bfs.rs are compared with: the routes of  *)
(* a directed graph, by enumeration.  A route of n hops is the sequence of *)
(* the n-1 nodes strictly between its ends.                                *)
(***************************************************************************)
EXTENDS Integers, Sequences, FiniteSetsExt

None == -1      \* no distance

Stop(route, from, to, i) ==
    IF i = 0 THEN from ELSE IF i > Len(route) THEN to ELSE route[i]

IsRoute(follows, from, to, route) ==
    \A i \in 0..Len(route) :
        Stop(route, from, to, i + 1) \in follows[Stop(route, from, to, i)]

RoutesOf(follows, from, to, n) ==
    {route \in [1..(n - 1) -> DOMAIN follows] : IsRoute(follows, from, to, route)}

\* Nodes within n hops of a node, and the least such n up to max.
Within(follows, from, max) ==
    LET W[n \in 0..max] ==
          IF n = 0 THEN {from}
          ELSE LET near == W[n - 1] IN near \cup UNION {follows[v] : v \in near}
    IN W

Distance(follows, from, to, max) ==
    LET near    == Within(follows, from, max)
        lengths == {n \in 0..max : to \in near[n]}
    IN IF lengths = {} THEN None ELSE Min(lengths)
===============================================================================
