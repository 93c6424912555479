----------------------------- MODULE MCGraphStore -----------------------------
(* Instances of GraphStore for TLC. *)
EXTENDS GraphStore, TLC

CONSTANTS a, b, c

\* Threads are interchangeable (only in the run without liveness).
ThreadSymmetry == Permutations(Thread)

Follow(p, ts, v) == [do |-> "follow", author |-> p, targets |-> ts, version |-> v]
Mute(p, ts, v) == [do |-> "mute", author |-> p, targets |-> ts, version |-> v]
Ask2(do) == [do |-> do, from |-> a, to |-> b]

\* Two lists of one author that share a target, a list over the same nodes of
\* another author, and a mute list.
JobsUpdates ==
    {Follow(a, <<b>>, 1), Follow(a, <<b, c>>, 2), Mute(a, <<c>>, 1)}

\* A snapshot restored while updates of its authors run.
JobsRestore ==
    {[do |-> "restore", nodes |-> <<b, a, c>>,
      lists |-> {Follow(a, <<b>>, 2), Mute(b, <<a>>, 1)}],
     Follow(a, <<c>>, 1), Follow(a, <<>>, 3), [do |-> "node", author |-> b]}

QueriesAll == {Ask2(do) : do \in {"page", "walk", "followers", "mutes", "evidence"}}
QueriesWide == {Ask2(do) : do \in {"walk", "evidence", "mutes"}}
===============================================================================
