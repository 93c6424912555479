------------------------------ MODULE MCIngestion ------------------------------
(* Instances of Ingestion for TLC.  Numbers are timestamps and IDs. *)
EXTENDS Ingestion

Ev(a, k, t, i) == [author |-> a, kind |-> k, created_at |-> t, id |-> i]

\* One author: two follow lists with one timestamp, and a mute list.
EventsTie == {Ev("a", "follow", 1, 2), Ev("a", "follow", 1, 1), Ev("a", "mute", 1, 3)}

\* And a follow list that is newer than the tie.
EventsFour == EventsTie \cup {Ev("a", "follow", 2, 5)}

\* With FutureSkew 1 the last follow list is future-dated until the clock ticks.
EventsFuture ==
    {Ev("a", "follow", 1, 1), Ev("b", "mute", 1, 3), Ev("a", "other", 1, 4),
     Ev("a", "follow", 2, 2)}
===============================================================================
