------------------------------ MODULE MCDatabase ------------------------------
(* Instances of Database for TLC. *)
EXTENDS Database, TLC

CONSTANTS a, b, c

U(p, ts, created_at, id) ==
    [author |-> p, targets |-> ts, created_at |-> created_at, event_id |-> id]

\* Two events of an author in one batch, the newer first; a tie, which the
\* lower ID wins; lists over old and new pubkeys, the author among them; an
\* empty list; mute lists of an author without a row of its own.
Batches ==
    {[mutes |-> FALSE, updates |-> <<U(a, {b, c}, 3, 2), U(a, {b}, 2, 1)>>],
     [mutes |-> FALSE, updates |-> <<U(a, {c}, 3, 1), U(c, {a, c}, 2, 5)>>],
     [mutes |-> FALSE, updates |-> <<U(c, {}, 2, 4)>>],
     [mutes |-> TRUE, updates |-> <<U(c, {a}, 1, 7)>>],
     [mutes |-> TRUE, updates |-> <<U(c, {b}, 2, 8), U(b, {}, 2, 9)>>]}

\* A database of an older version: sparse ids, no mute lists.
Legacy ==
    [nodes |-> [p \in Pubkey |->
        CASE p = a -> [id |-> 2, version |-> [created_at |-> 1, event_id |-> 3]]
          [] p = b -> [id |-> 5, version |-> NoVersion]
          [] p = c -> [id |-> 0, version |-> NoVersion]],
     last |-> 5, mute_lists |-> <<>>,
     edges |-> [mutes \in BOOLEAN |-> IF mutes THEN {} ELSE {<<2, 5>>}]]
===============================================================================
