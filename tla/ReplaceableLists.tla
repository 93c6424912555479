--------------------------- MODULE ReplaceableLists ---------------------------
(***************************************************************************)
(* What ingestion promises, without batches, retries or a channel: one     *)
(* last-writer-wins register per (author, kind) that is stored durably,    *)
(* and a copy of it that is served.  The stored register only moves to a   *)
(* published event that beats it.  The copy of a list only moves to the    *)
(* stored list; it disappears when the process dies and comes back as a    *)
(* whole when it restarts.                                                 *)
(***************************************************************************)
CONSTANTS
    Event, Key, None,
    KeyOf(_),      \* the list an event belongs to
    Beats(_, _)    \* the replaceable-event order

VARIABLES published, stored, served

vars == <<published, stored, served>>

Init ==
    /\ published = {}
    /\ stored = [k \in Key |-> None]
    /\ served = [k \in Key |-> None]

Publish ==
    /\ \E e \in Event : published' = published \cup {e}
    /\ UNCHANGED <<stored, served>>

\* Any number of lists advance together.
Store ==
    /\ stored' \in [Key -> published \cup {None}]
    /\ \A k \in Key : stored'[k] # stored[k] =>
         /\ stored'[k] # None /\ KeyOf(stored'[k]) = k
         /\ stored[k] = None \/ Beats(stored'[k], stored[k])
    /\ UNCHANGED <<published, served>>

Serve ==
    /\ \E k \in Key : served' = [served EXCEPT ![k] = stored[k]]
    /\ UNCHANGED <<published, stored>>

Lose ==
    /\ served' = [k \in Key |-> None]
    /\ UNCHANGED <<published, stored>>

Restore ==
    /\ served' = stored
    /\ UNCHANGED <<published, stored>>

Next == Publish \/ Store \/ Serve \/ Lose \/ Restore

Spec == Init /\ [][Next]_vars
===============================================================================
