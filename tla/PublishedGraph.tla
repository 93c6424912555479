---------------------------- MODULE PublishedGraph -----------------------------
(***************************************************************************)
(* What the graph promises those who keep what they have read of it, as    *)
(* the cache and the handlers do (Queries).  A pubkey gets an id once, and *)
(* keeps it.  Lists of nodes that were found before only change in a step  *)
(* that counts a revision; a new node is published first and counted by    *)
(* the next step of the graph.  The version that a list is compared by     *)
(* never goes back.                                                        *)
(***************************************************************************)
EXTENDS Naturals

CONSTANTS Pubkey, ListKind, NoId

VARIABLES
    ids,        \* per pubkey
    lists,      \* per kind and pubkey: the ids listed
    versions,   \* per kind and pubkey
    creating,   \* a node is published and not yet counted
    revision

vars == <<ids, lists, versions, creating, revision>>

Published == {ids[p] : p \in Pubkey} \ {NoId}

Init ==
    /\ ids = [p \in Pubkey |-> NoId]
    /\ lists = [k \in ListKind |-> [p \in Pubkey |-> {}]]
    /\ versions = [k \in ListKind |-> [p \in Pubkey |-> 0]]
    /\ creating = FALSE /\ revision = 0

PublishNode ==
    /\ ~creating /\ creating' = TRUE
    /\ ids' \in [Pubkey -> Nat]
    /\ \E p \in Pubkey : /\ ids[p] = NoId /\ ids'[p] \notin Published \cup {NoId}
                         /\ \A q \in Pubkey \ {p} : ids'[q] = ids[q]
    /\ UNCHANGED <<lists, versions, revision>>

CountNode ==
    /\ creating /\ creating' = FALSE
    /\ revision' = revision + 1
    /\ UNCHANGED <<ids, lists, versions>>

Advance ==
    /\ versions' \in [ListKind -> [Pubkey -> Nat]]
    /\ \A k \in ListKind, p \in Pubkey : versions'[k][p] >= versions[k][p]

\* Lists of published nodes change, and hold published ids.
Update ==
    /\ ~creating
    /\ lists' \in [ListKind -> [Pubkey -> SUBSET Published]]
    /\ \A k \in ListKind, p \in Pubkey : ids[p] = NoId => lists'[k][p] = {}
    /\ Advance
    /\ revision' = revision + 1
    /\ UNCHANGED <<ids, creating>>

\* A newer event with the same list.
Confirm ==
    /\ Advance
    /\ UNCHANGED <<ids, lists, creating, revision>>

Next == PublishNode \/ CountNode \/ Update \/ Confirm

Spec == Init /\ [][Next]_vars
===============================================================================
