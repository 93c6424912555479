------------------------------- MODULE ListStore -------------------------------
(***************************************************************************)
(* What the database promises its callers: per author, one replaceable     *)
(* follow list and one mute list.  A batch is stored as a whole or not at  *)
(* all; a crash of the process loses nothing stored, and a failure of the  *)
(* host loses at most whole batches, the latest first, since the last      *)
(* checkpoint.  What is loaded at startup is what is stored.               *)
(*                                                                         *)
(* The key of a kind is the flag "mutes" of the code.                      *)
(***************************************************************************)
EXTENDS Integers, Sequences, FiniteSets, EventOrder

CONSTANTS Author, Batch, Error

VARIABLES
    lists,      \* per kind and author: a list, or None
    past,       \* what a failure of the host may leave, oldest first
    result,     \* of the last batch: how many lists it changed, or Error
    loaded      \* what the process found at startup, or None

vars == <<lists, past, result, loaded>>

Beats(u, v) == v = None \/ EventWins(u.created_at, u.event_id, v.created_at, v.event_id)

\* An event stands for the list it carries.
ListOf(u) == [created_at |-> u.created_at, event_id |-> u.event_id, targets |-> u.targets]

Offers(b, a) == {ListOf(b.updates[i]) : i \in {j \in DOMAIN b.updates : b.updates[j].author = a}}

\* The newest of what is stored and what is offered.
Newest(old, offers) ==
    LET better == {o \in offers : Beats(o, old)} IN
    IF better = {} THEN old ELSE CHOOSE o \in better : \A p \in better : ~Beats(p, o)

After(b) == [a \in Author |-> Newest(lists[b.mutes][a], Offers(b, a))]

List == [created_at : Opt, event_id : Opt, targets : SUBSET Author]

Init ==
    /\ lists \in [BOOLEAN -> [Author -> List \cup {None}]]
    /\ past = <<lists>> /\ result = 0 /\ loaded = lists

Store(b) ==
    /\ lists' = [lists EXCEPT ![b.mutes] = After(b)]
    /\ past' = Append(past, lists')
    /\ result' = Cardinality({a \in Author : After(b)[a] # lists[b.mutes][a]})
    /\ UNCHANGED loaded

Refuse == result' = Error /\ UNCHANGED <<lists, past, loaded>>

Checkpoint == past' = <<lists>> /\ UNCHANGED <<lists, result, loaded>>

Crash == loaded' = None /\ result' = 0 /\ UNCHANGED <<lists, past>>

HostFails ==
    /\ \E k \in DOMAIN past : lists' = past[k] /\ past' = SubSeq(past, 1, k)
    /\ loaded' = None /\ result' = 0

Load == loaded' = lists /\ UNCHANGED <<lists, past, result>>

Next == (\E b \in Batch : Store(b)) \/ Refuse \/ Checkpoint \/ Crash \/ HostFails \/ Load

Spec == Init /\ [][Next]_vars
===============================================================================
