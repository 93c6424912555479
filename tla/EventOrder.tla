------------------------------ MODULE EventOrder ------------------------------
(***************************************************************************)
(* The NIP-01 "newest timestamp, then lowest event ID" order of            *)
(* replaceable events, as the program writes it down four times: in the    *)
(* graph (accepts_event), in the database (event_wins), in the winner      *)
(* selection of a batch (persist_and_apply) and in the suppression test of *)
(* the seen cache (SeenEvent::dominates).                                  *)
(*                                                                         *)
(* Timestamps and event IDs are naturals: IDs are hex strings of one       *)
(* length, so their string order is a total order of numbers.  A Rust      *)
(* Option is a natural or None.                                            *)
(***************************************************************************)
EXTENDS Naturals

CONSTANT None

ASSUME NoneAssumption == None \notin Nat

Opt == Nat \cup {None}

\* graph/store.rs accepts_event(old_ts, old_id, new_ts, new_id).
AcceptsEvent(oldTs, oldId, newTs, newId) ==
    \/ oldTs = None
    \/ /\ oldTs # None /\ newTs # None
       /\ \/ newTs > oldTs
          \/ /\ newTs = oldTs
             /\ newId # None
             /\ (oldId # None => newId < oldId)

\* db/sqlite.rs event_wins(new_ts, new_id, old_ts, old_id): a missing stored
\* timestamp always loses, a missing new one loses to a stored one.
EventWins(newTs, newId, oldTs, oldId) ==
    \/ oldTs = None
    \/ newTs # None /\ oldTs # None /\ newTs # oldTs /\ newTs > oldTs
    \/ /\ newTs # None /\ newTs = oldTs
       /\ newId # None
       /\ oldId = None \/ newId < oldId

\* The test of persist_and_apply that moves a winner slot to a later update.
Supersedes(newTs, newId, oldTs, oldId) ==
    newTs > oldTs \/ (newTs = oldTs /\ newId < oldId)

\* SeenEvent::dominates: the cached event makes the received one redundant.
Dominates(seenTs, seenId, ts, id) ==
    seenTs > ts \/ (seenTs = ts /\ seenId <= id)
=============================================================================
