---------------------------- MODULE Ingestion_proofs ----------------------------
(***************************************************************************)
(* The ingestion service, for any authors, events, batch size, cache and   *)
(* channel capacity, and any number of failures, crashes and losses:       *)
(*   - the comparators of its parts are one order;                         *)
(*   - the agreement between the database and the graph, and the           *)
(*     refinement of ReplaceableLists;                                     *)
(*   - no event received is lost while the task lives, nor when it ends as *)
(*     it should; what the future filter and the readiness flag promise;   *)
(*   - a transaction is one batch stored as ListStore says.                *)
(***************************************************************************)
EXTENDS Ingestion, FiniteSetTheorems, TLAPS

-------------------------------------------------------------------------------
(* The order of replaceable events. *)

\* The graph's accepts_event and the database's event_wins decide alike for
\* every combination of present and absent timestamps and IDs: "The graph and
\* database enforce the same ordering" (docs/SYNC.md:5).
THEOREM GraphAndDatabaseAgree ==
    ASSUME NEW oldTs \in Opt, NEW oldId \in Opt, NEW newTs \in Opt, NEW newId \in Opt
    PROVE  AcceptsEvent(oldTs, oldId, newTs, newId) <=> EventWins(newTs, newId, oldTs, oldId)
BY NoneAssumption DEF AcceptsEvent, EventWins, Opt

\* On versioned events both decide by the batch's comparison.
LEMMA WinsIsSupersedes ==
    ASSUME NEW t \in Nat, NEW i \in Nat, NEW u \in Nat, NEW j \in Nat
    PROVE  /\ EventWins(u, j, t, i) <=> Supersedes(u, j, t, i)
           /\ AcceptsEvent(t, i, u, j) <=> Supersedes(u, j, t, i)
BY NoneAssumption DEF EventWins, AcceptsEvent, Supersedes

\* The seen cache suppresses exactly the events the other three would refuse.
LEMMA DominatesIsNotSuperseded ==
    ASSUME NEW t \in Nat, NEW i \in Nat, NEW u \in Nat, NEW j \in Nat
    PROVE  Dominates(t, i, u, j) <=> ~Supersedes(u, j, t, i)
BY DEF Dominates, Supersedes

LEMMA SupersedesIrreflexive ==
    ASSUME NEW t \in Nat, NEW i \in Nat
    PROVE  ~Supersedes(t, i, t, i)
BY DEF Supersedes

LEMMA SupersedesTransitive ==
    ASSUME NEW t \in Nat, NEW i \in Nat, NEW u \in Nat, NEW j \in Nat, NEW v \in Nat, NEW k \in Nat,
           Supersedes(t, i, u, j), Supersedes(u, j, v, k)
    PROVE  Supersedes(t, i, v, k)
BY DEF Supersedes

\* Two versions that do not supersede each other are one version, so a tie on
\* timestamp and ID cannot be decided differently by two components.
LEMMA SupersedesTotal ==
    ASSUME NEW t \in Nat, NEW i \in Nat, NEW u \in Nat, NEW j \in Nat,
           ~Supersedes(t, i, u, j), ~Supersedes(u, j, t, i)
    PROVE  t = u /\ i = j
BY DEF Supersedes

USE DEF vars, env, client, inbox, flushing, stores, status, budget

-------------------------------------------------------------------------------
(* Lemmas about the operators. *)

LEMMA KeyType ==
    ASSUME NEW e \in Event, e.kind \in Kind
    PROVE  KeyOf(e) \in Key
BY EventAssumption DEF KeyOf, Key

LEMMA EventFields ==
    ASSUME NEW e \in Event
    PROVE  /\ e # None
           /\ e.created_at \in Nat /\ e.id \in Nat
           /\ Ts(e) = e.created_at /\ Id(e) = e.id
BY EventAssumption DEF Ts, Id

LEMMA EmptySequence == <<>> \in Seq(Event)
OBVIOUS

LEMMA WinnersType ==
    ASSUME NEW s \in Seq(Event)
    PROVE  /\ Winners(s) \subseteq Event
           /\ IsFiniteSet(Winners(s))
<1> DEFINE I == {i \in DOMAIN s :
                   \A j \in DOMAIN s : KeyOf(s[j]) = KeyOf(s[i]) => ~Beats(s[j], s[i])}
           f == [i \in I |-> s[i]]
<1>1. Winners(s) = {s[i] : i \in I}
  BY DEF Winners
<1>2. Winners(s) \subseteq Event
  BY <1>1
<1>3. IsFiniteSet(I)
  <2>1. IsFiniteSet(1..Len(s))
    BY FS_Interval
  <2>2. I \in SUBSET (1..Len(s))
    OBVIOUS
  <2> QED BY <2>1, <2>2, FS_Subset
<1>4. f \in Surjection(I, Winners(s))
  BY <1>1 DEF Surjection
<1>5. IsFiniteSet(Winners(s))
  BY <1>3, <1>4, FS_Surjection
<1> QED BY <1>2, <1>5

\* Two selected updates of one list are one event.
LEMMA WinnersUnique ==
    ASSUME NEW s \in Seq(Event), NEW e \in Winners(s), NEW f \in Winners(s), KeyOf(e) = KeyOf(f)
    PROVE  e = f
<1>1. ~Beats(e, f) /\ ~Beats(f, e)
  BY DEF Winners
<1>2. e \in Event /\ f \in Event
  BY WinnersType
<1>3. e.id = f.id
  BY <1>1, <1>2, EventFields, SupersedesTotal DEF Beats
<1> QED BY <1>2, <1>3, EventAssumption

LEMMA AcceptedType ==
    ASSUME NEW kind, updates \in Seq(Event)
    PROVE  /\ Accepted(kind) \subseteq Winners(updates)
           /\ Cardinality(Accepted(kind)) \in Nat
<1>1. Accepted(kind) \in SUBSET Winners(updates)
  BY DEF Accepted, Items
<1>2. IsFiniteSet(Accepted(kind))
  BY <1>1, WinnersType, FS_Subset
<1> QED BY <1>1, <1>2, FS_CardinalityType

LEMMA CommitType ==
    ASSUME NEW kind \in Kind, updates \in Seq(Event), db \in [Key -> Event \cup {None}]
    PROVE  Commit(Accepted(kind)) \in [Key -> Event \cup {None}]
BY AcceptedType, WinnersType DEF Commit

-------------------------------------------------------------------------------
LEMMA FailType ==
    ASSUME TypeOK, Fail
    PROVE  failures' \in Nat /\ crashes' \in Nat /\ lost' \in Nat
BY DEF Fail, TypeOK

LEMMA TypeInit == Init => TypeOK
<1> SUFFICES ASSUME Init PROVE TypeOK
  OBVIOUS
<1>1. attempt \in 0..(Attempts - 1)
  BY DEF Init, Attempts
<1> QED BY <1>1, EmptySequence DEF Init, TypeOK, Empty, Live

LEMMA TypeLoseMemory ==
    ASSUME TypeOK, LoseMemory, failures' \in Nat, crashes' \in Nat, lost' \in Nat
    PROVE  TypeOK'
<1>1. attempt' \in 0..(Attempts - 1)
  BY DEF LoseMemory, Attempts
<1> QED BY <1>1, EmptySequence DEF LoseMemory, NewClient, TypeOK, Empty, Live

LEMMA TypeTakeBatch ==
    ASSUME TypeOK, NEW b \in Seq(Event), NEW next \in {"recv", "resync", "closed", "drain"},
           TakeBatch(b, next)
    PROVE  /\ pc' \in Live /\ after' \in {"recv", "resync", "closed", "drain"}
           /\ batch' \in Seq(Event) /\ updates' \in Seq(Event)
           /\ attempt' \in 0..(Attempts - 1) /\ count' \in Nat /\ applying' \subseteq Event
BY EmptySequence DEF TypeOK, TakeBatch, Live, Attempts

LEMMA TypeFlush ==
    ASSUME TypeOK, NEW next \in {"recv", "resync", "closed", "drain"}, Flush(next)
    PROVE  /\ pc' \in Live /\ after' \in {"recv", "resync", "closed", "drain"}
           /\ batch' \in Seq(Event) /\ updates' \in Seq(Event)
           /\ attempt' \in 0..(Attempts - 1) /\ count' \in Nat /\ applying' \subseteq Event
BY TypeTakeBatch DEF TypeOK, Flush, Live

LEMMA TypeReceive == ASSUME TypeOK, Receive PROVE TypeOK'
<1>1. PICK e \in Event : e = Head(channel)
  BY DEF TypeOK, Receive, Receivable
<1>2. Append(batch, e) \in Seq(Event)
  BY DEF TypeOK
<1>3. seen' \subseteq Event
  BY <1>1 DEF Receive, PutSeen, TypeOK
<1>4. channel' \in Seq(Event)
  BY DEF Receive, Receivable, TypeOK
<1>5. received' \subseteq Event
  BY <1>1 DEF Receive, TypeOK
<1>6. \/ TakeBatch(Append(batch, e), "recv")
      \/ batch' = Append(batch, e) /\ UNCHANGED <<pc, flushing>>
  BY <1>1 DEF Receive
<1>7. /\ pc' \in Live /\ after' \in {"recv", "resync", "closed", "drain"}
      /\ batch' \in Seq(Event) /\ updates' \in Seq(Event)
      /\ attempt' \in 0..(Attempts - 1) /\ count' \in Nat /\ applying' \subseteq Event
  BY <1>2, <1>6, TypeTakeBatch DEF TypeOK, Receive, Receivable, Live
<1> QED BY <1>3, <1>4, <1>5, <1>7 DEF TypeOK, Receive

LEMMA TypeCommit ==
    ASSUME TypeOK, NEW kind \in Kind, NEW here, NEW next \in Live, CommitLists(kind, here, next),
           applying' \subseteq Event
    PROVE  TypeOK'
<1>1. db' \in [Key -> Event \cup {None}]
  BY CommitType DEF TypeOK, CommitLists
<1>2. count' \in Nat /\ accepted' \in Nat
  BY AcceptedType DEF TypeOK, CommitLists
<1> QED BY <1>1, <1>2 DEF TypeOK, CommitLists

LEMMA TypeApply == ASSUME TypeOK, Apply PROVE TypeOK'
<1>1. PICK i \in DOMAIN updates :
        /\ graph' = [graph EXCEPT ![KeyOf(updates[i])] =
                        IF GraphAccepts(updates[i], @) THEN updates[i] ELSE @]
        /\ applying' = applying \ {updates[i]}
  BY DEF Apply
<1>2. updates[i] \in Event
  BY DEF TypeOK
<1>3. graph' \in [Key -> Event \cup {None}]
  BY <1>1, <1>2 DEF TypeOK
<1> QED BY <1>1, <1>3 DEF TypeOK, Apply

LEMMA TypeNext == ASSUME TypeOK, [Next]_vars PROVE TypeOK'
<1> USE DEF Live
<1>1. CASE Boot            BY <1>1 DEF Boot, TypeOK
<1>2. CASE Connect         BY <1>2, EmptySequence DEF Connect, NewClient, TypeOK
<1>3. CASE ProcessExit     BY <1>3, TypeLoseMemory DEF ProcessExit, TypeOK
<1>4. CASE Drain           BY <1>4, TypeFlush DEF Drain, TypeOK
<1>5. CASE Disconnect      BY <1>5 DEF Disconnect, Stop, TypeOK
<1>6. CASE FlushTick
  <2>1. batch \in Seq(Event) /\ TakeBatch(batch, "recv")
    BY <1>6 DEF FlushTick, TypeOK
  <2> QED BY <1>6, <2>1, TypeTakeBatch DEF FlushTick, TypeOK
<1>7. CASE Discard         BY <1>7 DEF Discard, Receivable, TypeOK
<1>8. CASE Suppress        BY <1>8 DEF Suppress, Receivable, TypeOK
<1>9. CASE Receive         BY <1>9, TypeReceive
<1>10. CASE Lagged         BY <1>10, TypeFlush DEF Lagged, TypeOK
<1>11. CASE Resync         BY <1>11, EmptySequence DEF Resync, NewClient, TypeOK
<1>12. CASE ChannelClosed  BY <1>12 DEF ChannelClosed, Stop, TypeOK
<1>13. CASE CommitFollows  BY <1>13, TypeCommit DEF CommitFollows, Kind, TypeOK
<1>14. CASE CommitMutes
  BY <1>14, TypeCommit, WinnersType DEF CommitMutes, Kind, TypeOK
<1>15. CASE Retry          BY <1>15 DEF Retry, TypeOK
<1>16. CASE Apply          BY <1>16, TypeApply
<1>17. CASE FlushDone
  <2>1. attempt' \in 0..(Attempts - 1) /\ persisted' \in Nat
    BY <1>17 DEF FlushDone, TypeOK, Attempts
  <2>2. failed' = FALSE /\ UNCHANGED running /\ pc' = after
    BY <1>17 DEF FlushDone
  <2> QED BY <1>17, <2>1, <2>2, EmptySequence DEF FlushDone, TypeOK
<1>18. CASE ConnectFails \/ DisconnectFails
  BY <1>18, FailType DEF ConnectFails, DisconnectFails, Stop, TypeOK
<1>19. CASE Crash          BY <1>19, TypeLoseMemory DEF Crash, Die, TypeOK
<1>20. CASE Signal         BY <1>20 DEF Signal, Die, TypeOK
<1>21. CASE ChannelCloses  BY <1>21, TypeFlush DEF ChannelCloses, Fail, TypeOK
<1>22. CASE TransactionFails
  <2>1. attempt' \in 0..(Attempts - 1)
    BY <1>22 DEF TransactionFails, Stop, TypeOK, Attempts
  <2> QED BY <1>22, <2>1, FailType DEF TransactionFails, Stop, TypeOK
<1>23. CASE PersistPanics  BY <1>23, FailType DEF PersistPanics, Stop, TypeOK
<1>24. CASE Tick           BY <1>24 DEF Tick, TypeOK
<1>25. ASSUME NEW e \in Event, Publish(e) PROVE TypeOK'
  BY <1>25 DEF Publish, TypeOK
<1>26. ASSUME NEW e \in Event, Deliver(e) PROVE TypeOK'
  <2>1. failures' \in Nat /\ crashes' \in Nat /\ lost' \in Nat
    BY <1>26 DEF Deliver, Lose, TypeOK
  <2>2. CASE Len(channel) < ChannelCapacity /\ channel' = Append(channel, e)
                /\ UNCHANGED <<lagged, budget>>
    BY <1>26, <2>2 DEF Deliver, TypeOK
  <2>3. CASE Len(channel) = ChannelCapacity /\ channel' = Append(Tail(channel), e)
                /\ lagged' = TRUE /\ Lose
    <3>1. channel # <<>> /\ channel \in Seq(Event)
      BY <2>3, BoundAssumption DEF TypeOK
    <3>2. Tail(channel) \in Seq(Event)
      BY <3>1
    <3>3. channel' \in Seq(Event)
      BY <2>3, <3>2
    <3> QED BY <1>26, <2>1, <2>3, <3>3 DEF Deliver, TypeOK
  <2> QED BY <1>26, <2>2, <2>3 DEF Deliver
<1>27. CASE UNCHANGED vars BY <1>27 DEF TypeOK
<1> QED
  BY <1>1, <1>2, <1>3, <1>4, <1>5, <1>6, <1>7, <1>8, <1>9, <1>10, <1>11, <1>12, <1>13, <1>14,
     <1>15, <1>16, <1>17, <1>18, <1>19, <1>20, <1>21, <1>22, <1>23, <1>24, <1>25, <1>26, <1>27
     DEF Next, Service, Faults, Environment

\* Every variable of the service keeps its type in every behaviour.
THEOREM TypeCorrect == Spec => []TypeOK
<1>1. Init => TypeOK
  BY TypeInit
<1>2. TypeOK /\ [Next]_vars => TypeOK'
  BY TypeNext
<1> QED BY <1>1, <1>2, PTL DEF Spec

-------------------------------------------------------------------------------
(* The order on events. *)

LEMMA BeatsFacts ==
    ASSUME NEW e \in Event, NEW f \in Event
    PROVE  /\ ~Beats(e, e)
           /\ Beats(e, f) => ~Beats(f, e)
           /\ AtLeast(f, e) <=> KeyOf(f) = KeyOf(e) /\ ~Beats(e, f)
<1>1. e.created_at \in Nat /\ e.id \in Nat /\ f.created_at \in Nat /\ f.id \in Nat /\ f # None
  BY EventFields
<1> QED BY <1>1 DEF Beats, AtLeast, Supersedes, Dominates

LEMMA BeatsTransitive ==
    ASSUME NEW e \in Event, NEW f \in Event, NEW g \in Event, Beats(e, f), Beats(f, g)
    PROVE  Beats(e, g)
BY EventFields DEF Beats, Supersedes

\* The database's and the graph's tests are the same test.
LEMMA AcceptsIsBeats ==
    ASSUME NEW e \in Event, NEW row \in Event \cup {None}
    PROVE  /\ DbAccepts(e, row) <=> row = None \/ Beats(e, row)
           /\ GraphAccepts(e, row) <=> row = None \/ Beats(e, row)
<1>1. CASE row = None
  BY <1>1, EventFields, NoneAssumption DEF DbAccepts, GraphAccepts, Ts, Id, EventWins, AcceptsEvent
<1>2. CASE row # None
  <2>1. row \in Event
    BY <1>2
  <2> QED
    BY <1>2, <2>1, EventFields, WinsIsSupersedes DEF DbAccepts, GraphAccepts, Beats
<1> QED BY <1>1, <1>2

LEMMA ListedWinner ==
    ASSUME TypeOK, Agreement, NEW e \in Winners(updates)
    PROVE  /\ e \in Event /\ e.kind \in Kind /\ KeyOf(e) \in Key
           /\ e \in Items("follow") \/ e \in Items("mute")
<1>1. updates \in Seq(Event)
  BY DEF TypeOK
<1>2. e \in Event
  BY <1>1, WinnersType
<1>3. PICK i \in DOMAIN updates : e = updates[i]
  BY DEF Winners
<1>4. e.kind \in Kind
  BY <1>3 DEF Agreement, Listed
<1> QED BY <1>2, <1>4, KeyType DEF Items, Kind

\* What one transaction does to the rows and to the winners it was given.
LEMMA CommitEffect ==
    ASSUME TypeOK, Agreement, NEW kind \in Kind, db' = Commit(Accepted(kind))
    PROVE  /\ \A k \in Key : db'[k] # db[k] =>
                /\ db'[k] \in Items(kind) /\ KeyOf(db'[k]) = k
                /\ db[k] = None \/ Beats(db'[k], db[k])
           /\ \A e \in Items(kind) : AtLeast(db'[KeyOf(e)], e)
<1>1. updates \in Seq(Event) /\ db \in [Key -> Event \cup {None}]
  BY DEF TypeOK
<1>2. \A e \in Accepted(kind) :
        /\ e \in Items(kind) /\ e \in Winners(updates) /\ e \in Event /\ KeyOf(e) \in Key
        /\ db[KeyOf(e)] = None \/ Beats(e, db[KeyOf(e)])
  <2> SUFFICES ASSUME NEW e \in Accepted(kind)
               PROVE  /\ e \in Items(kind) /\ e \in Winners(updates)
                      /\ e \in Event /\ KeyOf(e) \in Key
                      /\ db[KeyOf(e)] = None \/ Beats(e, db[KeyOf(e)])
    OBVIOUS
  <2>1. e \in Items(kind) /\ e \in Winners(updates) /\ DbAccepts(e, db[KeyOf(e)])
    BY DEF Accepted, Items
  <2>2. e \in Event /\ KeyOf(e) \in Key
    BY <2>1, ListedWinner
  <2> QED BY <1>1, <2>1, <2>2, AcceptsIsBeats
<1>3. ASSUME NEW k \in Key
      PROVE  \/ /\ db'[k] \in Accepted(kind) /\ KeyOf(db'[k]) = k
             \/ /\ db'[k] = db[k]
                /\ ~ \E e \in Accepted(kind) : KeyOf(e) = k
  BY <1>3 DEF Commit
<1>4. ASSUME NEW k \in Key, db'[k] # db[k]
      PROVE  /\ db'[k] \in Items(kind) /\ KeyOf(db'[k]) = k
             /\ db[k] = None \/ Beats(db'[k], db[k])
  BY <1>2, <1>3, <1>4
<1>5. ASSUME NEW e \in Items(kind)
      PROVE  AtLeast(db'[KeyOf(e)], e)
  <2>1. e \in Winners(updates)
    BY <1>5 DEF Items
  <2>2. e \in Event /\ KeyOf(e) \in Key
    BY <2>1, ListedWinner
  <2>3. CASE e \in Accepted(kind)
    <3>1. db'[KeyOf(e)] \in Accepted(kind) /\ KeyOf(db'[KeyOf(e)]) = KeyOf(e)
      BY <1>3, <2>2, <2>3
    <3>2. db'[KeyOf(e)] = e
      BY <1>1, <1>2, <2>1, <3>1, WinnersUnique
    <3> QED BY <2>2, <3>2, BeatsFacts
  <2>4. CASE e \notin Accepted(kind)
    <3>1. ~DbAccepts(e, db[KeyOf(e)])
      BY <1>5, <2>4 DEF Accepted
    <3>2. db[KeyOf(e)] \in Event /\ ~Beats(e, db[KeyOf(e)])
      BY <1>1, <2>2, <3>1, AcceptsIsBeats
    <3>3. KeyOf(db[KeyOf(e)]) = KeyOf(e)
      BY <2>2, <3>2, EventFields DEF Agreement
    <3>4. CASE db'[KeyOf(e)] = db[KeyOf(e)]
      BY <2>2, <3>2, <3>3, <3>4, BeatsFacts
    <3>5. CASE db'[KeyOf(e)] # db[KeyOf(e)]
      <4>1. db'[KeyOf(e)] \in Accepted(kind) /\ KeyOf(db'[KeyOf(e)]) = KeyOf(e)
        BY <1>3, <2>2, <3>5
      <4>2. db'[KeyOf(e)] = e
        BY <1>1, <1>2, <2>1, <4>1, WinnersUnique
      <4> QED BY <2>4, <4>1, <4>2
    <3> QED BY <3>4, <3>5
  <2> QED BY <2>3, <2>4
<1> QED BY <1>4, <1>5

-------------------------------------------------------------------------------
(* The agreement of database and graph is inductive. *)

\* Steps that leave the stores, the batches and the flush alone.
LEMMA AgreementFrame ==
    ASSUME Agreement, UNCHANGED <<pc, batch, updates, applying, db, graph>>
    PROVE  Agreement'
BY DEF Agreement, Behind, Winners, Items, Empty

LEMMA AgreementLoseMemory == ASSUME TypeOK, Agreement, LoseMemory PROVE Agreement'
<1>1. /\ db' = db /\ graph' = Empty /\ pc' = "down" /\ batch' = <<>> /\ updates' = <<>>
  BY DEF LoseMemory
<1>2. \A k \in Key : graph'[k] = None
  BY <1>1 DEF Empty
<1> QED BY <1>1, <1>2 DEF Agreement, Persisting, Empty

\* A flush begins from equal stores.
LEMMA AgreementTakeBatch ==
    ASSUME TypeOK, Agreement, pc = "recv", NEW b \in Seq(Event), NEW next, TakeBatch(b, next),
           \A i \in DOMAIN b : Listed(b[i]), UNCHANGED <<db, graph>>
    PROVE  Agreement'
<1>1. graph = db
  BY DEF Agreement
<1> QED BY <1>1 DEF Agreement, TakeBatch, Persisting, Behind

LEMMA AgreementFlush ==
    ASSUME TypeOK, Agreement, pc = "recv", NEW next \in {"recv", "resync", "closed", "drain"},
           Flush(next), UNCHANGED <<db, graph>>
    PROVE  Agreement'
<1>1. batch \in Seq(Event) /\ \A i \in DOMAIN batch : Listed(batch[i])
  BY DEF TypeOK, Agreement
<1>2. CASE TakeBatch(batch, next)
  BY <1>1, <1>2, AgreementTakeBatch
<1>3. CASE batch = <<>> /\ pc' = next /\ UNCHANGED <<batch, flushing>>
  BY <1>3 DEF Agreement, Persisting, Behind
<1> QED BY <1>2, <1>3 DEF Flush

LEMMA AgreementReceive == ASSUME TypeOK, Agreement, Receive PROVE Agreement'
<1> DEFINE e == Head(channel)
           b == Append(batch, e)
<1>1. e \in Event /\ Listed(e) /\ pc = "recv" /\ UNCHANGED <<db, graph>>
  BY DEF Receive, Receivable, TypeOK
<1>2. b \in Seq(Event) /\ \A i \in DOMAIN b : Listed(b[i])
  <2>1. batch \in Seq(Event) /\ \A i \in DOMAIN batch : Listed(batch[i])
    BY DEF TypeOK, Agreement
  <2> QED BY <1>1, <2>1
<1>3. \/ TakeBatch(b, "recv")
      \/ batch' = b /\ UNCHANGED <<pc, flushing>>
  BY DEF Receive
<1>4. CASE TakeBatch(b, "recv")
  BY <1>1, <1>2, <1>4, AgreementTakeBatch
<1>5. CASE batch' = b /\ UNCHANGED <<pc, flushing>>
  <2>1. pc' = "recv" /\ graph' = db'
    BY <1>1, <1>5 DEF Agreement
  <2> QED BY <1>1, <1>2, <1>5, <2>1 DEF Agreement, Persisting
<1> QED BY <1>3, <1>4, <1>5

\* After either transaction the changed rows are winners that beat what the
\* graph serves, and a list the graph lacked before is not overtaken.
LEMMA AgreementCommit ==
    ASSUME TypeOK, Agreement, NEW kind \in Kind, db' = Commit(Accepted(kind)),
           pc \in {"follows", "mutes"}, UNCHANGED <<updates, graph, batch>>
    PROVE  /\ \A k \in Key : /\ db'[k] # None => KeyOf(db'[k]) = k
                             /\ graph'[k] # None => KeyOf(graph'[k]) = k
           /\ \A k \in Key : graph'[k] # db'[k] => Behind(k)'
<1>1. updates \in Seq(Event) /\ db \in [Key -> Event \cup {None}]
      /\ graph \in [Key -> Event \cup {None}]
  BY DEF TypeOK
<1>2. ASSUME NEW k \in Key
      PROVE  /\ db'[k] # None => KeyOf(db'[k]) = k
             /\ graph'[k] # None => KeyOf(graph'[k]) = k
  BY CommitEffect, <1>2 DEF Agreement
<1>3. ASSUME NEW k \in Key, graph'[k] # db'[k]
      PROVE  Behind(k)'
  <2>1. CASE db'[k] = db[k]
    BY <1>3, <2>1 DEF Agreement, Persisting, Behind, Winners
  <2>2. CASE db'[k] # db[k]
    <3>1. /\ db'[k] \in Winners(updates) /\ KeyOf(db'[k]) = k
          /\ db[k] = None \/ Beats(db'[k], db[k])
      BY <1>3, <2>2, CommitEffect DEF Items
    <3>2. graph[k] = db[k]
      <4> SUFFICES ASSUME graph[k] # db[k] PROVE FALSE
        OBVIOUS
      <4>1. db[k] \in Winners(updates)
        BY <1>3 DEF Agreement, Persisting, Behind
      <4>2. db[k] \in Event /\ KeyOf(db[k]) = k
        BY <1>1, <1>3, <4>1, WinnersType, EventFields DEF Agreement
      <4>3. db'[k] = db[k]
        BY <1>1, <3>1, <4>1, <4>2, WinnersUnique
      <4> QED BY <2>2, <4>3
    <3>3. db'[k] \in Winners(updates)' /\ (graph'[k] = None \/ Beats(db'[k], graph'[k]))
      BY <3>1, <3>2 DEF Winners
    <3> QED BY <3>3 DEF Behind
  <2> QED BY <2>1, <2>2
<1> QED BY <1>2, <1>3

LEMMA AgreementCommitFollows == ASSUME TypeOK, Agreement, CommitFollows PROVE Agreement'
<1>1. /\ pc = "follows" /\ pc' = "mutes" /\ UNCHANGED <<updates, graph, batch>>
      /\ db' = Commit(Accepted("follow"))
  BY DEF CommitFollows, CommitLists
<1>2. \A e \in Items("follow") : AtLeast(db'[KeyOf(e)], e)
  BY <1>1, CommitEffect DEF Kind
<1>3. Items("follow")' = Items("follow")
  BY <1>1 DEF Items, Winners
<1>4. \A e \in Items("follow")' : AtLeast(db'[KeyOf(e)], e)
  BY <1>2, <1>3
<1>5. /\ \A k \in Key : /\ db'[k] # None => KeyOf(db'[k]) = k
                        /\ graph'[k] # None => KeyOf(graph'[k]) = k
      /\ \A k \in Key : graph'[k] # db'[k] => Behind(k)'
  BY <1>1, AgreementCommit DEF Kind
<1>6. /\ \A i \in DOMAIN batch' : Listed(batch'[i])
      /\ \A i \in DOMAIN updates' : Listed(updates'[i])
  BY <1>1 DEF Agreement
<1> QED BY <1>1, <1>4, <1>5, <1>6 DEF Agreement

LEMMA AgreementCommitMutes == ASSUME TypeOK, Agreement, CommitMutes PROVE Agreement'
<1>1. /\ pc = "mutes" /\ pc' = "apply" /\ UNCHANGED <<updates, graph, batch>>
      /\ db' = Commit(Accepted("mute")) /\ applying' = Winners(updates)
  BY DEF CommitMutes, CommitLists
<1>2. Winners(updates)' = Winners(updates)
  BY <1>1 DEF Winners
<1>3. ASSUME NEW e \in Winners(updates) PROVE AtLeast(db'[KeyOf(e)], e)
  <2>1. CASE e \in Items("mute")
    BY <1>1, <2>1, CommitEffect DEF Kind
  <2>2. CASE e \in Items("follow")
    <3>1. AtLeast(db[KeyOf(e)], e)
      BY <1>1, <2>2 DEF Agreement
    <3>2. KeyOf(e) \in Key
      BY <1>3, ListedWinner
    <3>3. db'[KeyOf(e)] # db[KeyOf(e)] =>
            /\ db'[KeyOf(e)] \in Items("mute") /\ KeyOf(db'[KeyOf(e)]) = KeyOf(e)
      BY <1>1, <3>2, CommitEffect DEF Kind
    <3>4. db'[KeyOf(e)] = db[KeyOf(e)]
      BY <2>2, <3>3 DEF Items, KeyOf
    <3> QED BY <3>1, <3>4
  <2> QED BY <1>3, <2>1, <2>2, ListedWinner
<1>4. /\ \A k \in Key : /\ db'[k] # None => KeyOf(db'[k]) = k
                        /\ graph'[k] # None => KeyOf(graph'[k]) = k
      /\ \A k \in Key : graph'[k] # db'[k] => Behind(k)'
  BY <1>1, AgreementCommit DEF Kind
<1>5. \A k \in Key : graph'[k] # db'[k] => db'[k] \in applying'
  BY <1>1, <1>2, <1>4 DEF Behind
<1>6. /\ \A i \in DOMAIN batch' : Listed(batch'[i])
      /\ \A i \in DOMAIN updates' : Listed(updates'[i])
  BY <1>1 DEF Agreement
<1> QED BY <1>1, <1>2, <1>3, <1>4, <1>5, <1>6 DEF Agreement

\* Publishing a winner either completes its list or finds it complete.
LEMMA ApplyEffect ==
    ASSUME TypeOK, Agreement, Apply
    PROVE  \E e \in applying :
              /\ e \in Winners(updates) /\ KeyOf(e) \in Key
              /\ applying' = applying \ {e}
              /\ graph' = [graph EXCEPT ![KeyOf(e)] = db[KeyOf(e)]]
<1>1. PICK i \in DOMAIN updates :
        /\ updates[i] \in applying
        /\ graph' = [graph EXCEPT ![KeyOf(updates[i])] =
                        IF GraphAccepts(updates[i], @) THEN updates[i] ELSE @]
        /\ applying' = applying \ {updates[i]}
  BY DEF Apply
<1> DEFINE e == updates[i]
           k == KeyOf(e)
<1>2. /\ updates \in Seq(Event) /\ db \in [Key -> Event \cup {None}]
      /\ graph \in [Key -> Event \cup {None}] /\ pc = "apply"
  BY DEF TypeOK, Apply
<1>3. e \in Winners(updates)
  BY <1>1, <1>2 DEF Agreement
<1>4. e \in Event /\ k \in Key
  BY <1>3, ListedWinner
<1>5. AtLeast(db[k], e)
  BY <1>2, <1>3 DEF Agreement
<1>6. graph' = [graph EXCEPT ![k] = db[k]]
  <2>1. CASE graph[k] = db[k]
    <3>1. ~GraphAccepts(e, graph[k])
      <4>1. db[k] \in Event
        BY <1>2, <1>4, <1>5 DEF AtLeast
      <4>2. ~Beats(e, db[k]) /\ db[k] # None
        BY <1>4, <1>5, <4>1, BeatsFacts, EventFields
      <4> QED BY <1>4, <2>1, <4>1, <4>2, AcceptsIsBeats
    <3> QED BY <1>1, <1>2, <2>1, <3>1
  <2>2. CASE graph[k] # db[k]
    <3>1. db[k] \in Winners(updates) /\ (graph[k] = None \/ Beats(db[k], graph[k]))
      BY <1>2, <1>4, <2>2 DEF Agreement, Persisting, Behind
    <3>2. KeyOf(db[k]) = k
      BY <1>2, <1>4, <1>5 DEF AtLeast
    <3>3. db[k] = e
      BY <1>2, <1>3, <3>1, <3>2, WinnersUnique
    <3>4. GraphAccepts(e, graph[k])
      BY <1>2, <1>4, <3>1, <3>3, AcceptsIsBeats
    <3> QED BY <1>1, <1>2, <3>3, <3>4
  <2> QED BY <2>1, <2>2
<1> QED BY <1>1, <1>3, <1>4, <1>6

LEMMA AgreementApply == ASSUME TypeOK, Agreement, Apply PROVE Agreement'
<1>1. PICK e \in applying :
        /\ e \in Winners(updates) /\ KeyOf(e) \in Key
        /\ applying' = applying \ {e}
        /\ graph' = [graph EXCEPT ![KeyOf(e)] = db[KeyOf(e)]]
  BY ApplyEffect
<1>2. /\ pc = "apply" /\ UNCHANGED <<pc, batch, updates, db>>
      /\ graph \in [Key -> Event \cup {None}]
  BY DEF Apply, TypeOK
<1>3. Winners(updates)' = Winners(updates)
  BY <1>2 DEF Winners
<1>4. ASSUME NEW k \in Key
      PROVE  /\ graph'[k] # None => KeyOf(graph'[k]) = k
             /\ graph'[k] # db'[k] => Behind(k)' /\ db'[k] \in applying'
  <2>1. CASE k = KeyOf(e)
    BY <1>1, <1>2, <2>1 DEF Agreement
  <2>2. CASE k # KeyOf(e)
    <3>1. graph'[k] = graph[k] /\ db'[k] = db[k]
      BY <1>1, <1>2, <2>2
    <3>2. graph[k] # db[k] => Behind(k) /\ db[k] \in applying
      BY <1>2, <1>4 DEF Agreement, Persisting
    <3>3. db[k] # None => KeyOf(db[k]) = k
      BY <1>4 DEF Agreement
    <3>4. \A f \in applying : f # None
      BY EventFields DEF TypeOK
    <3>5. graph[k] # db[k] => db[k] # e
      BY <2>2, <3>2, <3>3, <3>4
    <3>6. graph'[k] # db'[k] => Behind(k)'
      BY <1>3, <3>1, <3>2 DEF Behind
    <3> QED BY <1>1, <1>4, <3>1, <3>2, <3>5, <3>6 DEF Agreement
  <2> QED BY <2>1, <2>2
<1>5. /\ applying' \subseteq Winners(updates)'
      /\ \A f \in Winners(updates)' : AtLeast(db'[KeyOf(f)], f)
  BY <1>1, <1>2, <1>3 DEF Agreement
<1> QED BY <1>2, <1>4, <1>5 DEF Agreement

LEMMA AgreementNext == ASSUME TypeOK, Agreement, [Next]_vars PROVE Agreement'
<1>1. CASE Boot            BY <1>1 DEF Boot, Agreement, Persisting, Winners
<1>2. CASE Connect         BY <1>2 DEF Connect, Agreement, Persisting
<1>3. CASE ProcessExit     BY <1>3, AgreementLoseMemory DEF ProcessExit
<1>4. CASE Drain           BY <1>4, AgreementFlush DEF Drain
<1>5. CASE Disconnect      BY <1>5 DEF Disconnect, Stop, Agreement, Persisting
<1>6. CASE FlushTick
  <2>1. batch \in Seq(Event) /\ \A i \in DOMAIN batch : Listed(batch[i])
    BY DEF TypeOK, Agreement
  <2> QED BY <1>6, <2>1, AgreementTakeBatch DEF FlushTick
<1>7. CASE Discard         BY <1>7, AgreementFrame DEF Discard
<1>8. CASE Suppress        BY <1>8, AgreementFrame DEF Suppress
<1>9. CASE Receive         BY <1>9, AgreementReceive
<1>10. CASE Lagged         BY <1>10, AgreementFlush DEF Lagged
<1>11. CASE Resync         BY <1>11 DEF Resync, Agreement, Persisting
<1>12. CASE ChannelClosed  BY <1>12 DEF ChannelClosed, Stop, Agreement, Persisting
<1>13. CASE CommitFollows  BY <1>13, AgreementCommitFollows
<1>14. CASE CommitMutes    BY <1>14, AgreementCommitMutes
<1>15. CASE Retry
  BY <1>15 DEF Retry, Agreement, Persisting, Behind, Winners
<1>16. CASE Apply          BY <1>16, AgreementApply
<1>17. CASE FlushDone
  <2>1. pc = "apply" /\ applying = {} /\ pc' = after /\ after \in {"recv", "resync", "closed", "drain"}
        /\ updates' = <<>> /\ UNCHANGED <<batch, db, graph>>
    BY <1>17 DEF FlushDone, TypeOK
  <2>2. \A k \in Key : graph[k] = db[k]
    BY <2>1 DEF Agreement
  <2>3. graph = db
    BY <2>2 DEF TypeOK
  <2> QED BY <2>1, <2>3 DEF Agreement, Persisting
<1>18. CASE ConnectFails \/ DisconnectFails
  BY <1>18 DEF ConnectFails, DisconnectFails, Stop, Agreement, Persisting
<1>19. CASE Crash          BY <1>19, AgreementLoseMemory DEF Crash
<1>20. CASE Signal         BY <1>20, AgreementFrame DEF Signal
<1>21. CASE ChannelCloses  BY <1>21, AgreementFlush DEF ChannelCloses
<1>22. CASE TransactionFails
  BY <1>22 DEF TransactionFails, Stop, Agreement, Persisting, Behind, Winners
<1>23. CASE PersistPanics
  BY <1>23 DEF PersistPanics, Stop, Agreement, Persisting, Behind, Winners
<1>24. CASE Tick           BY <1>24, AgreementFrame DEF Tick
<1>25. ASSUME NEW e \in Event, Publish(e) PROVE Agreement'
  BY <1>25, AgreementFrame DEF Publish
<1>26. ASSUME NEW e \in Event, Deliver(e) PROVE Agreement'
  BY <1>26, AgreementFrame DEF Deliver
<1>27. CASE UNCHANGED vars BY <1>27, AgreementFrame
<1> QED
  BY <1>1, <1>2, <1>3, <1>4, <1>5, <1>6, <1>7, <1>8, <1>9, <1>10, <1>11, <1>12, <1>13, <1>14,
     <1>15, <1>16, <1>17, <1>18, <1>19, <1>20, <1>21, <1>22, <1>23, <1>24, <1>25, <1>26, <1>27
     DEF Next, Service, Faults, Environment

LEMMA AgreementInit == Init => Agreement
BY DEF Init, Agreement, Empty, Persisting

\* The inductive invariant holds in every behaviour.
THEOREM AgreementCorrect == Spec => []Agreement
<1>1. Init => Agreement
  BY AgreementInit
<1>2. TypeOK /\ Agreement /\ [Next]_vars => Agreement'
  BY AgreementNext
<1> QED BY <1>1, <1>2, TypeCorrect, PTL DEF Spec

LEMMA AgreementServes == TypeOK /\ Agreement => ServedIsCommitted
<1> SUFFICES ASSUME TypeOK, Agreement, NEW k \in Key, graph[k] # None
             PROVE  AtLeast(db[k], graph[k])
  BY DEF ServedIsCommitted
<1>1. graph[k] \in Event /\ db[k] \in Event \cup {None} /\ updates \in Seq(Event)
  BY DEF TypeOK
<1>2. CASE graph[k] = db[k]
  BY <1>1, <1>2, BeatsFacts
<1>3. CASE graph[k] # db[k]
  <2>1. pc \in Persisting \cup {"backoff", "stopped"}
    BY <1>3 DEF TypeOK, Agreement, Live, Persisting, Empty
  <2>2. db[k] \in Winners(updates) /\ Beats(db[k], graph[k])
    BY <1>3, <2>1 DEF Agreement, Behind
  <2>3. db[k] \in Event
    BY <1>1, <2>2, WinnersType
  <2>4. KeyOf(db[k]) = k /\ KeyOf(graph[k]) = k
    BY <2>3, EventFields DEF Agreement
  <2> QED BY <1>1, <2>2, <2>3, <2>4, BeatsFacts
<1> QED BY <1>2, <1>3

\* Readers never see a list that is not committed, or superseded by what is:
\* "Commit before publishing changes to readers" (sync/ingestion.rs:287).
THEOREM ServedCommitted == Spec => []ServedIsCommitted
BY TypeCorrect, AgreementCorrect, AgreementServes, PTL

\* Between flushes the graph and the database hold the same lists, however
\* many attempts, half-committed batches, restarts and resynchronisations
\* came before.
THEOREM IdleAgreementCorrect == Spec => []IdleAgreement
<1>1. Agreement => IdleAgreement
  BY DEF Agreement, IdleAgreement
<1> QED BY <1>1, AgreementCorrect, PTL

LEMMA DbStep ==
    ASSUME TypeOK, Agreement, [Next]_vars
    PROVE  \/ UNCHANGED db
           \/ \E kind \in Kind : db' = Commit(Accepted(kind)) /\ UNCHANGED <<graph, published>>
BY DEF Next, Service, Faults, Environment, Boot, Connect, ProcessExit, LoseMemory, Drain,
       Disconnect, FlushTick, Discard, Suppress, Receive, Lagged, Resync, ChannelClosed,
       CommitFollows, CommitMutes, CommitLists, Retry, Apply, FlushDone, ConnectFails,
       DisconnectFails, Crash,
       Signal, ChannelCloses, TransactionFails, PersistPanics, Tick, Publish, Deliver, Kind

\* A committed list is only ever replaced by one that beats it: no replay,
\* retry, crash or restart rolls a list back.
THEOREM ListsAdvance == Spec => ListsOnlyAdvance
<1>1. TypeOK /\ Agreement /\ [Next]_vars =>
        [\A k \in Key : db'[k] # db[k] => db[k] = None \/ Beats(db'[k], db[k])]_vars
  <2> SUFFICES ASSUME TypeOK, Agreement, [Next]_vars, NEW k \in Key, db'[k] # db[k]
               PROVE  db[k] = None \/ Beats(db'[k], db[k])
    OBVIOUS
  <2>1. PICK kind \in Kind : db' = Commit(Accepted(kind))
    BY DbStep
  <2> QED BY <2>1, CommitEffect
<1> QED BY <1>1, TypeCorrect, AgreementCorrect, PTL DEF Spec, ListsOnlyAdvance

-------------------------------------------------------------------------------
(* Refinement: every step of the service is a step of the last-writer-wins    *)
(* register with its served copy, or leaves both unchanged.                   *)

\* Whatever waits in the service or is stored was published.
Provenance ==
    /\ channel \in Seq(published) /\ batch \in Seq(published) /\ updates \in Seq(published)
    /\ db \in [Key -> published \cup {None}]

LEMMA SeqMonotone ==
    ASSUME NEW S, NEW T, S \subseteq T, NEW s \in Seq(S)
    PROVE  s \in Seq(T)
<1>1. s \in [1..Len(s) -> S] /\ Len(s) \in Nat
  OBVIOUS
<1>2. s \in [1..Len(s) -> T]
  BY <1>1
<1> QED BY <1>1, <1>2

LEMMA EmptyIsSeq == ASSUME NEW S PROVE <<>> \in Seq(S)
OBVIOUS

LEMMA ProvenanceFrame ==
    ASSUME Provenance, UNCHANGED <<published, channel, batch, updates, db>>
    PROVE  Provenance'
BY DEF Provenance

LEMMA ProvenanceLoseMemory == ASSUME Provenance, LoseMemory PROVE Provenance'
BY EmptyIsSeq DEF Provenance, LoseMemory, NewClient

LEMMA ProvenanceTakeBatch ==
    ASSUME Provenance, NEW b \in Seq(published), NEW next, TakeBatch(b, next),
           UNCHANGED <<published, channel, db>>
    PROVE  Provenance'
BY EmptyIsSeq DEF Provenance, TakeBatch

LEMMA ProvenanceFlush ==
    ASSUME Provenance, NEW next, Flush(next), UNCHANGED <<published, channel, db>>
    PROVE  Provenance'
<1>1. CASE TakeBatch(batch, next)
  BY <1>1, ProvenanceTakeBatch DEF Provenance
<1>2. CASE UNCHANGED <<batch, flushing>>
  BY <1>2, ProvenanceFrame
<1> QED BY <1>1, <1>2 DEF Flush

LEMMA ProvenanceReceive == ASSUME Provenance, Receive PROVE Provenance'
<1> DEFINE e == Head(channel)
           b == Append(batch, e)
<1>1. channel # <<>> /\ channel \in Seq(published) /\ batch \in Seq(published)
  BY DEF Receive, Receivable, Provenance
<1>2. e \in published /\ Tail(channel) \in Seq(published)
  BY <1>1
<1>3. b \in Seq(published)
  BY <1>1, <1>2
<1>4. /\ channel' = Tail(channel) /\ UNCHANGED <<published, db>>
      /\ TakeBatch(b, "recv") \/ (batch' = b /\ UNCHANGED <<pc, flushing>>)
  BY DEF Receive
<1>5. channel' \in Seq(published)'
  BY <1>2, <1>4
<1>6. CASE TakeBatch(b, "recv")
  BY <1>3, <1>4, <1>5, <1>6, EmptyIsSeq DEF Provenance, TakeBatch
<1>7. CASE batch' = b /\ UNCHANGED <<pc, flushing>>
  BY <1>3, <1>4, <1>5, <1>7 DEF Provenance
<1> QED BY <1>4, <1>6, <1>7

LEMMA ProvenanceDrop ==
    ASSUME Provenance, Receivable, channel' = Tail(channel),
           UNCHANGED <<published, batch, updates, db>>
    PROVE  Provenance'
<1>1. channel # <<>> /\ channel \in Seq(published)
  BY DEF Receivable, Provenance
<1>2. Tail(channel) \in Seq(published)
  BY <1>1
<1> QED BY <1>2 DEF Provenance

LEMMA ProvenancePublish ==
    ASSUME Provenance, NEW e \in Event, Publish(e) PROVE Provenance'
<1>1. published \subseteq published' /\ UNCHANGED <<channel, batch, updates, db>>
  BY DEF Publish
<1>2. channel \in Seq(published') /\ batch \in Seq(published') /\ updates \in Seq(published')
  BY <1>1, SeqMonotone DEF Provenance
<1> QED BY <1>1, <1>2 DEF Provenance

LEMMA ProvenanceDeliver ==
    ASSUME Provenance, NEW e \in Event, Deliver(e) PROVE Provenance'
<1>1. /\ e \in published /\ UNCHANGED <<published, batch, updates, db>>
      /\ channel \in Seq(published)
  BY DEF Deliver, Provenance
<1>2. CASE channel' = Append(channel, e)
  BY <1>1, <1>2 DEF Provenance
<1>3. CASE Len(channel) = ChannelCapacity /\ channel' = Append(Tail(channel), e)
  <2>1. channel # <<>>
    BY <1>1, <1>3, BoundAssumption
  <2>2. Tail(channel) \in Seq(published)
    BY <1>1, <2>1
  <2> QED BY <1>1, <1>3, <2>2 DEF Provenance
<1> QED BY <1>2, <1>3 DEF Deliver

LEMMA ProvenanceCommit ==
    ASSUME TypeOK, Agreement, Provenance, NEW kind \in Kind, NEW here, NEW next,
           CommitLists(kind, here, next)
    PROVE  Provenance'
<1>1. /\ db' = Commit(Accepted(kind)) /\ UNCHANGED <<published, channel, batch, updates>>
      /\ db \in [Key -> published \cup {None}] /\ updates \in Seq(published)
  BY DEF CommitLists, Provenance
<1>2. \A k \in Key : db'[k] # db[k] => db'[k] \in published
  <2>1. \A k \in Key : db'[k] # db[k] => db'[k] \in Winners(updates)
    BY <1>1, CommitEffect DEF Items
  <2>2. Winners(updates) \subseteq published
    BY <1>1 DEF Winners
  <2> QED BY <2>1, <2>2
<1>3. DOMAIN db' = Key /\ db' = [k \in Key |-> db'[k]]
  BY <1>1 DEF Commit
<1>4. db' \in [Key -> published \cup {None}]
  BY <1>1, <1>2, <1>3
<1> QED BY <1>1, <1>4 DEF Provenance

LEMMA ProvenanceNext ==
    ASSUME TypeOK, Agreement, Provenance, [Next]_vars PROVE Provenance'
<1>1. CASE ProcessExit \/ Crash
  BY <1>1, ProvenanceLoseMemory DEF ProcessExit, Crash
<1>2. CASE Drain \/ Lagged \/ ChannelCloses
  BY <1>2, ProvenanceFlush DEF Drain, Lagged, ChannelCloses
<1>3. CASE FlushTick
  BY <1>3, ProvenanceTakeBatch DEF FlushTick, Provenance
<1>4. CASE Discard \/ Suppress
  BY <1>4, ProvenanceDrop DEF Discard, Suppress
<1>5. CASE Receive
  BY <1>5, ProvenanceReceive
<1>6. CASE Connect \/ Resync
  BY <1>6, EmptyIsSeq DEF Connect, Resync, NewClient, Provenance
<1>7. CASE CommitFollows \/ CommitMutes
  BY <1>7, ProvenanceCommit DEF CommitFollows, CommitMutes, Kind
<1>8. CASE FlushDone
  BY <1>8, EmptyIsSeq DEF FlushDone, Provenance
<1>9. ASSUME NEW e \in Event, Publish(e) PROVE Provenance'
  BY <1>9, ProvenancePublish
<1>10. ASSUME NEW e \in Event, Deliver(e) PROVE Provenance'
  BY <1>10, ProvenanceDeliver
<1>11. CASE \/ Boot \/ Disconnect \/ ChannelClosed \/ Retry \/ Apply
            \/ ConnectFails \/ DisconnectFails \/ Signal \/ TransactionFails \/ PersistPanics \/ Tick
            \/ UNCHANGED vars
  <2>1. UNCHANGED <<published, channel, batch, updates, db>>
    BY <1>11 DEF Boot, Disconnect, ChannelClosed, Retry, Apply, ConnectFails, DisconnectFails,
                 Signal, TransactionFails, PersistPanics, Tick
  <2> QED BY <2>1, ProvenanceFrame
<1> QED
  BY <1>1, <1>2, <1>3, <1>4, <1>5, <1>6, <1>7, <1>8, <1>9, <1>10, <1>11
     DEF Next, Service, Faults, Environment

LEMMA ProvenanceInit == Init => Provenance
BY EmptyIsSeq DEF Init, Provenance, Empty

\* Every stored list was published by somebody.
THEOREM ProvenanceCorrect == Spec => []Provenance
<1>1. TypeOK /\ Agreement /\ Provenance /\ [Next]_vars => Provenance'
  BY ProvenanceNext
<1> QED BY <1>1, ProvenanceInit, TypeCorrect, AgreementCorrect, PTL DEF Spec

-------------------------------------------------------------------------------
LEMMA InitImplements == Init => Lists!Init
BY DEF Init, Lists!Init, Empty

LEMMA StepImplements ==
    ASSUME TypeOK, Agreement, Provenance, [Next]_vars
    PROVE  [Lists!Next]_(Lists!vars)
<1>1. CASE ProcessExit \/ Crash
  <2>1. UNCHANGED <<published, db>> /\ graph' = Empty
    BY <1>1 DEF ProcessExit, Crash, LoseMemory
  <2> QED BY <2>1 DEF Lists!Next, Lists!Lose, Empty
<1>2. CASE Boot
  BY <1>2 DEF Boot, Lists!Next, Lists!Restore
<1>3. CASE Apply
  <2>1. PICK e \in applying :
          KeyOf(e) \in Key /\ graph' = [graph EXCEPT ![KeyOf(e)] = db[KeyOf(e)]]
    BY <1>3, ApplyEffect
  <2>2. UNCHANGED <<published, db>>
    BY <1>3 DEF Apply
  <2> QED BY <2>1, <2>2 DEF Lists!Next, Lists!Serve
<1>4. CASE CommitFollows \/ CommitMutes
  <2>1. PICK kind \in Kind : db' = Commit(Accepted(kind)) /\ UNCHANGED <<graph, published>>
    BY <1>4 DEF CommitFollows, CommitMutes, CommitLists, Kind
  <2>2. \A k \in Key : db'[k] # db[k] =>
          /\ db'[k] \in Items(kind) /\ KeyOf(db'[k]) = k
          /\ db[k] = None \/ Beats(db'[k], db[k])
    BY <2>1, CommitEffect
  <2>3. \A e \in Items(kind) : e # None
    BY WinnersType, EventFields DEF Items, TypeOK
  <2>4. db' \in [Key -> published \cup {None}]
    BY <1>4, <2>1, ProvenanceCommit DEF Provenance, CommitFollows, CommitMutes, Kind
  <2> QED BY <2>1, <2>2, <2>3, <2>4 DEF Lists!Next, Lists!Store
<1>5. ASSUME NEW e \in Event, Publish(e) PROVE [Lists!Next]_(Lists!vars)
  BY <1>5 DEF Publish, Lists!Next, Lists!Publish
<1>6. CASE \/ Connect \/ Drain \/ Disconnect \/ FlushTick \/ Discard \/ Suppress \/ Receive
           \/ Lagged \/ Resync \/ ChannelClosed \/ Retry \/ FlushDone
           \/ ConnectFails \/ DisconnectFails \/ Signal \/ ChannelCloses \/ TransactionFails
           \/ PersistPanics \/ Tick \/ (\E e \in Event : Deliver(e)) \/ UNCHANGED vars
  <2>1. UNCHANGED <<published, db, graph>>
    BY <1>6 DEF Connect, Drain, Disconnect, FlushTick, Discard, Suppress, Receive, Lagged,
                Resync, ChannelClosed, Retry, FlushDone, ConnectFails, DisconnectFails, Signal,
                ChannelCloses,
                TransactionFails, PersistPanics, Tick, Deliver
  <2> QED BY <2>1 DEF Lists!vars
<1> QED
  BY <1>1, <1>2, <1>3, <1>4, <1>5, <1>6 DEF Next, Service, Faults, Environment

\* Ingestion, with its batches, retries, suppression, lag and crashes,
\* implements the register that only moves to published, newer lists and the
\* served copy that only catches up with it.
THEOREM IngestionImplementsLists == Spec => ImplementsLists
<1>1. TypeOK /\ Agreement /\ Provenance /\ [Next]_vars => [Lists!Next]_(Lists!vars)
  BY StepImplements
<1> QED
  BY <1>1, InitImplements, TypeCorrect, AgreementCorrect, ProvenanceCorrect, PTL
     DEF Spec, ImplementsLists, Lists!Spec

-------------------------------------------------------------------------------
(* Delivery. *)

\* Where an event is, or one that makes it redundant.
Kept(e) ==
    \/ AtLeast(db[KeyOf(e)], e)
    \/ \E i \in DOMAIN batch : AtLeast(batch[i], e)
    \/ \E i \in DOMAIN updates : AtLeast(updates[i], e)

\* ReceivedNotLost with what makes it inductive: the seen cache suppresses only
\* for events that were received, a flush begins with nothing left of the one
\* before, and the task ends from "drain" with nothing in hand.
Delivery ==
    /\ \A e \in received : Listed(e)
    /\ seen \subseteq received
    /\ pc \in {"down", "connect"} => received = {} /\ batch = <<>> /\ updates = <<>>
    /\ pc \in {"recv", "resync", "closed", "drain"} => updates = <<>>
    /\ pc \in Live \ {"recv"} => batch = <<>>
    /\ pc \in Live => \A e \in received : Kept(e)
    /\ DrainedOnShutdown

-------------------------------------------------------------------------------
(* Redundancy. *)

LEMMA AtLeastTransitive ==
    ASSUME NEW e \in Event, NEW f \in Event, NEW g \in Event, AtLeast(f, e), AtLeast(g, f)
    PROVE  AtLeast(g, e)
<1>1. /\ e.created_at \in Nat /\ e.id \in Nat /\ f.created_at \in Nat /\ f.id \in Nat
      /\ g.created_at \in Nat /\ g.id \in Nat
  BY EventFields
<1> QED BY <1>1 DEF AtLeast, Dominates

\* Every update of a batch is selected, or gives way to one that is: among the
\* updates of its list that beat it, take one that the fewest others beat.
LEMMA WinnerExists ==
    ASSUME NEW s \in Seq(Event), NEW i \in DOMAIN s
    PROVE  \E w \in Winners(s) : AtLeast(w, s[i])
<1> DEFINE I == {j \in DOMAIN s : KeyOf(s[j]) = KeyOf(s[i]) /\ (j = i \/ Beats(s[j], s[i]))}
           above == [j \in I |-> {l \in I : Beats(s[l], s[j])}]
           T == {above[j] : j \in I}
<1>1. IsFiniteSet(I)
  <2>1. IsFiniteSet(1..Len(s))
    BY FS_Interval
  <2>2. I \in SUBSET (1..Len(s))
    OBVIOUS
  <2> QED BY <2>1, <2>2, FS_Subset
<1>2. IsWellFoundedOn(StrictSubsetOrdering(I), SUBSET I)
  BY <1>1, FS_StrictSubsetOrderingWellFounded, FS_FiniteSubsetsOfFinite
<1>3. i \in I /\ T \subseteq SUBSET I /\ T # {}
  OBVIOUS
<1>4. PICK x \in T : \A y \in T : ~(<<y, x>> \in StrictSubsetOrdering(I))
  BY <1>2, <1>3, WFMin
<1>5. PICK j \in I : x = above[j]
  OBVIOUS
<1>6. s[i] \in Event /\ \A l \in I : s[l] \in Event
  OBVIOUS
<1>7. ASSUME NEW l \in I, Beats(s[l], s[j]) PROVE FALSE
  <2>1. above[l] \subseteq above[j]
    <3> SUFFICES ASSUME NEW k \in I, Beats(s[k], s[l]) PROVE Beats(s[k], s[j])
      OBVIOUS
    <3> QED BY <1>6, <1>7, BeatsTransitive
  <2>2. l \in above[j] /\ l \notin above[l]
    BY <1>6, <1>7, BeatsFacts
  <2>3. <<above[l], above[j]>> \in StrictSubsetOrdering(I)
    BY <2>1, <2>2 DEF StrictSubsetOrdering
  <2> QED BY <1>4, <1>5, <2>3
<1>8. ASSUME NEW l \in DOMAIN s, KeyOf(s[l]) = KeyOf(s[j]), Beats(s[l], s[j]) PROVE FALSE
  <2>1. Beats(s[l], s[i])
    <3>1. s[l] \in Event
      OBVIOUS
    <3> QED BY <1>6, <1>8, <3>1, BeatsTransitive
  <2>2. l \in I
    BY <1>8, <2>1
  <2> QED BY <1>7, <1>8, <2>2
<1>9. s[j] \in Winners(s)
  BY <1>8 DEF Winners
<1>10. AtLeast(s[j], s[i])
  BY <1>6, BeatsFacts
<1> QED BY <1>9, <1>10

\* A step of the database makes nothing necessary again that was redundant.
LEMMA AtLeastStays ==
    ASSUME TypeOK, Agreement, [Next]_vars, NEW e \in Event, Listed(e), AtLeast(db[KeyOf(e)], e)
    PROVE  AtLeast(db'[KeyOf(e)], e)
<1> DEFINE k == KeyOf(e)
<1>1. k \in Key
  BY KeyType DEF Listed
<1>2. db[k] \in Event \cup {None} /\ db[k] # None
  BY <1>1 DEF TypeOK, AtLeast
<1>3. CASE UNCHANGED db
  BY <1>3
<1>4. CASE \E kind \in Kind : db' = Commit(Accepted(kind))
  <2>1. PICK kind \in Kind : db' = Commit(Accepted(kind))
    BY <1>4
  <2>2. CASE db'[k] = db[k]
    BY <2>2
  <2>3. CASE db'[k] # db[k]
    <3>1. /\ db'[k] \in Items(kind) /\ KeyOf(db'[k]) = k
          /\ Beats(db'[k], db[k])
      BY <1>1, <1>2, <2>1, <2>3, CommitEffect
    <3>2. db'[k] \in Event
      BY <3>1, ListedWinner DEF Items
    <3>3. AtLeast(db'[k], db[k])
      <4>1. KeyOf(db[k]) = k
        BY DEF AtLeast
      <4> QED BY <1>2, <3>1, <3>2, <4>1, BeatsFacts
    <3> QED BY <1>2, <3>2, <3>3, AtLeastTransitive
  <2> QED BY <2>2, <2>3
<1> QED BY <1>3, <1>4, DbStep

\* What a step does to keep an event: it leaves the updates in hand in hand.
Carried(s) ==
    \A i \in DOMAIN s : \/ \E j \in DOMAIN batch' : batch'[j] = s[i]
                        \/ \E j \in DOMAIN updates' : updates'[j] = s[i]

LEMMA KeptStays ==
    ASSUME TypeOK, Agreement, [Next]_vars, Carried(batch), Carried(updates),
           NEW e \in Event, Listed(e), Kept(e)
    PROVE  Kept(e)'
<1>1. CASE AtLeast(db[KeyOf(e)], e)
  BY <1>1, AtLeastStays DEF Kept
<1>2. CASE \E i \in DOMAIN batch : AtLeast(batch[i], e)
  BY <1>2 DEF Kept, Carried
<1>3. CASE \E i \in DOMAIN updates : AtLeast(updates[i], e)
  BY <1>3 DEF Kept, Carried
<1> QED BY <1>1, <1>2, <1>3 DEF Kept

-------------------------------------------------------------------------------
(* Delivery is inductive. *)

LEMMA DeliveryInit == Init => Delivery
BY DEF Init, Delivery, DrainedOnShutdown, Live

LEMMA AllKept ==
    ASSUME TypeOK, Agreement, Delivery, [Next]_vars, pc \in Live, Carried(batch), Carried(updates)
    PROVE  \A e \in received : Kept(e)'
<1> SUFFICES ASSUME NEW e \in received PROVE Kept(e)'
  OBVIOUS
<1>1. e \in Event /\ Listed(e) /\ Kept(e)
  BY DEF TypeOK, Delivery
<1> QED BY <1>1, KeptStays

LEMMA DeliveryLoseMemory == ASSUME Delivery, LoseMemory PROVE Delivery'
BY DEF LoseMemory, Delivery, DrainedOnShutdown, Live

\* Steps outside the task, and its bookkeeping.
LEMMA DeliveryFrame ==
    ASSUME Delivery, UNCHANGED <<pc, batch, updates, db, received, seen, failed>>,
           pc = "stopped" => graph' = graph
    PROVE  Delivery'
<1>1. \A e : Kept(e)' <=> Kept(e)
  BY DEF Kept
<1> QED BY <1>1 DEF Delivery, DrainedOnShutdown, Live

\* The task ends in an error.
LEMMA DeliveryStop ==
    ASSUME Delivery, Stop(TRUE), UNCHANGED <<received, seen>>
    PROVE  Delivery'
BY DEF Stop, Delivery, DrainedOnShutdown, Live

\* A step of the live task between two places of its loop.
LEMMA DeliveryMove ==
    ASSUME TypeOK, Agreement, Delivery, [Next]_vars, pc \in Live, pc' \in Live,
           UNCHANGED <<batch, updates, received>>, seen' \subseteq seen,
           pc' \in {"recv", "resync", "closed", "drain"} => updates = <<>>,
           pc' # "recv" => batch = <<>>
    PROVE  Delivery'
<1>1. Carried(batch) /\ Carried(updates)
  BY DEF Carried
<1>2. \A e \in received : Kept(e)'
  BY <1>1, AllKept
<1> QED BY <1>2 DEF Delivery, DrainedOnShutdown, Live

\* A flush takes what was in hand, and perhaps one update more.
LEMMA DeliveryTake ==
    ASSUME TypeOK, Agreement, Delivery, [Next]_vars, pc = "recv",
           NEW b \in Seq(Event), NEW next, TakeBatch(b, next),
           \A i \in DOMAIN batch : \E j \in DOMAIN b : b[j] = batch[i],
           received \subseteq received', seen' \subseteq received',
           \A e \in received' \ received : Listed(e) /\ \E j \in DOMAIN b : b[j] = e /\ AtLeast(e, e)
    PROVE  Delivery'
<1>1. updates' = b /\ batch' = <<>> /\ pc' = "follows"
  BY DEF TakeBatch
<1>2. updates = <<>> /\ pc \in Live
  BY DEF Delivery, Live
<1>3. Carried(batch) /\ Carried(updates)
  BY <1>1, <1>2 DEF Carried
<1>4. \A e \in received' : Kept(e)'
  <2>1. \A e \in received : Kept(e)'
    BY <1>2, <1>3, AllKept
  <2>2. \A e \in received' \ received : Kept(e)'
    BY <1>1 DEF Kept
  <2> QED BY <2>1, <2>2
<1> QED BY <1>1, <1>4 DEF Delivery, DrainedOnShutdown, Live

LEMMA DeliveryFlush ==
    ASSUME TypeOK, Agreement, Delivery, [Next]_vars, pc = "recv",
           NEW next \in {"recv", "resync", "closed", "drain"}, Flush(next),
           UNCHANGED <<received, seen>>
    PROVE  Delivery'
<1>1. CASE TakeBatch(batch, next)
  <2>1. batch \in Seq(Event) /\ seen' \subseteq received'
    BY DEF TypeOK, Delivery
  <2> QED BY <1>1, <2>1, DeliveryTake
<1>2. CASE batch = <<>> /\ pc' = next /\ UNCHANGED <<batch, flushing>>
  BY <1>2, DeliveryMove DEF Delivery, Live
<1> QED BY <1>1, <1>2 DEF Flush

\* A suppressed event is dominated by one that is kept.
LEMMA DeliverySuppress == ASSUME TypeOK, Agreement, Delivery, [Next]_vars, Suppress PROVE Delivery'
<1>1. PICK e \in Event : e = Head(channel)
  BY DEF Suppress, Receivable, TypeOK
<1>2. /\ Listed(e) /\ received' = received \cup {e} /\ Suppressed(e) /\ pc = "recv"
      /\ UNCHANGED <<pc, batch, updates, seen>>
  BY <1>1 DEF Suppress, Receivable
<1>3. Carried(batch) /\ Carried(updates) /\ pc \in Live
  BY <1>2 DEF Carried, Live
<1>4. \A f \in received : Kept(f)'
  BY <1>3, AllKept
<1>5. PICK s \in seen : KeyOf(s) = KeyOf(e) /\ Dominates(s.created_at, s.id, e.created_at, e.id)
  BY <1>2 DEF Suppressed
<1>6. s \in received /\ s \in Event
  BY DEF Delivery, TypeOK
<1>7. AtLeast(s, e)
  BY <1>5, <1>6, EventFields DEF AtLeast
<1>8. Kept(e)'
  <2>1. CASE AtLeast(db[KeyOf(s)], s)'
    <3>1. db'[KeyOf(s)] \in Event
      <4>1. KeyOf(s) \in Key
        BY <1>6, KeyType DEF Delivery, Listed
      <4> QED BY <2>1, <4>1 DEF Suppress, TypeOK, AtLeast
    <3> QED BY <1>2, <1>5, <1>6, <1>7, <2>1, <3>1, AtLeastTransitive DEF Kept
  <2>2. ASSUME NEW i \in DOMAIN batch, AtLeast(batch[i], s) PROVE Kept(e)'
    <3>1. batch[i] \in Event
      BY DEF TypeOK
    <3> QED BY <1>2, <1>6, <1>7, <2>2, <3>1, AtLeastTransitive DEF Kept
  <2>3. ASSUME NEW i \in DOMAIN updates, AtLeast(updates[i], s) PROVE Kept(e)'
    <3>1. updates[i] \in Event
      BY DEF TypeOK
    <3> QED BY <1>2, <1>6, <1>7, <2>3, <3>1, AtLeastTransitive DEF Kept
  <2> QED BY <1>2, <1>4, <1>6, <2>1, <2>2, <2>3 DEF Kept
<1> QED BY <1>2, <1>3, <1>4, <1>8 DEF Delivery, DrainedOnShutdown

LEMMA DeliveryReceive == ASSUME TypeOK, Agreement, Delivery, [Next]_vars, Receive PROVE Delivery'
<1>1. PICK e \in Event : e = Head(channel)
  BY DEF Receive, Receivable, TypeOK
<1> DEFINE b == Append(batch, e)
<1>2. /\ Listed(e) /\ received' = received \cup {e} /\ pc = "recv" /\ pc \in Live
      /\ UNCHANGED db
  BY <1>1 DEF Receive, Receivable, Live
<1>3. AtLeast(e, e)
  BY <1>2, BeatsFacts
<1>4. seen' \subseteq received'
  <2>1. seen' \subseteq seen \cup {e}
    BY <1>1 DEF Receive, PutSeen
  <2> QED BY <1>2, <2>1 DEF Delivery
<1>5. /\ b \in Seq(Event) /\ \A i \in DOMAIN batch : \E j \in DOMAIN b : b[j] = batch[i]
      /\ \E j \in DOMAIN b : b[j] = e
  <2>1. batch \in Seq(Event)
    BY DEF TypeOK
  <2>2. /\ b \in Seq(Event) /\ Len(b) = Len(batch) + 1 /\ b[Len(batch) + 1] = e
        /\ \A i \in 1..Len(batch) : b[i] = batch[i]
    BY <1>2, <2>1
  <2> QED BY <2>1, <2>2
<1>6. CASE TakeBatch(b, "recv")
  BY <1>2, <1>3, <1>4, <1>5, <1>6, DeliveryTake
<1>7. CASE batch' = b /\ UNCHANGED <<pc, flushing>>
  <2>1. Carried(batch) /\ Carried(updates)
    BY <1>5, <1>7 DEF Carried
  <2>2. \A f \in received : Kept(f)'
    BY <1>2, <2>1, AllKept
  <2>3. Kept(e)'
    BY <1>3, <1>5, <1>7 DEF Kept
  <2> QED BY <1>2, <1>4, <1>7, <2>2, <2>3 DEF Delivery, DrainedOnShutdown
<1> QED BY <1>1, <1>6, <1>7 DEF Receive

\* At the end of a flush every update of the batch is in the database, or a
\* winner of the batch that made it redundant is.
LEMMA DeliveryFlushDone == ASSUME TypeOK, Agreement, Delivery, FlushDone PROVE Delivery'
<1>1. /\ pc = "apply" /\ pc' \in {"recv", "resync", "closed", "drain"} /\ updates' = <<>>
      /\ batch = <<>> /\ UNCHANGED <<batch, db, graph, received, seen>>
  BY DEF FlushDone, TypeOK, Delivery, Live
<1>2. updates \in Seq(Event) /\ db \in [Key -> Event \cup {None}]
  BY DEF TypeOK
<1>3. ASSUME NEW e \in received PROVE Kept(e)'
  <2>1. e \in Event /\ Listed(e) /\ Kept(e)
    BY <1>1 DEF TypeOK, Delivery, Live
  <2>2. CASE AtLeast(db[KeyOf(e)], e)
    BY <1>1, <2>2 DEF Kept
  <2>3. ASSUME NEW i \in DOMAIN updates, AtLeast(updates[i], e) PROVE Kept(e)'
    <3>1. PICK w \in Winners(updates) : AtLeast(w, updates[i])
      BY <1>2, WinnerExists
    <3>2. w \in Event /\ updates[i] \in Event /\ AtLeast(db[KeyOf(w)], w) /\ KeyOf(w) \in Key
      BY <1>1, <1>2, <3>1, WinnersType, ListedWinner DEF Agreement
    <3>3. AtLeast(w, e) /\ KeyOf(w) = KeyOf(e)
      BY <2>1, <2>3, <3>1, <3>2, AtLeastTransitive DEF AtLeast
    <3>4. db[KeyOf(w)] \in Event
      BY <1>2, <3>2 DEF AtLeast
    <3>5. AtLeast(db[KeyOf(e)], e)
      BY <2>1, <3>2, <3>3, <3>4, AtLeastTransitive
    <3> QED BY <1>1, <3>5 DEF Kept
  <2> QED BY <1>1, <2>1, <2>2, <2>3 DEF Kept
<1> QED BY <1>1, <1>3 DEF Delivery, DrainedOnShutdown, Live

\* The task ends well: it has nothing in hand, so what it received is stored.
LEMMA DeliveryDisconnect == ASSUME TypeOK, Agreement, Delivery, Disconnect PROVE Delivery'
<1>1. /\ pc = "drain" /\ pc' = "stopped" /\ UNCHANGED <<batch, updates, db, graph, received, seen>>
  BY DEF Disconnect, Stop
<1>2. batch = <<>> /\ updates = <<>> /\ graph = db /\ \A e \in received : Kept(e)
  BY <1>1 DEF Delivery, Agreement, Live
<1>3. \A e \in received : AtLeast(db'[KeyOf(e)], e)
  BY <1>1, <1>2 DEF Kept
<1> QED BY <1>1, <1>2, <1>3 DEF Delivery, DrainedOnShutdown, Live

LEMMA DeliveryNext == ASSUME TypeOK, Agreement, Delivery, [Next]_vars PROVE Delivery'
<1>1. CASE Boot            BY <1>1 DEF Boot, Delivery, DrainedOnShutdown, Live
<1>2. CASE Connect         BY <1>2 DEF Connect, Delivery, DrainedOnShutdown, Live
<1>3. CASE ProcessExit     BY <1>3, DeliveryLoseMemory DEF ProcessExit
<1>4. CASE Drain           BY <1>4, DeliveryFlush DEF Drain
<1>5. CASE Disconnect      BY <1>5, DeliveryDisconnect
<1>6. CASE FlushTick
  <2>1. pc = "recv" /\ Flush("recv") /\ UNCHANGED <<received, seen>>
    BY <1>6 DEF FlushTick, Flush
  <2> QED BY <2>1, DeliveryFlush
<1>7. CASE Discard         BY <1>7, DeliveryFrame DEF Discard
<1>8. CASE Suppress        BY <1>8, DeliverySuppress
<1>9. CASE Receive         BY <1>9, DeliveryReceive
<1>10. CASE Lagged         BY <1>10, DeliveryFlush DEF Lagged
<1>11. CASE Resync         BY <1>11, DeliveryMove DEF Resync, Delivery, Live
<1>12. CASE ChannelClosed  BY <1>12, DeliveryStop DEF ChannelClosed
<1>13. CASE CommitFollows \/ CommitMutes
  <2>1. /\ pc \in {"follows", "mutes"} /\ pc' \in {"mutes", "apply"}
        /\ UNCHANGED <<batch, updates, received, seen>>
    BY <1>13 DEF CommitFollows, CommitMutes, CommitLists
  <2> QED BY <2>1, DeliveryMove DEF Delivery, Live
<1>14. CASE Retry          BY <1>14, DeliveryMove DEF Retry, Delivery, Live
<1>15. CASE Apply          BY <1>15, DeliveryFrame DEF Apply
<1>16. CASE FlushDone      BY <1>16, DeliveryFlushDone
<1>17. CASE ConnectFails \/ DisconnectFails
  BY <1>17, DeliveryStop DEF ConnectFails, DisconnectFails
<1>18. CASE Crash          BY <1>18, DeliveryLoseMemory DEF Crash
<1>19. CASE Signal         BY <1>19, DeliveryFrame DEF Signal
<1>20. CASE ChannelCloses  BY <1>20, DeliveryFlush DEF ChannelCloses
<1>21. CASE TransactionFails
  <2>1. UNCHANGED <<batch, updates, received, seen>> /\ pc \in {"follows", "mutes"}
    BY <1>21 DEF TransactionFails
  <2>2. CASE Stop(TRUE)
    BY <2>1, <2>2, DeliveryStop
  <2>3. CASE pc' = "backoff"
    BY <2>1, <2>3, DeliveryMove DEF Delivery, Live
  <2> QED BY <1>21, <2>2, <2>3 DEF TransactionFails
<1>22. CASE PersistPanics  BY <1>22, DeliveryStop DEF PersistPanics
<1>23. CASE Tick           BY <1>23, DeliveryFrame DEF Tick
<1>24. ASSUME NEW e \in Event, Publish(e) PROVE Delivery'
  BY <1>24, DeliveryFrame DEF Publish
<1>25. ASSUME NEW e \in Event, Deliver(e) PROVE Delivery'
  BY <1>25, DeliveryFrame DEF Deliver
<1>26. CASE UNCHANGED vars BY <1>26, DeliveryFrame
<1> QED
  BY <1>1, <1>2, <1>3, <1>4, <1>5, <1>6, <1>7, <1>8, <1>9, <1>10, <1>11, <1>12, <1>13, <1>14,
     <1>15, <1>16, <1>17, <1>18, <1>19, <1>20, <1>21, <1>22, <1>23, <1>24, <1>25, <1>26
     DEF Next, Service, Faults, Environment

LEMMA DeliveryCorrect == Spec => []Delivery
<1>1. TypeOK /\ Agreement /\ Delivery /\ [Next]_vars => Delivery'
  BY DeliveryNext
<1> QED BY <1>1, DeliveryInit, TypeCorrect, AgreementCorrect, PTL DEF Spec

\* While the task lives, whatever it received is committed, in hand, or made
\* redundant by an event of that list that is: the seen cache, the selection
\* of winners, failed attempts, retries and lag recovery lose nothing.
THEOREM NothingReceivedIsLost == Spec => []ReceivedNotLost
<1>1. Delivery => ReceivedNotLost
  BY DEF Delivery, Kept, ReceivedNotLost
<1> QED BY <1>1, DeliveryCorrect, PTL

\* Ingestion::start returns Ok only after the drain has committed everything
\* received and published it to the graph.
THEOREM DrainCorrect == Spec => []DrainedOnShutdown
<1>1. Delivery => DrainedOnShutdown
  BY DEF Delivery
<1> QED BY <1>1, DeliveryCorrect, PTL

-------------------------------------------------------------------------------
(* The future filter. *)

Within(e) == e.created_at <= clock + FutureSkew

Dated ==
    /\ \A i \in DOMAIN batch : Within(batch[i])
    /\ \A i \in DOMAIN updates : Within(updates[i])
    /\ NoFutureDated

\* Steps that take nothing from the channel, commit nothing and see no time pass.
LEMMA DatedMove ==
    ASSUME Dated, UNCHANGED <<clock, db>>, batch' \in {batch, <<>>},
           updates' \in {updates, batch, <<>>}
    PROVE  Dated'
BY DEF Dated, Within, NoFutureDated

LEMMA DatedFlush ==
    ASSUME Dated, NEW next, Flush(next), UNCHANGED <<clock, db>>
    PROVE  Dated'
BY DatedMove DEF Flush, TakeBatch

LEMMA DatedReceive == ASSUME TypeOK, Dated, Receive PROVE Dated'
<1>1. PICK e \in Event : e = Head(channel)
  BY DEF Receive, Receivable, TypeOK
<1>2. batch \in Seq(Event)
  BY DEF TypeOK
<1> DEFINE b == Append(batch, e)
<1>3. Within(e)
  <2>1. e.created_at \in Nat /\ clock \in Nat /\ FutureSkew \in Nat
    BY EventFields, BoundAssumption DEF TypeOK
  <2> QED BY <1>1, <2>1 DEF Receive, Future, Within
<1>4. \A i \in DOMAIN b : Within(b[i])
  BY <1>2, <1>3 DEF Dated
<1>5. /\ UNCHANGED <<clock, db>>
      /\ TakeBatch(b, "recv") \/ (batch' = b /\ UNCHANGED <<pc, flushing>>)
  BY <1>1 DEF Receive
<1>6. CASE TakeBatch(b, "recv")
  BY <1>4, <1>5, <1>6 DEF TakeBatch, Dated, Within, NoFutureDated
<1>7. CASE batch' = b /\ UNCHANGED updates
  BY <1>4, <1>5, <1>7 DEF Dated, Within, NoFutureDated
<1> QED BY <1>5, <1>6, <1>7

LEMMA DatedCommit ==
    ASSUME TypeOK, Agreement, Dated, CommitFollows \/ CommitMutes
    PROVE  Dated'
<1>1. PICK kind \in Kind : db' = Commit(Accepted(kind))
  BY DEF CommitFollows, CommitMutes, CommitLists, Kind
<1>2. UNCHANGED <<clock, batch, updates>>
  BY DEF CommitFollows, CommitMutes, CommitLists
<1>3. \A k \in Key : db'[k] # db[k] => db'[k] \in Winners(updates)
  BY <1>1, CommitEffect DEF Items
<1>4. \A e \in Winners(updates) : Within(e)
  BY DEF Winners, Dated
<1> QED BY <1>2, <1>3, <1>4 DEF Dated, Within, NoFutureDated

LEMMA DatedTick == ASSUME TypeOK, Dated, Tick PROVE Dated'
<1>1. clock \in Nat /\ clock' = clock + 1 /\ FutureSkew \in Nat /\ UNCHANGED <<db, batch, updates>>
  BY BoundAssumption DEF TypeOK, Tick
<1>2. ASSUME NEW e \in Event, Within(e) PROVE e.created_at <= clock' + FutureSkew
  BY <1>1, <1>2, EventFields DEF Within
<1>3. /\ \A i \in DOMAIN batch : batch[i] \in Event
      /\ \A i \in DOMAIN updates : updates[i] \in Event
      /\ \A k \in Key : db[k] # None => db[k] \in Event
  BY DEF TypeOK
<1> QED BY <1>1, <1>2, <1>3 DEF Dated, Within, NoFutureDated

LEMMA DatedNext == ASSUME TypeOK, Agreement, Dated, [Next]_vars PROVE Dated'
<1>1. CASE Tick                        BY <1>1, DatedTick
<1>2. CASE Receive                     BY <1>2, DatedReceive
<1>3. CASE CommitFollows \/ CommitMutes BY <1>3, DatedCommit
<1>4. CASE Drain \/ Lagged \/ ChannelCloses
  BY <1>4, DatedFlush DEF Drain, Lagged, ChannelCloses
<1>5. CASE FlushTick                   BY <1>5, DatedMove DEF FlushTick, TakeBatch
<1>6. CASE ProcessExit \/ Crash
  BY <1>6, DatedMove DEF ProcessExit, Crash, LoseMemory
<1>7. CASE Boot \/ Connect \/ Disconnect \/ Discard \/ Suppress \/ Resync \/ ChannelClosed
  BY <1>7, DatedMove DEF Boot, Connect, Disconnect, Discard, Suppress, Resync, ChannelClosed
<1>8. CASE Retry \/ Apply \/ FlushDone
  BY <1>8, DatedMove DEF Retry, Apply, FlushDone
<1>9. CASE ConnectFails \/ DisconnectFails \/ Signal \/ TransactionFails \/ PersistPanics
  BY <1>9, DatedMove DEF ConnectFails, DisconnectFails, Signal, TransactionFails, PersistPanics
<1>10. ASSUME NEW e \in Event, Publish(e) \/ Deliver(e) PROVE Dated'
  BY <1>10, DatedMove DEF Publish, Deliver
<1>11. CASE UNCHANGED vars             BY <1>11, DatedMove
<1> QED
  BY <1>1, <1>2, <1>3, <1>4, <1>5, <1>6, <1>7, <1>8, <1>9, <1>10, <1>11
     DEF Next, Service, Faults, Environment

\* No list dated more than ten minutes ahead of the clock is ever committed:
\* what the filter let through stays within the bound as time passes.
THEOREM NothingFutureDated == Spec => []NoFutureDated
<1>1. Init => Dated
  BY DEF Init, Dated, Empty, NoFutureDated
<1>2. TypeOK /\ Agreement /\ Dated /\ [Next]_vars => Dated'
  BY DatedNext
<1>3. Dated => NoFutureDated
  BY DEF Dated
<1> QED BY <1>1, <1>2, <1>3, TypeCorrect, AgreementCorrect, PTL DEF Spec

-------------------------------------------------------------------------------
(* Readiness. *)

\* Only a live task is running, and a flush that has failed an attempt shows.
StatusCorrect ==
    /\ running => pc \in Live
    /\ pc = "backoff" \/ attempt # 0 => failed

LEMMA StatusFlush ==
    ASSUME StatusCorrect, NEW next \in {"recv", "resync", "closed", "drain"}, Flush(next),
           UNCHANGED status
    PROVE  StatusCorrect'
BY DEF StatusCorrect, Flush, TakeBatch, Live

LEMMA StatusStop == ASSUME StatusCorrect, Stop(TRUE) PROVE StatusCorrect'
BY DEF StatusCorrect, Stop

LEMMA StatusNext == ASSUME TypeOK, StatusCorrect, [Next]_vars PROVE StatusCorrect'
<1>1. CASE Drain \/ Lagged \/ ChannelCloses
  BY <1>1, StatusFlush DEF Drain, Lagged, ChannelCloses
<1>2. CASE FlushTick \/ Receive
  BY <1>2 DEF FlushTick, Receive, TakeBatch, StatusCorrect, Live
<1>3. CASE ConnectFails \/ DisconnectFails \/ PersistPanics \/ ChannelClosed
  BY <1>3, StatusStop DEF ConnectFails, DisconnectFails, PersistPanics, ChannelClosed
<1>4. CASE TransactionFails
  BY <1>4 DEF TransactionFails, Stop, StatusCorrect, Live
<1>5. CASE ProcessExit \/ Crash
  BY <1>5 DEF ProcessExit, Crash, LoseMemory, StatusCorrect
<1>6. CASE Boot \/ Connect \/ Resync \/ Retry
  BY <1>6 DEF Boot, Connect, Resync, Retry, StatusCorrect, Live
<1>7. CASE CommitFollows \/ CommitMutes
  BY <1>7 DEF CommitFollows, CommitMutes, CommitLists, StatusCorrect, Live
<1>8. CASE Disconnect  BY <1>8 DEF Disconnect, Stop, StatusCorrect
<1>9. CASE FlushDone
  BY <1>9 DEF FlushDone, TypeOK, StatusCorrect, Live
<1>10. CASE Discard \/ Suppress \/ Apply \/ Signal \/ Tick
  BY <1>10 DEF Discard, Suppress, Apply, Signal, Tick, StatusCorrect
<1>11. ASSUME NEW e \in Event, Publish(e) \/ Deliver(e) PROVE StatusCorrect'
  BY <1>11 DEF Publish, Deliver, StatusCorrect
<1>12. CASE UNCHANGED vars BY <1>12 DEF StatusCorrect
<1> QED
  BY <1>1, <1>2, <1>3, <1>4, <1>5, <1>6, <1>7, <1>8, <1>9, <1>10, <1>11, <1>12
     DEF Next, Service, Faults, Environment

\* The readiness flag is off outside the loop, between attempts, and from a
\* failed attempt until a flush succeeds.
THEOREM ReadyCorrect == Spec => []ReadyMeansPersisting
<1>1. Init => StatusCorrect
  BY DEF Init, StatusCorrect
<1>2. TypeOK /\ StatusCorrect /\ [Next]_vars => StatusCorrect'
  BY StatusNext
<1>3. StatusCorrect => ReadyMeansPersisting
  BY DEF StatusCorrect, ReadyMeansPersisting, Ready
<1> QED BY <1>1, <1>2, <1>3, TypeCorrect, PTL DEF Spec
-------------------------------------------------------------------------------
(* What Ingestion takes as one transaction is one batch stored by the         *)
(* database as ListStore describes it, which Database implements statement by *)
(* statement.  Here an event stands for its list; there a row carries it.     *)

CONSTANT Targets    \* what an event lists

Row(e) ==
    IF e = None THEN None
    ELSE [created_at |-> e.created_at, event_id |-> e.id, targets |-> Targets[e]]

Rows == [mutes \in BOOLEAN |-> [a \in Author |->
            Row(db[<<a, IF mutes THEN "mute" ELSE "follow">>])]]

Tables == INSTANCE ListStore WITH
    lists <- Rows, past <- <<Rows>>, result <- count, loaded <- None, Batch <- {}, Error <- None

\* The call that persist_and_apply makes for one kind: its winners, in any order.
UpdateOf(e) == [author |-> e.author, created_at |-> e.created_at, event_id |-> e.id,
                targets |-> Targets[e]]
CallFor(b, kind) ==
    /\ b.mutes = (kind = "mute")
    /\ {b.updates[i] : i \in DOMAIN b.updates} = {UpdateOf(e) : e \in Items(kind)}

\* ListStore!Store(b), as far as Ingestion can tell, with the count it reports.
StoresBatch(b) ==
    /\ Rows' = [Rows EXCEPT ![b.mutes] = Tables!After(b)]
    /\ count' = count + Cardinality({a \in Author : Tables!After(b)[a] # Rows[b.mutes][a]})

TransactionsStoreBatches ==
    [][/\ UNCHANGED db \/ CommitFollows \/ CommitMutes
       /\ \A b : /\ CommitFollows /\ CallFor(b, "follow") => StoresBatch(b)
                 /\ CommitMutes /\ CallFor(b, "mute") => StoresBatch(b)]_vars

LEMMA ItemFacts ==
    ASSUME TypeOK, Agreement, NEW kind \in Kind, NEW e \in Items(kind)
    PROVE  /\ e \in Winners(updates) /\ e \in Event /\ e.kind = kind
           /\ e.author \in Author /\ KeyOf(e) = <<e.author, kind>> /\ KeyOf(e) \in Key
           /\ \A a, k : KeyOf(e) = <<a, k>> => a = e.author /\ k = kind
<1>1. e \in Winners(updates) /\ e.kind = kind
  BY DEF Items
<1>2. e \in Event
  BY <1>1, ListedWinner
<1> QED BY <1>1, <1>2, KeyType, EventAssumption DEF KeyOf

\* Two winners of one author are one event, also across a whole call.
LEMMA OneOffer ==
    ASSUME TypeOK, Agreement, NEW kind \in Kind, NEW e \in Items(kind), NEW f \in Items(kind),
           e.author = f.author
    PROVE  e = f
<1>1. updates \in Seq(Event)
  BY DEF TypeOK
<1> QED BY <1>1, ItemFacts, WinnersUnique

\* What is offered to an author's row are the author's winners.
LEMMA OffersAreItems ==
    ASSUME TypeOK, Agreement, NEW kind \in Kind, NEW b, CallFor(b, kind), NEW a,
           \A e \in Event : Row(e) # None
    PROVE  Tables!Offers(b, a) = {Row(e) : e \in {f \in Items(kind) : f.author = a}}
<1>1. \A e \in Items(kind) : Tables!ListOf(UpdateOf(e)) = Row(e) /\ UpdateOf(e).author = e.author
  BY ItemFacts, EventFields DEF Tables!ListOf, UpdateOf, Row
<1>2. \A i \in DOMAIN b.updates : \E e \in Items(kind) : b.updates[i] = UpdateOf(e)
  BY DEF CallFor
<1>3. \A e \in Items(kind) : \E i \in DOMAIN b.updates : b.updates[i] = UpdateOf(e)
  BY DEF CallFor
<1>4. ASSUME NEW o \in Tables!Offers(b, a)
      PROVE  o \in {Row(e) : e \in {f \in Items(kind) : f.author = a}}
  <2>1. PICK i \in DOMAIN b.updates : b.updates[i].author = a /\ o = Tables!ListOf(b.updates[i])
    BY <1>4 DEF Tables!Offers
  <2>2. PICK e \in Items(kind) : b.updates[i] = UpdateOf(e)
    BY <1>2
  <2> QED BY <1>1, <2>1, <2>2
<1>5. ASSUME NEW e \in Items(kind), e.author = a
      PROVE  Row(e) \in Tables!Offers(b, a)
  <2>1. PICK i \in DOMAIN b.updates : b.updates[i] = UpdateOf(e)
    BY <1>3
  <2> QED BY <1>1, <1>5, <2>1 DEF Tables!Offers
<1> QED BY <1>4, <1>5

\* The row's test is the event's.
LEMMA RowBeats ==
    ASSUME NEW e \in Event, NEW row \in Event \cup {None}, \A f \in Event : Row(f) # None
    PROVE  /\ Tables!Beats(Row(e), Row(row)) <=> DbAccepts(e, row)
           /\ DbAccepts(e, row) => Row(e) # Row(row)
           /\ ~Tables!Beats(Row(e), Row(e))
<1>1. /\ Row(e) # None /\ Row(e).created_at = e.created_at /\ Row(e).event_id = e.id
      /\ e.created_at \in Nat /\ e.id \in Nat
  BY EventFields DEF Row
<1>2. ~Tables!Beats(Row(e), Row(e))
  BY <1>1, NoneAssumption DEF Tables!Beats, Tables!EventWins
<1>3. CASE row = None
  BY <1>1, <1>2, <1>3 DEF Tables!Beats, DbAccepts, EventWins, Ts, Row
<1>4. CASE row # None
  <2>1. row \in Event
    BY <1>4
  <2>2. /\ Row(row) # None /\ Row(row).created_at = row.created_at /\ Row(row).event_id = row.id
        /\ Ts(row) = row.created_at /\ Id(row) = row.id
    BY <2>1, EventFields DEF Row
  <2>3. Tables!Beats(Row(e), Row(row)) <=> DbAccepts(e, row)
    BY <1>1, <2>1, <2>2, EventFields DEF Tables!Beats, Tables!EventWins, DbAccepts, EventWins
  <2> QED BY <1>2, <2>3
<1> QED BY <1>3, <1>4

LEMMA CommitStores ==
    ASSUME TypeOK, Agreement, NEW kind \in Kind, NEW b, CallFor(b, kind),
           \A e \in Event : Row(e) # None,
           db' = Commit(Accepted(kind)), count' = count + Cardinality(Accepted(kind))
    PROVE  StoresBatch(b)
<1> DEFINE old(a) == db[<<a, kind>>]
           changed == {a \in Author : Tables!After(b)[a] # Rows[b.mutes][a]}
<1>1. /\ db \in [Key -> Event \cup {None}] /\ updates \in Seq(Event)
      /\ b.mutes \in BOOLEAN /\ kind = IF b.mutes THEN "mute" ELSE "follow"
  BY DEF TypeOK, CallFor, Kind
<1>2. \A a \in Author : <<a, kind>> \in Key /\ old(a) \in Event \cup {None}
  BY <1>1 DEF Key
<1>3. \A a \in Author : Rows[b.mutes][a] = Row(old(a))
  BY <1>1 DEF Rows
<1>4. \A e \in Accepted(kind) :
        /\ e \in Items(kind) /\ e \in Event /\ e.author \in Author
        /\ DbAccepts(e, old(e.author))
        /\ \A a, k : KeyOf(e) = <<a, k>> => a = e.author /\ k = kind
  <2> SUFFICES ASSUME NEW e \in Accepted(kind)
               PROVE  /\ e \in Items(kind) /\ e \in Event /\ e.author \in Author
                      /\ DbAccepts(e, old(e.author))
                      /\ \A a, k : KeyOf(e) = <<a, k>> => a = e.author /\ k = kind
    OBVIOUS
  <2>1. e \in Items(kind) /\ DbAccepts(e, db[KeyOf(e)])
    BY DEF Accepted
  <2> QED BY <2>1, ItemFacts
<1>5. \A e \in Items(kind) : DbAccepts(e, old(e.author)) => e \in Accepted(kind)
  BY ItemFacts DEF Accepted
<1>6. ASSUME NEW a \in Author, NEW e \in Accepted(kind), e.author = a
      PROVE  /\ Tables!After(b)[a] = Row(e) /\ Row(e) # Row(old(a))
             /\ db'[<<a, kind>>] = e
  <2>1. e \in Items(kind) /\ e \in Event /\ KeyOf(e) = <<a, kind>> /\ DbAccepts(e, old(a))
    BY <1>4, <1>6, ItemFacts
  <2>2. \A f \in Items(kind) : f.author = a => f = e
    BY <1>6, <2>1, OneOffer
  <2>3. Tables!Offers(b, a) = {Row(e)}
    BY <1>6, <2>1, <2>2, OffersAreItems
  <2>4. /\ Tables!Beats(Row(e), Row(old(a))) /\ Row(e) # Row(old(a))
        /\ ~Tables!Beats(Row(e), Row(e))
    BY <1>2, <2>1, RowBeats
  <2>5. Tables!Newest(Row(old(a)), {Row(e)}) = Row(e)
    BY <2>4 DEF Tables!Newest
  <2>6. Tables!After(b)[a] = Row(e)
    BY <1>3, <2>3, <2>5 DEF Tables!After
  <2>7. db'[<<a, kind>>] = e
    <3>1. db'[<<a, kind>>] \in Accepted(kind) /\ KeyOf(db'[<<a, kind>>]) = <<a, kind>>
      BY <1>2, <1>6, <2>1 DEF Commit
    <3> QED BY <1>4, <2>2, <3>1
  <2> QED BY <2>4, <2>6, <2>7
<1>7. ASSUME NEW a \in Author, \A e \in Accepted(kind) : e.author # a
      PROVE  /\ Tables!After(b)[a] = Row(old(a))
             /\ db'[<<a, kind>>] = db[<<a, kind>>]
  <2>1. \A o \in Tables!Offers(b, a) : ~Tables!Beats(o, Row(old(a)))
    <3> SUFFICES ASSUME NEW e \in Items(kind), e.author = a
                 PROVE  ~Tables!Beats(Row(e), Row(old(a)))
      BY OffersAreItems
    <3>1. e \in Event /\ ~DbAccepts(e, old(a))
      BY <1>5, <1>7, ItemFacts
    <3> QED BY <1>2, <3>1, RowBeats
  <2>2. Tables!Newest(Row(old(a)), Tables!Offers(b, a)) = Row(old(a))
    BY <2>1 DEF Tables!Newest
  <2>3. Tables!After(b)[a] = Row(old(a))
    BY <1>3, <2>2 DEF Tables!After
  <2>4. \A e \in Accepted(kind) : KeyOf(e) # <<a, kind>>
    BY <1>4, <1>7
  <2> QED BY <1>2, <2>3, <2>4 DEF Commit
<1>8. ASSUME NEW a \in Author, NEW other \in Kind, other # kind
      PROVE  db'[<<a, other>>] = db[<<a, other>>]
  <2>1. ASSUME NEW e \in Accepted(kind), KeyOf(e) = <<a, other>> PROVE FALSE
    <3>1. e \in Items(kind)
      BY <1>4
    <3>2. \A k : KeyOf(e) = <<a, k>> => k = kind
      BY <3>1, ItemFacts
    <3> QED BY <1>8, <2>1, <3>2
  <2> QED BY <2>1 DEF Commit, Key
<1>9. Rows' = [Rows EXCEPT ![b.mutes] = Tables!After(b)]
  <2>1. ASSUME NEW a \in Author
        PROVE  Row(db'[<<a, kind>>]) = Tables!After(b)[a]
    <3>1. CASE \E e \in Accepted(kind) : e.author = a
      BY <1>6, <3>1
    <3>2. CASE \A e \in Accepted(kind) : e.author # a
      BY <1>7, <3>2
    <3> QED BY <3>1, <3>2
  <2>2. ASSUME NEW m \in BOOLEAN, NEW a \in Author
        PROVE  Row(db'[<<a, IF m THEN "mute" ELSE "follow">>]) =
                 IF m = b.mutes THEN Tables!After(b)[a] ELSE Rows[m][a]
    <3>1. CASE m = b.mutes
      BY <1>1, <2>1, <3>1
    <3>2. CASE m # b.mutes
      <4> DEFINE other == IF m THEN "mute" ELSE "follow"
      <4>1. other \in Kind /\ other # kind
        BY <1>1, <3>2 DEF Kind
      <4>2. db'[<<a, other>>] = db[<<a, other>>]
        BY <1>8, <4>1
      <4> QED BY <3>2, <4>2 DEF Rows
    <3> QED BY <3>1, <3>2
  <2>3. Tables!After(b) = [a \in Author |-> Tables!After(b)[a]]
    BY DEF Tables!After
  <2> DEFINE new == [Rows EXCEPT ![b.mutes] = Tables!After(b)]
  <2>4. /\ Rows' = [m \in BOOLEAN |-> [a \in Author |->
                      Row(db'[<<a, IF m THEN "mute" ELSE "follow">>])]]
        /\ new = [m \in BOOLEAN |-> IF m = b.mutes THEN Tables!After(b) ELSE Rows[m]]
        /\ \A m \in BOOLEAN : Rows[m] = [a \in Author |-> Rows[m][a]]
    BY DEF Rows
  <2>5. ASSUME NEW m \in BOOLEAN PROVE Rows'[m] = new[m]
    <3>1. Rows'[m] = [a \in Author |-> IF m = b.mutes THEN Tables!After(b)[a] ELSE Rows[m][a]]
      BY <2>2, <2>4
    <3>2. CASE m = b.mutes
      <4>1. Rows'[m] = [a \in Author |-> Tables!After(b)[a]]
        BY <3>1, <3>2
      <4> QED BY <2>3, <2>4, <3>2, <4>1
    <3>3. CASE m # b.mutes
      <4>1. Rows'[m] = [a \in Author |-> Rows[m][a]]
        BY <3>1, <3>3
      <4> QED BY <2>4, <3>3, <4>1
    <3> QED BY <3>2, <3>3
  <2> QED BY <2>4, <2>5
<1>10. Cardinality(changed) = Cardinality(Accepted(kind))
  <2> DEFINE f == [e \in Accepted(kind) |-> e.author]
  <2>1. changed = {e.author : e \in Accepted(kind)}
    <3>1. ASSUME NEW e \in Accepted(kind) PROVE e.author \in changed
      <4>1. e.author \in Author
        BY <1>4
      <4>2. Tables!After(b)[e.author] # Row(old(e.author))
        BY <1>6, <4>1
      <4> QED BY <1>3, <4>1, <4>2
    <3>2. \A a \in changed : \E e \in Accepted(kind) : e.author = a
      BY <1>3, <1>7
    <3> QED BY <3>1, <3>2
  <2>2. \A e, g \in Accepted(kind) : e.author = g.author => e = g
    BY <1>4, OneOffer
  <2>3. f \in Bijection(Accepted(kind), changed)
    <3>1. f \in [Accepted(kind) -> changed] /\ \A e \in Accepted(kind) : f[e] = e.author
      BY <2>1
    <3> HIDE DEF f, changed
    <3>2. f \in Injection(Accepted(kind), changed)
      <4>1. \A e, g \in Accepted(kind) : f[e] = f[g] => e = g
        BY <2>2, <3>1
      <4> QED BY <3>1, <4>1 DEF Injection, IsInjective
    <3>3. f \in Surjection(Accepted(kind), changed)
      BY <2>1, <3>1 DEF Surjection
    <3> QED BY <3>2, <3>3 DEF Bijection
  <2>4. IsFiniteSet(Accepted(kind))
    BY <1>1, AcceptedType, WinnersType, FS_Subset
  <2> HIDE DEF f, changed
  <2> QED BY <2>3, <2>4, FS_Bijection DEF ExistsBijection
<1> QED BY <1>9, <1>10 DEF StoresBatch

LEMMA OnlyTransactions ==
    ASSUME [Next]_vars
    PROVE  UNCHANGED db \/ CommitFollows \/ CommitMutes
BY DEF Next, Service, Faults, Environment, Boot, Connect, ProcessExit, LoseMemory, Drain,
       Disconnect, FlushTick, Discard, Suppress, Receive, Lagged, Resync, ChannelClosed,
       Retry, Apply, FlushDone, ConnectFails, DisconnectFails, Crash, Signal, ChannelCloses,
       TransactionFails,
       PersistPanics, Tick, Publish, Deliver

\* The database of the ingestion service changes only by the two transactions
\* of persist_and_apply, and each stores its batch as ListStore says: per author
\* the newest of the row and the offer, all rows in one step, and the count
\* reported is the number of authors whose row changed.
THEOREM TransactionsAreStores ==
    ASSUME \A e \in Event : Row(e) # None
    PROVE  Spec => TransactionsStoreBatches
<1>1. TypeOK /\ Agreement /\ [Next]_vars =>
        (/\ UNCHANGED db \/ CommitFollows \/ CommitMutes
         /\ \A b : /\ CommitFollows /\ CallFor(b, "follow") => StoresBatch(b)
                   /\ CommitMutes /\ CallFor(b, "mute") => StoresBatch(b))
  BY OnlyTransactions, CommitStores DEF CommitFollows, CommitMutes, CommitLists, Kind
<1> QED BY <1>1, TypeCorrect, AgreementCorrect, PTL DEF Spec, TransactionsStoreBatches
===============================================================================
