--------------------------- MODULE GraphStore_proofs ---------------------------
(***************************************************************************)
(* The graph, for any number of threads, any jobs and any queries: its     *)
(* locks never deadlock, and what it holds.                                *)
(*                                                                         *)
(* The inductive invariant Discipline says what the comment on the lock    *)
(* order says (store.rs:198): at each place of its code a thread holds     *)
(* only certain locks, and it only waits for locks that come after all     *)
(* those it holds.  The exception is the writer that owns the writer bit   *)
(* of the lock it waits for.  Level orders the waiting threads by that     *)
(* lock, such a writer above those that have nothing of it; every wait     *)
(* then goes up, and a thread at the highest level of a set waits for none *)
(* of it.                                                                  *)
(*                                                                         *)
(* Contents is the shape of the data and what each writer is in the middle *)
(* of: at most one is past the wait for mutation, and only it changes the  *)
(* graph.  Records adds where each list comes from and what a query has    *)
(* seen.                                                                   *)
(***************************************************************************)
EXTENDS GraphStore, FiniteSetTheorems, TLAPS

USE DEF vars, graph, locks, query, update, callers

LEMMA RankValues ==
    /\ Rank["mutation"] = 1 /\ Rank["follows"] = 2 /\ Rank["followers"] = 3
    /\ Rank["pubkeys"] = 4 /\ Rank["metadata"] = 5 /\ Rank["mutes"] = 6
<1>1. \A l \in Lock, i \in 1..6 : Order[i] = l => Rank[l] = i
  <2> SUFFICES ASSUME NEW l \in Lock, NEW i \in 1..6, Order[i] = l PROVE Rank[l] = i
    OBVIOUS
  <2>1. \A j \in 1..6 : Order[j] = l => j = i
    BY DEF Order
  <2> QED
    BY <2>1 DEF Rank
<1> QED
  BY <1>1 DEF Order, Lock

LEMMA RankType == \A l \in Lock : Rank[l] \in 1..6
BY RankValues DEF Lock

-------------------------------------------------------------------------------
(* The invariant. *)

Holds(t, l) == writer[l] = t \/ t \in readers[l]

\* The locks a thread may hold, or wait for, at a place of its code.
May(at, l) ==
    \/ at = "read" /\ l # "mutation"
    \/ at \in Steps \ {"idle", "look", "read"} /\ l = "mutation"
    \/ at \in {"push", "publish", "bump"} /\ l \in {"follows", "followers", "pubkeys", "metadata"}
    \/ at = "check" /\ l \in {"metadata", "mutes"}
    \/ at = "clone" /\ l = "follows"
    \/ at = "swap" /\ l \in {"follows", "followers"}
    \/ at = "stamp" /\ l = "metadata"
    \/ at = "store" /\ l = "mutes"
    \/ at = "merge" /\ l \in {"follows", "followers", "metadata", "mutes"}

\* The thread owns the writer bit of the lock it waits for.
Announced(t, l) == writer[l] = t /\ pc[t] \in Writes /\ t \notin readers[l]

Increasing(s) == \A i, j \in DOMAIN s : i < j => Rank[s[i]] < Rank[s[j]]

Disciplined(t) ==
    /\ Increasing(want[t])
    /\ \A l \in Lock : Holds(t, l) => May(pc[t], l)
    /\ \A i \in DOMAIN want[t] : May(pc[t], want[t][i])
    /\ \A l \in Lock, i \in DOMAIN want[t] :
         Holds(t, l) => \/ Rank[l] < Rank[want[t][i]]
                        \/ i = 1 /\ l = want[t][1] /\ Announced(t, l)

LockTypes ==
    /\ writer \in [Lock -> Thread \cup {NoThread}] /\ readers \in [Lock -> SUBSET Thread]
    /\ want \in [Thread -> Seq(Lock)] /\ pc \in [Thread -> Steps]
    /\ after \in [Thread -> {"idle", "check", "clone", "store", "merge"}]
    /\ DOMAIN job = Thread /\ todo \subseteq Job
    /\ \A t \in Thread : pc[t] = "look" => job[t] \in Query

Discipline == LockTypes /\ \A t \in Thread : Disciplined(t)

-------------------------------------------------------------------------------
(* Steps that leave the locks alone or only let go of them. *)

\* The thread goes to another place and asks for further locks there.
Moves(t, at, locksNeeded) ==
    /\ want[t] = <<>>
    /\ pc' = [pc EXCEPT ![t] = at] /\ want' = [want EXCEPT ![t] = locksNeeded]
    /\ writer' \in [Lock -> Thread \cup {NoThread}] /\ readers' \in [Lock -> SUBSET Thread]
    /\ \A l \in Lock : /\ writer'[l] = writer[l] \/ (writer[l] = t /\ writer'[l] = NoThread)
                       /\ readers'[l] = readers[l] \/ readers'[l] = readers[l] \ {t}

LEMMA DisciplineMoves ==
    ASSUME Discipline, NEW t \in Thread, NEW at \in Steps, NEW locksNeeded \in Seq(Lock),
           Moves(t, at, locksNeeded),
           after' \in [Thread -> {"idle", "check", "clone", "store", "merge"}],
           DOMAIN job' = Thread, todo' \subseteq Job,
           \A u \in Thread : pc'[u] = "look" => job'[u] \in Query,
           Increasing(locksNeeded),
           \A i \in DOMAIN locksNeeded : May(at, locksNeeded[i]),
           \A l \in Lock : Holds(t, l)' =>
               May(at, l) /\ \A i \in DOMAIN locksNeeded : Rank[l] < Rank[locksNeeded[i]]
    PROVE  Discipline'
<1>1. LockTypes'
  BY DEF Discipline, LockTypes, Moves
<1>2. Disciplined(t)'
  BY DEF Discipline, LockTypes, Disciplined, Moves, Increasing
<1>3. ASSUME NEW u \in Thread, u # t PROVE Disciplined(u)'
  <2>1. pc'[u] = pc[u] /\ want'[u] = want[u]
    BY <1>3 DEF Discipline, LockTypes, Moves
  <2>2. \A l \in Lock : /\ (writer'[l] = u) <=> (writer[l] = u)
                        /\ (u \in readers'[l]) <=> (u \in readers[l])
    <3> SUFFICES ASSUME NEW l \in Lock
                 PROVE  /\ (writer'[l] = u) <=> (writer[l] = u)
                        /\ (u \in readers'[l]) <=> (u \in readers[l])
      OBVIOUS
    <3>1. (writer'[l] = u) <=> (writer[l] = u)
      <4>1. u # NoThread
        BY ThreadAssumption
      <4>2. writer'[l] = writer[l] \/ (writer[l] = t /\ writer'[l] = NoThread)
        BY DEF Moves
      <4> QED
        BY <1>3, <4>1, <4>2
    <3>2. readers'[l] = readers[l] \/ readers'[l] = readers[l] \ {t}
      BY DEF Moves
    <3> QED
      BY <1>3, <3>1, <3>2
  <2>3. Disciplined(u)
    BY DEF Discipline
  <2> QED
    BY <2>1, <2>2, <2>3 DEF Disciplined, Increasing, Holds, Announced
<1> QED
  BY <1>1, <1>2, <1>3 DEF Discipline

LEMMA DisciplineFrame ==
    ASSUME Discipline, UNCHANGED <<locks, pc, want>>,
           after' \in [Thread -> {"idle", "check", "clone", "store", "merge"}],
           job' = job, todo' \subseteq Job
    PROVE  Discipline'
BY DEF Discipline, LockTypes, Disciplined, Increasing, Holds, Announced

\* What Release leaves a thread holding.
LEMMA Released ==
    ASSUME Discipline, NEW t \in Thread, NEW S \in SUBSET Lock, Release(t, S)
    PROVE  /\ writer' \in [Lock -> Thread \cup {NoThread}]
           /\ readers' \in [Lock -> SUBSET Thread]
           /\ \A l \in Lock :
                /\ writer'[l] = writer[l] \/ (writer[l] = t /\ writer'[l] = NoThread)
                /\ readers'[l] = readers[l] \/ readers'[l] = readers[l] \ {t}
                /\ Holds(t, l)' => Holds(t, l) /\ l \notin S
<1>1. writer' \in [Lock -> Thread \cup {NoThread}]
  BY DEF Discipline, LockTypes, Release
<1>2. readers' \in [Lock -> SUBSET Thread]
  BY DEF Discipline, LockTypes, Release
<1>3. ASSUME NEW l \in Lock
      PROVE  /\ writer'[l] = writer[l] \/ (writer[l] = t /\ writer'[l] = NoThread)
             /\ readers'[l] = readers[l] \/ readers'[l] = readers[l] \ {t}
             /\ Holds(t, l)' => Holds(t, l) /\ l \notin S
  <2>1. writer'[l] = IF l \in S /\ writer[l] = t THEN NoThread ELSE writer[l]
    BY DEF Release
  <2>2. readers'[l] = IF l \in S THEN readers[l] \ {t} ELSE readers[l]
    BY DEF Release
  <2> QED
    BY <2>1, <2>2, ThreadAssumption DEF Holds
<1> QED
  BY <1>1, <1>2, <1>3

\* A step of a thread that has the locks it asked for, and lets go of S.
LEMMA DisciplineReady ==
    ASSUME Discipline, NEW t \in Thread, want[t] = <<>>,
           NEW at \in Steps, NEW locksNeeded \in Seq(Lock), Go(t, at, locksNeeded),
           NEW S \in SUBSET Lock, Release(t, S),
           after' \in [Thread -> {"idle", "check", "clone", "store", "merge"}],
           DOMAIN job' = Thread, todo' \subseteq Job,
           \A u \in Thread : pc'[u] = "look" => job'[u] \in Query,
           Increasing(locksNeeded),
           \A i \in DOMAIN locksNeeded : May(at, locksNeeded[i]),
           \A l \in Lock \ S : May(pc[t], l) =>
               May(at, l) /\ \A i \in DOMAIN locksNeeded : Rank[l] < Rank[locksNeeded[i]]
    PROVE  Discipline'
<1>1. Moves(t, at, locksNeeded)
  BY Released DEF Moves, Go
<1>2. \A l \in Lock : Holds(t, l)' =>
          May(at, l) /\ \A i \in DOMAIN locksNeeded : Rank[l] < Rank[locksNeeded[i]]
  <2>1. \A l \in Lock : Holds(t, l)' => Holds(t, l) /\ l \notin S
    BY Released
  <2>2. \A l \in Lock : Holds(t, l) => May(pc[t], l)
    BY DEF Discipline, Disciplined
  <2> QED
    BY <2>1, <2>2
<1> QED
  BY <1>1, <1>2, DisciplineMoves

\* The same, when it asks for nothing further.
LEMMA DisciplineOn ==
    ASSUME Discipline, NEW t \in Thread, want[t] = <<>>,
           NEW at \in Steps, Go(t, at, <<>>),
           NEW S \in SUBSET Lock, Release(t, S),
           after' \in [Thread -> {"idle", "check", "clone", "store", "merge"}],
           DOMAIN job' = Thread, todo' \subseteq Job,
           \A u \in Thread : pc'[u] = "look" => job'[u] \in Query,
           \A l \in Lock \ S : May(pc[t], l) => May(at, l)
    PROVE  Discipline'
<1>1. <<>> \in Seq(Lock) /\ Increasing(<<>>)
  BY DEF Increasing
<1>2. \A i \in DOMAIN <<>> : FALSE
  OBVIOUS
<1>3. \A i \in DOMAIN <<>> : May(at, <<>>[i])
  BY <1>2
<1>4. \A l \in Lock \ S : May(pc[t], l) =>
          May(at, l) /\ \A i \in DOMAIN <<>> : Rank[l] < Rank[<<>>[i]]
  BY <1>2
<1> QED
  BY <1>1, <1>3, <1>4, DisciplineReady

LEMMA NothingReleased ==
    ASSUME Discipline, NEW t \in Thread, UNCHANGED locks
    PROVE  Release(t, {})
BY DEF Discipline, LockTypes, Release

LEMMA IdleHasNothing ==
    ASSUME Discipline, NEW t \in Thread, pc[t] \in {"idle", "look"}
    PROVE  want[t] = <<>>
<1>1. want[t] \in Seq(Lock)
  BY DEF Discipline, LockTypes
<1>2. \A i \in DOMAIN want[t] : May(pc[t], want[t][i])
  BY DEF Discipline, Disciplined
<1>3. \A l : ~May(pc[t], l)
  BY DEF May
<1> QED
  BY <1>1, <1>2, <1>3

LEMMA ReturnKeepsDiscipline ==
    ASSUME Discipline, NEW t \in Thread, want[t] = <<>>, Return(t)
    PROVE  Discipline'
<1>1. Go(t, "idle", <<>>) /\ Release(t, Lock)
  BY DEF Return
<1>2. after' \in [Thread -> {"idle", "check", "clone", "store", "merge"}]
  BY DEF Return, Discipline, LockTypes
<1>3. /\ DOMAIN job' = Thread /\ todo' \subseteq Job
      /\ \A u \in Thread : pc'[u] = "look" => job'[u] \in Query
  BY DEF Return, Go, Discipline, LockTypes
<1>4. "idle" \in Steps
  BY DEF Steps
<1> QED
  BY <1>1, <1>2, <1>3, <1>4, DisciplineOn

-------------------------------------------------------------------------------
(* Taking a lock. *)

LEMMA AnnounceKeepsDiscipline ==
    ASSUME Discipline, NEW t \in Thread, Announce(t)
    PROVE  Discipline'
<1> DEFINE h == Head(want[t])
<1>1. want[t] \in Seq(Lock) /\ want[t] # <<>>
  BY DEF Discipline, LockTypes, Announce
<1>2. h \in Lock /\ h = want[t][1] /\ 1 \in DOMAIN want[t]
  BY <1>1
<1>3. /\ writer[h] = NoThread /\ writer' = [writer EXCEPT ![h] = t] /\ pc[t] \in Writes
      /\ UNCHANGED <<readers, pc, job, todo, want, after>>
  BY DEF Announce
<1>4. LockTypes'
  BY <1>2, <1>3 DEF Discipline, LockTypes
<1>5. t \notin readers[h]
  <2>1. ~(Rank[h] < Rank[h])
    BY <1>2, RankType
  <2>2. ~Announced(t, h)
    BY <1>3, ThreadAssumption DEF Announced
  <2>3. ~Holds(t, h)
    BY <1>2, <2>1, <2>2 DEF Discipline, Disciplined
  <2> QED
    BY <2>3 DEF Holds
<1>6. Disciplined(t)'
  <2>1. Disciplined(t)
    BY DEF Discipline
  <2>2. \A l \in Lock : Holds(t, l)' => Holds(t, l) \/ l = h
    BY <1>2, <1>3 DEF Holds, Discipline, LockTypes
  <2>3. \A i \in DOMAIN want[t] : i # 1 => Rank[h] < Rank[want[t][i]]
    BY <1>1, <1>2, <2>1 DEF Disciplined, Increasing
  <2>4. \A l \in Lock : l = h => Announced(t, l)'
    BY <1>2, <1>3, <1>5 DEF Announced, Discipline, LockTypes
  <2>5. \A l \in Lock : Announced(t, l) => Announced(t, l)'
    BY <1>2, <1>3, ThreadAssumption DEF Announced, Discipline, LockTypes
  <2>6. Increasing(want[t])' /\ \A i \in DOMAIN want'[t] : May(pc'[t], want'[t][i])
    BY <1>3, <2>1 DEF Disciplined, Increasing
  <2>7. \A l \in Lock : Holds(t, l)' => May(pc'[t], l)
    BY <1>2, <1>3, <2>1, <2>2 DEF Disciplined
  <2>8. ASSUME NEW l \in Lock, NEW i \in DOMAIN want[t], Holds(t, l)'
        PROVE  Rank[l] < Rank[want[t][i]] \/ (i = 1 /\ l = want[t][1] /\ Announced(t, l)')
    <3>1. CASE l = h
      BY <1>2, <2>3, <2>4, <3>1
    <3>2. CASE l # h
      BY <2>1, <2>2, <2>5, <2>8, <3>2 DEF Disciplined
    <3> QED
      BY <3>1, <3>2
  <2> QED
    BY <1>3, <2>6, <2>7, <2>8 DEF Disciplined
<1>7. ASSUME NEW u \in Thread, u # t PROVE Disciplined(u)'
  <2>1. Disciplined(u)
    BY DEF Discipline
  <2>2. \A l \in Lock : (writer'[l] = u) <=> (writer[l] = u)
    BY <1>2, <1>3, <1>7, ThreadAssumption DEF Discipline, LockTypes
  <2> QED
    BY <1>3, <2>1, <2>2 DEF Disciplined, Increasing, Holds, Announced
<1> QED
  BY <1>4, <1>6, <1>7 DEF Discipline

\* The lock asked for first is taken: S is what the thread then holds besides.
LEMMA TakesHead ==
    ASSUME Discipline, NEW t \in Thread, want[t] # <<>>,
           want' = [want EXCEPT ![t] = Tail(@)], UNCHANGED <<writer, pc, job, todo, after>>,
           readers' \in [Lock -> SUBSET Thread],
           \A l \in Lock : \A u \in Thread :
               u # t \/ l # Head(want[t]) => ((u \in readers'[l]) <=> (u \in readers[l]))
    PROVE  Discipline'
<1> DEFINE h == Head(want[t])
<1>1. want[t] \in Seq(Lock)
  BY DEF Discipline, LockTypes
<1>2. h \in Lock /\ h = want[t][1] /\ 1 \in DOMAIN want[t]
  BY <1>1
<1>3. LockTypes'
  BY <1>1 DEF Discipline, LockTypes
<1>4. Disciplined(t)
  BY DEF Discipline
<1>5. /\ want'[t] = Tail(want[t])
      /\ \A i \in DOMAIN want'[t] : /\ i + 1 \in DOMAIN want[t] /\ i \in Nat \ {0}
                                    /\ want'[t][i] = want[t][i + 1]
  BY <1>1 DEF Discipline, LockTypes
<1>6. \A l \in Lock : Holds(t, l)' => Holds(t, l) \/ l = h
  BY DEF Holds
<1>7. Disciplined(t)'
  <2>1. Increasing(want[t])'
    <3> SUFFICES ASSUME NEW i \in DOMAIN want'[t], NEW j \in DOMAIN want'[t], i < j
                 PROVE  Rank[want'[t][i]] < Rank[want'[t][j]]
      BY DEF Increasing
    <3>1. i + 1 < j + 1
      BY <1>5
    <3> QED
      BY <1>4, <1>5, <3>1 DEF Disciplined, Increasing
  <2>2. \A i \in DOMAIN want'[t] : May(pc'[t], want'[t][i])
    BY <1>4, <1>5 DEF Disciplined
  <2>3. \A l \in Lock : Holds(t, l)' => May(pc'[t], l)
    BY <1>2, <1>4, <1>6 DEF Disciplined
  <2>4. ASSUME NEW l \in Lock, NEW i \in DOMAIN want'[t], Holds(t, l)'
        PROVE  Rank[l] < Rank[want'[t][i]]
    <3>1. i + 1 # 1 /\ 1 < i + 1
      BY <1>5
    <3>2. CASE l = h
      BY <1>2, <1>4, <1>5, <3>1, <3>2 DEF Disciplined, Increasing
    <3>3. CASE l # h
      BY <1>4, <1>5, <1>6, <2>4, <3>1, <3>3 DEF Disciplined
    <3> QED
      BY <3>2, <3>3
  <2> QED
    BY <2>1, <2>2, <2>3, <2>4 DEF Disciplined
<1>8. ASSUME NEW u \in Thread, u # t PROVE Disciplined(u)'
  <2>1. Disciplined(u)
    BY DEF Discipline
  <2>2. want'[u] = want[u]
    BY <1>8 DEF Discipline, LockTypes
  <2>3. \A l \in Lock : (u \in readers'[l]) <=> (u \in readers[l])
    BY <1>8
  <2> QED
    BY <2>1, <2>2, <2>3 DEF Disciplined, Increasing, Holds, Announced
<1> QED
  BY <1>3, <1>7, <1>8 DEF Discipline

LEMMA ExcludeKeepsDiscipline ==
    ASSUME Discipline, NEW t \in Thread, Exclude(t)
    PROVE  Discipline'
BY TakesHead DEF Exclude, Discipline, LockTypes

LEMMA ShareKeepsDiscipline ==
    ASSUME Discipline, NEW t \in Thread, Share(t)
    PROVE  Discipline'
<1>1. want[t] # <<>> /\ Head(want[t]) \in Lock
  BY DEF Share, Discipline, LockTypes
<1>2. readers' = [readers EXCEPT ![Head(want[t])] = @ \cup {t}]
  BY DEF Share
<1>3. readers' \in [Lock -> SUBSET Thread]
  BY <1>1, <1>2 DEF Discipline, LockTypes
<1>4. \A l \in Lock : \A u \in Thread :
          u # t \/ l # Head(want[t]) => ((u \in readers'[l]) <=> (u \in readers[l]))
  BY <1>1, <1>2 DEF Discipline, LockTypes
<1> QED
  BY <1>1, <1>3, <1>4, TakesHead DEF Share

-------------------------------------------------------------------------------
(* The steps of a call, each between the locks it asks for. *)

LEMMA NodeKnownKeepsDiscipline ==
    ASSUME Discipline, NEW t \in Thread, NEW j, NodeKnown(t, j)
    PROVE  Discipline'
BY DisciplineFrame DEF NodeKnown, Discipline, LockTypes

LEMMA FoundKeepsDiscipline ==
    ASSUME Discipline, NEW t \in Thread, Found(t)
    PROVE  Discipline'
BY DisciplineFrame DEF Found, Discipline, LockTypes

LEMMA Singletons ==
    ASSUME NEW l \in Lock
    PROVE  <<l>> \in Seq(Lock) /\ DOMAIN <<l>> = {1} /\ <<l>>[1] = l /\ Increasing(<<l>>)
BY DEF Increasing

LEMMA BeginKeepsDiscipline ==
    ASSUME Discipline, NEW t \in Thread, NEW j \in Job, Begin(t, j)
    PROVE  Discipline'
<1>1. want[t] = <<>> /\ pc[t] = "idle"
  BY IdleHasNothing DEF Begin
<1>2. Go(t, "create", <<"mutation">>) /\ Release(t, {})
  BY NothingReleased DEF Begin, MutationLocks
<1>3. after' \in [Thread -> {"idle", "check", "clone", "store", "merge"}]
  <2>1. j.do \in {"restore", "node", "follow", "mute"}
    BY JobAssumption
  <2>2. /\ after' = [after EXCEPT ![t] = after'[t]]
        /\ after'[t] \in {"merge", "idle", "check"}
    BY <2>1 DEF Begin, Discipline, LockTypes
  <2> QED
    BY <2>2 DEF Discipline, LockTypes
<1>4. /\ DOMAIN job' = Thread /\ todo' \subseteq Job
      /\ \A u \in Thread : pc'[u] = "look" => job'[u] \in Query
  BY <1>2 DEF Begin, Go, Discipline, LockTypes
<1>5. "create" \in Steps /\ "mutation" \in Lock
  BY DEF Steps, Lock
<1>6. May("create", "mutation") /\ \A l : ~May("idle", l)
  BY DEF May, Steps
<1> QED
  <2> DEFINE s == <<"mutation">>
  <2>1. s \in Seq(Lock) /\ DOMAIN s = {1} /\ s[1] = "mutation" /\ Increasing(s)
    BY <1>5, Singletons
  <2>2. \A i \in DOMAIN s : May("create", s[i])
    BY <1>6, <2>1
  <2>3. \A l \in Lock \ {} : May(pc[t], l) =>
            May("create", l) /\ \A i \in DOMAIN s : Rank[l] < Rank[s[i]]
    BY <1>1, <1>6
  <2>4. Go(t, "create", s)
    BY <1>2
  <2> HIDE DEF s
  <2> QED
    BY <1>1, <1>2, <1>3, <1>4, <1>5, <2>1, <2>2, <2>3, <2>4, DisciplineReady

\* Between "create" and the next place with its locks the thread holds
\* mutation, which comes before every other lock.
LEMMA OnlyMutation ==
    ASSUME NEW l \in Lock, May("create", l)
    PROVE  l = "mutation"
BY DEF May

LEMMA CreateKeepsDiscipline ==
    ASSUME Discipline, NEW t \in Thread, Create(t)
    PROVE  Discipline'
<1> DEFINE s == <<"follows", "followers", "pubkeys", "metadata">>
<1>1. want[t] = <<>> /\ pc[t] = "create"
  BY DEF Create, Ready
<1>2. Go(t, "push", s) /\ Release(t, {})
  BY NothingReleased DEF Create
<1>3. after' \in [Thread -> {"idle", "check", "clone", "store", "merge"}]
  BY DEF Create, Discipline, LockTypes
<1>4. /\ DOMAIN job' = Thread /\ todo' \subseteq Job
      /\ \A u \in Thread : pc'[u] = "look" => job'[u] \in Query
  BY <1>2 DEF Create, Go, Discipline, LockTypes
<1>5. "push" \in Steps /\ s \in Seq(Lock) /\ DOMAIN s = 1..4
  BY DEF Steps, Lock
<1>6. Increasing(s)
  BY RankValues DEF Increasing
<1>7. \A i \in DOMAIN s : May("push", s[i]) /\ Rank["mutation"] < Rank[s[i]]
  BY RankValues DEF May
<1>8. May("push", "mutation")
  BY DEF May, Steps
<1> HIDE DEF s
<1> QED
  BY <1>1, <1>2, <1>3, <1>4, <1>5, <1>6, <1>7, <1>8, OnlyMutation, DisciplineReady

LEMMA PushKeepsDiscipline ==
    ASSUME Discipline, NEW t \in Thread, Push(t)
    PROVE  Discipline'
<1>1. want[t] = <<>> /\ pc[t] = "push"
  BY DEF Push, Ready
<1>2. Go(t, "publish", <<>>) /\ Release(t, {})
  BY NothingReleased DEF Push
<1>3. after' \in [Thread -> {"idle", "check", "clone", "store", "merge"}]
  BY DEF Push, Discipline, LockTypes
<1>4. /\ DOMAIN job' = Thread /\ todo' \subseteq Job
      /\ \A u \in Thread : pc'[u] = "look" => job'[u] \in Query
  BY <1>2 DEF Push, Go, Discipline, LockTypes
<1>5. "publish" \in Steps /\ \A l \in Lock : May("push", l) => May("publish", l)
  BY DEF Steps, May
<1> QED
  BY <1>1, <1>2, <1>3, <1>4, <1>5, DisciplineOn

LEMMA PublishIdKeepsDiscipline ==
    ASSUME Discipline, NEW t \in Thread, PublishId(t)
    PROVE  Discipline'
<1>1. want[t] = <<>> /\ pc[t] = "publish"
  BY DEF PublishId, Ready
<1>2. Go(t, "bump", <<>>) /\ Release(t, {})
  BY NothingReleased DEF PublishId
<1>3. after' \in [Thread -> {"idle", "check", "clone", "store", "merge"}]
  BY DEF PublishId, Discipline, LockTypes
<1>4. /\ DOMAIN job' = Thread /\ todo' \subseteq Job
      /\ \A u \in Thread : pc'[u] = "look" => job'[u] \in Query
  BY <1>2 DEF PublishId, Go, Discipline, LockTypes
<1>5. "bump" \in Steps /\ \A l \in Lock : May("publish", l) => May("bump", l)
  BY DEF Steps, May
<1> QED
  BY <1>1, <1>2, <1>3, <1>4, <1>5, DisciplineOn

LEMMA BumpRevisionKeepsDiscipline ==
    ASSUME Discipline, NEW t \in Thread, BumpRevision(t)
    PROVE  Discipline'
<1>1. want[t] = <<>> /\ pc[t] = "bump"
  BY DEF BumpRevision, Ready
<1>2. Go(t, "create", <<>>) /\ Release(t, Lock \ {"mutation"})
  BY DEF BumpRevision
<1>3. after' \in [Thread -> {"idle", "check", "clone", "store", "merge"}]
  BY DEF BumpRevision, Discipline, LockTypes
<1>4. /\ DOMAIN job' = Thread /\ todo' \subseteq Job
      /\ \A u \in Thread : pc'[u] = "look" => job'[u] \in Query
  BY <1>2 DEF BumpRevision, Go, Discipline, LockTypes
<1>5. "create" \in Steps /\ May("create", "mutation")
  BY DEF Steps, May
<1> QED
  BY <1>1, <1>2, <1>3, <1>4, <1>5, DisciplineOn

LEMMA CreatedKeepsDiscipline ==
    ASSUME Discipline, NEW t \in Thread, Created(t)
    PROVE  Discipline'
<1>1. want[t] = <<>> /\ pc[t] = "create"
  BY DEF Created, Ready
<1>2. CASE after[t] = "idle" /\ Return(t)
  BY <1>1, <1>2, ReturnKeepsDiscipline
<1>3. CASE /\ after[t] # "idle" /\ Go(t, after[t], LocksFor(after[t], job[t]))
           /\ UNCHANGED <<locks, job, update, query, callers>>
  <2> DEFINE at == after[t]
             s == LocksFor(after[t], job[t])
  <2>1. at \in {"check", "clone", "store", "merge"}
    BY <1>3 DEF Discipline, LockTypes
  <2>2. /\ s \in Seq(Lock) /\ Increasing(s)
        /\ \A i \in DOMAIN s : May(at, s[i]) /\ Rank["mutation"] < Rank[s[i]]
    <3>1. ASSUME NEW l \in Lock \ {"mutation"}, s = <<l>>, May(at, l) 
          PROVE  /\ s \in Seq(Lock) /\ Increasing(s)
                 /\ \A i \in DOMAIN s : May(at, s[i]) /\ Rank["mutation"] < Rank[s[i]]
      <4>1. s \in Seq(Lock) /\ DOMAIN s = {1} /\ s[1] = l /\ Increasing(s)
        BY <3>1, Singletons
      <4>2. Rank["mutation"] < Rank[l]
        BY RankValues DEF Lock
      <4> QED
        BY <3>1, <4>1, <4>2
    <3>2. CASE at = "merge"
      <4>1. s = <<"follows", "followers", "metadata", "mutes">>
        BY <3>2 DEF LocksFor
      <4>2. s \in Seq(Lock) /\ DOMAIN s = 1..4
        BY <4>1 DEF Lock
      <4>3. Increasing(s)
        BY <4>1, RankValues DEF Increasing
      <4>4. \A i \in DOMAIN s : May(at, s[i]) /\ Rank["mutation"] < Rank[s[i]]
        BY <3>2, <4>1, RankValues DEF May
      <4> QED
        BY <4>2, <4>3, <4>4
    <3>3. CASE at = "check" /\ job[t].do = "mute"
      BY <3>1, <3>3 DEF LocksFor, May, Lock
    <3>4. CASE at = "check" /\ job[t].do # "mute"
      BY <3>1, <3>4 DEF LocksFor, May, Lock
    <3>5. CASE at = "clone"
      BY <3>1, <3>5 DEF LocksFor, May, Lock
    <3>6. CASE at = "store"
      BY <3>1, <3>6 DEF LocksFor, May, Lock
    <3> QED
      BY <2>1, <3>2, <3>3, <3>4, <3>5, <3>6
  <2>3. Release(t, {})
    BY <1>3, NothingReleased
  <2>4. after' \in [Thread -> {"idle", "check", "clone", "store", "merge"}]
    BY <1>3 DEF Discipline, LockTypes
  <2>5. /\ DOMAIN job' = Thread /\ todo' \subseteq Job
        /\ \A u \in Thread : pc'[u] = "look" => job'[u] \in Query
    BY <1>3, <2>1 DEF Go, Discipline, LockTypes
  <2>6. at \in Steps /\ May(at, "mutation")
    BY <2>1 DEF Steps, May
  <2>7. Go(t, at, s)
    BY <1>3
  <2> HIDE DEF at, s
  <2> QED
    BY <1>1, <2>2, <2>3, <2>4, <2>5, <2>6, <2>7, OnlyMutation, DisciplineReady
<1> QED
  BY <1>2, <1>3 DEF Created

LEMMA AcceptKeepsDiscipline ==
    ASSUME Discipline, NEW t \in Thread, Accept(t)
    PROVE  Discipline'
<1>1. want[t] = <<>> /\ pc[t] = "check"
  BY DEF Accept, Ready
<1>2. Go(t, "create", <<>>) /\ Release(t, Lock \ {"mutation"})
  BY DEF Accept
<1>3. after' \in [Thread -> {"idle", "check", "clone", "store", "merge"}]
  BY DEF Accept, Discipline, LockTypes
<1>4. /\ DOMAIN job' = Thread /\ todo' \subseteq Job
      /\ \A u \in Thread : pc'[u] = "look" => job'[u] \in Query
  BY <1>2 DEF Accept, Go, Discipline, LockTypes
<1>5. "create" \in Steps /\ May("create", "mutation")
  BY DEF Steps, May
<1> QED
  BY <1>1, <1>2, <1>3, <1>4, <1>5, DisciplineOn

LEMMA RejectKeepsDiscipline ==
    ASSUME Discipline, NEW t \in Thread, Reject(t)
    PROVE  Discipline'
BY ReturnKeepsDiscipline DEF Reject, Ready

LEMMA StampKeepsDiscipline ==
    ASSUME Discipline, NEW t \in Thread, Stamp(t)
    PROVE  Discipline'
BY ReturnKeepsDiscipline DEF Stamp, Ready

LEMMA StoreKeepsDiscipline ==
    ASSUME Discipline, NEW t \in Thread, Store(t)
    PROVE  Discipline'
BY ReturnKeepsDiscipline DEF Store, Ready

LEMMA MergeKeepsDiscipline ==
    ASSUME Discipline, NEW t \in Thread, Merge(t)
    PROVE  Discipline'
BY ReturnKeepsDiscipline DEF Merge, Ready

LEMMA CloneKeepsDiscipline ==
    ASSUME Discipline, NEW t \in Thread, Clone(t)
    PROVE  Discipline'
<1> DEFINE s == <<"follows", "followers">>
<1>1. want[t] = <<>> /\ pc[t] = "clone"
  BY DEF Clone, Ready
<1>2. Go(t, "swap", s) /\ Release(t, {"follows"})
  BY DEF Clone
<1>3. after' \in [Thread -> {"idle", "check", "clone", "store", "merge"}]
  BY DEF Clone, Discipline, LockTypes
<1>4. /\ DOMAIN job' = Thread /\ todo' \subseteq Job
      /\ \A u \in Thread : pc'[u] = "look" => job'[u] \in Query
  BY <1>2 DEF Clone, Go, Discipline, LockTypes
<1>5. "swap" \in Steps /\ s \in Seq(Lock) /\ DOMAIN s = 1..2 /\ "follows" \in Lock
  BY DEF Steps, Lock
<1>6. Increasing(s)
  BY RankValues DEF Increasing
<1>7. \A i \in DOMAIN s : May("swap", s[i]) /\ Rank["mutation"] < Rank[s[i]]
  BY RankValues DEF May
<1>8. \A l \in Lock \ {"follows"} : May("clone", l) => l = "mutation" /\ May("swap", l)
  BY DEF May, Steps
<1> QED
  BY <1>1, <1>2, <1>3, <1>4, <1>5, <1>6, <1>7, <1>8, DisciplineReady

LEMMA SwapKeepsDiscipline ==
    ASSUME Discipline, NEW t \in Thread, Swap(t)
    PROVE  Discipline'
<1> DEFINE s == <<"metadata">>
<1>1. want[t] = <<>> /\ pc[t] = "swap"
  BY DEF Swap, Ready
<1>2. Go(t, "stamp", s) /\ Release(t, {"follows", "followers"})
  BY DEF Swap
<1>3. after' \in [Thread -> {"idle", "check", "clone", "store", "merge"}]
  BY DEF Swap, Discipline, LockTypes
<1>4. /\ DOMAIN job' = Thread /\ todo' \subseteq Job
      /\ \A u \in Thread : pc'[u] = "look" => job'[u] \in Query
  BY <1>2 DEF Swap, Go, Discipline, LockTypes
<1>5. "stamp" \in Steps /\ {"follows", "followers", "metadata"} \subseteq Lock
  BY DEF Steps, Lock
<1>6. s \in Seq(Lock) /\ DOMAIN s = {1} /\ s[1] = "metadata" /\ Increasing(s)
  BY <1>5, Singletons
<1>7. May("stamp", "metadata") /\ Rank["mutation"] < Rank["metadata"]
  BY RankValues DEF May
<1>8. \A l \in Lock \ {"follows", "followers"} : May("swap", l) =>
          l = "mutation" /\ May("stamp", l)
  BY DEF May, Steps
<1> HIDE DEF s
<1> QED
  BY <1>1, <1>2, <1>3, <1>4, <1>5, <1>6, <1>7, <1>8, DisciplineReady

LEMMA AskKeepsDiscipline ==
    ASSUME Discipline, NEW t \in Thread, NEW q \in Query, Ask(t, q)
    PROVE  Discipline'
<1>1. want[t] = <<>> /\ pc[t] = "idle"
  BY IdleHasNothing DEF Ask
<1>2. Go(t, "look", <<>>) /\ Release(t, {})
  BY NothingReleased DEF Ask
<1>3. after' \in [Thread -> {"idle", "check", "clone", "store", "merge"}]
  BY DEF Ask, Discipline, LockTypes
<1>4. /\ DOMAIN job' = Thread /\ todo' \subseteq Job
      /\ \A u \in Thread : pc'[u] = "look" => job'[u] \in Query
  BY <1>2 DEF Ask, Go, Discipline, LockTypes
<1>5. "look" \in Steps /\ \A l : ~May("idle", l)
  BY DEF Steps, May
<1> QED
  BY <1>1, <1>2, <1>3, <1>4, <1>5, DisciplineOn

\* A sequence of locks a reader may ask for.
Ordered(s) ==
    s \in Seq(Lock) /\ Increasing(s) /\ \A i \in DOMAIN s : May("read", s[i])

LEMMA ReadLocksOrdered ==
    ASSUME NEW q \in Query
    PROVE  Ordered(ReadLocks(q.do))
<1>1. q.do \in {"page", "common", "walk", "followers", "mutes", "evidence"}
  BY QueryAssumption
<1>2. ReadLocks(q.do) \in {<<"follows", "followers", "pubkeys">>, <<"followers", "pubkeys">>,
                          <<"pubkeys", "mutes">>, <<"follows", "pubkeys", "mutes">>,
                          <<"follows", "pubkeys">>}
  BY <1>1 DEF ReadLocks
<1>3. ASSUME NEW l \in Lock, NEW m \in Lock, NEW n \in Lock,
             Rank[l] < Rank[m], Rank[m] < Rank[n],
             May("read", l), May("read", m), May("read", n), ReadLocks(q.do) = <<l, m, n>>
      PROVE  Ordered(ReadLocks(q.do))
  <2> DEFINE s == <<l, m, n>>
  <2>1. s \in Seq(Lock) /\ DOMAIN s = 1..3
    OBVIOUS
  <2>2. Increasing(s)
    BY <1>3, RankType DEF Increasing
  <2>3. \A i \in DOMAIN s : May("read", s[i])
    BY <1>3
  <2> QED
    BY <1>3, <2>1, <2>2, <2>3 DEF Ordered
<1>4. ASSUME NEW l \in Lock, NEW m \in Lock, Rank[l] < Rank[m],
             May("read", l), May("read", m), ReadLocks(q.do) = <<l, m>>
      PROVE  Ordered(ReadLocks(q.do))
  <2> DEFINE s == <<l, m>>
  <2>1. s \in Seq(Lock) /\ DOMAIN s = 1..2
    OBVIOUS
  <2>2. Increasing(s)
    BY <1>4, RankType DEF Increasing
  <2>3. \A i \in DOMAIN s : May("read", s[i])
    BY <1>4
  <2> QED
    BY <1>4, <2>1, <2>2, <2>3 DEF Ordered
<1>5. /\ \A l \in Lock \ {"mutation"} : May("read", l)
      /\ {"follows", "followers", "pubkeys", "mutes"} \subseteq Lock \ {"mutation"}
  BY DEF May, Lock
<1> QED
  BY <1>2, <1>3, <1>4, <1>5, RankValues

LEMMA LookKeepsDiscipline ==
    ASSUME Discipline, NEW t \in Thread, Look(t)
    PROVE  Discipline'
<1>1. want[t] = <<>> /\ pc[t] = "look" /\ Release(t, {})
  BY NothingReleased DEF Look, Ready
<1>2. \A l : ~May("look", l)
  BY DEF May
<1>3. job[t] \in Query
  BY <1>1 DEF Discipline, LockTypes
<1>4. after' \in [Thread -> {"idle", "check", "clone", "store", "merge"}]
  BY DEF Look, Answered, Discipline, LockTypes
<1>5. CASE Answered(t)
  <2>1. Go(t, "idle", <<>>)
    BY <1>5 DEF Answered
  <2>2. /\ DOMAIN job' = Thread /\ todo' \subseteq Job
        /\ \A u \in Thread : pc'[u] = "look" => job'[u] \in Query
    BY <1>5 DEF Answered, Go, Discipline, LockTypes
  <2>3. "idle" \in Steps
    BY DEF Steps
  <2> QED
    BY <1>1, <1>2, <1>4, <2>1, <2>2, <2>3, DisciplineOn
<1>6. CASE Go(t, "read", ReadLocks(job[t].do)) /\ UNCHANGED <<job, todo>>
  <2>1. /\ DOMAIN job' = Thread /\ todo' \subseteq Job
        /\ \A u \in Thread : pc'[u] = "look" => job'[u] \in Query
    BY <1>6 DEF Go, Discipline, LockTypes
  <2>2. "read" \in Steps
    BY DEF Steps
  <2> DEFINE s == ReadLocks(job[t].do)
  <2>3. s \in Seq(Lock) /\ Increasing(s) /\ \A i \in DOMAIN s : May("read", s[i])
    BY <1>3, ReadLocksOrdered DEF Ordered
  <2>4. Go(t, "read", s)
    BY <1>6
  <2>5. \A l \in Lock \ {} : ~May(pc[t], l)
    BY <1>1, <1>2
  <2> HIDE DEF s
  <2> QED
    BY <1>1, <1>4, <2>1, <2>2, <2>3, <2>4, <2>5, DisciplineReady
<1> QED
  BY <1>5, <1>6 DEF Look

LEMMA ReadKeepsDiscipline ==
    ASSUME Discipline, NEW t \in Thread, Read(t)
    PROVE  Discipline'
<1>1. want[t] = <<>> /\ pc[t] = "read" /\ Go(t, "idle", <<>>) /\ Release(t, Lock)
  BY DEF Read, Ready, Answered
<1>2. after' \in [Thread -> {"idle", "check", "clone", "store", "merge"}]
  BY DEF Read, Answered, Discipline, LockTypes
<1>3. /\ DOMAIN job' = Thread /\ todo' \subseteq Job
      /\ \A u \in Thread : pc'[u] = "look" => job'[u] \in Query
  BY DEF Read, Answered, Go, Discipline, LockTypes
<1>4. "idle" \in Steps
  BY DEF Steps
<1> QED
  BY <1>1, <1>2, <1>3, <1>4, DisciplineOn

-------------------------------------------------------------------------------
(* No deadlock. *)

LEMMA DisciplineInit == Init => Discipline
<1> SUFFICES ASSUME Init PROVE Discipline
  OBVIOUS
<1>1. LockTypes
  BY DEF Init, LockTypes, Steps
<1>2. ASSUME NEW t \in Thread PROVE Disciplined(t)
  <2>1. want[t] = <<>>
    BY DEF Init
  <2>2. \A l \in Lock : ~Holds(t, l)
    BY ThreadAssumption DEF Init, Holds
  <2>3. \A i \in DOMAIN want[t] : FALSE
    BY <2>1
  <2> QED
    BY <2>2, <2>3 DEF Disciplined, Increasing
<1> QED
  BY <1>1, <1>2 DEF Discipline

LEMMA DisciplineStep == Discipline /\ [Next]_vars => Discipline'
<1> SUFFICES ASSUME Discipline, [Next]_vars PROVE Discipline'
  OBVIOUS
<1>1. CASE UNCHANGED vars
  BY <1>1, DisciplineFrame DEF Discipline, LockTypes
<1>2. ASSUME NEW t \in Thread, Step(t) PROVE Discipline'
  BY <1>2, AnnounceKeepsDiscipline, ExcludeKeepsDiscipline, ShareKeepsDiscipline,
     FoundKeepsDiscipline, CreateKeepsDiscipline, PushKeepsDiscipline,
     PublishIdKeepsDiscipline, BumpRevisionKeepsDiscipline, CreatedKeepsDiscipline,
     AcceptKeepsDiscipline, RejectKeepsDiscipline, CloneKeepsDiscipline,
     SwapKeepsDiscipline, StampKeepsDiscipline, StoreKeepsDiscipline,
     MergeKeepsDiscipline, LookKeepsDiscipline, ReadKeepsDiscipline DEF Step
<1>3. todo \subseteq Job
  BY DEF Discipline, LockTypes
<1>4. ASSUME NEW t \in Thread, Call(t) PROVE Discipline'
  BY <1>3, <1>4, NodeKnownKeepsDiscipline, BeginKeepsDiscipline, AskKeepsDiscipline DEF Call
<1> QED
  BY <1>1, <1>2, <1>4 DEF Next

\* How far a thread has come with the locks: those that ask for nothing are at
\* the top.
Level(t) ==
    IF want[t] = <<>> THEN 14
    ELSE 2 * Rank[Head(want[t])] + (IF writer[Head(want[t])] = t THEN 1 ELSE 0)

LEMMA LevelType ==
    ASSUME Discipline, NEW t \in Thread
    PROVE  Level(t) \in 0..14
<1>1. CASE want[t] = <<>>
  BY <1>1 DEF Level
<1>2. CASE want[t] # <<>>
  <2>1. Rank[Head(want[t])] \in 1..6
    BY <1>2, RankType DEF Discipline, LockTypes
  <2> QED
    BY <1>2, <2>1 DEF Level
<1> QED
  BY <1>1, <1>2

\* Whoever holds a lock is above those that wait for it with nothing of it.
LEMMA HolderIsAbove ==
    ASSUME Discipline, NEW u \in Thread, NEW l \in Lock, Holds(u, l)
    PROVE  Level(u) >= 2 * Rank[l] + 2 \/ (writer[l] = u /\ Level(u) = 2 * Rank[l] + 1)
<1>1. Rank[l] \in 1..6
  BY RankType
<1>2. CASE want[u] = <<>>
  BY <1>1, <1>2 DEF Level
<1>3. CASE want[u] # <<>>
  <2> DEFINE h == Head(want[u])
  <2>1. h \in Lock /\ h = want[u][1] /\ 1 \in DOMAIN want[u]
    BY <1>3 DEF Discipline, LockTypes
  <2>2. Rank[h] \in 1..6
    BY <2>1, RankType
  <2>3. Rank[l] < Rank[h] \/ (l = h /\ Announced(u, l))
    BY <2>1 DEF Discipline, Disciplined
  <2> QED
    BY <1>1, <1>3, <2>2, <2>3 DEF Level, Announced
<1> QED
  BY <1>2, <1>3

LEMMA WaitsUp ==
    ASSUME Discipline, NEW t \in Thread, NEW u \in Thread, Waits(t, u)
    PROVE  Level(t) < Level(u)
<1> DEFINE l == Head(want[t])
<1>1. want[t] # <<>> /\ l \in Lock /\ l = want[t][1] /\ 1 \in DOMAIN want[t]
  BY DEF Waits, Discipline, LockTypes
<1>2. Rank[l] \in 1..6
  BY <1>1, RankType
<1>3. Holds(t, l) => Announced(t, l)
  BY <1>1, <1>2 DEF Discipline, Disciplined
<1>4. CASE writer[l] = u /\ u # t
  <2>1. Level(t) = 2 * Rank[l]
    BY <1>1, <1>2, <1>4 DEF Level
  <2>2. Level(u) >= 2 * Rank[l] + 2 \/ Level(u) = 2 * Rank[l] + 1
    BY <1>1, <1>4, HolderIsAbove DEF Holds
  <2> QED
    BY <1>2, <2>1, <2>2, LevelType
<1>5. CASE writer[l] = u /\ pc[t] \notin Writes
  BY <1>3, <1>4, <1>5 DEF Holds, Announced
<1>6. CASE writer[l] = t /\ pc[t] \in Writes /\ u \in readers[l]
  <2>1. u # t
    BY <1>3, <1>6 DEF Holds, Announced
  <2>2. Level(t) = 2 * Rank[l] + 1
    BY <1>1, <1>2, <1>6 DEF Level
  <2>3. Level(u) >= 2 * Rank[l] + 2
    BY <1>1, <1>6, <2>1, HolderIsAbove DEF Holds
  <2> QED
    BY <1>2, <2>2, <2>3, LevelType
<1> QED
  BY <1>4, <1>5, <1>6 DEF Waits

LEMMA HighestLevel ==
    ASSUME NEW V \in SUBSET (0..14), V # {}
    PROVE  \E m \in V : \A v \in V : v <= m
<1> DEFINE High(n) == \E v \in V : n <= v
<1>1. \A v \in V : v \in 0..14
  OBVIOUS
<1>2. High(0) /\ ~High(15)
  <2>1. PICK v \in V : TRUE
    OBVIOUS
  <2>2. 0 <= v
    BY <1>1, <2>1
  <2>3. \A w \in V : ~(15 <= w)
    BY <1>1
  <2> QED
    BY <2>1, <2>2, <2>3
<1>3. PICK n \in 0..14 : High(n) /\ ~High(n + 1)
  <2> HIDE DEF High
  <2> QED
    BY <1>2
<1>4. PICK m \in V : n <= m
  BY <1>3
<1> QED
  BY <1>1, <1>3, <1>4

(* For any number of threads, any jobs and any queries: in no set of threads  *)
(* does every thread wait for one of the set (store.rs:198, the lock order).  *)
THEOREM NoDeadlock == Spec => []NoCircularWait
<1>1. Discipline => NoCircularWait
  <2> SUFFICES ASSUME Discipline, NEW S \in (SUBSET Thread) \ {{}}
               PROVE  \E t \in S : \A u \in S : ~Waits(t, u)
    BY DEF NoCircularWait
  <2> DEFINE V == {Level(t) : t \in S}
  <2>1. V \in SUBSET (0..14) /\ V # {}
    <3>1. \A t \in S : Level(t) \in 0..14
      BY LevelType
    <3>2. PICK t \in S : TRUE
      OBVIOUS
    <3>3. Level(t) \in V
      BY <3>2
    <3> QED
      BY <3>1, <3>3
  <2>2. PICK m \in V : \A v \in V : v <= m
    BY <2>1, HighestLevel
  <2>3. PICK t \in S : m = Level(t)
    BY <2>2
  <2>4. ASSUME NEW u \in S, Waits(t, u) PROVE FALSE
    <3>1. Level(t) < Level(u)
      BY <2>3, <2>4, WaitsUp
    <3>2. Level(u) <= Level(t)
      BY <2>2, <2>3
    <3> QED
      BY <3>1, <3>2, LevelType
  <2> QED
    BY <2>4
<1> QED
  BY <1>1, DisciplineInit, DisciplineStep, PTL DEF Spec

-------------------------------------------------------------------------------
(* What the graph holds. *)

Writing == Steps \ {"idle", "look", "read"}
Creating == {"create", "push", "publish", "bump"}

\* Inside an update, and past the wait for mutation.
Active(t) == pc[t] \in Writing /\ (pc[t] = "create" => want[t] = <<>>)

Owner == \A t \in Thread : Active(t) => writer["mutation"] = t

\* The pubkeys that must have ids when the thread comes to the place it is
\* creating ids for.
Needed(t) ==
    CASE after[t] = "idle" -> {}
      [] after[t] = "check" -> {job[t].author}
      [] after[t] \in {"clone", "store"} -> {job[t].author} \cup Elems(job[t].targets)
      [] after[t] = "merge" -> Elems(job[t].nodes)

\* The kind of job a thread with that goal has.
Goal(t) ==
    /\ job[t] \in Job
    /\ after[t] = "check" => job[t].do \in {"follow", "mute"}
    /\ after[t] = "clone" => job[t].do = "follow"
    /\ after[t] = "store" => job[t].do = "mute"
    /\ after[t] = "merge" => job[t].do = "restore"
    /\ after[t] = "idle" => job[t].do = "node"
    /\ pc[t] \in {"check", "clone", "store", "merge"} => after[t] = pc[t]
    /\ pc[t] \in {"swap", "stamp"} => after[t] = "clone"

\* What a thread in the middle of an update knows.
Task(t) ==
    /\ pc[t] \in Writing =>
         /\ Goal(t)
         /\ \A p \in Needed(t) : \/ idOf[p] # None
                                 \/ pc[t] \in Creating /\ p \in Elems(pending[t])
    /\ pc[t] \in {"push", "publish", "bump"} => pending[t] # <<>>
    /\ pc[t] = "publish" =>
         /\ Len(names) # 0 /\ names[Len(names)] = Head(pending[t])
         /\ idOf[Head(pending[t])] = None
    /\ pc[t] = "bump" => idOf[Head(pending[t])] # None
    /\ pc[t] = "swap" => old[t] = follows[idOf[job[t].author]]

DataTypes ==
    /\ idOf \in [Pubkey -> Nat] /\ names \in Seq(Pubkey)
    /\ follows \in Seq(SUBSET Nat) /\ followers \in Seq(SUBSET Nat) /\ meta \in Seq(Nat)
    /\ mutes \in [NodeId -> [ids : SUBSET Nat, version : Nat]]
    /\ pending \in [Thread -> Seq(Pubkey)] /\ old \in [Thread -> SUBSET Nat]
    /\ job \in [Thread -> Job \cup Query \cup {NoJob}]

Named(i) ==
    \/ idOf[names[i]] = i
    \/ /\ idOf[names[i]] = None /\ i = Len(names)
       /\ \E t \in Thread : pc[t] = "publish" /\ Head(pending[t]) = names[i]

Nodes ==
    /\ Len(follows) = Len(names) /\ Len(followers) = Len(names) /\ Len(meta) = Len(names)
    /\ \A p \in Pubkey : idOf[p] # None => idOf[p] \in 1..Len(names) /\ names[idOf[p]] = p
    /\ \A i \in 1..Len(names) : Named(i)
    /\ \A i \in 1..Len(names) :
         follows[i] \subseteq 1..Len(names) /\ followers[i] \subseteq 1..Len(names)
    /\ \A i \in NodeId : mutes[i].ids \subseteq 1..Len(names)
    /\ \A i, j \in 1..Len(names) : j \in follows[i] <=> i \in followers[j]

Contents == DataTypes /\ Owner /\ Nodes /\ \A t \in Thread : Task(t)

-------------------------------------------------------------------------------
(* The owner of mutation. *)

Others(t) ==
    \A u \in Thread \ {t} :
        /\ pc'[u] = pc[u] /\ want'[u] = want[u] /\ job'[u] = job[u]
        /\ pending'[u] = pending[u] /\ after'[u] = after[u] /\ old'[u] = old[u]

LEMMA LongSequence ==
    ASSUME NEW S, NEW s \in Seq(S), s # <<>>, Len(s) # 1
    PROVE  1 \in DOMAIN s /\ 2 \in DOMAIN s
<1>1. Len(s) \in Nat \ {0} /\ DOMAIN s = 1..Len(s)
  OBVIOUS
<1>2. Len(s) >= 2
  BY <1>1
<1> QED BY <1>1, <1>2

LEMMA CreateWants ==
    ASSUME Discipline, NEW t \in Thread, pc[t] = "create", want[t] # <<>>
    PROVE  Head(want[t]) = "mutation" /\ Tail(want[t]) = <<>>
<1>1. want[t] \in Seq(Lock) /\ Increasing(want[t])
  BY DEF Discipline, LockTypes, Disciplined
<1>2. \A i \in DOMAIN want[t] : want[t][i] = "mutation"
  <2>1. \A i \in DOMAIN want[t] : May("create", want[t][i]) /\ want[t][i] \in Lock
    BY <1>1 DEF Discipline, Disciplined
  <2> QED BY <2>1, OnlyMutation
<1>3. Len(want[t]) = 1
  <2> SUFFICES ASSUME Len(want[t]) # 1 PROVE FALSE
    OBVIOUS
  <2>1. 1 \in DOMAIN want[t] /\ 2 \in DOMAIN want[t]
    BY <1>1, LongSequence
  <2>2. Rank["mutation"] < Rank["mutation"]
    BY <1>1, <1>2, <2>1 DEF Increasing
  <2> QED BY <2>2, RankValues
<1> QED BY <1>1, <1>2, <1>3

\* A thread with the locks it asked for, in an update, owns mutation.
LEMMA OnlyOwner ==
    ASSUME Owner, NEW t \in Thread, Active(t), NEW u \in Thread \ {t}
    PROVE  ~Active(u)
BY DEF Owner

LEMMA OwnerMoves ==
    ASSUME Discipline, Owner, NEW t \in Thread, Others(t),
           pc'[t] \in Writing /\ (pc'[t] = "create" => want'[t] = <<>>) => Active(t),
           \/ UNCHANGED writer
           \/ \E S \in SUBSET Lock : Release(t, S) /\ (Active(t)' => "mutation" \notin S)
    PROVE  Owner'
<1> SUFFICES ASSUME NEW u \in Thread, Active(u)' PROVE writer'["mutation"] = u
  BY DEF Owner
<1>1. Active(u)
  BY DEF Others, Active
<1>2. writer["mutation"] = u
  BY <1>1 DEF Owner
<1>3. CASE \E S \in SUBSET Lock : Release(t, S) /\ (Active(t)' => "mutation" \notin S)
  <2>1. PICK S \in SUBSET Lock : Release(t, S) /\ (Active(t)' => "mutation" \notin S)
    BY <1>3
  <2>2. writer'["mutation"] = IF "mutation" \in S /\ writer["mutation"] = t
                              THEN NoThread ELSE writer["mutation"]
    BY <2>1 DEF Release, Lock
  <2> QED BY <1>2, <2>1, <2>2
<1> QED BY <1>2, <1>3

LEMMA OwnerAnnounce ==
    ASSUME Discipline, Owner, NEW t \in Thread, Announce(t) PROVE Owner'
<1>1. Head(want[t]) \in Lock /\ writer \in [Lock -> Thread \cup {NoThread}]
  BY DEF Discipline, LockTypes, Announce
<1>2. \A u \in Thread : Active(u)' => Active(u)
  BY DEF Announce, Active
<1>3. ASSUME NEW u \in Thread, writer["mutation"] = u PROVE writer'["mutation"] = u
  BY <1>1, <1>3, ThreadAssumption DEF Announce, Lock
<1> QED BY <1>2, <1>3 DEF Owner

LEMMA OwnerExclude ==
    ASSUME Discipline, Owner, NEW t \in Thread, Exclude(t) PROVE Owner'
<1> SUFFICES ASSUME NEW u \in Thread, Active(u)' PROVE writer'["mutation"] = u
  BY DEF Owner
<1>1. CASE Active(u)
  BY <1>1 DEF Owner, Exclude
<1>2. CASE ~Active(u)
  <2>1. u = t /\ pc[t] = "create" /\ want[t] # <<>>
    BY <1>2 DEF Exclude, Active, Discipline, LockTypes
  <2> QED BY <2>1, CreateWants DEF Exclude
<1> QED BY <1>1, <1>2

-------------------------------------------------------------------------------
(* Facts about jobs, sequences and ids. *)

LEMMA JobFacts ==
    ASSUME NEW j \in Job
    PROVE  /\ j.do \in {"follow", "mute", "node", "restore"}
           /\ j.do # "restore" => j.author \in Pubkey
           /\ j.do \in {"follow", "mute"} => j.targets \in Seq(Pubkey) /\ j.version \in Nat \ {0}
           /\ j.do = "restore" =>
                /\ j.nodes \in Seq(Pubkey)
                /\ \A u \in j.lists :
                     /\ u \in Update /\ u.author \in Elems(j.nodes)
                     /\ Elems(u.targets) \subseteq Elems(j.nodes)
                /\ \A u, v \in j.lists : u.do = v.do /\ u.author = v.author => u = v
BY JobAssumption DEF Update, Lookup, Elems

LEMMA ElemsHeadTail ==
    ASSUME NEW s \in Seq(Pubkey), s # <<>>
    PROVE  /\ Elems(s) = {Head(s)} \cup Elems(Tail(s))
           /\ Head(s) \in Pubkey /\ Tail(s) \in Seq(Pubkey)
<1>1. Tail(s) \in Seq(Pubkey) /\ Len(Tail(s)) = Len(s) - 1 /\ Len(s) \in Nat \ {0}
  OBVIOUS
<1>2. \A i \in 1..Len(Tail(s)) : Tail(s)[i] = s[i + 1]
  OBVIOUS
<1>3. ASSUME NEW i \in DOMAIN s PROVE s[i] = Head(s) \/ s[i] \in Elems(Tail(s))
  <2>1. CASE i = 1
    BY <2>1
  <2>2. CASE i # 1
    <3>1. i - 1 \in 1..Len(Tail(s)) /\ (i - 1) + 1 = i
      BY <1>1, <2>2
    <3>2. Tail(s)[i - 1] = s[i]
      BY <1>2, <3>1
    <3> QED BY <1>1, <3>1, <3>2 DEF Elems
  <2> QED BY <2>1, <2>2
<1>4. Head(s) = s[1] /\ 1 \in DOMAIN s
  BY <1>1
<1>5. \A i \in DOMAIN Tail(s) : Tail(s)[i] \in Elems(s)
  BY <1>1, <1>2 DEF Elems
<1> QED BY <1>1, <1>3, <1>4, <1>5 DEF Elems

LEMMA ElemsType == ASSUME NEW s \in Seq(Pubkey) PROVE Elems(s) \subseteq Pubkey
BY DEF Elems

LEMMA ElemsEmpty == Elems(<<>>) = {}
BY DEF Elems

LEMMA ElemsSingle == ASSUME NEW p \in Pubkey PROVE <<p>> \in Seq(Pubkey) /\ Elems(<<p>>) = {p}
BY DEF Elems

LEMMA AppendFacts ==
    ASSUME NEW S, NEW s \in Seq(S), NEW e \in S
    PROVE  /\ Append(s, e) \in Seq(S) /\ Len(Append(s, e)) = Len(s) + 1
           /\ \A i \in 1..Len(s) : Append(s, e)[i] = s[i]
           /\ Append(s, e)[Len(s) + 1] = e
OBVIOUS

LEMMA SeqFacts ==
    ASSUME NEW S, NEW n \in Nat, NEW f \in [1..n -> S]
    PROVE  f \in Seq(S) /\ Len(f) = n
OBVIOUS

LEMMA ExceptFacts ==
    ASSUME NEW S, NEW s \in Seq(S), NEW i, NEW v \in S
    PROVE  /\ [s EXCEPT ![i] = v] \in Seq(S) /\ Len([s EXCEPT ![i] = v]) = Len(s)
<1>1. Len(s) \in Nat /\ s \in [1..Len(s) -> S]
  OBVIOUS
<1>2. [s EXCEPT ![i] = v] \in [1..Len(s) -> S]
  BY <1>1
<1> QED BY <1>1, <1>2, SeqFacts

LEMMA IdsBound ==
    ASSUME DataTypes, Nodes, NEW s \in Seq(Pubkey), \A p \in Elems(s) : idOf[p] # None
    PROVE  Ids(s) \subseteq 1..Len(names)
BY ElemsType DEF Nodes, Ids

-------------------------------------------------------------------------------
(* What the other threads know stays true. *)

LEMMA TaskFrame ==
    ASSUME NEW u \in Thread, Task(u), UNCHANGED <<idOf, names, follows>>,
           pc'[u] = pc[u] /\ job'[u] = job[u] /\ pending'[u] = pending[u],
           after'[u] = after[u] /\ old'[u] = old[u]
    PROVE  Task(u)'
BY DEF Task, Goal, Needed

LEMMA TaskWaiting ==
    ASSUME NEW u \in Thread, Task(u), ~Active(u),
           \A p : idOf[p] # None => idOf'[p] # None,
           pc'[u] = pc[u] /\ job'[u] = job[u] /\ pending'[u] = pending[u],
           after'[u] = after[u] /\ old'[u] = old[u]
    PROVE  Task(u)'
<1>1. pc[u] \notin {"push", "publish", "bump", "swap"}
  BY DEF Active, Writing, Steps
<1> QED BY <1>1 DEF Task, Goal, Needed

\* A step that leaves the graph alone, apart from the revision.
LEMMA ContentsFrame ==
    ASSUME Contents, NEW t \in Thread, Others(t),
           UNCHANGED <<idOf, names, follows, followers, meta, mutes>>,
           pending' \in [Thread -> Seq(Pubkey)], old' \in [Thread -> SUBSET Nat],
           job' \in [Thread -> Job \cup Query \cup {NoJob}],
           Owner', Task(t)',
           \/ pc[t] # "publish" /\ pc'[t] # "publish"
           \/ pc'[t] = pc[t] /\ pending'[t] = pending[t]
    PROVE  Contents'
<1>1. DataTypes'
  BY DEF Contents, DataTypes
<1>2. \A u \in Thread : Task(u)'
  <2> SUFFICES ASSUME NEW u \in Thread, u # t PROVE Task(u)'
    OBVIOUS
  <2> QED BY TaskFrame DEF Contents, Others
<1>3. \A u \in Thread : (pc'[u] = "publish" <=> pc[u] = "publish")
                        /\ (pc[u] = "publish" => pending'[u] = pending[u])
  BY DEF Others
<1>4. \A i \in 1..Len(names) : Named(i)'
  BY <1>3 DEF Named, Contents, Nodes
<1>5. Nodes'
  BY <1>4 DEF Nodes, Contents
<1> QED BY <1>1, <1>2, <1>5 DEF Contents

LEMMA ReturnOthers ==
    ASSUME Discipline, Contents, NEW t \in Thread, Return(t)
    PROVE  /\ Others(t) /\ pc'[t] = "idle"
           /\ pending' \in [Thread -> Seq(Pubkey)] /\ old' \in [Thread -> SUBSET Nat]
           /\ job' \in [Thread -> Job \cup Query \cup {NoJob}]
<1>1. <<>> \in Seq(Pubkey)
  OBVIOUS
<1> QED BY <1>1 DEF Return, Go, Others, Discipline, LockTypes, Contents, DataTypes

LEMMA IdleTask == ASSUME NEW t \in Thread, pc'[t] \in {"idle", "look", "read"} PROVE Task(t)'
BY DEF Task, Writing

LEMMA ReturnOwner ==
    ASSUME Discipline, Contents, NEW t \in Thread, Return(t)
    PROVE  Owner'
<1>1. pc'[t] = "idle" /\ Others(t)
  BY ReturnOthers
<1>2. ~Active(t)' /\ ~(pc'[t] \in Writing)
  BY <1>1 DEF Active, Writing
<1>3. \E S \in SUBSET Lock : Release(t, S) /\ (Active(t)' => "mutation" \notin S)
  BY <1>2 DEF Return
<1> QED BY <1>1, <1>2, <1>3, OwnerMoves DEF Contents

\* A call that returns without having changed anything.
LEMMA ReturnKeepsContents ==
    ASSUME Discipline, Contents, NEW t \in Thread, Return(t), pc[t] # "publish",
           UNCHANGED <<idOf, names, follows, followers, meta, mutes>>
    PROVE  Contents'
BY ReturnOthers, ReturnOwner, IdleTask, ContentsFrame

-------------------------------------------------------------------------------
(* Steps that change nothing of the graph. *)

LEMMA LockStepContents ==
    ASSUME Discipline, Contents, NEW t \in Thread, Announce(t) \/ Exclude(t) \/ Share(t)
    PROVE  Contents'
<1>1. /\ Others(t) /\ UNCHANGED <<graph, job, update>> /\ pc'[t] = pc[t]
  BY DEF Announce, Exclude, Share, Others, Discipline, LockTypes
<1>2. Owner'
  <2>1. CASE Announce(t)
    BY <2>1, OwnerAnnounce DEF Contents
  <2>2. CASE Exclude(t)
    BY <2>2, OwnerExclude DEF Contents
  <2>3. CASE Share(t)
    <3>1. pc[t] # "create" /\ pc'[t] = pc[t] /\ UNCHANGED writer
      BY <2>3 DEF Share, Writes
    <3> QED BY <1>1, <3>1, OwnerMoves DEF Contents, Active
  <2> QED BY <2>1, <2>2, <2>3
<1>3. Task(t)'
  BY <1>1, TaskFrame DEF Contents
<1> QED BY <1>1, <1>2, <1>3, ContentsFrame DEF Contents, DataTypes

LEMMA NodeKnownContents ==
    ASSUME Discipline, Contents, NEW t \in Thread, NEW j \in Job, NodeKnown(t, j)
    PROVE  Contents'
<1>1. Others(t) /\ UNCHANGED <<graph, job, update, pc, want, writer>>
  BY DEF NodeKnown, Others
<1>2. Owner' /\ Task(t)'
  BY <1>1, OwnerMoves, TaskFrame DEF Contents, Active
<1> QED BY <1>1, <1>2, ContentsFrame DEF Contents, DataTypes

LEMMA BeginContents ==
    ASSUME Discipline, Contents, NEW t \in Thread, NEW j \in Job, Begin(t, j)
    PROVE  Contents'
<1>1. /\ Others(t) /\ UNCHANGED <<idOf, names, follows, followers, meta, mutes, old, writer>>
      /\ pc[t] = "idle" /\ pc'[t] = "create" /\ want'[t] # <<>> /\ job'[t] = j
      /\ pending'[t] = IF j.do = "restore" THEN j.nodes ELSE <<j.author>>
  BY DEF Begin, Go, MutationLocks, Others, Discipline, LockTypes, Contents, DataTypes
<1>2. /\ j.do = "restore" => after'[t] = "merge"
      /\ j.do = "node" => after'[t] = "idle"
      /\ j.do \in {"follow", "mute"} => after'[t] = "check"
  BY DEF Begin, Discipline, LockTypes
<1>3. pending'[t] \in Seq(Pubkey)
  <2>1. CASE j.do = "restore"
    BY <1>1, <2>1, JobFacts
  <2>2. CASE j.do # "restore"
    BY <1>1, <2>2, JobFacts, ElemsSingle
  <2> QED BY <2>1, <2>2
<1>4. /\ pending' \in [Thread -> Seq(Pubkey)] /\ job' \in [Thread -> Job \cup Query \cup {NoJob}]
  BY <1>1, <1>3 DEF Begin, Contents, DataTypes
<1>5. Owner'
  BY <1>1, OwnerMoves DEF Contents
<1>6. Task(t)'
  <2>1. Needed(t)' \subseteq Elems(pending'[t])
    <3>1. CASE j.do = "restore"
      BY <1>1, <1>2, <3>1 DEF Needed
    <3>2. CASE j.do = "node"
      BY <1>2, <3>2 DEF Needed
    <3>3. CASE j.do \in {"follow", "mute"}
      <4>1. Needed(t)' = {j.author} /\ pending'[t] = <<j.author>>
        BY <1>1, <1>2, <3>3 DEF Needed
      <4> QED BY <3>3, <4>1, JobFacts, ElemsSingle
    <3> QED BY <3>1, <3>2, <3>3, JobFacts
  <2>2. Goal(t)'
    BY <1>1, <1>2, JobFacts DEF Goal
  <2> QED BY <1>1, <2>1, <2>2 DEF Task, Creating
<1> QED BY <1>1, <1>4, <1>5, <1>6, ContentsFrame DEF Contents, DataTypes

LEMMA FoundContents ==
    ASSUME Discipline, Contents, NEW t \in Thread, Found(t)
    PROVE  Contents'
<1>1. /\ Others(t) /\ UNCHANGED <<graph, old, job, pc, want, after, writer>> /\ pc[t] = "create"
      /\ pending'[t] = Tail(pending[t]) /\ pending[t] # <<>> /\ idOf[Head(pending[t])] # None
  BY DEF Found, Known, Ready, Others, Contents, DataTypes
<1>2. pending[t] \in Seq(Pubkey)
  BY DEF Contents, DataTypes
<1>3. /\ Tail(pending[t]) \in Seq(Pubkey)
      /\ Elems(pending[t]) = {Head(pending[t])} \cup Elems(Tail(pending[t]))
  BY <1>1, <1>2, ElemsHeadTail
<1>4. pending' \in [Thread -> Seq(Pubkey)]
  BY <1>3 DEF Found, Contents, DataTypes
<1>5. Owner'
  BY <1>1, OwnerMoves DEF Contents, Active
<1>6. Task(t)'
  BY <1>1, <1>3 DEF Task, Goal, Needed, Contents, Creating, Writing, Steps
<1> QED BY <1>1, <1>4, <1>5, <1>6, ContentsFrame DEF Contents, DataTypes

LEMMA CreateContents ==
    ASSUME Discipline, Contents, NEW t \in Thread, Create(t)
    PROVE  Contents'
<1>1. /\ Others(t) /\ UNCHANGED <<graph, update, job, writer>> /\ pc[t] = "create" /\ want[t] = <<>>
      /\ pc'[t] = "push" /\ pending[t] # <<>>
  BY DEF Create, Go, Ready, Others, Discipline, LockTypes
<1>2. Owner'
  BY <1>1, OwnerMoves DEF Contents, Active, Writing, Steps
<1>3. Task(t)'
  BY <1>1 DEF Task, Goal, Needed, Contents, Creating, Writing, Steps
<1> QED BY <1>1, <1>2, <1>3, ContentsFrame DEF Contents, DataTypes

LEMMA BumpContents ==
    ASSUME Discipline, Contents, NEW t \in Thread, BumpRevision(t)
    PROVE  Contents'
<1>1. /\ Others(t) /\ UNCHANGED <<idOf, names, follows, followers, meta, mutes, old, job, after>>
      /\ pc[t] = "bump" /\ pc'[t] = "create"
      /\ pending'[t] = Tail(pending[t])
  BY DEF BumpRevision, Go, Ready, Others, Discipline, LockTypes, Contents, DataTypes
<1>2. pending[t] \in Seq(Pubkey) /\ pending[t] # <<>> /\ idOf[Head(pending[t])] # None
  BY <1>1 DEF Contents, DataTypes, Task
<1>3. /\ Tail(pending[t]) \in Seq(Pubkey)
      /\ Elems(pending[t]) = {Head(pending[t])} \cup Elems(Tail(pending[t]))
  BY <1>2, ElemsHeadTail
<1>4. pending' \in [Thread -> Seq(Pubkey)]
  BY <1>3 DEF BumpRevision, Contents, DataTypes
<1>5. Owner'
  <2>1. Active(t) /\ Release(t, Lock \ {"mutation"})
    BY <1>1 DEF Active, Writing, Steps, BumpRevision
  <2> QED BY <1>1, <2>1, OwnerMoves DEF Contents
<1>6. Task(t)'
  BY <1>1, <1>2, <1>3 DEF Task, Goal, Needed, Contents, Creating, Writing, Steps
<1> QED BY <1>1, <1>4, <1>5, <1>6, ContentsFrame DEF Contents, DataTypes

LEMMA CreatedContents ==
    ASSUME Discipline, Contents, NEW t \in Thread, Created(t)
    PROVE  Contents'
<1>1. UNCHANGED graph /\ pc[t] = "create" /\ want[t] = <<>> /\ pending[t] = <<>>
  BY DEF Created, Ready
<1>2. CASE Return(t)
  BY <1>1, <1>2, ReturnKeepsContents
<1>3. CASE /\ after[t] # "idle" /\ Go(t, after[t], LocksFor(after[t], job[t]))
           /\ UNCHANGED <<locks, job, update, query, callers>>
  <2>1. /\ Others(t) /\ UNCHANGED <<update, job, writer>> /\ pc'[t] = after[t]
        /\ after[t] \in {"check", "clone", "store", "merge"}
    BY <1>3 DEF Go, Others, Discipline, LockTypes
  <2>2. Owner'
    BY <1>1, <2>1, OwnerMoves DEF Contents, Active, Writing, Steps
  <2>3. Task(t)'
    BY <1>1, <2>1, ElemsEmpty DEF Task, Goal, Needed, Contents, Creating, Writing, Steps
  <2> QED BY <1>1, <2>1, <2>2, <2>3, ContentsFrame DEF Contents, DataTypes
<1> QED BY <1>2, <1>3 DEF Created

LEMMA AcceptContents ==
    ASSUME Discipline, Contents, NEW t \in Thread, Accept(t)
    PROVE  Contents'
<1>1. /\ Others(t) /\ UNCHANGED <<graph, old, job>> /\ pc[t] = "check" /\ pc'[t] = "create"
      /\ pending'[t] = job[t].targets
      /\ after'[t] = IF job[t].do = "mute" THEN "store" ELSE "clone"
  BY DEF Accept, Go, Ready, Others, Discipline, LockTypes, Contents, DataTypes
<1>2. /\ after[t] = "check" /\ job[t] \in Job /\ job[t].do \in {"follow", "mute"}
      /\ idOf[job[t].author] # None
  BY <1>1 DEF Contents, Task, Goal, Needed, Writing, Steps, Creating
<1>3. job[t].targets \in Seq(Pubkey)
  BY <1>2, JobFacts
<1>4. pending' \in [Thread -> Seq(Pubkey)]
  BY <1>3 DEF Accept, Contents, DataTypes
<1>5. Owner'
  <2>1. Active(t) /\ Release(t, Lock \ {"mutation"})
    BY <1>1 DEF Active, Writing, Steps, Accept
  <2> QED BY <1>1, <2>1, OwnerMoves DEF Contents
<1>6. Task(t)'
  BY <1>1, <1>2 DEF Task, Goal, Needed, Creating, Writing, Steps
<1> QED BY <1>1, <1>4, <1>5, <1>6, ContentsFrame DEF Contents, DataTypes

LEMMA RejectContents ==
    ASSUME Discipline, Contents, NEW t \in Thread, Reject(t) PROVE Contents'
BY ReturnKeepsContents DEF Reject, Ready

\* The author of an update under way has an id.
LEMMA AuthorHasId ==
    ASSUME Contents, NEW t \in Thread, pc[t] \in {"check", "clone", "swap", "stamp", "store"}
    PROVE  /\ job[t] \in Job /\ job[t].do \in {"follow", "mute"}
           /\ job[t].author \in Pubkey /\ job[t].targets \in Seq(Pubkey)
           /\ idOf[job[t].author] \in 1..Len(names)
           /\ pc[t] # "check" => \A p \in Elems(job[t].targets) : idOf[p] # None
<1>1. /\ job[t] \in Job /\ job[t].do \in {"follow", "mute"} /\ idOf[job[t].author] # None
      /\ pc[t] # "check" => \A p \in Elems(job[t].targets) : idOf[p] # None
  BY DEF Contents, Task, Goal, Needed, Writing, Steps, Creating
<1> QED BY <1>1, JobFacts DEF Contents, Nodes

LEMMA CloneContents ==
    ASSUME Discipline, Contents, NEW t \in Thread, Clone(t)
    PROVE  Contents'
<1> DEFINE i == idOf[job[t].author]
<1>1. /\ Others(t) /\ UNCHANGED <<graph, pending, after, job>> /\ pc[t] = "clone" /\ pc'[t] = "swap"
      /\ old' = [old EXCEPT ![t] = follows[i]] /\ Release(t, {"follows"})
  BY DEF Clone, Go, Ready, Others, Discipline, LockTypes
<1>2. i \in 1..Len(follows) /\ follows[i] \in SUBSET Nat
  <2>1. i \in 1..Len(follows) /\ follows \in Seq(SUBSET Nat)
    BY <1>1, AuthorHasId DEF Contents, DataTypes, Nodes
  <2> QED BY <2>1
<1>3. old' \in [Thread -> SUBSET Nat] /\ old'[t] = follows[i]
  BY <1>1, <1>2 DEF Contents, DataTypes
<1>4. Owner'
  <2>1. Active(t) /\ "mutation" \notin {"follows"} /\ {"follows"} \in SUBSET Lock
    BY <1>1 DEF Active, Writing, Steps, Lock
  <2> QED BY <1>1, <2>1, OwnerMoves DEF Contents
<1>5. Task(t)'
  BY <1>1, <1>3 DEF Contents, Task, Goal, Needed, Creating, Writing, Steps
<1> QED BY <1>1, <1>3, <1>4, <1>5, ContentsFrame DEF Contents, DataTypes

LEMMA AnsweredContents ==
    ASSUME Discipline, Contents, NEW t \in Thread, Answered(t), pc[t] # "publish",
           UNCHANGED writer \/ Release(t, Lock)
    PROVE  Contents'
<1>1. /\ Others(t) /\ UNCHANGED <<graph, update>> /\ pc'[t] = "idle"
      /\ job' \in [Thread -> Job \cup Query \cup {NoJob}]
  BY DEF Answered, Go, Others, Discipline, LockTypes, Contents, DataTypes
<1>2. ~Active(t)' /\ pc'[t] \notin Writing
  BY <1>1 DEF Active, Writing
<1>3. Owner'
  <2>1. Lock \in SUBSET Lock
    OBVIOUS
  <2> QED BY <1>1, <1>2, <2>1, OwnerMoves DEF Contents
<1> QED BY <1>1, <1>3, IdleTask, ContentsFrame DEF Contents, DataTypes

LEMMA QueryContents ==
    ASSUME Discipline, Contents, NEW t \in Thread,
           (\E q \in Query : Ask(t, q)) \/ Look(t) \/ Read(t)
    PROVE  Contents'
<1>1. CASE Answered(t) /\ pc[t] # "publish" /\ (UNCHANGED writer \/ Release(t, Lock))
  BY <1>1, AnsweredContents
<1>2. ASSUME UNCHANGED <<graph, writer, update>>, Others(t), pc[t] # "publish",
             pc'[t] \in {"look", "read"}, job' \in [Thread -> Job \cup Query \cup {NoJob}]
      PROVE  Contents'
  <2>1. pc'[t] \notin Writing /\ pc'[t] # "publish"
    BY <1>2 DEF Writing
  <2>2. Owner'
    BY <1>2, <2>1, OwnerMoves DEF Contents
  <2> QED BY <1>2, <2>1, <2>2, IdleTask, ContentsFrame DEF Contents, DataTypes
<1>3. CASE \E q \in Query : Ask(t, q)
  <2>1. PICK q \in Query : Ask(t, q)
    BY <1>3
  <2>2. /\ UNCHANGED <<graph, writer, update>> /\ Others(t) /\ pc[t] # "publish" /\ pc'[t] = "look"
        /\ job' \in [Thread -> Job \cup Query \cup {NoJob}]
    BY <2>1 DEF Ask, Go, Others, Discipline, LockTypes, Contents, DataTypes
  <2> QED BY <1>2, <2>2
<1>4. CASE Look(t)
  <2>1. CASE Answered(t)
    BY <1>1, <1>4, <2>1 DEF Look, Ready
  <2>2. CASE Go(t, "read", ReadLocks(job[t].do)) /\ UNCHANGED <<graph, job, floor, update, callers>>
    <3>1. /\ UNCHANGED <<graph, writer, update>> /\ Others(t) /\ pc[t] # "publish"
          /\ pc'[t] = "read" /\ job' \in [Thread -> Job \cup Query \cup {NoJob}]
      BY <1>4, <2>2 DEF Look, Ready, Go, Others, Discipline, LockTypes, Contents, DataTypes
    <3> QED BY <1>2, <3>1
  <2> QED BY <1>4, <2>1, <2>2 DEF Look
<1>5. CASE Read(t)
  BY <1>1, <1>5 DEF Read, Ready
<1> QED BY <1>3, <1>4, <1>5

-------------------------------------------------------------------------------
(* Steps of the owner that change the graph. *)

LEMMA ContentsChange ==
    ASSUME Discipline, Contents, NEW t \in Thread, Active(t), Others(t),
           \A p : idOf[p] # None => idOf'[p] # None,
           DataTypes', Owner', Nodes', Task(t)'
    PROVE  Contents'
<1>1. \A u \in Thread : Task(u)'
  <2> SUFFICES ASSUME NEW u \in Thread, u # t PROVE Task(u)'
    OBVIOUS
  <2>1. ~Active(u)
    BY OnlyOwner DEF Contents
  <2> QED BY <2>1, TaskWaiting DEF Contents, Others
<1> QED BY <1>1 DEF Contents

\* Only the owner of mutation is at "publish".
LEMMA Unpublished ==
    ASSUME Contents, NEW t \in Thread, Active(t), NEW u \in Thread, pc[u] = "publish"
    PROVE  u = t
BY OnlyOwner DEF Contents, Active, Writing, Steps

LEMMA PushContents ==
    ASSUME Discipline, Contents, NEW t \in Thread, Push(t)
    PROVE  Contents'
<1> DEFINE p == Head(pending[t])
           n == Len(names)
<1>1. /\ Others(t) /\ UNCHANGED <<idOf, mutes, job, update, writer>>
      /\ pc[t] = "push" /\ pc'[t] = "publish" /\ idOf[p] = None
      /\ names' = Append(names, p) /\ follows' = Append(follows, {})
      /\ followers' = Append(followers, {}) /\ meta' = Append(meta, None)
  BY DEF Push, Known, Go, Ready, Others, Discipline, LockTypes
<1>2. Active(t)
  BY <1>1 DEF Active, Writing, Steps
<1>3. pending[t] # <<>> /\ p \in Pubkey
  <2>1. pending[t] # <<>> /\ pending[t] \in Seq(Pubkey)
    BY <1>1 DEF Contents, Task, DataTypes
  <2> QED BY <2>1, ElemsHeadTail
<1>4. n \in Nat /\ Len(follows) = n /\ Len(followers) = n /\ Len(meta) = n
  BY DEF Contents, DataTypes, Nodes
<1>5. /\ names' \in Seq(Pubkey) /\ Len(names') = n + 1 /\ names'[n + 1] = p
      /\ \A i \in 1..n : names'[i] = names[i]
  BY <1>1, <1>3, AppendFacts DEF Contents, DataTypes
<1>6. /\ follows' \in Seq(SUBSET Nat) /\ Len(follows') = n + 1 /\ follows'[n + 1] = {}
      /\ \A i \in 1..n : follows'[i] = follows[i]
  BY <1>1, <1>4, AppendFacts DEF Contents, DataTypes
<1>7. /\ followers' \in Seq(SUBSET Nat) /\ Len(followers') = n + 1 /\ followers'[n + 1] = {}
      /\ \A i \in 1..n : followers'[i] = followers[i]
  BY <1>1, <1>4, AppendFacts DEF Contents, DataTypes
<1>8. meta' \in Seq(Nat) /\ Len(meta') = n + 1
  <2>1. None \in Nat
    BY DEF None
  <2> QED BY <1>1, <1>4, <2>1, AppendFacts DEF Contents, DataTypes
<1>9. DataTypes'
  BY <1>1, <1>5, <1>6, <1>7, <1>8 DEF Contents, DataTypes
<1>10. \A i \in 1..(n + 1) : Named(i)'
  <2>1. ASSUME NEW i \in 1..n PROVE idOf[names[i]] = i
    <3>1. Named(i)
      BY <2>1 DEF Contents, Nodes
    <3>2. \A u \in Thread : pc[u] # "publish"
      BY <1>1, <1>2, Unpublished
    <3> QED BY <3>1, <3>2 DEF Named
  <2>2. ASSUME NEW i \in 1..n PROVE Named(i)'
    BY <1>1, <1>5, <2>1, <2>2 DEF Named
  <2>3. ASSUME NEW i, i = n + 1 PROVE Named(i)'
    BY <1>1, <1>5, <2>3 DEF Named
  <2>4. \A i \in 1..(n + 1) : i \in 1..n \/ i = n + 1
    BY <1>4
  <2> QED BY <2>2, <2>3, <2>4
<1>11. Nodes'
  <2>1. \A q \in Pubkey : idOf[q] # None => idOf[q] \in 1..n /\ names[idOf[q]] = q
    BY DEF Contents, Nodes
  <2>2. /\ \A i \in 1..n : follows[i] \subseteq 1..n /\ followers[i] \subseteq 1..n
        /\ \A i \in NodeId : mutes[i].ids \subseteq 1..n
        /\ \A i, j \in 1..n : j \in follows[i] <=> i \in followers[j]
    BY DEF Contents, Nodes
  <2>3. 1..n \subseteq 1..(n + 1) /\ \A i \in 1..(n + 1) : i \in 1..n \/ i = n + 1
    BY <1>4
  <2>4. n + 1 \notin 1..n
    BY <1>4
  <2>5. \A i \in 1..(n + 1) : follows'[i] \subseteq 1..n /\ followers'[i] \subseteq 1..n
    BY <1>6, <1>7, <2>2, <2>3
  <2>6. \A i, j \in 1..(n + 1) : j \in follows'[i] <=> i \in followers'[j]
    BY <1>6, <1>7, <2>2, <2>3, <2>4
  <2>7. \A q \in Pubkey : idOf'[q] # None => idOf'[q] \in 1..(n + 1) /\ names'[idOf'[q]] = q
    BY <1>1, <1>5, <2>1, <2>3
  <2>8. Len(names') = n + 1 /\ Len(follows') = n + 1 /\ Len(followers') = n + 1 /\ Len(meta') = n + 1
    BY <1>5, <1>6, <1>7, <1>8
  <2> QED BY <1>1, <1>10, <2>2, <2>3, <2>5, <2>6, <2>7, <2>8 DEF Nodes
<1>12. Owner'
  BY <1>1, <1>2, OwnerMoves DEF Contents
<1>13. Task(t)'
  <2>1. Goal(t) /\ \A q \in Needed(t) : idOf[q] # None \/ q \in Elems(pending[t])
    BY <1>1 DEF Contents, Task, Writing, Steps
  <2>2. Goal(t)' /\ Needed(t)' = Needed(t)
    BY <1>1, <2>1 DEF Goal, Needed
  <2>3. Len(names') # 0 /\ names'[Len(names')] = Head(pending'[t]) /\ idOf'[Head(pending'[t])] = None
    BY <1>1, <1>4, <1>5
  <2> QED BY <1>1, <1>3, <2>1, <2>2, <2>3 DEF Task, Creating
<1> QED BY <1>1, <1>2, <1>9, <1>11, <1>12, <1>13, ContentsChange

LEMMA PublishContents ==
    ASSUME Discipline, Contents, NEW t \in Thread, PublishId(t)
    PROVE  Contents'
<1> DEFINE p == Head(pending[t])
           n == Len(names)
<1>1. /\ Others(t) /\ UNCHANGED <<names, follows, followers, meta, mutes, job, update, writer>>
      /\ pc[t] = "publish" /\ pc'[t] = "bump" /\ idOf' = [idOf EXCEPT ![p] = n]
  BY DEF PublishId, Go, Ready, Others, Discipline, LockTypes
<1>2. Active(t)
  BY <1>1 DEF Active, Writing, Steps
<1>3. pending[t] # <<>> /\ p \in Pubkey
  <2>1. pending[t] # <<>> /\ pending[t] \in Seq(Pubkey)
    BY <1>1 DEF Contents, Task, DataTypes
  <2> QED BY <2>1, ElemsHeadTail
<1>4. n \in Nat /\ n # 0 /\ names[n] = p /\ idOf[p] = None
  BY <1>1 DEF Contents, Task, DataTypes
<1>5. /\ idOf' \in [Pubkey -> Nat] /\ idOf'[p] = n
      /\ \A q \in Pubkey : q # p => idOf'[q] = idOf[q]
  BY <1>1, <1>3, <1>4 DEF Contents, DataTypes
<1>6. DataTypes'
  BY <1>1, <1>5 DEF Contents, DataTypes
<1>7. \A i \in 1..n : Named(i)'
  <2> SUFFICES ASSUME NEW i \in 1..n PROVE idOf'[names[i]] = i
    BY <1>1 DEF Named
  <2>1. CASE i = n
    BY <1>4, <1>5, <2>1
  <2>2. CASE i # n
    <3>1. idOf[names[i]] = i
      BY <2>2 DEF Contents, Nodes, Named
    <3>2. names[i] # p /\ names[i] \in Pubkey
      BY <1>4, <3>1 DEF None, Contents, DataTypes
    <3> QED BY <1>5, <3>1, <3>2
  <2> QED BY <2>1, <2>2
<1>8. \A q \in Pubkey : idOf'[q] # None => idOf'[q] \in 1..n /\ names[idOf'[q]] = q
  BY <1>4, <1>5 DEF Contents, Nodes
<1>9. Nodes'
  BY <1>1, <1>7, <1>8 DEF Nodes, Contents
<1>10. Owner'
  BY <1>1, <1>2, OwnerMoves DEF Contents
<1>11. \A q : idOf[q] # None => idOf'[q] # None
  BY <1>1, <1>3, <1>4, <1>5 DEF None, Contents, DataTypes
<1>12. Task(t)'
  <2>1. Goal(t) /\ \A q \in Needed(t) : idOf[q] # None \/ q \in Elems(pending[t])
    BY <1>1 DEF Contents, Task, Writing, Steps
  <2>2. Goal(t)' /\ Needed(t)' = Needed(t)
    BY <1>1, <2>1 DEF Goal, Needed
  <2>3. idOf'[p] # None
    BY <1>4, <1>5 DEF None
  <2> QED BY <1>1, <1>3, <1>11, <2>1, <2>2, <2>3 DEF Task, Creating
<1> QED BY <1>1, <1>2, <1>6, <1>9, <1>10, <1>11, <1>12, ContentsChange

\* An update that gives back its locks except mutation, or returns.
LEMMA OwnerKeeps ==
    ASSUME Discipline, Contents, NEW t \in Thread, Active(t), Others(t),
           NEW S \in SUBSET Lock, Release(t, S), "mutation" \notin S
    PROVE  Owner'
BY OwnerMoves DEF Contents

LEMMA SwapContents ==
    ASSUME Discipline, Contents, NEW t \in Thread, Swap(t)
    PROVE  Contents'
<1>1. /\ pc[t] = "swap" /\ pc'[t] = "stamp" /\ Others(t) /\ Active(t)
      /\ UNCHANGED <<idOf, names, meta, mutes, job, update>>
      /\ Release(t, {"follows", "followers"})
  BY DEF Swap, Go, Ready, Others, Discipline, LockTypes, Active, Writing, Steps
<1>2. PICK i \in 1..Len(names) : i = idOf[job[t].author]
  BY <1>1, AuthorHasId
<1>3. PICK new \in SUBSET (1..Len(names)) : new = Ids(job[t].targets)
  BY <1>1, AuthorHasId, IdsBound DEF Contents
<1>4. /\ follows \in Seq(SUBSET Nat) /\ followers \in Seq(SUBSET Nat) /\ names \in Seq(Pubkey)
      /\ DOMAIN follows = 1..Len(names) /\ DOMAIN followers = 1..Len(names)
      /\ Len(names) \in Nat
  BY DEF Contents, DataTypes, Nodes
<1>5. old[t] = follows[i]
  BY <1>1, <1>2 DEF Contents, Task
<1>6. /\ follows' = [follows EXCEPT ![i] = new]
      /\ followers' = [k \in DOMAIN followers |->
            (followers[k] \ (IF k \in follows[i] \ new THEN {i} ELSE {}))
                \cup (IF k \in new \ follows[i] THEN {i} ELSE {})]
  BY <1>2, <1>3, <1>5 DEF Swap
<1>7. /\ DOMAIN follows' = 1..Len(names) /\ DOMAIN followers' = 1..Len(names)
      /\ follows'[i] = new /\ \A k \in 1..Len(names) : k # i => follows'[k] = follows[k]
      /\ \A k, j \in 1..Len(names) :
            j \in followers'[k] <=> \/ j = i /\ k \in new
                                    \/ j # i /\ j \in followers[k]
  <2>1. \A k \in 1..Len(names) : i \in followers[k] <=> k \in follows[i]
    BY DEF Contents, Nodes
  <2> QED BY <1>4, <1>6, <2>1
<1>8. \A k \in 1..Len(names) :
          follows'[k] \subseteq 1..Len(names) /\ followers'[k] \subseteq 1..Len(names)
  <2>1. \A k \in 1..Len(names) :
            follows[k] \subseteq 1..Len(names) /\ followers[k] \subseteq 1..Len(names)
    BY DEF Contents, Nodes
  <2> QED BY <1>4, <1>6, <1>7, <2>1
<1>9. follows' \in Seq(SUBSET Nat) /\ followers' \in Seq(SUBSET Nat)
  <2>1. /\ follows' = [k \in 1..Len(names) |-> follows'[k]]
        /\ followers' = [k \in 1..Len(names) |-> followers'[k]]
    BY <1>4, <1>6
  <2>2. 1..Len(names) \subseteq Nat
    BY <1>4
  <2>3. \A k \in 1..Len(names) : follows'[k] \in SUBSET Nat /\ followers'[k] \in SUBSET Nat
    BY <1>8, <2>2
  <2>4. /\ follows' \in [1..Len(names) -> SUBSET Nat]
        /\ followers' \in [1..Len(names) -> SUBSET Nat]
    BY <2>1, <2>3
  <2> QED BY <1>4, <2>4, SeqFacts
<1>10. DataTypes'
  BY <1>1, <1>9 DEF Contents, DataTypes
<1>11. Nodes'
  <2>1. Len(follows') = Len(names) /\ Len(followers') = Len(names)
    BY <1>4, <1>7, <1>9
  <2>2. \A k, j \in 1..Len(names) : j \in follows'[k] <=> k \in followers'[j]
    <3>1. \A k, j \in 1..Len(names) : j \in follows[k] <=> k \in followers[j]
      BY DEF Contents, Nodes
    <3> QED BY <1>7, <3>1
  <2>3. \A k \in 1..Len(names) : Named(k)'
    <3>1. \A k \in 1..Len(names) : Named(k)
      BY DEF Contents, Nodes
    <3>2. \A u \in Thread : pc'[u] = "publish" <=> pc[u] = "publish"
      BY <1>1 DEF Others
    <3> QED BY <1>1, <3>1, <3>2 DEF Named
  <2> QED BY <1>1, <1>8, <2>1, <2>2, <2>3 DEF Contents, Nodes
<1>12. Owner'
  <2>1. {"follows", "followers"} \in SUBSET Lock /\ "mutation" \notin {"follows", "followers"}
    BY DEF Lock
  <2> QED BY <1>1, <2>1, OwnerKeeps
<1>13. Task(t)'
  <2>1. Goal(t) /\ after[t] = "clone" /\ \A q \in Needed(t) : idOf[q] # None
    BY <1>1 DEF Contents, Task, Goal, Writing, Steps, Creating
  <2>2. Goal(t)' /\ Needed(t)' = Needed(t)
    BY <1>1, <2>1 DEF Goal, Needed
  <2> QED BY <1>1, <2>1, <2>2 DEF Task
<1> QED BY <1>1, <1>10, <1>11, <1>12, <1>13, ContentsChange

\* A call that returns having changed the graph.
LEMMA ReturnChange ==
    ASSUME Discipline, Contents, NEW t \in Thread, Return(t), Active(t), pc[t] # "publish",
           UNCHANGED <<idOf, names>>,
           follows' \in Seq(SUBSET Nat), followers' \in Seq(SUBSET Nat), meta' \in Seq(Nat),
           mutes' \in [NodeId -> [ids : SUBSET Nat, version : Nat]],
           Len(follows') = Len(names), Len(followers') = Len(names), Len(meta') = Len(names),
           \A i \in 1..Len(names) :
               follows'[i] \subseteq 1..Len(names) /\ followers'[i] \subseteq 1..Len(names),
           \A i \in NodeId : mutes'[i].ids \subseteq 1..Len(names),
           \A i, j \in 1..Len(names) : j \in follows'[i] <=> i \in followers'[j]
    PROVE  Contents'
<1>1. /\ Others(t) /\ pc'[t] = "idle" /\ Owner' /\ Task(t)'
      /\ pending' \in [Thread -> Seq(Pubkey)] /\ old' \in [Thread -> SUBSET Nat]
      /\ job' \in [Thread -> Job \cup Query \cup {NoJob}]
  BY ReturnOthers, ReturnOwner, IdleTask
<1>2. DataTypes'
  BY <1>1 DEF Contents, DataTypes
<1>3. \A k \in 1..Len(names) : Named(k)'
  <2>1. \A k \in 1..Len(names) : Named(k)
    BY DEF Contents, Nodes
  <2>2. \A u \in Thread : pc[u] = "publish" => pc'[u] = "publish" /\ pending'[u] = pending[u]
    BY <1>1 DEF Others
  <2> QED BY <2>1, <2>2 DEF Named
<1>4. Nodes'
  BY <1>3 DEF Contents, Nodes
<1> QED BY <1>1, <1>2, <1>4, ContentsChange

LEMMA StampContents ==
    ASSUME Discipline, Contents, NEW t \in Thread, Stamp(t)
    PROVE  Contents'
<1>1. /\ pc[t] = "stamp" /\ Return(t) /\ Active(t)
      /\ UNCHANGED <<idOf, names, follows, followers, mutes>>
      /\ meta' = [meta EXCEPT ![idOf[job[t].author]] = job[t].version]
  BY DEF Stamp, Ready, Active, Writing, Steps
<1>2. job[t].version \in Nat
  BY <1>1, AuthorHasId, JobFacts
<1>3. meta \in Seq(Nat) /\ Len(meta) = Len(names)
  BY DEF Contents, DataTypes, Nodes
<1> DEFINE i == idOf[job[t].author]
           v == job[t].version
           new == [meta EXCEPT ![i] = v]
<1>4. new \in Seq(Nat) /\ Len(new) = Len(meta)
  <2> HIDE DEF i, v
  <2>1. v \in Nat /\ meta \in Seq(Nat)
    BY <1>2, <1>3 DEF v
  <2> QED BY <2>1, ExceptFacts
<1>5. meta' \in Seq(Nat) /\ Len(meta') = Len(names)
  BY <1>1, <1>3, <1>4
<1> QED BY <1>1, <1>5, ReturnChange DEF Contents, DataTypes, Nodes

LEMMA StoreContents ==
    ASSUME Discipline, Contents, NEW t \in Thread, Store(t)
    PROVE  Contents'
<1>1. /\ pc[t] = "store" /\ Return(t) /\ Active(t)
      /\ UNCHANGED <<idOf, names, follows, followers, meta>>
      /\ mutes' = [mutes EXCEPT ![idOf[job[t].author]] =
                      [ids |-> Ids(job[t].targets), version |-> job[t].version]]
  BY DEF Store, Ready, Active, Writing, Steps
<1>2. job[t].version \in Nat
  BY <1>1, AuthorHasId, JobFacts
<1>3. PICK new \in SUBSET (1..Len(names)) : new = Ids(job[t].targets)
  BY <1>1, AuthorHasId, IdsBound DEF Contents
<1>4. 1..Len(names) \subseteq Nat
  BY DEF Contents, DataTypes
<1>5. /\ mutes' \in [NodeId -> [ids : SUBSET Nat, version : Nat]]
      /\ \A i \in NodeId : mutes'[i].ids \subseteq 1..Len(names)
  <2>1. mutes \in [NodeId -> [ids : SUBSET Nat, version : Nat]]
    BY DEF Contents, DataTypes
  <2>2. \A i \in NodeId : mutes[i].ids \subseteq 1..Len(names)
    BY DEF Contents, Nodes
  <2>3. \A i \in NodeId : mutes'[i] = mutes[i] \/ mutes'[i] = [ids |-> new, version |-> job[t].version]
    BY <1>1, <1>3, <2>1
  <2>4. new \in SUBSET Nat
    BY <1>4
  <2> QED BY <1>1, <1>2, <1>3, <2>1, <2>2, <2>3, <2>4
<1> QED BY <1>1, <1>5, ReturnChange DEF Contents, DataTypes, Nodes

\* A list that a restore takes over is over nodes of the snapshot, which have ids.
LEMMA TakenFacts ==
    ASSUME Contents, NEW t \in Thread, pc[t] = "merge", NEW do \in {"follow", "mute"}, NEW i,
           NEW stored, Taken(t, do, i, stored) # {}
    PROVE  /\ Restored(t, do, i, stored) \in Taken(t, do, i, stored)
           /\ Ids(Restored(t, do, i, stored).targets) \subseteq 1..Len(names)
           /\ Restored(t, do, i, stored).version \in Nat \ {0}
<1> DEFINE u == Restored(t, do, i, stored)
<1>1. u \in Taken(t, do, i, stored)
  BY DEF Restored
<1>2. /\ job[t] \in Job /\ job[t].do = "restore"
      /\ \A p \in Elems(job[t].nodes) : idOf[p] # None
  BY DEF Contents, Task, Goal, Needed, Writing, Steps, Creating
<1>3. u \in job[t].lists
  BY <1>1 DEF Taken
<1>4. u \in Update /\ Elems(u.targets) \subseteq Elems(job[t].nodes)
  BY <1>2, <1>3, JobFacts
<1>5. u.targets \in Seq(Pubkey) /\ u.version \in Nat \ {0}
  BY <1>4 DEF Update
<1>6. Ids(u.targets) \subseteq 1..Len(names)
  BY <1>2, <1>4, <1>5, IdsBound DEF Contents
<1> QED BY <1>1, <1>5, <1>6

LEMMA MergeContents ==
    ASSUME Discipline, Contents, NEW t \in Thread, Merge(t)
    PROVE  Contents'
<1>1. pc[t] = "merge" /\ Return(t) /\ Active(t) /\ UNCHANGED <<idOf, names>>
  BY DEF Merge, Ready, Active, Writing, Steps
<1>2. PICK n \in Nat : n = Len(names)
  BY DEF Contents, DataTypes
<1>3. /\ follows \in Seq(SUBSET Nat) /\ followers \in Seq(SUBSET Nat) /\ meta \in Seq(Nat)
      /\ DOMAIN follows = 1..n /\ DOMAIN followers = 1..n /\ DOMAIN meta = 1..n
      /\ mutes \in [NodeId -> [ids : SUBSET Nat, version : Nat]]
  BY <1>2 DEF Contents, DataTypes, Nodes
<1>4. /\ \A i \in 1..n : follows[i] \subseteq 1..n /\ followers[i] \subseteq 1..n
      /\ \A i \in NodeId : mutes[i].ids \subseteq 1..n
      /\ \A i, j \in 1..n : j \in follows[i] <=> i \in followers[j]
  BY <1>2 DEF Contents, Nodes
<1>5. 1..n \subseteq Nat
  OBVIOUS
<1>6. /\ follows' = [i \in 1..n |-> follows'[i]]
      /\ \A i \in 1..n : follows'[i] \subseteq 1..n
  <2>1. follows' = [i \in 1..n |->
            IF Taken(t, "follow", i, meta[i]) = {} THEN follows[i]
            ELSE Ids(Restored(t, "follow", i, meta[i]).targets)]
    BY <1>3 DEF Merge
  <2>2. ASSUME NEW i \in 1..n, Taken(t, "follow", i, meta[i]) # {}
        PROVE  Ids(Restored(t, "follow", i, meta[i]).targets) \subseteq 1..n
    BY <1>1, <1>2, <2>2, TakenFacts
  <2> QED BY <1>4, <2>1, <2>2
<1>7. follows' \in Seq(SUBSET Nat) /\ Len(follows') = n /\ DOMAIN follows' = 1..n
  <2>1. follows' \in [1..n -> SUBSET Nat]
    BY <1>5, <1>6
  <2> QED BY <2>1, SeqFacts
<1>8. meta' \in Seq(Nat) /\ Len(meta') = n
  <2>1. meta' = [i \in 1..n |->
            IF Taken(t, "follow", i, meta[i]) = {} THEN meta[i]
            ELSE Restored(t, "follow", i, meta[i]).version]
    BY <1>3 DEF Merge
  <2>2. ASSUME NEW i \in 1..n, Taken(t, "follow", i, meta[i]) # {}
        PROVE  Restored(t, "follow", i, meta[i]).version \in Nat
    BY <1>1, <2>2, TakenFacts
  <2>3. \A i \in 1..n : meta[i] \in Nat
    BY <1>3
  <2>4. meta' \in [1..n -> Nat]
    BY <2>1, <2>2, <2>3
  <2> QED BY <2>4, SeqFacts
<1>9. /\ mutes' \in [NodeId -> [ids : SUBSET Nat, version : Nat]]
      /\ \A i \in NodeId : mutes'[i].ids \subseteq 1..n
  <2>1. mutes' = [i \in NodeId |->
            IF Taken(t, "mute", i, mutes[i].version) = {} THEN mutes[i]
            ELSE [ids |-> Ids(Restored(t, "mute", i, mutes[i].version).targets),
                  version |-> Restored(t, "mute", i, mutes[i].version).version]]
    BY DEF Merge
  <2>2. ASSUME NEW i \in NodeId PROVE mutes'[i] \in [ids : SUBSET (1..n), version : Nat]
    <3>1. CASE Taken(t, "mute", i, mutes[i].version) = {}
      BY <1>3, <1>4, <2>1, <3>1
    <3>2. CASE Taken(t, "mute", i, mutes[i].version) # {}
      <4>1. /\ Ids(Restored(t, "mute", i, mutes[i].version).targets) \subseteq 1..n
            /\ Restored(t, "mute", i, mutes[i].version).version \in Nat
        BY <1>1, <1>2, <3>2, TakenFacts
      <4> QED BY <2>1, <3>2, <4>1
    <3> QED BY <3>1, <3>2
  <2> QED BY <1>5, <2>1, <2>2
<1>10. /\ followers' \in Seq(SUBSET Nat) /\ Len(followers') = n
       /\ \A i \in 1..n : followers'[i] \subseteq 1..n
       /\ \A i, j \in 1..n : j \in follows'[i] <=> i \in followers'[j]
  <2>1. CASE follows' = follows
    <3>1. followers' = followers
      BY <2>1 DEF Merge
    <3> QED BY <1>3, <1>4, <2>1, <3>1
  <2>2. CASE follows' # follows
    <3>1. followers' = [k \in 1..n |-> {i \in 1..n : k \in follows'[i]}]
      BY <1>3, <1>7, <2>2 DEF Merge, Rebuilt
    <3>2. followers' \in [1..n -> SUBSET Nat]
      BY <1>5, <3>1
    <3>3. followers' \in Seq(SUBSET Nat) /\ Len(followers') = n
      BY <3>2, SeqFacts
    <3> QED BY <3>1, <3>3
  <2> QED BY <2>1, <2>2
<1> QED BY <1>1, <1>2, <1>6, <1>7, <1>8, <1>9, <1>10, ReturnChange

-------------------------------------------------------------------------------
LEMMA ContentsInit == Init => Contents
<1> SUFFICES ASSUME Init PROVE Contents
  OBVIOUS
<1>1. DataTypes
  BY DEF Init, DataTypes, None
<1>2. Nodes
  <2>1. names = <<>> /\ Len(names) = 0 /\ 1..Len(names) = {}
    BY DEF Init
  <2>2. Len(follows) = 0 /\ Len(followers) = 0 /\ Len(meta) = 0
    BY DEF Init
  <2>3. (\A p \in Pubkey : idOf[p] = None) /\ \A i \in NodeId : mutes[i].ids = {}
    BY DEF Init
  <2> QED BY <2>1, <2>2, <2>3 DEF Nodes
<1>3. \A t \in Thread : pc[t] = "idle"
  BY DEF Init
<1> QED BY <1>1, <1>2, <1>3 DEF Contents, Owner, Active, Task, Writing

LEMMA ContentsStep == Discipline /\ Contents /\ [Next]_vars => Contents'
<1> SUFFICES ASSUME Discipline, Contents, [Next]_vars PROVE Contents'
  OBVIOUS
<1>1. CASE UNCHANGED vars
  <2>1. \A t \in Thread : Task(t)'
    BY <1>1, TaskFrame DEF Contents
  <2>2. DataTypes' /\ Owner'
    BY <1>1 DEF Contents, DataTypes, Owner, Active
  <2>3. \A i \in 1..Len(names) : Named(i)'
    BY <1>1 DEF Contents, Nodes, Named
  <2>4. Nodes'
    BY <1>1, <2>3 DEF Contents, Nodes
  <2> QED BY <2>1, <2>2, <2>4 DEF Contents
<1>2. ASSUME NEW t \in Thread, Step(t) PROVE Contents'
  BY <1>2, LockStepContents, FoundContents, CreateContents, PushContents, PublishContents,
     BumpContents, CreatedContents, AcceptContents, RejectContents, CloneContents, SwapContents,
     StampContents, StoreContents, MergeContents, QueryContents DEF Step
<1>3. todo \subseteq Job
  BY DEF Discipline, LockTypes
<1>4. ASSUME NEW t \in Thread, Call(t) PROVE Contents'
  BY <1>3, <1>4, NodeKnownContents, BeginContents, QueryContents DEF Call
<1> QED BY <1>1, <1>2, <1>4 DEF Next

LEMMA ContentsCorrect == Spec => []Contents
BY ContentsInit, ContentsStep, DisciplineInit, DisciplineStep, PTL DEF Spec

(* An id read without a lock can be used under any lock taken later           *)
(* (mute_evidence and common_follows index without a check), and a pubkey has *)
(* one node.                                                                  *)
THEOREM IdsAlwaysInBounds == Spec => []IdsInBounds
<1>1. Contents /\ Discipline => IdsInBounds
  <2> SUFFICES ASSUME Contents, Discipline PROVE IdsInBounds
    OBVIOUS
  <2>1. /\ DOMAIN names = 1..Len(names) /\ DOMAIN follows = 1..Len(names)
        /\ DOMAIN followers = 1..Len(names) /\ Len(names) \in Nat /\ names \in Seq(Pubkey)
    BY DEF Contents, DataTypes, Nodes
  <2>2. ASSUME NEW i \in DOMAIN names, NEW j \in DOMAIN names, names[i] = names[j] PROVE i = j
    <3>1. Named(i) /\ Named(j)
      BY <2>1 DEF Contents, Nodes
    <3> QED BY <2>1, <2>2, <3>1 DEF Named, None
  <2>3. ASSUME NEW p \in Pubkey, idOf[p] # None
        PROVE  /\ idOf[p] <= Len(follows) /\ idOf[p] <= Len(followers) /\ idOf[p] <= Len(meta)
               /\ idOf[p] <= Len(names) /\ names[idOf[p]] = p
    BY <2>1, <2>3 DEF Contents, Nodes
  <2> QED BY <2>1, <2>2, <2>3 DEF IdsInBounds, Contents, Nodes
<1> QED BY <1>1, ContentsCorrect, DisciplineInit, DisciplineStep, PTL DEF Spec

(* The reverse adjacency mirrors the forward one, between any two steps of    *)
(* any threads.                                                               *)
THEOREM MirrorCorrect == Spec => []Mirror
<1>1. Contents => Mirror
  <2> SUFFICES ASSUME Contents PROVE Mirror
    OBVIOUS
  <2>1. DOMAIN follows = 1..Len(names) /\ DOMAIN followers = 1..Len(names)
    BY DEF Contents, DataTypes, Nodes
  <2> QED BY <2>1 DEF Mirror, Contents, Nodes
<1> QED BY <1>1, ContentsCorrect, PTL

-------------------------------------------------------------------------------
(* Lists, their versions, and what queries show. *)

\* The list and the version that one update leaves, under the ids a.
Recorded(a, do, i, ids, v) ==
    \/ v = None /\ ids = {}
    \/ \E u \in Updates : /\ u.do = do /\ a[u.author] = i
                          /\ u.version = v /\ {a[p] : p \in Elems(u.targets)} = ids

VersionOf(u) == IF u.do = "follow" THEN meta[idOf[u.author]] ELSE mutes[idOf[u.author]].version

Stamping(t, i) == pc[t] = "stamp" /\ idOf[job[t].author] = i

\* An accepted update is newer than what is stored until it is stored itself.
Accepted(t) ==
    /\ pc[t] \in Writing /\ after[t] \in {"clone", "store"} =>
         Active(t) /\ idOf[job[t].author] # None /\ Newer(job[t].version, Stored(t))
    /\ pc[t] = "stamp" => follows[idOf[job[t].author]] = Ids(job[t].targets)

QueryTypes ==
    /\ revision \in Nat
    /\ found \in [Thread -> Nat \X Nat]
    /\ done \subseteq Updates /\ floor \in [Thread -> SUBSET done]

\* A node found at the start of a query is that of its pubkey.
Asking(t) ==
    pc[t] \in {"look", "read"} =>
        /\ job[t] \in Query
        /\ found[t][1] # None => found[t][1] = idOf[job[t].from]

Stores ==
    /\ \A u \in done : idOf[u.author] # None /\ u.version <= VersionOf(u)
    /\ \A i \in 1..Len(names) :
         Recorded(idOf, "follow", i, follows[i], meta[i]) \/ \E t \in Thread : Stamping(t, i)
    /\ \A i \in NodeId : Recorded(idOf, "mute", i, mutes[i].ids, mutes[i].version)

Records == QueryTypes /\ Stores /\ \A t \in Thread : Accepted(t) /\ Asking(t)

LEMMA UpdatesFacts ==
    /\ Updates \subseteq Update
    /\ \A u \in Updates : u.do \in {"follow", "mute"} /\ u.author \in Pubkey
                          /\ u.targets \in Seq(Pubkey) /\ u.version \in Nat \ {0}
    /\ \A j \in Job : Lists(j) \subseteq Updates
<1>1. ASSUME NEW j \in Job PROVE Lists(j) \subseteq Update
  <2>1. CASE j.do = "restore"
    BY <2>1, JobAssumption DEF Lists
  <2>2. CASE j.do = "node"
    BY <2>2 DEF Lists
  <2>3. CASE j.do \in {"follow", "mute"}
    BY <2>3, JobAssumption DEF Lists
  <2> QED BY <2>1, <2>2, <2>3, JobFacts
<1> QED BY <1>1 DEF Updates, Update

LEMMA ListsOf ==
    ASSUME NEW j
    PROVE  /\ j.do \in {"follow", "mute"} => Lists(j) = {j}
           /\ j.do = "node" => Lists(j) = {}
           /\ j.do = "restore" => Lists(j) = j.lists
BY DEF Lists

\* Ids are node ids: there are no more nodes than pubkeys.
LEMMA IdIsNode == ASSUME Contents PROVE Len(names) <= Cardinality(Pubkey) /\ 1..Len(names) \subseteq NodeId
<1>1. names \in Seq(Pubkey) /\ Len(names) \in Nat
  BY DEF Contents, DataTypes
<1>2. \A i, j \in 1..Len(names) : names[i] = names[j] => i = j
  <2> SUFFICES ASSUME NEW i \in 1..Len(names), NEW j \in 1..Len(names), names[i] = names[j]
               PROVE  i = j
    OBVIOUS
  <2>1. Named(i) /\ Named(j)
    BY DEF Contents, Nodes
  <2> QED BY <1>1, <2>1 DEF Named, None
<1>3. names \in Injection(1..Len(names), Pubkey)
  BY <1>1, <1>2 DEF Injection, IsInjective
<1>4. Cardinality(1..Len(names)) <= Cardinality(Pubkey)
  <2>1. PICK S : S = 1..Len(names)
    OBVIOUS
  <2>2. names \in Injection(S, Pubkey) /\ IsFiniteSet(Pubkey)
    BY <1>3, <2>1, PubkeyAssumption
  <2>3. Cardinality(S) <= Cardinality(Pubkey)
    BY <2>2, FS_Injection
  <2> QED BY <2>1, <2>3
<1>5. Cardinality(1..Len(names)) = Len(names)
  <2>1. PICK n \in Nat : n = Len(names)
    BY <1>1
  <2>2. Cardinality(1..n) = IF 1 > n THEN 0 ELSE n - 1 + 1
    BY FS_Interval
  <2>3. Cardinality(1..n) = n
    BY <2>2
  <2> QED BY <2>1, <2>3
<1>6. Cardinality(Pubkey) \in Nat
  BY PubkeyAssumption, FS_CardinalityType
<1> QED BY <1>1, <1>4, <1>5, <1>6 DEF NodeId

\* A list stays that of its update as nodes are added.
LEMMA RecordedStays ==
    ASSUME NEW a, NEW b, NEW do, NEW i, NEW ids, NEW v, i # None, None \notin ids,
           Recorded(a, do, i, ids, v), \A p : a[p] # None => b[p] = a[p]
    PROVE  Recorded(b, do, i, ids, v)
<1>1. CASE v = None /\ ids = {}
  BY <1>1 DEF Recorded
<1>2. ASSUME NEW u \in Updates, u.do = do, a[u.author] = i, u.version = v,
             {a[p] : p \in Elems(u.targets)} = ids
      PROVE  Recorded(b, do, i, ids, v)
  <2>1. b[u.author] = i
    BY <1>2
  <2>2. \A p \in Elems(u.targets) : b[p] = a[p]
    BY <1>2
  <2>3. {b[p] : p \in Elems(u.targets)} = ids
    BY <1>2, <2>2
  <2> QED BY <1>2, <2>1, <2>3 DEF Recorded
<1> QED BY <1>1, <1>2 DEF Recorded

\* A step that changes neither the lists nor what is done.
LEMMA RecordsFrame ==
    ASSUME Records, NEW t \in Thread, Others(t), UNCHANGED <<idOf, names, follows, meta, mutes, done>>,
           revision' \in Nat, found' \in [Thread -> Nat \X Nat], floor' \in [Thread -> SUBSET done],
           \A u \in Thread \ {t} : found'[u] = found[u],
           pc[t] # "stamp" \/ (pc'[t] = pc[t] /\ job'[t] = job[t]),
           Accepted(t)', Asking(t)'
    PROVE  Records'
<1>1. QueryTypes'
  BY DEF Records, QueryTypes
<1>2. ASSUME NEW u \in Thread, u # t PROVE Accepted(u)' /\ Asking(u)'
  <2>1. /\ pc'[u] = pc[u] /\ want'[u] = want[u] /\ job'[u] = job[u] /\ after'[u] = after[u]
        /\ found'[u] = found[u]
    BY <1>2 DEF Others
  <2>2. Accepted(u) /\ Asking(u)
    BY DEF Records
  <2>3. Accepted(u)'
    BY <2>1, <2>2 DEF Accepted, Active, Stored, Ids
  <2>4. Asking(u)'
    BY <2>1, <2>2 DEF Asking
  <2> QED BY <2>3, <2>4
<1>3. Stores'
  <2>1. \A u \in Thread : \A i : Stamping(u, i) => Stamping(u, i)'
    BY DEF Others, Stamping
  <2> QED BY <2>1 DEF Records, Stores, VersionOf
<1> QED BY <1>1, <1>2, <1>3 DEF Records

\* A step of the owner.
LEMMA RecordsChange ==
    ASSUME Contents, Records, NEW t \in Thread, Active(t), Others(t), UNCHANGED query,
           \A p : idOf[p] # None => idOf'[p] = idOf[p],
           revision' \in Nat, done \subseteq done', done' \subseteq Updates,
           Stores', Accepted(t)', Asking(t)'
    PROVE  Records'
<1>1. QueryTypes'
  BY DEF Records, QueryTypes
<1>2. ASSUME NEW u \in Thread, u # t PROVE Accepted(u)' /\ Asking(u)'
  <2>1. ~Active(u)
    BY <1>2, OnlyOwner DEF Contents
  <2>2. ~(pc[u] \in Writing /\ after[u] \in {"clone", "store"}) /\ pc[u] # "stamp"
    BY <2>1 DEF Records, Accepted, Active, Writing, Steps
  <2>3. Accepted(u)'
    BY <1>2, <2>2 DEF Others, Accepted
  <2>4. Asking(u)'
    <3>1. Asking(u) /\ pc'[u] = pc[u] /\ job'[u] = job[u] /\ found' = found
      BY <1>2 DEF Records, Others
    <3> QED BY <3>1 DEF Asking
  <2> QED BY <2>3, <2>4
<1> QED BY <1>1, <1>2 DEF Records

LEMMA NoneStamping ==
    ASSUME Contents, Records, NEW t \in Thread, Active(t), pc[t] # "stamp"
    PROVE  \A i \in 1..Len(names) : Recorded(idOf, "follow", i, follows[i], meta[i])
<1>1. ASSUME NEW u \in Thread, NEW i, Stamping(u, i) PROVE FALSE
  BY <1>1, OnlyOwner DEF Stamping, Active, Writing, Steps, Contents
<1> QED BY <1>1 DEF Records, Stores

\* What is done has an author with an id.
LEMMA DoneFacts ==
    ASSUME Contents, Records, NEW u \in done
    PROVE  /\ u \in Updates /\ u.author \in Pubkey /\ u.do \in {"follow", "mute"}
           /\ u.version \in Nat \ {0} /\ idOf[u.author] \in 1..Len(names)
           /\ idOf[u.author] \in NodeId /\ u.version <= VersionOf(u)
<1>1. u \in Updates /\ idOf[u.author] # None /\ u.version <= VersionOf(u)
  BY DEF Records, QueryTypes, Stores
<1>2. idOf[u.author] \in 1..Len(names)
  BY <1>1, UpdatesFacts DEF Contents, Nodes
<1> QED BY <1>1, <1>2, UpdatesFacts, IdIsNode

\* Steps of a thread that is not at "stamp" and leaves the graph alone.
LEMMA RecordsQuiet ==
    ASSUME Records, NEW t \in Thread, Others(t), UNCHANGED <<idOf, names, follows, meta, mutes, done>>,
           UNCHANGED query, revision' \in Nat,
           pc[t] # "stamp" \/ (pc'[t] = pc[t] /\ job'[t] = job[t]),
           Accepted(t)',
           pc'[t] \in {"look", "read"} => pc[t] \in {"look", "read"} /\ job'[t] = job[t]
    PROVE  Records'
<1>1. found' \in [Thread -> Nat \X Nat] /\ floor' \in [Thread -> SUBSET done]
  BY DEF Records, QueryTypes
<1>2. Asking(t)'
  BY DEF Records, Asking
<1> QED BY <1>1, <1>2, RecordsFrame

LEMMA LockStepRecords ==
    ASSUME Discipline, Contents, Records, NEW t \in Thread, Announce(t) \/ Exclude(t) \/ Share(t)
    PROVE  Records'
<1>1. /\ Others(t) /\ UNCHANGED <<graph, query, update, job, callers>> /\ pc'[t] = pc[t]
      /\ want[t] # <<>>
  BY DEF Announce, Exclude, Share, Others, Discipline, LockTypes
<1>2. Accepted(t)'
  <2>1. Active(t) => Active(t)'
    BY <1>1 DEF Active
  <2> QED BY <1>1, <2>1 DEF Records, Accepted, Stored, Ids
<1> QED BY <1>1, <1>2, RecordsQuiet DEF Records, QueryTypes

LEMMA CallRecords ==
    ASSUME Discipline, Contents, Records, NEW t \in Thread, NEW j \in Job,
           NodeKnown(t, j) \/ Begin(t, j)
    PROVE  Records'
<1>1. CASE NodeKnown(t, j)
  <2>1. Others(t) /\ UNCHANGED <<graph, query, update, job, pc, want, done>>
    BY <1>1 DEF NodeKnown, Others
  <2>2. Accepted(t)'
    BY <2>1 DEF Records, Accepted, Stored, Active, Ids
  <2> QED BY <2>1, <2>2, RecordsQuiet DEF Records, QueryTypes
<1>2. CASE Begin(t, j)
  <2>1. /\ Others(t) /\ UNCHANGED <<graph, query, done>> /\ pc[t] = "idle" /\ pc'[t] = "create"
        /\ after'[t] \in {"idle", "check", "merge"}
    <3>1. j.do \in {"follow", "mute", "node", "restore"}
      BY JobFacts
    <3> QED BY <1>2, <3>1 DEF Begin, Go, Others, Discipline, LockTypes
  <2>2. Accepted(t)'
    BY <2>1 DEF Accepted
  <2> QED BY <2>1, <2>2, RecordsQuiet DEF Records, QueryTypes
<1> QED BY <1>1, <1>2

\* Steps of the owner on its way through the creation of ids.
LEMMA CreatingRecords ==
    ASSUME Discipline, Contents, Records, NEW t \in Thread,
           Found(t) \/ Create(t) \/ BumpRevision(t)
    PROVE  Records'
<1>1. /\ Others(t) /\ UNCHANGED <<idOf, names, follows, meta, mutes, done, query>> /\ revision' \in Nat
      /\ pc[t] \in {"create", "bump"} /\ pc'[t] \in {"create", "push"}
      /\ pc'[t] = "create" => want'[t] = <<>>
      /\ job' = job /\ after' = after
  <2>1. revision \in Nat
    BY DEF Records, QueryTypes
  <2>2. CASE Found(t)
    BY <2>1, <2>2 DEF Found, Ready, Others, Contents, DataTypes
  <2>3. CASE Create(t)
    BY <2>1, <2>3 DEF Create, Ready, Go, Others, Discipline, LockTypes
  <2>4. CASE BumpRevision(t)
    BY <2>1, <2>4 DEF BumpRevision, Ready, Go, Others, Discipline, LockTypes, Contents, DataTypes
  <2> QED BY <2>2, <2>3, <2>4
<1>2. Accepted(t)'
  <2>1. Active(t)'
    BY <1>1 DEF Active, Writing, Steps
  <2> QED BY <1>1, <2>1 DEF Records, Accepted, Stored, Writing, Steps
<1> QED BY <1>1, <1>2, RecordsQuiet

LEMMA CloneRecords ==
    ASSUME Discipline, Contents, Records, NEW t \in Thread, Clone(t)
    PROVE  Records'
<1>1. /\ Others(t) /\ UNCHANGED <<graph, done, query, job, after>> /\ pc[t] = "clone" /\ pc'[t] = "swap"
  BY DEF Clone, Go, Ready, Others, Discipline, LockTypes, Contents, DataTypes
<1>2. Accepted(t)'
  <2>1. Active(t)'
    BY <1>1 DEF Active, Writing, Steps
  <2> QED BY <1>1, <2>1 DEF Records, Accepted, Stored, Writing, Steps
<1> QED BY <1>1, <1>2, RecordsQuiet DEF Records, QueryTypes

LEMMA AcceptRecords ==
    ASSUME Discipline, Contents, Records, NEW t \in Thread, Accept(t)
    PROVE  Records'
<1>1. /\ Others(t) /\ UNCHANGED <<graph, done, query, job>> /\ pc[t] = "check" /\ pc'[t] = "create"
      /\ want'[t] = <<>> /\ Newer(job[t].version, Stored(t))
  BY DEF Accept, Go, Ready, Others, Discipline, LockTypes, Contents, DataTypes
<1>2. Accepted(t)'
  <2>1. Active(t)' /\ idOf[job[t].author] # None
    BY <1>1, AuthorHasId DEF Active, Writing, Steps, None
  <2> QED BY <1>1, <2>1 DEF Accepted, Stored
<1> QED BY <1>1, <1>2, RecordsQuiet DEF Records, QueryTypes

\* A call that returns without changing a list: its updates are stored already.
LEMMA ReturnRecords ==
    ASSUME Discipline, Contents, Records, NEW t \in Thread, Return(t), Active(t), pc[t] # "stamp",
           UNCHANGED <<idOf, names, follows, meta, mutes, revision>>, job[t] \in Job,
           \A u \in Lists(job[t]) : idOf[u.author] # None /\ u.version <= VersionOf(u)
    PROVE  Records'
<1>1. /\ Others(t) /\ pc'[t] = "idle" /\ UNCHANGED query /\ done' = done \cup Lists(job[t])
  BY ReturnOthers DEF Return
<1>2. done \subseteq done' /\ done' \subseteq Updates /\ revision' \in Nat
  BY <1>1, UpdatesFacts DEF Records, QueryTypes
<1>3. Stores'
  <2>1. \A u \in done' : idOf[u.author] # None /\ u.version <= VersionOf(u)
    BY <1>1 DEF Records, Stores
  <2>2. \A i \in 1..Len(names) : Recorded(idOf, "follow", i, follows[i], meta[i])
    BY NoneStamping
  <2> QED BY <2>1, <2>2 DEF Records, Stores, VersionOf
<1>4. Accepted(t)' /\ Asking(t)'
  BY <1>1 DEF Accepted, Asking, Writing
<1> QED BY <1>1, <1>2, <1>3, <1>4, RecordsChange

LEMMA RejectRecords ==
    ASSUME Discipline, Contents, Records, NEW t \in Thread, Reject(t)
    PROVE  Records'
<1>1. /\ pc[t] = "check" /\ Return(t) /\ UNCHANGED graph /\ Active(t)
      /\ ~Newer(job[t].version, Stored(t))
  BY DEF Reject, Ready, Active, Writing, Steps
<1>2. /\ job[t] \in Job /\ job[t].do \in {"follow", "mute"} /\ idOf[job[t].author] \in 1..Len(names)
      /\ Lists(job[t]) = {job[t]} /\ job[t].version \in Nat
  BY <1>1, AuthorHasId, ListsOf, JobFacts
<1>3. Stored(t) = VersionOf(job[t]) /\ VersionOf(job[t]) \in Nat
  <2>1. Stored(t) = VersionOf(job[t])
    BY <1>2 DEF Stored, VersionOf
  <2>2. ASSUME NEW i \in 1..Len(names) PROVE meta[i] \in Nat /\ mutes[i].version \in Nat
    <3>1. i \in NodeId
      BY IdIsNode
    <3>2. meta \in Seq(Nat) /\ i \in DOMAIN meta
      BY DEF Contents, DataTypes, Nodes
    <3>3. mutes[i] \in [ids : SUBSET Nat, version : Nat]
      BY <3>1 DEF Contents, DataTypes
    <3> QED BY <3>2, <3>3
  <2> QED BY <1>2, <2>1, <2>2 DEF VersionOf
<1>4. job[t].version <= VersionOf(job[t])
  BY <1>1, <1>2, <1>3 DEF Newer
<1>5. idOf[job[t].author] # None
  BY <1>2 DEF None
<1> QED BY <1>1, <1>2, <1>4, <1>5, ReturnRecords

LEMMA CreatedRecords ==
    ASSUME Discipline, Contents, Records, NEW t \in Thread, Created(t)
    PROVE  Records'
<1>1. /\ UNCHANGED graph /\ pc[t] = "create" /\ want[t] = <<>> /\ pending[t] = <<>> /\ Active(t)
  BY DEF Created, Ready, Active, Writing, Steps
<1>2. CASE after[t] = "idle" /\ Return(t)
  <2>1. job[t] \in Job /\ job[t].do = "node"
    BY <1>1, <1>2 DEF Contents, Task, Goal, Writing, Steps
  <2>2. Lists(job[t]) = {}
    BY <2>1, ListsOf
  <2> QED BY <1>1, <1>2, <2>1, <2>2, ReturnRecords
<1>3. CASE /\ after[t] # "idle" /\ Go(t, after[t], LocksFor(after[t], job[t]))
           /\ UNCHANGED <<locks, job, update, query, callers>>
  <2>1. /\ Others(t) /\ pc'[t] \in {"check", "clone", "store", "merge"} /\ UNCHANGED <<done, query, after, job>>
    BY <1>3 DEF Go, Others, Discipline, LockTypes
  <2>2. Accepted(t)'
    <3>1. Active(t)'
      BY <2>1 DEF Active, Writing, Steps
    <3> QED BY <1>1, <2>1, <3>1 DEF Records, Accepted, Stored, Writing, Steps
  <2> QED BY <1>1, <2>1, <2>2, RecordsQuiet DEF Records, QueryTypes
<1> QED BY <1>2, <1>3 DEF Created

\* While nodes are added the stored version of an accepted update stays.
LEMMA AcceptedStays ==
    ASSUME Contents, NEW t \in Thread, Accepted(t), pc[t] \in Writing,
           Active(t)', pc'[t] # "stamp", job'[t] = job[t], after'[t] = after[t],
           \A p : idOf[p] # None => idOf'[p] = idOf[p],
           \A i \in 1..Len(names) : meta'[i] = meta[i], mutes' = mutes
    PROVE  Accepted(t)'
<1>1. CASE after[t] \in {"clone", "store"}
  <2>1. Active(t) /\ idOf[job[t].author] # None /\ Newer(job[t].version, Stored(t))
    BY <1>1 DEF Accepted
  <2>2. idOf'[job'[t].author] = idOf[job[t].author]
    BY <2>1
  <2>3. job[t] \in Job /\ job[t].do \in {"follow", "mute"}
    BY <1>1 DEF Contents, Task, Goal
  <2>4. idOf[job[t].author] \in 1..Len(names)
    BY <2>1, <2>3, JobFacts DEF Contents, Nodes
  <2>5. Stored(t)' = Stored(t)
    BY <2>2, <2>4 DEF Stored
  <2> QED BY <2>1, <2>2, <2>5 DEF Accepted
<1>2. CASE after[t] \notin {"clone", "store"}
  BY <1>2 DEF Accepted
<1> QED BY <1>1, <1>2

LEMMA PushRecords ==
    ASSUME Discipline, Contents, Records, NEW t \in Thread, Push(t)
    PROVE  Records'
<1>1. /\ Others(t) /\ UNCHANGED <<idOf, mutes, revision, job, update, query, done>>
      /\ pc[t] = "push" /\ pc'[t] = "publish" /\ Active(t) /\ Active(t)'
      /\ follows' = Append(follows, {}) /\ meta' = Append(meta, None)
      /\ names' = Append(names, Head(pending[t]))
  BY DEF Push, Go, Ready, Others, Discipline, LockTypes, Active, Writing, Steps
<1>2. PICK n \in Nat : n = Len(names)
  BY DEF Contents, DataTypes
<1>3. Len(follows) = n /\ Len(meta) = n
  BY <1>2 DEF Contents, Nodes
<1>4. PICK m \in Nat : m = n + 1
  OBVIOUS
<1>5. follows'[m] = {} /\ \A i \in 1..n : follows'[i] = follows[i]
  <2>1. follows \in Seq(SUBSET Nat) /\ {} \in SUBSET Nat
    BY DEF Contents, DataTypes
  <2> QED BY <1>1, <1>3, <1>4, <2>1, AppendFacts
<1>6. meta'[m] = None /\ \A i \in 1..n : meta'[i] = meta[i]
  <2>1. None \in Nat
    BY DEF None
  <2>2. meta \in Seq(Nat)
    BY DEF Contents, DataTypes
  <2> QED BY <1>1, <1>3, <1>4, <2>1, <2>2, AppendFacts
<1>7. Len(names') = m
  <2>1. pending[t] # <<>> /\ pending[t] \in Seq(Pubkey)
    BY <1>1 DEF Contents, Task, DataTypes
  <2>2. Head(pending[t]) \in Pubkey
    BY <2>1, ElemsHeadTail
  <2> QED BY <1>1, <1>2, <1>4, <2>2, AppendFacts DEF Contents, DataTypes
<1>8. Stores'
  <2>1. \A u \in done : idOf[u.author] # None /\ u.version <= VersionOf(u)'
    <3> SUFFICES ASSUME NEW u \in done PROVE idOf[u.author] # None /\ u.version <= VersionOf(u)'
      OBVIOUS
    <3>1. idOf[u.author] \in 1..n /\ u.version <= VersionOf(u)
      BY <1>2, DoneFacts
    <3>2. idOf' = idOf /\ mutes' = mutes /\ meta'[idOf[u.author]] = meta[idOf[u.author]]
      BY <1>1, <1>6, <3>1
    <3>3. VersionOf(u)' = VersionOf(u)
      BY <3>2 DEF VersionOf
    <3> QED BY <3>1, <3>3 DEF None
  <2>2. ASSUME NEW i \in 1..Len(names') PROVE Recorded(idOf', "follow", i, follows'[i], meta'[i])
    <3>1. CASE i \in 1..n
      BY <1>1, <1>2, <1>5, <1>6, <3>1, NoneStamping
    <3>2. CASE i = m
      BY <1>5, <1>6, <3>2 DEF Recorded
    <3> QED BY <1>4, <1>7, <3>1, <3>2
  <2>3. \A i \in NodeId : Recorded(idOf', "mute", i, mutes'[i].ids, mutes'[i].version)
    BY <1>1 DEF Records, Stores
  <2> QED BY <1>1, <2>1, <2>2, <2>3 DEF Stores
<1>9. Accepted(t)' /\ Asking(t)'
  <2>1. pc[t] \in Writing
    BY <1>1 DEF Active
  <2>2. Accepted(t)'
    BY <1>1, <1>2, <1>6, <2>1, AcceptedStays DEF Records
  <2> QED BY <1>1, <2>2 DEF Asking
<1>10. done \subseteq Updates /\ revision' \in Nat
  BY <1>1 DEF Records, QueryTypes
<1> QED BY <1>1, <1>8, <1>9, <1>10, RecordsChange

LEMMA PublishRecords ==
    ASSUME Discipline, Contents, Records, NEW t \in Thread, PublishId(t)
    PROVE  Records'
<1>1. /\ Others(t) /\ UNCHANGED <<names, follows, meta, mutes, revision, job, update, query, done>>
      /\ pc[t] = "publish" /\ pc'[t] = "bump" /\ Active(t) /\ Active(t)'
      /\ idOf' = [idOf EXCEPT ![Head(pending[t])] = Len(names)]
      /\ idOf[Head(pending[t])] = None
  BY DEF PublishId, Go, Ready, Others, Discipline, LockTypes, Active, Writing, Steps, Contents, Task
<1>2. \A p : idOf[p] # None => idOf'[p] = idOf[p]
  BY <1>1 DEF Contents, DataTypes
<1>3. Stores'
  <2>1. \A u \in done : idOf'[u.author] # None /\ u.version <= VersionOf(u)'
    BY <1>1, <1>2 DEF Records, Stores, VersionOf
  <2>2. ASSUME NEW i \in 1..Len(names) PROVE Recorded(idOf', "follow", i, follows[i], meta[i])
    <3>1. Recorded(idOf, "follow", i, follows[i], meta[i])
      BY <1>1, NoneStamping
    <3>2. i # None /\ None \notin follows[i]
      BY DEF None, Contents, Nodes
    <3> QED BY <1>2, <3>1, <3>2, RecordedStays
  <2>3. ASSUME NEW i \in NodeId
        PROVE  Recorded(idOf', "mute", i, mutes[i].ids, mutes[i].version)
    <3>1. Recorded(idOf, "mute", i, mutes[i].ids, mutes[i].version)
      BY DEF Records, Stores
    <3>2. i # None /\ None \notin mutes[i].ids
      BY DEF None, NodeId, Contents, Nodes
    <3> QED BY <1>2, <3>1, <3>2, RecordedStays
  <2> QED BY <1>1, <2>1, <2>2, <2>3 DEF Stores
<1>4. Accepted(t)' /\ Asking(t)'
  <2>1. pc[t] \in Writing
    BY <1>1 DEF Active
  <2>2. Accepted(t)'
    BY <1>1, <1>2, <2>1, AcceptedStays DEF Records
  <2> QED BY <1>1, <2>2 DEF Asking
<1>5. done \subseteq Updates /\ revision' \in Nat
  BY <1>1 DEF Records, QueryTypes
<1> QED BY <1>1, <1>2, <1>3, <1>4, <1>5, RecordsChange

LEMMA SwapRecords ==
    ASSUME Discipline, Contents, Records, NEW t \in Thread, Swap(t)
    PROVE  Records'
<1>1. /\ Others(t) /\ UNCHANGED <<idOf, names, meta, mutes, job, after, query, done>>
      /\ pc[t] = "swap" /\ pc'[t] = "stamp" /\ Active(t) /\ Active(t)'
      /\ follows' = [follows EXCEPT ![idOf[job[t].author]] = Ids(job[t].targets)]
  BY DEF Swap, Go, Ready, Others, Discipline, LockTypes, Active, Writing, Steps
<1>2. revision' \in Nat
  <2>1. revision \in Nat
    BY DEF Records, QueryTypes
  <2> QED BY <2>1 DEF Swap
<1>3. PICK a \in 1..Len(names) : a = idOf[job[t].author]
  BY <1>1, AuthorHasId
<1>4. DOMAIN follows = 1..Len(names)
  BY DEF Contents, DataTypes, Nodes
<1>5. follows'[a] = Ids(job[t].targets) /\ \A i \in 1..Len(names) : i # a => follows'[i] = follows[i]
  BY <1>1, <1>3, <1>4
<1>6. Stores'
  <2>1. \A u \in done : idOf[u.author] # None /\ u.version <= VersionOf(u)
    BY DEF Records, Stores
  <2>2. ASSUME NEW i \in 1..Len(names)
        PROVE  Recorded(idOf, "follow", i, follows'[i], meta[i]) \/ \E u \in Thread : Stamping(u, i)'
    <3>1. CASE i = a
      BY <1>1, <1>3, <3>1 DEF Stamping
    <3>2. CASE i # a
      BY <1>1, <1>5, <3>2, NoneStamping
    <3> QED BY <3>1, <3>2
  <2>3. \A i \in NodeId : Recorded(idOf, "mute", i, mutes[i].ids, mutes[i].version)
    BY DEF Records, Stores
  <2> QED BY <1>1, <2>1, <2>2, <2>3 DEF Stores, VersionOf
<1>7. Accepted(t)'
  <2>1. after[t] \in {"clone", "store"} =>
            idOf[job[t].author] # None /\ Newer(job[t].version, Stored(t))
    BY <1>1 DEF Records, Accepted, Writing, Steps
  <2>2. (after[t] \in {"clone", "store"} =>
            idOf[job[t].author] # None /\ Newer(job[t].version, Stored(t)))'
    BY <1>1, <2>1 DEF Stored
  <2>3. (follows[idOf[job[t].author]] = Ids(job[t].targets))'
    BY <1>1, <1>3, <1>5 DEF Ids
  <2> QED BY <1>1, <2>2, <2>3 DEF Accepted
<1>8. Asking(t)'
  BY <1>1 DEF Asking
<1>9. done' \subseteq Updates
  BY <1>1 DEF Records, QueryTypes
<1> QED BY <1>1, <1>2, <1>6, <1>7, <1>8, <1>9, RecordsChange

\* An update that has passed its check is newer than what is stored.
LEMMA PassedCheck ==
    ASSUME Contents, Records, NEW t \in Thread, pc[t] \in {"stamp", "store"}
    PROVE  /\ job[t] \in Updates /\ Lists(job[t]) = {job[t]} /\ job[t].version \in Nat \ {0}
           /\ job[t].author \in Pubkey
           /\ idOf[job[t].author] \in 1..Len(names) /\ idOf[job[t].author] \in NodeId
           /\ pc[t] = "stamp" => job[t].do = "follow"
           /\ pc[t] = "store" => job[t].do = "mute"
           /\ Newer(job[t].version, VersionOf(job[t]))
<1>1. /\ after[t] \in {"clone", "store"} /\ job[t] \in Job
      /\ pc[t] = "stamp" => job[t].do = "follow"
      /\ pc[t] = "store" => job[t].do = "mute"
  BY DEF Contents, Task, Goal, Writing, Steps
<1>2. /\ Lists(job[t]) = {job[t]} /\ job[t].version \in Nat \ {0} /\ job[t].author \in Pubkey
      /\ idOf[job[t].author] \in 1..Len(names)
  BY <1>1, ListsOf, JobFacts, AuthorHasId
<1>3. Newer(job[t].version, Stored(t))
  BY <1>1 DEF Records, Accepted, Writing, Steps
<1>4. Stored(t) = VersionOf(job[t])
  BY <1>1 DEF Stored, VersionOf
<1> QED BY <1>1, <1>2, <1>3, <1>4, UpdatesFacts, IdIsNode

LEMMA StampRecords ==
    ASSUME Discipline, Contents, Records, NEW t \in Thread, Stamp(t)
    PROVE  Records'
<1>1. /\ pc[t] = "stamp" /\ Return(t) /\ Active(t)
      /\ UNCHANGED <<idOf, names, follows, followers, mutes, revision>>
      /\ meta' = [meta EXCEPT ![idOf[job[t].author]] = job[t].version]
  BY DEF Stamp, Ready, Active, Writing, Steps
<1>2. PICK j \in Updates : j = job[t]
  BY <1>1, PassedCheck
<1>3. PICK a \in 1..Len(names) : a = idOf[j.author]
  BY <1>1, <1>2, PassedCheck
<1>4. /\ Others(t) /\ pc'[t] = "idle" /\ UNCHANGED query /\ done' = done \cup {j}
      /\ j.do = "follow" /\ j.version \in Nat \ {0} /\ Newer(j.version, meta[a])
  BY <1>1, <1>2, <1>3, PassedCheck, ReturnOthers DEF Return, VersionOf
<1>5. DOMAIN meta = 1..Len(names) /\ \A i \in 1..Len(names) : meta[i] \in Nat
  <2>1. meta \in Seq(Nat) /\ Len(meta) = Len(names)
    BY DEF Contents, DataTypes, Nodes
  <2> QED BY <2>1
<1>6. meta'[a] = j.version /\ \A i \in 1..Len(names) : i # a => meta'[i] = meta[i]
  BY <1>1, <1>2, <1>3, <1>5
<1>7. \A i \in 1..Len(names) : meta[i] <= meta'[i]
  BY <1>4, <1>5, <1>6 DEF Newer, None
<1>8. Stores'
  <2>1. ASSUME NEW u \in done' PROVE idOf[u.author] # None /\ u.version <= VersionOf(u)'
    <3>1. CASE u = j
      BY <1>1, <1>3, <1>4, <1>6, <3>1 DEF VersionOf, None
    <3>2. CASE u \in done
      <4>1. /\ idOf[u.author] \in 1..Len(names) /\ u.version \in Nat /\ u.version <= VersionOf(u)
            /\ u.do \in {"follow", "mute"}
        BY <3>2, DoneFacts
      <4>2. CASE u.do = "follow"
        <5>1. /\ u.version <= meta[idOf[u.author]] /\ VersionOf(u)' = meta'[idOf[u.author]]
              /\ meta[idOf[u.author]] <= meta'[idOf[u.author]]
          BY <1>1, <1>7, <4>1, <4>2 DEF VersionOf
        <5>2. meta[idOf[u.author]] \in Nat /\ meta'[idOf[u.author]] \in Nat
          BY <1>4, <1>5, <1>6, <4>1
        <5> QED BY <4>1, <5>1, <5>2 DEF None
      <4>3. CASE u.do = "mute"
        BY <1>1, <4>1, <4>3 DEF VersionOf, None
      <4> QED BY <4>1, <4>2, <4>3
    <3> QED BY <1>4, <3>1, <3>2
  <2>2. ASSUME NEW i \in 1..Len(names) PROVE Recorded(idOf, "follow", i, follows[i], meta'[i])
    <3>1. CASE i = a
      <4>1. follows[a] = Ids(j.targets)
        BY <1>1, <1>2, <1>3 DEF Records, Accepted
      <4> QED BY <1>3, <1>4, <1>6, <3>1, <4>1 DEF Recorded, Ids
    <3>2. CASE i # a
      <4>1. ASSUME NEW u \in Thread, Stamping(u, i) PROVE FALSE
        <5>1. u # t /\ pc[u] = "stamp"
          BY <1>2, <1>3, <3>2, <4>1 DEF Stamping
        <5>2. Active(u)
          BY <5>1 DEF Active, Writing, Steps
        <5> QED BY <1>1, <5>1, <5>2, OnlyOwner DEF Contents
      <4>2. Recorded(idOf, "follow", i, follows[i], meta[i])
        BY <4>1 DEF Records, Stores
      <4> QED BY <1>6, <3>2, <4>2
    <3> QED BY <3>1, <3>2
  <2>3. \A i \in NodeId : Recorded(idOf, "mute", i, mutes[i].ids, mutes[i].version)
    BY DEF Records, Stores
  <2> QED BY <1>1, <2>1, <2>2, <2>3 DEF Stores
<1>9. Accepted(t)' /\ Asking(t)'
  BY <1>4 DEF Accepted, Asking, Writing
<1>10. done \subseteq done' /\ done' \subseteq Updates /\ revision' \in Nat
  BY <1>1, <1>4 DEF Records, QueryTypes
<1> QED BY <1>1, <1>4, <1>8, <1>9, <1>10, RecordsChange

LEMMA StoreRecords ==
    ASSUME Discipline, Contents, Records, NEW t \in Thread, Store(t)
    PROVE  Records'
<1>1. /\ pc[t] = "store" /\ Return(t) /\ Active(t)
      /\ UNCHANGED <<idOf, names, follows, followers, meta>> /\ revision' = revision + 1
      /\ mutes' = [mutes EXCEPT ![idOf[job[t].author]] =
                      [ids |-> Ids(job[t].targets), version |-> job[t].version]]
  BY DEF Store, Ready, Active, Writing, Steps
<1>2. PICK j \in Updates : j = job[t]
  BY <1>1, PassedCheck
<1>3. PICK a \in NodeId : a = idOf[j.author] /\ a # None
  BY <1>1, <1>2, PassedCheck DEF None
<1>4. /\ Others(t) /\ pc'[t] = "idle" /\ UNCHANGED query /\ done' = done \cup {j}
      /\ j.do = "mute" /\ j.version \in Nat \ {0} /\ Newer(j.version, mutes[a].version)
  BY <1>1, <1>2, <1>3, PassedCheck, ReturnOthers DEF Return, VersionOf
<1>5. mutes \in [NodeId -> [ids : SUBSET Nat, version : Nat]]
  BY DEF Contents, DataTypes
<1>6. /\ mutes'[a] = [ids |-> Ids(j.targets), version |-> j.version]
      /\ \A i \in NodeId : i # a => mutes'[i] = mutes[i]
  BY <1>1, <1>2, <1>3, <1>5
<1>7. \A i \in NodeId : /\ mutes[i].version \in Nat /\ mutes'[i].version \in Nat
                        /\ mutes[i].version <= mutes'[i].version
  BY <1>4, <1>5, <1>6 DEF Newer, None
<1>8. Stores'
  <2>1. ASSUME NEW u \in done' PROVE idOf[u.author] # None /\ u.version <= VersionOf(u)'
    <3>1. CASE u = j
      BY <1>1, <1>3, <1>4, <1>6, <3>1 DEF VersionOf
    <3>2. CASE u \in done
      <4>1. /\ idOf[u.author] \in NodeId /\ u.version \in Nat /\ u.version <= VersionOf(u)
            /\ u.do \in {"follow", "mute"} /\ idOf[u.author] # None
        BY <3>2, DoneFacts DEF None
      <4>2. CASE u.do = "mute"
        <5>1. u.version <= mutes[idOf[u.author]].version
              /\ VersionOf(u)' = mutes'[idOf[u.author]].version
          BY <1>1, <4>1, <4>2 DEF VersionOf
        <5> QED BY <1>7, <4>1, <5>1
      <4>3. CASE u.do = "follow"
        BY <1>1, <4>1, <4>3 DEF VersionOf
      <4> QED BY <4>1, <4>2, <4>3
    <3> QED BY <1>4, <3>1, <3>2
  <2>2. \A i \in 1..Len(names) : Recorded(idOf, "follow", i, follows[i], meta[i])
    BY <1>1, NoneStamping
  <2>3. ASSUME NEW i \in NodeId PROVE Recorded(idOf, "mute", i, mutes'[i].ids, mutes'[i].version)
    <3>1. CASE i = a
      BY <1>3, <1>4, <1>6, <3>1 DEF Recorded, Ids
    <3>2. CASE i # a
      BY <1>6, <3>2 DEF Records, Stores
    <3> QED BY <3>1, <3>2
  <2> QED BY <1>1, <2>1, <2>2, <2>3 DEF Stores
<1>9. Accepted(t)' /\ Asking(t)'
  BY <1>4 DEF Accepted, Asking, Writing
<1>10. done \subseteq done' /\ done' \subseteq Updates /\ revision' \in Nat
  BY <1>1, <1>4 DEF Records, QueryTypes
<1> QED BY <1>1, <1>4, <1>8, <1>9, <1>10, RecordsChange

\* A restore leaves at each node the newer of its own list and the one stored.
LEMMA RestoredFacts ==
    ASSUME Contents, NEW t \in Thread, pc[t] = "merge", NEW do \in {"follow", "mute"},
           NEW i \in Nat \ {0}, NEW stored \in Nat
    PROVE  /\ Taken(t, do, i, stored) # {} =>
                LET r == Restored(t, do, i, stored) IN
                /\ r \in Updates /\ r.do = do /\ idOf[r.author] = i
                /\ r.version \in Nat \ {0} /\ stored <= r.version
           /\ \A u \in job[t].lists : u.do = do /\ idOf[u.author] = i =>
                IF Taken(t, do, i, stored) = {} THEN u.version <= stored
                ELSE u = Restored(t, do, i, stored)
<1>1. /\ job[t] \in Job /\ job[t].do = "restore" /\ Lists(job[t]) = job[t].lists
      /\ job[t].lists \subseteq Updates
  BY ListsOf, UpdatesFacts DEF Contents, Task, Goal, Writing, Steps
<1>2. ASSUME NEW u \in job[t].lists, u.do = do, idOf[u.author] = i,
             NEW w \in job[t].lists, w.do = do, idOf[w.author] = i
      PROVE  u = w
  <2>1. u.author \in Pubkey /\ w.author \in Pubkey
    BY <1>1, UpdatesFacts
  <2>2. names[i] = u.author /\ names[i] = w.author
    BY <1>2, <2>1 DEF Contents, Nodes, None
  <2> QED BY <1>1, <1>2, <2>2, JobFacts
<1>3. ASSUME NEW u \in Taken(t, do, i, stored)
      PROVE  /\ u \in job[t].lists /\ u.do = do /\ idOf[u.author] = i
             /\ u.version \in Nat \ {0} /\ stored <= u.version
  <2>1. u \in job[t].lists /\ u.do = do /\ idOf[u.author] = i /\ Newer(u.version, stored)
    BY <1>3 DEF Taken
  <2>2. u.version \in Nat \ {0}
    BY <1>1, <2>1, UpdatesFacts
  <2> QED BY <2>1, <2>2 DEF Newer, None
<1>4. CASE Taken(t, do, i, stored) = {}
  <2>1. ASSUME NEW u \in job[t].lists, u.do = do, idOf[u.author] = i PROVE u.version <= stored
    <3>1. ~Newer(u.version, stored)
      BY <1>4, <2>1 DEF Taken
    <3>2. u.version \in Nat
      BY <1>1, UpdatesFacts
    <3> QED BY <3>1, <3>2 DEF Newer
  <2> QED BY <1>4, <2>1
<1>5. CASE Taken(t, do, i, stored) # {}
  <2>1. PICK r \in Taken(t, do, i, stored) : r = Restored(t, do, i, stored)
    BY <1>5 DEF Restored
  <2>2. \A u \in job[t].lists : u.do = do /\ idOf[u.author] = i => u = r
    BY <1>2, <1>3
  <2>3. /\ r \in Updates /\ r.do = do /\ idOf[r.author] = i
        /\ r.version \in Nat \ {0} /\ stored <= r.version
    BY <1>1, <1>3
  <2> QED BY <1>5, <2>1, <2>2, <2>3
<1> QED BY <1>4, <1>5

LEMMA MergeRecords ==
    ASSUME Discipline, Contents, Records, NEW t \in Thread, Merge(t)
    PROVE  Records'
<1>1. pc[t] = "merge" /\ Return(t) /\ Active(t) /\ UNCHANGED <<idOf, names>>
  BY DEF Merge, Ready, Active, Writing, Steps
<1>2. /\ job[t].lists = Lists(job[t]) /\ job[t].lists \subseteq Updates
      /\ \A u \in job[t].lists : u.author \in Pubkey /\ idOf[u.author] # None
  <2>1. job[t] \in Job /\ job[t].do = "restore" /\ \A p \in Elems(job[t].nodes) : idOf[p] # None
    BY <1>1 DEF Contents, Task, Goal, Needed, Writing, Steps, Creating
  <2> QED BY <2>1, ListsOf, UpdatesFacts, JobFacts
<1>3. /\ Others(t) /\ pc'[t] = "idle" /\ UNCHANGED query /\ done' = done \cup job[t].lists
  BY <1>1, <1>2, ReturnOthers DEF Return
<1>4. /\ \A i \in 1..Len(names) :
           meta[i] \in Nat
           /\ IF Taken(t, "follow", i, meta[i]) = {}
              THEN follows'[i] = follows[i] /\ meta'[i] = meta[i]
              ELSE /\ follows'[i] = Ids(Restored(t, "follow", i, meta[i]).targets)
                   /\ meta'[i] = Restored(t, "follow", i, meta[i]).version
  <2>1. DOMAIN follows = 1..Len(names) /\ DOMAIN meta = 1..Len(names) /\ meta \in Seq(Nat)
    BY DEF Contents, DataTypes, Nodes
  <2> QED BY <2>1 DEF Merge
<1>5. /\ \A i \in NodeId :
           mutes[i].version \in Nat
           /\ IF Taken(t, "mute", i, mutes[i].version) = {} THEN mutes'[i] = mutes[i]
              ELSE /\ mutes'[i].ids = Ids(Restored(t, "mute", i, mutes[i].version).targets)
                   /\ mutes'[i].version = Restored(t, "mute", i, mutes[i].version).version
  <2> SUFFICES ASSUME NEW i \in NodeId
               PROVE  /\ mutes[i].version \in Nat
                      /\ IF Taken(t, "mute", i, mutes[i].version) = {} THEN mutes'[i] = mutes[i]
                         ELSE /\ mutes'[i].ids = Ids(Restored(t, "mute", i, mutes[i].version).targets)
                              /\ mutes'[i].version = Restored(t, "mute", i, mutes[i].version).version
    OBVIOUS
  <2>1. mutes[i].version \in Nat
    BY DEF Contents, DataTypes
  <2>2. mutes'[i] = IF Taken(t, "mute", i, mutes[i].version) = {} THEN mutes[i]
                    ELSE [ids |-> Ids(Restored(t, "mute", i, mutes[i].version).targets),
                          version |-> Restored(t, "mute", i, mutes[i].version).version]
    BY DEF Merge
  <2> QED BY <2>1, <2>2
<1>6. ASSUME NEW i \in 1..Len(names)
      PROVE  /\ meta[i] \in Nat /\ meta'[i] \in Nat /\ meta[i] <= meta'[i]
             /\ \A u \in job[t].lists : u.do = "follow" /\ idOf[u.author] = i => u.version <= meta'[i]
             /\ Recorded(idOf, "follow", i, follows'[i], meta'[i])
  <2>1. i \in Nat \ {0} /\ meta[i] \in Nat
    BY <1>4
  <2>2. CASE Taken(t, "follow", i, meta[i]) = {}
    <3>1. Recorded(idOf, "follow", i, follows[i], meta[i])
      BY <1>1, NoneStamping
    <3>2. \A u \in job[t].lists : u.do = "follow" /\ idOf[u.author] = i => u.version <= meta[i]
      BY <1>1, <2>1, <2>2, RestoredFacts
    <3> QED BY <1>4, <2>1, <2>2, <3>1, <3>2
  <2>3. CASE Taken(t, "follow", i, meta[i]) # {}
    <3>1. PICK r \in Updates :
            /\ r = Restored(t, "follow", i, meta[i]) /\ r.do = "follow" /\ idOf[r.author] = i
            /\ r.version \in Nat \ {0} /\ meta[i] <= r.version
            /\ \A u \in job[t].lists : u.do = "follow" /\ idOf[u.author] = i => u = r
      BY <1>1, <2>1, <2>3, RestoredFacts
    <3>2. follows'[i] = Ids(r.targets) /\ meta'[i] = r.version
      BY <1>4, <2>3, <3>1
    <3>3. Recorded(idOf, "follow", i, follows'[i], meta'[i])
      BY <3>1, <3>2 DEF Recorded, Ids
    <3> QED BY <2>1, <3>1, <3>2, <3>3
  <2> QED BY <2>2, <2>3
<1>7. ASSUME NEW i \in NodeId
      PROVE  /\ mutes[i].version \in Nat /\ mutes'[i].version \in Nat
             /\ mutes[i].version <= mutes'[i].version
             /\ \A u \in job[t].lists :
                  u.do = "mute" /\ idOf[u.author] = i => u.version <= mutes'[i].version
             /\ Recorded(idOf, "mute", i, mutes'[i].ids, mutes'[i].version)
  <2>1. i \in Nat \ {0} /\ mutes[i].version \in Nat
    BY <1>5, PubkeyAssumption, FS_CardinalityType DEF NodeId
  <2>2. CASE Taken(t, "mute", i, mutes[i].version) = {}
    <3>1. Recorded(idOf, "mute", i, mutes[i].ids, mutes[i].version)
      BY DEF Records, Stores
    <3>2. \A u \in job[t].lists : u.do = "mute" /\ idOf[u.author] = i => u.version <= mutes[i].version
      BY <1>1, <2>1, <2>2, RestoredFacts
    <3> QED BY <1>5, <2>1, <2>2, <3>1, <3>2
  <2>3. CASE Taken(t, "mute", i, mutes[i].version) # {}
    <3>1. PICK r \in Updates :
            /\ r = Restored(t, "mute", i, mutes[i].version) /\ r.do = "mute" /\ idOf[r.author] = i
            /\ r.version \in Nat \ {0} /\ mutes[i].version <= r.version
            /\ \A u \in job[t].lists : u.do = "mute" /\ idOf[u.author] = i => u = r
      BY <1>1, <2>1, <2>3, RestoredFacts
    <3>2. mutes'[i].ids = Ids(r.targets) /\ mutes'[i].version = r.version
      BY <1>5, <2>3, <3>1
    <3>3. Recorded(idOf, "mute", i, mutes'[i].ids, mutes'[i].version)
      BY <3>1, <3>2 DEF Recorded, Ids
    <3> QED BY <2>1, <3>1, <3>2, <3>3
  <2> QED BY <2>2, <2>3
<1>8. Stores'
  <2>1. ASSUME NEW u \in Updates, idOf[u.author] # None, u.version <= VersionOf(u) \/ u \in job[t].lists
        PROVE  u.version <= VersionOf(u)'
    <3>1. /\ idOf[u.author] \in 1..Len(names) /\ idOf[u.author] \in NodeId
          /\ u.version \in Nat /\ u.do \in {"follow", "mute"}
      BY <2>1, UpdatesFacts, IdIsNode DEF Contents, Nodes
    <3>2. CASE u.do = "follow"
      <4>1. /\ VersionOf(u) = meta[idOf[u.author]] /\ VersionOf(u)' = meta'[idOf[u.author]]
        BY <1>1, <3>2 DEF VersionOf
      <4> QED BY <1>6, <2>1, <3>1, <3>2, <4>1
    <3>3. CASE u.do = "mute"
      <4>1. /\ VersionOf(u) = mutes[idOf[u.author]].version
            /\ VersionOf(u)' = mutes'[idOf[u.author]].version
        BY <1>1, <3>3 DEF VersionOf
      <4> QED BY <1>7, <2>1, <3>1, <3>3, <4>1
    <3> QED BY <3>1, <3>2, <3>3
  <2>2. \A u \in done' : idOf[u.author] # None /\ u.version <= VersionOf(u)'
    BY <1>2, <1>3, <2>1 DEF Records, Stores, QueryTypes
  <2> QED BY <1>1, <1>6, <1>7, <2>2 DEF Stores
<1>9. Accepted(t)' /\ Asking(t)'
  BY <1>3 DEF Accepted, Asking, Writing
<1>10. done \subseteq done' /\ done' \subseteq Updates /\ revision' \in Nat
  <2>1. revision \in Nat /\ done \subseteq Updates
    BY DEF Records, QueryTypes
  <2>2. revision' \in Nat
    BY <2>1 DEF Merge
  <2> QED BY <1>2, <1>3, <2>1, <2>2
<1> QED BY <1>1, <1>3, <1>8, <1>9, <1>10, RecordsChange

-------------------------------------------------------------------------------
(* Queries. *)

LEMMA AskRecords ==
    ASSUME Discipline, Contents, Records, NEW t \in Thread, NEW q \in Query, Ask(t, q)
    PROVE  Records'
<1>1. q.from \in Pubkey
  BY QueryAssumption
<1>2. idOf[q.from] \in Nat /\ None \in Nat
  BY <1>1 DEF Contents, DataTypes, None
<1>3. /\ Others(t) /\ UNCHANGED <<graph, done>> /\ pc[t] = "idle" /\ pc'[t] = "look" /\ job'[t] = q
  BY DEF Ask, Go, Others, Discipline, LockTypes, Contents, DataTypes
<1>4. /\ found' \in [Thread -> Nat \X Nat] /\ floor' \in [Thread -> SUBSET done]
      /\ found'[t] = <<idOf[q.from], None>> /\ \A u \in Thread \ {t} : found'[u] = found[u]
  <2>1. <<idOf[q.from], None>> \in Nat \X Nat
    BY <1>2
  <2>2. found \in [Thread -> Nat \X Nat] /\ floor \in [Thread -> SUBSET done]
    BY DEF Records, QueryTypes
  <2> QED BY <2>1, <2>2 DEF Ask
<1>5. Accepted(t)' /\ Asking(t)'
  <2>1. found'[t][1] = idOf'[job'[t].from]
    BY <1>3, <1>4
  <2> QED BY <1>3, <2>1 DEF Accepted, Asking, Writing
<1> QED BY <1>3, <1>4, <1>5, RecordsFrame DEF Records, QueryTypes

LEMMA AnsweredRecords ==
    ASSUME Discipline, Contents, Records, NEW t \in Thread, Answered(t), pc[t] # "stamp"
    PROVE  Records'
<1>1. /\ Others(t) /\ UNCHANGED <<graph, done>> /\ pc'[t] = "idle"
  BY DEF Answered, Go, Others, Discipline, LockTypes, Contents, DataTypes
<1>2. /\ found' \in [Thread -> Nat \X Nat] /\ floor' \in [Thread -> SUBSET done]
      /\ \A u \in Thread \ {t} : found'[u] = found[u]
  <2>1. <<None, None>> \in Nat \X Nat
    BY DEF None
  <2>2. found \in [Thread -> Nat \X Nat] /\ floor \in [Thread -> SUBSET done]
    BY DEF Records, QueryTypes
  <2> QED BY <2>1, <2>2 DEF Answered
<1>3. Accepted(t)' /\ Asking(t)'
  BY <1>1 DEF Accepted, Asking, Writing
<1> QED BY <1>1, <1>2, <1>3, RecordsFrame DEF Records, QueryTypes

LEMMA LookRecords ==
    ASSUME Discipline, Contents, Records, NEW t \in Thread, Look(t)
    PROVE  Records'
<1>1. pc[t] = "look"
  BY DEF Look, Ready
<1>2. CASE Answered(t)
  BY <1>1, <1>2, AnsweredRecords
<1>3. CASE /\ found' = [found EXCEPT ![t] = <<found[t][1], idOf[job[t].to]>>]
           /\ Go(t, "read", ReadLocks(job[t].do))
           /\ UNCHANGED <<graph, job, floor, update, callers>>
  <2>1. /\ Others(t) /\ pc'[t] = "read"
    BY <1>3 DEF Go, Others, Discipline, LockTypes
  <2>2. Asking(t) /\ found \in [Thread -> Nat \X Nat] /\ floor \in [Thread -> SUBSET done]
    BY DEF Records, QueryTypes
  <2>3. job[t] \in Query /\ job[t].to \in Pubkey
    BY <1>1, <2>2, QueryAssumption DEF Asking
  <2>4. <<found[t][1], idOf[job[t].to]>> \in Nat \X Nat
    BY <2>2, <2>3 DEF Contents, DataTypes
  <2>5. /\ found' \in [Thread -> Nat \X Nat] /\ found'[t][1] = found[t][1]
        /\ \A u \in Thread \ {t} : found'[u] = found[u]
    BY <1>3, <2>2, <2>4
  <2>6. Asking(t)'
    BY <1>1, <1>3, <2>2, <2>5 DEF Asking
  <2>7. Accepted(t)'
    BY <2>1 DEF Accepted, Writing
  <2> QED BY <1>1, <1>3, <2>1, <2>2, <2>5, <2>6, <2>7, RecordsFrame DEF Records, QueryTypes
<1> QED BY <1>2, <1>3 DEF Look

-------------------------------------------------------------------------------
LEMMA RecordsInit == Init => Records
<1> SUFFICES ASSUME Init PROVE Records
  OBVIOUS
<1>1. QueryTypes
  BY DEF Init, QueryTypes, None
<1>2. Stores
  <2>1. 1..Len(names) = {}
    BY DEF Init
  <2> QED BY <2>1 DEF Init, Stores, Recorded
<1>3. \A t \in Thread : pc[t] = "idle"
  BY DEF Init
<1> QED BY <1>1, <1>2, <1>3 DEF Records, Accepted, Asking, Writing

LEMMA RecordsStep == Discipline /\ Contents /\ Records /\ [Next]_vars => Records'
<1> SUFFICES ASSUME Discipline, Contents, Records, [Next]_vars PROVE Records'
  OBVIOUS
<1>1. CASE UNCHANGED vars
  <2>1. QueryTypes' /\ Stores'
    BY <1>1 DEF Records, QueryTypes, Stores, VersionOf, Stamping
  <2>2. \A t \in Thread : Accepted(t)' /\ Asking(t)'
    BY <1>1 DEF Records, Accepted, Asking, Active, Stored, Ids
  <2> QED BY <2>1, <2>2 DEF Records
<1>2. ASSUME NEW t \in Thread, Step(t) PROVE Records'
  <2>1. CASE Read(t)
    BY <2>1, AnsweredRecords DEF Read, Ready
  <2> QED BY <1>2, <2>1, LockStepRecords, CreatingRecords, PushRecords, PublishRecords, CreatedRecords,
          AcceptRecords, RejectRecords, CloneRecords, SwapRecords, StampRecords, StoreRecords,
          MergeRecords, LookRecords DEF Step
<1>3. todo \subseteq Job
  BY DEF Discipline, LockTypes
<1>4. ASSUME NEW t \in Thread, Call(t) PROVE Records'
  BY <1>3, <1>4, CallRecords, AskRecords DEF Call
<1> QED BY <1>1, <1>2, <1>4 DEF Next

LEMMA RecordsCorrect == Spec => []Records
BY RecordsInit, RecordsStep, ContentsCorrect, DisciplineInit, DisciplineStep, PTL DEF Spec

(* When no writer is at work, a list and the version it is compared by come   *)
(* from one update: update_follows swaps the list and stamps its metadata     *)
(* under different locks, and never returns between the two.                  *)
THEOREM ListsMatchVersionsCorrect == Spec => []ListsMatchVersions
<1>1. Contents /\ Records => ListsMatchVersions
  <2> SUFFICES ASSUME Contents, Records, writer["mutation"] = NoThread PROVE ListsMatchVersions
    BY DEF ListsMatchVersions
  <2>1. \A t \in Thread : pc[t] # "stamp"
    BY ThreadAssumption DEF Contents, Owner, Active, Writing, Steps
  <2>2. \A i \in 1..Len(names) : Recorded(idOf, "follow", i, follows[i], meta[i])
    BY <2>1 DEF Records, Stores, Stamping
  <2>3. \A i \in NodeId : Recorded(idOf, "mute", i, mutes[i].ids, mutes[i].version)
    BY DEF Records, Stores
  <2>4. DOMAIN follows = 1..Len(names)
    BY DEF Contents, DataTypes, Nodes
  <2> QED BY <2>2, <2>3, <2>4 DEF ListsMatchVersions, Recorded, From, Ids
<1> QED BY <1>1, ContentsCorrect, RecordsCorrect, PTL

\* What a query shows of a list that comes from one update, at least as new as
\* the version v to which what is done compares.
LEMMA ShowsUpdate ==
    ASSUME Contents, Records, NEW t \in Thread, NEW do \in {"follow", "mute"}, job[t] \in Query,
           NEW i \in 1..Len(names), i = idOf[job[t].from], NEW ids \in SUBSET (1..Len(names)),
           NEW v \in Nat, \A f \in done : f.do = do /\ idOf[f.author] = i => f.version <= v,
           \/ v = None /\ ids = {}
           \/ \E u \in Updates : /\ u.do = do /\ idOf[u.author] = i /\ v <= u.version
                                 /\ Ids(u.targets) = ids
    PROVE  Shows(t, do, ids)
<1> DEFINE p == job[t].from
           mine == {u \in Updates : u.do = do /\ u.author = p}
<1>1. p \in Pubkey /\ names[i] = p
  <2>1. p \in Pubkey
    BY QueryAssumption
  <2> QED BY <2>1 DEF Contents, Nodes, None
<1>2. \A f \in mine \cap floor[t] : f.version \in Nat \ {0} /\ f.version <= v
  BY UpdatesFacts DEF Records, QueryTypes
<1>3. CASE v = None /\ ids = {}
  <2>1. mine \cap floor[t] = {}
    BY <1>2, <1>3 DEF None
  <2> QED BY <1>3, <2>1 DEF Shows
<1>4. ASSUME NEW u \in Updates, u.do = do, idOf[u.author] = i, v <= u.version, Ids(u.targets) = ids
      PROVE  Shows(t, do, ids)
  <2>1. u.author \in Pubkey /\ u.targets \in Seq(Pubkey) /\ u.version \in Nat
    BY UpdatesFacts
  <2>2. u.author = p
    BY <1>1, <1>4, <2>1 DEF Contents, Nodes, None
  <2>3. \A q \in Elems(u.targets) : idOf[q] \in ids /\ names[idOf[q]] = q
    <3>1. \A q \in Elems(u.targets) : q \in Pubkey /\ idOf[q] \in ids
      BY <1>4, <2>1, ElemsType DEF Ids
    <3>2. \A k \in ids : k # None
      BY DEF None
    <3> QED BY <3>1, <3>2 DEF Contents, Nodes
  <2>4. \A k \in ids : \E q \in Elems(u.targets) : k = idOf[q]
    BY <1>4 DEF Ids
  <2>5. {names[k] : k \in ids} = Elems(u.targets)
    <3>1. ASSUME NEW k \in ids PROVE names[k] \in Elems(u.targets)
      BY <2>3, <2>4
    <3>2. ASSUME NEW q \in Elems(u.targets) PROVE q \in {names[k] : k \in ids}
      BY <2>3
    <3> QED BY <3>1, <3>2
  <2>6. \A f \in mine \cap floor[t] : f.version <= u.version
    BY <1>2, <1>4, <2>1
  <2> QED BY <1>4, <2>2, <2>5, <2>6 DEF Shows
<1> QED BY <1>3, <1>4

(* A query shows whole lists, never a mixture of two, and never one that is   *)
(* older than an update completed before the query began, whatever other      *)
(* threads do between its two lookups and its answer.                         *)
THEOREM QueriesCorrect == Spec => []QueriesShowWholeLists
<1>1. Contents /\ Records => QueriesShowWholeLists
  <2> SUFFICES ASSUME Contents, Records, NEW t \in Thread, Ready(t, "read"), found[t][1] # None
               PROVE  /\ Shows(t, "follow", follows[found[t][1]])
                      /\ Shows(t, "mute", mutes[found[t][1]].ids)
    BY DEF QueriesShowWholeLists
  <2>1. job[t] \in Query /\ found[t][1] = idOf[job[t].from]
    BY DEF Records, Asking, Ready
  <2>2. PICK i \in 1..Len(names) : i = idOf[job[t].from]
    BY <2>1, QueryAssumption DEF Contents, Nodes
  <2>3. /\ i \in NodeId /\ i \in DOMAIN meta /\ meta \in Seq(Nat)
        /\ follows[i] \in SUBSET (1..Len(names)) /\ mutes[i].ids \in SUBSET (1..Len(names))
    <3>1. i \in NodeId
      BY IdIsNode
    <3> QED BY <3>1 DEF Contents, DataTypes, Nodes
  <2>4. meta[i] \in Nat /\ mutes[i].version \in Nat
    BY <2>3 DEF Contents, DataTypes
  <2>5. /\ \A f \in done : f.do = "follow" /\ idOf[f.author] = i => f.version <= meta[i]
        /\ \A f \in done : f.do = "mute" /\ idOf[f.author] = i => f.version <= mutes[i].version
    BY DEF Records, Stores, VersionOf
  <2>6. ASSUME NEW do \in {"follow", "mute"}, NEW ids, NEW v \in Nat, Recorded(idOf, do, i, ids, v)
        PROVE  \/ v = None /\ ids = {}
               \/ \E u \in Updates : /\ u.do = do /\ idOf[u.author] = i /\ v <= u.version
                                     /\ Ids(u.targets) = ids
    BY <2>6 DEF Recorded, Ids
  <2>7. Shows(t, "mute", mutes[i].ids)
    <3>1. Recorded(idOf, "mute", i, mutes[i].ids, mutes[i].version)
      BY <2>3 DEF Records, Stores
    <3>2. \/ mutes[i].version = None /\ mutes[i].ids = {}
          \/ \E u \in Updates : /\ u.do = "mute" /\ idOf[u.author] = i /\ mutes[i].version <= u.version
                                /\ Ids(u.targets) = mutes[i].ids
      BY <2>4, <2>6, <3>1
    <3>3. PICK v \in Nat, ids \in SUBSET (1..Len(names)) : v = mutes[i].version /\ ids = mutes[i].ids
      BY <2>3, <2>4
    <3>4. \A f \in done : f.do = "mute" /\ idOf[f.author] = i => f.version <= v
      BY <2>5, <3>3
    <3>5. \/ v = None /\ ids = {}
          \/ \E u \in Updates : /\ u.do = "mute" /\ idOf[u.author] = i /\ v <= u.version
                                /\ Ids(u.targets) = ids
      BY <3>2, <3>3
    <3>6. Shows(t, "mute", ids)
      BY <2>1, <2>2, <3>4, <3>5, ShowsUpdate
    <3> QED BY <3>3, <3>6
  <2>8. Shows(t, "follow", follows[i])
    <3>1. CASE Recorded(idOf, "follow", i, follows[i], meta[i])
      <4>1. \/ meta[i] = None /\ follows[i] = {}
            \/ \E u \in Updates : /\ u.do = "follow" /\ idOf[u.author] = i /\ meta[i] <= u.version
                                  /\ Ids(u.targets) = follows[i]
        BY <2>4, <2>6, <3>1
      <4>2. PICK v \in Nat, ids \in SUBSET (1..Len(names)) : v = meta[i] /\ ids = follows[i]
        BY <2>3, <2>4
      <4>3. \A f \in done : f.do = "follow" /\ idOf[f.author] = i => f.version <= v
        BY <2>5, <4>2
      <4>4. \/ v = None /\ ids = {}
            \/ \E u \in Updates : /\ u.do = "follow" /\ idOf[u.author] = i /\ v <= u.version
                                  /\ Ids(u.targets) = ids
        BY <4>1, <4>2
      <4>5. Shows(t, "follow", ids)
        BY <2>1, <2>2, <4>3, <4>4, ShowsUpdate
      <4> QED BY <4>2, <4>5
    <3>2. ASSUME NEW s \in Thread, Stamping(s, i) PROVE Shows(t, "follow", follows[i])
      <4>1. pc[s] = "stamp" /\ idOf[job[s].author] = i
        BY <3>2 DEF Stamping
      <4>2. /\ job[s] \in Updates /\ job[s].do = "follow" /\ job[s].version \in Nat \ {0}
            /\ Newer(job[s].version, meta[i]) /\ follows[i] = Ids(job[s].targets)
        BY <4>1, PassedCheck DEF VersionOf, Records, Accepted
      <4>3. meta[i] <= job[s].version
        BY <2>4, <4>2 DEF Newer, None
      <4>4. PICK v \in Nat, ids \in SUBSET (1..Len(names)) : v = meta[i] /\ ids = follows[i]
        BY <2>3, <2>4
      <4>5. \A f \in done : f.do = "follow" /\ idOf[f.author] = i => f.version <= v
        BY <2>5, <4>4
      <4>6. \E u \in Updates : /\ u.do = "follow" /\ idOf[u.author] = i /\ v <= u.version
                              /\ Ids(u.targets) = ids
        BY <4>1, <4>2, <4>3, <4>4
      <4>7. Shows(t, "follow", ids)
        BY <2>1, <2>2, <4>5, <4>6, ShowsUpdate
      <4> QED BY <4>4, <4>7
    <3> QED BY <3>1, <3>2 DEF Records, Stores
  <2> QED BY <2>1, <2>2, <2>7, <2>8
<1> QED BY <1>1, ContentsCorrect, RecordsCorrect, PTL

(* The type invariant.                                                        *)
THEOREM TypeCorrect == Spec => []TypeOK
<1>1. Discipline /\ Contents /\ Records => TypeOK
  <2> SUFFICES ASSUME Discipline, Contents, Records PROVE TypeOK
    OBVIOUS
  <2>1. idOf \in [Pubkey -> NodeId \cup {None}]
    <3>1. \A p \in Pubkey : idOf[p] \in NodeId \cup {None}
      BY IdIsNode DEF Contents, Nodes
    <3> QED BY <3>1 DEF Contents, DataTypes
  <2>2. floor \in [Thread -> SUBSET UNION {Lists(j) : j \in Job}]
        /\ done \in SUBSET UNION {Lists(j) : j \in Job}
    BY DEF Records, QueryTypes, Updates
  <2> QED BY <2>1, <2>2 DEF TypeOK, Discipline, LockTypes, Contents, DataTypes, Records, QueryTypes
<1> QED BY <1>1, DisciplineInit, DisciplineStep, ContentsCorrect, RecordsCorrect, PTL DEF Spec

-------------------------------------------------------------------------------
(* What those who keep what they have read can rely on. *)

PublishedVars == <<idOf, NodeLists, Versions, Uncounted, revision>>

\* A pubkey's node, and the last node when its id is not yet published.
LEMMA NodeFacts ==
    ASSUME Contents
    PROVE  /\ Len(names) \in Nat /\ 1..Len(names) \subseteq NodeId
           /\ idOf \in [Pubkey -> Nat]
           /\ \A p \in Pubkey : idOf[p] # None => idOf[p] \in 1..Len(names) /\ idOf[p] \in NodeId
           /\ \A p, q \in Pubkey : idOf[p] # None /\ idOf[p] = idOf[q] => p = q
           /\ \A i \in 1..Len(names) : meta[i] \in Nat /\ follows[i] \subseteq 1..Len(names)
           /\ \A i \in NodeId : mutes[i].version \in Nat /\ mutes[i].ids \subseteq 1..Len(names)
<1>1. /\ names \in Seq(Pubkey) /\ meta \in Seq(Nat) /\ Len(meta) = Len(names)
      /\ idOf \in [Pubkey -> Nat] /\ mutes \in [NodeId -> [ids : SUBSET Nat, version : Nat]]
  BY DEF Contents, DataTypes, Nodes
<1>2. Len(names) \in Nat /\ \A i \in 1..Len(names) : meta[i] \in Nat
  BY <1>1
<1> QED BY <1>1, <1>2, IdIsNode DEF Contents, Nodes

LEMMA FreshNode ==
    ASSUME Contents, Records, NEW i \in 1..Len(names), \A p \in Pubkey : idOf[p] # i
    PROVE  follows[i] = {} /\ meta[i] = None /\ mutes[i].ids = {} /\ mutes[i].version = None
<1>1. \A u \in Updates : idOf[u.author] # i
  BY UpdatesFacts
<1>2. ASSUME NEW t \in Thread, Stamping(t, i) PROVE FALSE
  BY <1>2, AuthorHasId DEF Stamping
<1>3. i \in NodeId
  BY IdIsNode
<1> QED BY <1>1, <1>2, <1>3 DEF Records, Stores, Recorded

\* The other threads are nowhere in an update that has begun.
LEMMA OwnerAlone ==
    ASSUME Contents, NEW t \in Thread, Active(t), Others(t)
    PROVE  \A u \in Thread \ {t} : /\ pc[u] \notin {"publish", "bump"}
                                   /\ pc'[u] \notin {"publish", "bump"}
BY OnlyOwner DEF Contents, Active, Writing, Steps, Others

\* Steps that publish no id and change no published node.
LEMMA NothingShown ==
    ASSUME Contents, UNCHANGED <<idOf, revision>>, Uncounted' = Uncounted,
           \A i \in 1..Len(names) : follows'[i] = follows[i] /\ meta'[i] = meta[i],
           \A i \in NodeId : mutes'[i] = mutes[i]
    PROVE  UNCHANGED PublishedVars
<1>1. NodeLists' = NodeLists
  BY NodeFacts, Zenon DEF NodeLists
<1>2. Versions' = Versions
  BY NodeFacts, Zenon DEF Versions
<1> QED BY <1>1, <1>2 DEF PublishedVars

\* Steps of the owner on published nodes.
LEMMA ListsShown ==
    ASSUME Contents, Contents', NEW t \in Thread, Active(t), Others(t),
           pc[t] \notin {"publish", "bump"}, pc'[t] \notin {"publish", "bump"},
           UNCHANGED <<idOf, names>>,
           \A i \in 1..Len(names) : meta[i] <= meta'[i],
           \A i \in NodeId : mutes[i].version <= mutes'[i].version,
           \/ revision' = revision + 1
           \/ /\ revision' = revision
              /\ \A i \in 1..Len(names) : follows'[i] = follows[i]
              /\ \A i \in NodeId : mutes'[i].ids = mutes[i].ids
    PROVE  Shared!Update \/ Shared!Confirm
<1>1. Uncounted = FALSE /\ Uncounted' = FALSE
  BY OwnerAlone DEF Uncounted
<1>2. 1..Len(names) \subseteq Shared!Published
  <2> SUFFICES ASSUME NEW i \in 1..Len(names) PROVE \E p \in Pubkey : idOf[p] = i /\ i # None
    BY DEF Shared!Published
  <2>1. Named(i) /\ names[i] \in Pubkey
    BY DEF Contents, Nodes, DataTypes
  <2>2. \A u \in Thread : pc[u] # "publish"
    BY OwnerAlone
  <2> QED BY <2>1, <2>2 DEF Named, None
<1>3. /\ \A i \in 1..Len(names) : meta'[i] \in Nat /\ follows'[i] \subseteq 1..Len(names)
      /\ \A i \in NodeId : mutes'[i].version \in Nat /\ mutes'[i].ids \subseteq 1..Len(names)
  <2>1. /\ meta' \in Seq(Nat) /\ Len(meta') = Len(names)
        /\ mutes' \in [NodeId -> [ids : SUBSET Nat, version : Nat]]
    BY DEF Contents, DataTypes, Nodes
  <2>2. \A i \in 1..Len(names) : meta'[i] \in Nat
    BY <2>1
  <2> QED BY <2>1, <2>2 DEF Contents, Nodes
<1>4. \A p \in Pubkey : idOf[p] = None \/ (idOf[p] \in 1..Len(names) /\ idOf[p] \in NodeId)
  BY NodeFacts
<1>5. Shared!Advance
  <2>1. Versions' \in [ListKind -> [Pubkey -> Nat]]
    BY <1>3, <1>4 DEF Versions, None
  <2>2. ASSUME NEW k \in ListKind, NEW p \in Pubkey PROVE Versions'[k][p] >= Versions[k][p]
    <3>1. CASE idOf[p] = None
      BY <3>1 DEF Versions, None
    <3>2. CASE idOf[p] # None
      <4>1. /\ Versions[k][p] = IF k = "mute" THEN mutes[idOf[p]].version ELSE meta[idOf[p]]
            /\ Versions'[k][p] = IF k = "mute" THEN mutes'[idOf[p]].version ELSE meta'[idOf[p]]
        BY <3>2 DEF Versions
      <4>2. \A m, n \in Nat : m <= n => n >= m
        OBVIOUS
      <4> QED BY <1>3, <1>4, <3>2, <4>1, <4>2, NodeFacts
    <3> QED BY <3>1, <3>2
  <2> QED BY <2>1, <2>2 DEF Shared!Advance
<1>6. CASE revision' = revision + 1
  <2>1. NodeLists' \in [ListKind -> [Pubkey -> SUBSET Shared!Published]]
    BY <1>2, <1>3, <1>4 DEF NodeLists
  <2>2. \A k \in ListKind, p \in Pubkey : idOf[p] = None => NodeLists'[k][p] = {}
    BY DEF NodeLists
  <2> QED BY <1>1, <1>5, <1>6, <2>1, <2>2 DEF Shared!Update
<1>7. CASE UNCHANGED revision /\ (\A i \in 1..Len(names) : follows'[i] = follows[i])
           /\ \A i \in NodeId : mutes'[i].ids = mutes[i].ids
  <2>1. NodeLists' = NodeLists
    BY <1>4, <1>7, Zenon DEF NodeLists
  <2> QED BY <1>1, <1>5, <1>7, <2>1 DEF Shared!Confirm
<1> QED BY <1>6, <1>7

LEMMA PublishShown ==
    ASSUME Discipline, Contents, Records, NEW t \in Thread, PublishId(t)
    PROVE  Shared!PublishNode
<1> DEFINE p == Head(pending[t])
           n == Len(names)
<1>1. /\ Others(t) /\ UNCHANGED <<names, follows, meta, mutes, revision>>
      /\ pc[t] = "publish" /\ pc'[t] = "bump" /\ idOf' = [idOf EXCEPT ![p] = n]
      /\ Active(t)
  BY DEF PublishId, Go, Ready, Others, Discipline, LockTypes, Active, Writing, Steps
<1>2. pending[t] # <<>> /\ p \in Pubkey
  <2>1. pending[t] # <<>> /\ pending[t] \in Seq(Pubkey)
    BY <1>1 DEF Contents, Task, DataTypes
  <2> QED BY <2>1, ElemsHeadTail
<1>3. n \in Nat /\ n # 0 /\ names[n] = p /\ idOf[p] = None /\ idOf \in [Pubkey -> Nat]
  BY <1>1 DEF Contents, Task, DataTypes
<1>4. \A q \in Pubkey : idOf[q] # n
  BY <1>2, <1>3 DEF None, Contents, Nodes
<1>5. /\ idOf' \in [Pubkey -> Nat] /\ idOf'[p] = n
      /\ \A q \in Pubkey \ {p} : idOf'[q] = idOf[q]
  BY <1>1, <1>2, <1>3
<1>6. Uncounted = FALSE /\ Uncounted' = TRUE
  BY <1>1, OwnerAlone DEF Uncounted
<1>7. follows[n] = {} /\ meta[n] = None /\ mutes[n].ids = {} /\ mutes[n].version = None
  <2>1. n \in 1..Len(names)
    BY <1>3
  <2> QED BY <1>4, <2>1, FreshNode
<1>8. \A q \in Pubkey : \/ idOf'[q] = idOf[q]
                        \/ q = p /\ idOf[q] = None /\ idOf'[q] = n /\ n # None
  BY <1>3, <1>5 DEF None
<1> HIDE DEF p, n
<1>9. NodeLists' = NodeLists
  <2>1. ASSUME NEW q \in Pubkey, NEW k \in ListKind PROVE NodeLists'[k][q] = NodeLists[k][q]
    <3>1. CASE idOf'[q] = idOf[q]
      BY <1>1, <3>1 DEF NodeLists
    <3>2. CASE idOf[q] = None /\ idOf'[q] = n /\ n # None
      BY <1>1, <1>7, <3>2 DEF NodeLists
    <3> QED BY <1>8, <3>1, <3>2
  <2> QED BY <2>1, Zenon DEF NodeLists
<1>10. Versions' = Versions
  <2>1. ASSUME NEW q \in Pubkey, NEW k \in ListKind PROVE Versions'[k][q] = Versions[k][q]
    <3>1. CASE idOf'[q] = idOf[q]
      BY <1>1, <3>1 DEF Versions
    <3>2. CASE idOf[q] = None /\ idOf'[q] = n /\ n # None
      BY <1>1, <1>7, <3>2 DEF Versions
    <3> QED BY <1>8, <3>1, <3>2
  <2> QED BY <2>1, Zenon DEF Versions
<1>11. idOf[p] = None /\ idOf'[p] \notin Shared!Published \cup {None}
  BY <1>3, <1>4, <1>5 DEF Shared!Published, None
<1> QED BY <1>1, <1>2, <1>5, <1>6, <1>9, <1>10, <1>11 DEF Shared!PublishNode

LEMMA BumpShown ==
    ASSUME Discipline, Contents, NEW t \in Thread, BumpRevision(t)
    PROVE  Shared!CountNode
<1>1. /\ Others(t) /\ UNCHANGED <<idOf, follows, meta, mutes>> /\ revision' = revision + 1
      /\ pc[t] = "bump" /\ pc'[t] = "create" /\ Active(t)
  BY DEF BumpRevision, Go, Ready, Others, Discipline, LockTypes, Active, Writing, Steps
<1>2. Uncounted = TRUE /\ Uncounted' = FALSE
  BY <1>1, OwnerAlone DEF Uncounted
<1>3. NodeLists' = NodeLists /\ Versions' = Versions
  BY <1>1 DEF NodeLists, Versions
<1> QED BY <1>1, <1>2, <1>3 DEF Shared!CountNode

LEMMA SwapShown ==
    ASSUME Discipline, Contents, Contents', NEW t \in Thread, Swap(t)
    PROVE  Shared!Update \/ Shared!Confirm
<1>1. /\ Others(t) /\ UNCHANGED <<idOf, names, meta, mutes>>
      /\ pc[t] = "swap" /\ pc'[t] = "stamp" /\ Active(t)
  BY DEF Swap, Go, Ready, Others, Discipline, LockTypes, Active, Writing, Steps
<1>2. PICK i \in 1..Len(names) : i = idOf[job[t].author]
  BY <1>1, AuthorHasId
<1>3. PICK new : new = Ids(job[t].targets)
  OBVIOUS
<1>4. old[t] = follows[i] /\ DOMAIN follows = 1..Len(names)
  BY <1>1, <1>2 DEF Contents, Task, DataTypes, Nodes
<1>5. /\ follows' = [follows EXCEPT ![i] = new]
      /\ revision' = IF (new \ follows[i]) \cup (follows[i] \ new) # {} THEN revision + 1 ELSE revision
  BY <1>2, <1>3, <1>4 DEF Swap
<1>6. \/ revision' = revision + 1
      \/ /\ revision' = revision
         /\ \A k \in 1..Len(names) : follows'[k] = follows[k]
  <2>1. (new \ follows[i]) \cup (follows[i] \ new) = {} => new = follows[i]
    OBVIOUS
  <2> QED BY <1>4, <1>5, <2>1
<1>7. /\ \A k \in 1..Len(names) : meta[k] <= meta'[k]
      /\ \A k \in NodeId : mutes[k].version <= mutes'[k].version
  BY <1>1, NodeFacts
<1> QED BY <1>1, <1>6, <1>7, ListsShown

LEMMA StampShown ==
    ASSUME Discipline, Contents, Contents', Records, NEW t \in Thread, Stamp(t)
    PROVE  Shared!Update \/ Shared!Confirm
<1>1. /\ pc[t] = "stamp" /\ Return(t) /\ Active(t)
      /\ UNCHANGED <<idOf, names, follows, followers, mutes, revision>>
      /\ meta' = [meta EXCEPT ![idOf[job[t].author]] = job[t].version]
  BY DEF Stamp, Ready, Active, Writing, Steps
<1>2. Others(t) /\ pc'[t] = "idle"
  BY <1>1, ReturnOthers
<1>3. /\ job[t].do = "follow" /\ job[t].version \in Nat
      /\ Newer(job[t].version, meta[idOf[job[t].author]])
  BY <1>1, PassedCheck DEF VersionOf
<1>4. \A i \in 1..Len(names) : meta[i] <= meta'[i]
  <2>1. meta \in Seq(Nat) /\ Len(meta) = Len(names)
    BY DEF Contents, DataTypes, Nodes
  <2> QED BY <1>1, <1>3, <2>1 DEF Newer, None
<1>5. \A i \in NodeId : mutes[i].version <= mutes'[i].version
  BY <1>1, NodeFacts
<1> QED BY <1>1, <1>2, <1>4, <1>5, ListsShown

LEMMA StoreShown ==
    ASSUME Discipline, Contents, Contents', Records, NEW t \in Thread, Store(t)
    PROVE  Shared!Update \/ Shared!Confirm
<1>1. /\ pc[t] = "store" /\ Return(t) /\ Active(t)
      /\ UNCHANGED <<idOf, names, follows, followers, meta>> /\ revision' = revision + 1
      /\ mutes' = [mutes EXCEPT ![idOf[job[t].author]] =
                      [ids |-> Ids(job[t].targets), version |-> job[t].version]]
  BY DEF Store, Ready, Active, Writing, Steps
<1>2. Others(t) /\ pc'[t] = "idle"
  BY <1>1, ReturnOthers
<1>3. /\ job[t].do = "mute" /\ job[t].version \in Nat
      /\ Newer(job[t].version, mutes[idOf[job[t].author]].version)
  BY <1>1, PassedCheck DEF VersionOf
<1>4. \A i \in NodeId : mutes[i].version <= mutes'[i].version
  <2>1. mutes \in [NodeId -> [ids : SUBSET Nat, version : Nat]]
    BY DEF Contents, DataTypes
  <2> QED BY <1>1, <1>3, <2>1 DEF Newer, None
<1>5. \A i \in 1..Len(names) : meta[i] <= meta'[i]
  BY <1>1, NodeFacts
<1> QED BY <1>1, <1>2, <1>4, <1>5, ListsShown

LEMMA MergeShown ==
    ASSUME Discipline, Contents, Contents', NEW t \in Thread, Merge(t)
    PROVE  Shared!Update \/ Shared!Confirm
<1>1. /\ pc[t] = "merge" /\ Return(t) /\ Active(t) /\ UNCHANGED <<idOf, names>>
      /\ revision' = IF follows' = follows /\ mutes' = mutes THEN revision ELSE revision + 1
  BY DEF Merge, Ready, Active, Writing, Steps
<1>2. Others(t) /\ pc'[t] = "idle"
  BY <1>1, ReturnOthers
<1>3. ASSUME NEW i \in 1..Len(names) PROVE meta[i] <= meta'[i]
  <2>1. meta'[i] = IF Taken(t, "follow", i, meta[i]) = {} THEN meta[i]
                   ELSE Restored(t, "follow", i, meta[i]).version
    <3>1. meta \in Seq(Nat) /\ Len(meta) = Len(names)
      BY DEF Contents, DataTypes, Nodes
    <3>2. i \in DOMAIN meta
      BY <3>1
    <3> QED BY <3>2 DEF Merge
  <2>2. i \in Nat \ {0} /\ meta[i] \in Nat
    BY NodeFacts
  <2>3. Taken(t, "follow", i, meta[i]) # {} => meta[i] <= Restored(t, "follow", i, meta[i]).version
    BY <1>1, <2>2, RestoredFacts
  <2> QED BY <2>1, <2>2, <2>3
<1>4. ASSUME NEW i \in NodeId PROVE mutes[i].version <= mutes'[i].version
  <2>1. Taken(t, "mute", i, mutes[i].version) = {} => mutes'[i] = mutes[i]
    BY DEF Merge
  <2>2. Taken(t, "mute", i, mutes[i].version) # {} =>
            mutes'[i].version = Restored(t, "mute", i, mutes[i].version).version
    BY DEF Merge
  <2>3. i \in Nat \ {0} /\ mutes[i].version \in Nat
    BY NodeFacts, PubkeyAssumption, FS_CardinalityType DEF NodeId
  <2>4. Taken(t, "mute", i, mutes[i].version) # {} =>
            mutes[i].version <= Restored(t, "mute", i, mutes[i].version).version
    BY <1>1, <2>3, RestoredFacts
  <2> QED BY <2>1, <2>2, <2>3, <2>4
<1> QED BY <1>1, <1>2, <1>3, <1>4, ListsShown

\* Locks, lookups and the creation of a node before its id is published.
LEMMA QuietShown ==
    ASSUME Discipline, Contents, NEW t \in Thread,
           \/ Announce(t) \/ Exclude(t) \/ Share(t) \/ Found(t) \/ Create(t) \/ Push(t) \/ Created(t)
           \/ Accept(t) \/ Reject(t) \/ Clone(t) \/ Look(t) \/ Read(t) \/ Call(t)
    PROVE  UNCHANGED PublishedVars
<1>1. pc \in [Thread -> Steps] /\ after[t] \in {"idle", "check", "clone", "store", "merge"}
  BY DEF Discipline, LockTypes
<1>2. ASSUME pc' = pc \/ (pc[t] # "bump" /\ \E at : at # "bump" /\ pc' = [pc EXCEPT ![t] = at])
      PROVE  Uncounted' = Uncounted
  BY <1>1, <1>2 DEF Uncounted
<1>3. CASE Announce(t) \/ Exclude(t) \/ Share(t) \/ Found(t)
  BY <1>2, <1>3, NothingShown DEF Announce, Exclude, Share, Found, graph
<1>4. CASE Create(t) \/ Accept(t) \/ Reject(t) \/ Clone(t) \/ Look(t) \/ Read(t)
  <2>1. UNCHANGED graph
    BY <1>4 DEF Create, Accept, Reject, Clone, Look, Read, Answered
  <2>2. pc[t] # "bump" /\ \E at : at # "bump" /\ pc' = [pc EXCEPT ![t] = at]
    BY <1>4 DEF Create, Accept, Reject, Clone, Look, Read, Answered, Return, Go, Ready
  <2> QED BY <1>2, <2>1, <2>2, NothingShown DEF graph
<1>5. CASE Created(t)
  <2>1. UNCHANGED graph /\ pc[t] # "bump" /\ \E at : at # "bump" /\ pc' = [pc EXCEPT ![t] = at]
    BY <1>1, <1>5 DEF Created, Return, Go, Ready
  <2> QED BY <1>2, <2>1, NothingShown DEF graph
<1>6. CASE Call(t)
  <2>1. UNCHANGED graph
    BY <1>6 DEF Call, NodeKnown, Begin, Ask
  <2>2. pc' = pc \/ (pc[t] # "bump" /\ \E at : at # "bump" /\ pc' = [pc EXCEPT ![t] = at])
    BY <1>6 DEF Call, NodeKnown, Begin, Ask, Go
  <2> QED BY <1>2, <2>1, <2>2, NothingShown DEF graph
<1>7. CASE Push(t)
  <2>1. /\ UNCHANGED <<idOf, mutes, revision>> /\ pc[t] # "bump"
        /\ \E at : at # "bump" /\ pc' = [pc EXCEPT ![t] = at]
        /\ follows' = Append(follows, {}) /\ meta' = Append(meta, None)
    BY <1>7 DEF Push, Go, Ready
  <2>2. /\ follows \in Seq(SUBSET Nat) /\ meta \in Seq(Nat)
        /\ Len(follows) = Len(names) /\ Len(meta) = Len(names)
    BY DEF Contents, DataTypes, Nodes
  <2>3. \A i \in 1..Len(names) : follows'[i] = follows[i] /\ meta'[i] = meta[i]
    BY <2>1, <2>2, AppendFacts DEF None
  <2> QED BY <1>2, <2>1, <2>3, NothingShown
<1> QED BY <1>3, <1>4, <1>5, <1>6, <1>7

LEMMA PublishedInit == Init => Shared!Init
<1> SUFFICES ASSUME Init PROVE Shared!Init
  OBVIOUS
<1>1. Uncounted = FALSE
  BY DEF Init, Uncounted
<1>2. NodeLists = [k \in ListKind |-> [p \in Pubkey |-> {}]]
  BY DEF Init, NodeLists
<1>3. Versions = [k \in ListKind |-> [p \in Pubkey |-> 0]]
  BY DEF Init, Versions, None
<1> QED BY <1>1, <1>2, <1>3 DEF Init, Shared!Init

LEMMA PublishedStep ==
    Discipline /\ Contents /\ Contents' /\ Records /\ [Next]_vars => [Shared!Next]_(Shared!vars)
<1> SUFFICES ASSUME Discipline, Contents, Contents', Records, [Next]_vars
             PROVE  Shared!Next \/ UNCHANGED PublishedVars
  BY DEF Shared!vars, PublishedVars
<1>1. CASE UNCHANGED vars
  BY <1>1 DEF PublishedVars, NodeLists, Versions, Uncounted
<1>2. ASSUME NEW t \in Thread, Step(t) \/ Call(t) PROVE Shared!Next \/ UNCHANGED PublishedVars
  BY <1>2, PublishShown, BumpShown, SwapShown, StampShown, StoreShown, MergeShown, QuietShown, Zenon
     DEF Step, Shared!Next
<1> QED BY <1>1, <1>2 DEF Next

(* What a reader keeps stays good for the revision it read: ids never change, *)
(* and every change of a list is counted by the step that makes it, a new     *)
(* node by the step after.  No update takes a list's version back, although   *)
(* it is checked under one lock and applied under others.                     *)
THEOREM GraphImplementsPublished == Spec => ImplementsPublishedGraph
BY PublishedInit, PublishedStep, ContentsCorrect, RecordsCorrect, DisciplineInit, DisciplineStep, PTL
   DEF Spec, ImplementsPublishedGraph, Shared!Spec
===============================================================================
