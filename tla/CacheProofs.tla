----------------------------- MODULE CacheProofs -----------------------------
(***************************************************************************)
(* Proofs about IncidentCache, for any incidents, any contents and any       *)
(* number of readers and writers.                                           *)
(***************************************************************************)
EXTENDS IncidentCache, TLAPS

\* The keys that writer w is still going to delete.
Pending(w) == UNION {todo[w][n] : n \in DOMAIN todo[w]}

\* Some writer is still going to delete the entry of key k.
Awaited(k) == \E w \in Writer : \E n \in DOMAIN todo[w] : k \in todo[w][n]

\* What the steps preserve together.
CInv == TypeOK /\ StaleExplained

LEMMA EntryType ==
    /\ \A k \in Key : Entry(k) \in SUBSET AnyEntry
    /\ \A k \in Key : NoEntry \in Entry(k)
BY DEF AnyEntry, Entry

\* A query that finds something returns an entry that can be cached.
LEMMA ViewType ==
    ASSUME TypeOK, NEW k \in Key, Found(k)
    PROVE  View(k) \in Entry(k)
<1>1. CASE k = All
  BY <1>1 DEF View, Entry, TypeOK
<1>2. CASE k # All
  <2>1. k \in Incident /\ db[k] \in Content
    BY <1>2 DEF Key, TypeOK, Table, Found
  <2>2. [i \in {k} |-> db[i]] \in [{k} -> Content]
    BY <2>1
  <2> QED
    BY <2>1, <2>2, <1>2 DEF View, Entry
<1> QED
  BY <1>1, <1>2

LEMMA InitCInv == Init => CInv
BY EntryType DEF Init, CInv, TypeOK, StaleExplained, Stale, Idle, Key

\* A commit on incident i changes no view but those of the list and of i.
LEMMA ViewKept ==
    ASSUME TypeOK, NEW i \in Incident, NEW v, db' = [db EXCEPT ![i] = v],
           NEW k \in Key, k # All, k # i
    PROVE  View(k)' = View(k)
BY DEF View, TypeOK, Table, Key

-----------------------------------------------------------------------------
(* The requests *)

LEMMA ReadType == ASSUME TypeOK, NEW c \in Reader, Read(c) PROVE TypeOK'
<1> USE EntryType DEF TypeOK, history, Idle
<1>0. All \in Key
  BY DEF Key
<1>1. CASE Query(c)
  <2> DEFINE k == reader[c].key
  <2>1. k \in Key
    OBVIOUS
  <2>2. CASE Found(k) /\ reader' = [reader EXCEPT ![c] =
                            [at |-> "fill", key |-> k, data |-> View(k)]]
    <3>1. View(k) \in Entry(k)
      BY <2>1, <2>2, ViewType
    <3> QED
      BY <1>1, <2>1, <2>2, <3>1 DEF Query
  <2>3. CASE reader' = [reader EXCEPT ![c] = Idle]
    BY <1>0, <1>1, <2>3 DEF Query
  <2> QED
    BY <1>1, <2>2, <2>3 DEF Query
<1>2. CASE Fill(c)
  BY <1>0, <1>2 DEF Fill
<1>3. CASE FillFails(c)
  BY <1>0, <1>3 DEF FillFails
<1> QED
  BY <1>1, <1>2, <1>3 DEF Read

\* A fill with what the query returned is right, or it is recorded as late.
LEMMA ReadExplained ==
    ASSUME CInv, NEW c \in Reader, Read(c)
    PROVE  StaleExplained'
<1> USE DEF CInv, TypeOK, StaleExplained, Stale, history
<1>1. CASE Query(c)
  BY <1>1 DEF Query, View
<1>2. CASE Fill(c)
  <2> SUFFICES ASSUME NEW k \in Key, Stale(k)'
               PROVE  (\/ k \in late
                       \/ k \in lost
                       \/ \E w \in Writer : \E n \in DOMAIN todo[w] : k \in todo[w][n])'
    OBVIOUS
  <2>1. View(k)' = View(k)
    BY <1>2 DEF Fill, View
  <2>2. CASE k = reader[c].key
    BY <1>2, <2>1, <2>2 DEF Fill
  <2>3. CASE k # reader[c].key
    <3>1. cache'[k] = cache[k]
      BY <1>2, <2>3 DEF Fill
    <3> QED
      BY <1>2, <2>1, <2>3, <3>1 DEF Fill
  <2> QED
    BY <2>2, <2>3
<1>3. CASE FillFails(c)
  BY <1>3 DEF FillFails, View
<1> QED
  BY <1>1, <1>2, <1>3 DEF Read

LEMMA MissInv ==
    ASSUME CInv, NEW c \in Reader, NEW k \in Key, Miss(c, k)
    PROVE  CInv'
BY EntryType DEF Miss, CInv, TypeOK, StaleExplained, Stale, View, history

-----------------------------------------------------------------------------
(* The writers *)

LEMMA WriteType == ASSUME TypeOK, NEW w \in Writer, Write(w) PROVE TypeOK'
<1> USE DEF TypeOK, Table, history, Key
<1>1. ASSUME NEW i \in Incident, NEW v \in Content, Create(w, i, v)
      PROVE  TypeOK'
  <2>1. <<{All}>> \in Seq(SUBSET Key)
    OBVIOUS
  <2> QED
    BY <1>1, <2>1 DEF Create
<1>2. ASSUME NEW i \in Incident, NEW v \in Content, Update(w, i, v)
      PROVE  TypeOK'
  <2>1. <<{All, i}>> \in Seq(SUBSET Key)
    OBVIOUS
  <2> QED
    BY <1>2, <2>1 DEF Update
<1>3. ASSUME NEW i \in Incident, Delete(w, i)
      PROVE  TypeOK'
  <2>1. <<{All}, {i}>> \in Seq(SUBSET Key)
    OBVIOUS
  <2> QED
    BY <1>3, <2>1 DEF Delete
<1> QED
  BY <1>1, <1>2, <1>3 DEF Write

\* A commit on incident i by a writer that has nothing else to delete is explained
\* by the keys it puts on its list.
LEMMA CommitExplained ==
    ASSUME CInv, NEW w \in Writer, todo[w] = <<>>, NEW i \in Incident, NEW v,
           db' = [db EXCEPT ![i] = v], NEW t, todo' = [todo EXCEPT ![w] = t],
           UNCHANGED <<cache, reader, late, lost>>,
           \E n \in DOMAIN t : All \in t[n],
           (\E n \in DOMAIN t : i \in t[n]) \/ db[i] = Absent
    PROVE  StaleExplained'
<1> SUFFICES ASSUME NEW k \in Key, Stale(k)'
             PROVE  k \in late' \/ k \in lost' \/ Awaited(k)'
  BY DEF StaleExplained, Awaited
<1>0. todo'[w] = t /\ \A x \in Writer \ {w} : todo'[x] = todo[x]
  BY DEF CInv, TypeOK
<1>1. ASSUME Stale(k)
      PROVE  k \in late' \/ k \in lost' \/ Awaited(k)'
  <2>1. \A n : n \notin DOMAIN todo[w]
    OBVIOUS
  <2> QED
    BY <1>0, <1>1, <2>1 DEF CInv, StaleExplained, Awaited
<1>2. CASE k = All
  BY <1>0, <1>2 DEF Awaited
<1>3. CASE k = i /\ \E n \in DOMAIN t : i \in t[n]
  BY <1>0, <1>3 DEF Awaited
<1>4. CASE k = i /\ k # All /\ db[i] = Absent
  <2>1. cache[i] \in [{i} -> Content]
    BY <1>4 DEF Stale, CInv, TypeOK, Entry
  <2>2. cache[i][i] # Absent
    BY <2>1, NameAssumption
  <2>3. View(i)[i] = Absent
    BY <1>4 DEF View
  <2>4. Stale(k)
    BY <1>4, <2>2, <2>3 DEF Stale
  <2> QED
    BY <1>1, <2>4
<1>5. CASE k # All /\ k # i
  <2>1. View(k)' = View(k)
    BY <1>5, ViewKept DEF CInv
  <2>2. Stale(k)
    BY <2>1 DEF Stale
  <2> QED
    BY <1>1, <2>2
<1> QED
  BY <1>2, <1>3, <1>4, <1>5

\* Each of the three writers is such a commit.
LEMMA WriteExplained ==
    ASSUME CInv, NEW w \in Writer, Write(w)
    PROVE  StaleExplained'
<1>1. ASSUME NEW i \in Incident, NEW v \in Content, Create(w, i, v)
      PROVE  StaleExplained'
  <2>1. \E n \in DOMAIN <<{All}>> : All \in <<{All}>>[n]
    OBVIOUS
  <2> QED
    BY <1>1, <2>1, CommitExplained DEF Create, history
<1>2. ASSUME NEW i \in Incident, NEW v \in Content, Update(w, i, v)
      PROVE  StaleExplained'
  <2>1. /\ \E n \in DOMAIN <<{All, i}>> : All \in <<{All, i}>>[n]
        /\ \E n \in DOMAIN <<{All, i}>> : i \in <<{All, i}>>[n]
    OBVIOUS
  <2>2. db' = [db EXCEPT ![i] = IF db[i] = Absent THEN Absent ELSE v]
    BY <1>2 DEF Update
  <2> QED
    BY <1>2, <2>1, <2>2, CommitExplained DEF Update, history
<1>3. ASSUME NEW i \in Incident, Delete(w, i)
      PROVE  StaleExplained'
  <2>1. /\ \E n \in DOMAIN <<{All}, {i}>> : All \in <<{All}, {i}>>[n]
        /\ \E n \in DOMAIN <<{All}, {i}>> : i \in <<{All}, {i}>>[n]
    OBVIOUS
  <2> QED
    BY <1>3, <2>1, CommitExplained DEF Delete, history
<1> QED
  BY <1>1, <1>2, <1>3 DEF Write

\* Seeding makes the list stale, which is recorded, and no entry of an incident: there
\* was none that a query could have found.
LEMMA SeedInv ==
    ASSUME CInv, NEW i \in Incident, NEW v \in Content, Seed(i, v)
    PROVE  CInv'
<1>1. TypeOK'
  BY DEF CInv, TypeOK, Table, Seed, Key
<1>2. ASSUME NEW k \in Key, Stale(k)'
      PROVE  k \in late' \/ k \in lost' \/ Awaited(k)'
  <2>0. UNCHANGED <<cache, todo, late>> /\ lost' = lost \union {All} /\ db[i] = Absent
    BY DEF Seed
  <2>1. CASE k = All
    BY <2>0, <2>1
  <2>2. CASE k # All
    <3>1. Stale(k)
      <4>1. CASE k = i
        <5>1. cache[i] \in [{i} -> Content]
          BY <1>2, <2>0, <2>2, <4>1 DEF Stale, CInv, TypeOK, Entry
        <5>2. cache[i][i] # Absent
          BY <5>1, NameAssumption
        <5>3. View(i)[i] = Absent
          BY <2>0, <2>2, <4>1 DEF View
        <5> QED
          BY <1>2, <2>0, <4>1, <5>2, <5>3 DEF Stale
      <4>2. CASE k # i
        <5>1. View(k)' = View(k)
          BY <2>2, <4>2, ViewKept DEF CInv, Seed
        <5> QED
          BY <1>2, <2>0, <5>1 DEF Stale
      <4> QED
        BY <4>1, <4>2
    <3> QED
      BY <2>0, <3>1 DEF CInv, StaleExplained, Awaited
  <2> QED
    BY <2>1, <2>2
<1> QED
  BY <1>1, <1>2 DEF CInv, StaleExplained, Awaited

-----------------------------------------------------------------------------
(* The invalidations and the TTL *)

\* Forgetting entries falsifies nothing.
LEMMA DropType ==
    ASSUME TypeOK, NEW K, Drop(K)
    PROVE  /\ cache' \in [Key -> AnyEntry]
           /\ \A k \in Key : cache'[k] \in Entry(k)
           /\ late' \in SUBSET Key
           /\ lost' \in SUBSET Key
BY EntryType DEF Drop, TypeOK

LEMMA FinishType == ASSUME TypeOK, NEW w \in Writer, Finish(w) PROVE TypeOK'
<1>0. todo[w] \in Seq(SUBSET Key)
  BY DEF TypeOK
<1>1. CASE Invalidate(w)
  <2>1. Tail(todo[w]) \in Seq(SUBSET Key)
    BY <1>0, <1>1 DEF Invalidate
  <2> QED
    BY <1>1, <2>1, DropType DEF Invalidate, TypeOK
<1>2. CASE InvalidateFails(w)
  <2>1. Tail(todo[w]) \in Seq(SUBSET Key) /\ Head(todo[w]) \in SUBSET Key
    BY <1>0, <1>2 DEF InvalidateFails
  <2> QED
    BY <1>2, <2>1 DEF InvalidateFails, TypeOK
<1>3. CASE Abandon(w)
  <2>1. \A n \in DOMAIN todo[w] : todo[w][n] \in SUBSET Key
    BY <1>0
  <2>2. UNION {todo[w][n] : n \in DOMAIN todo[w]} \in SUBSET Key
    BY <2>1
  <2>3. <<>> \in Seq(SUBSET Key)
    OBVIOUS
  <2> QED
    BY <1>3, <2>2, <2>3 DEF Abandon, TypeOK
<1> QED
  BY <1>1, <1>2, <1>3 DEF Finish

\* What a writer deletes last is still on its list when it has done the first DEL.
LEMMA TailAwaited ==
    ASSUME NEW w \in Writer, todo[w] \in Seq(SUBSET Key), todo[w] # <<>>,
           todo'[w] = Tail(todo[w]), \A x \in Writer \ {w} : todo'[x] = todo[x],
           NEW k \in Key, k \notin todo[w][1], Awaited(k)
    PROVE  Awaited(k)'
<1>1. PICK x \in Writer : \E n \in DOMAIN todo[x] : k \in todo[x][n]
  BY DEF Awaited
<1>2. CASE x # w
  BY <1>1, <1>2 DEF Awaited
<1>3. CASE x = w
  <2>1. PICK n \in DOMAIN todo[w] : k \in todo[w][n]
    BY <1>1, <1>3
  <2>2. /\ n \in Nat /\ n > 1 /\ n <= Len(todo[w])
    BY <2>1
  <2>3. Len(Tail(todo[w])) = Len(todo[w]) - 1 /\ Tail(todo[w]) \in Seq(SUBSET Key)
    OBVIOUS
  <2>4. n - 1 \in DOMAIN Tail(todo[w]) /\ Tail(todo[w])[n - 1] = todo[w][n]
    BY <2>2, <2>3
  <2> QED
    BY <2>1, <2>4 DEF Awaited
<1> QED
  BY <1>2, <1>3

\* A key leaves a writer's list when its entry is gone or recorded as lost.
LEMMA FinishExplained ==
    ASSUME CInv, NEW w \in Writer, Finish(w)
    PROVE  StaleExplained'
<1> SUFFICES ASSUME NEW k \in Key, Stale(k)'
             PROVE  k \in late' \/ k \in lost' \/ Awaited(k)'
  BY DEF StaleExplained, Awaited
<1>0. /\ todo[w] \in Seq(SUBSET Key) /\ todo[w] # <<>>
      /\ \A x \in Writer \ {w} : todo'[x] = todo[x]
      /\ View(k)' = View(k)
  BY DEF CInv, TypeOK, Finish, Invalidate, InvalidateFails, Abandon, View
<1>1. Stale(k) /\ (cache'[k] = cache[k])
  BY <1>0 DEF Stale, Finish, Invalidate, InvalidateFails, Abandon, Drop
<1>2. k \in late \/ k \in lost \/ Awaited(k)
  BY <1>1 DEF CInv, StaleExplained, Awaited
<1>5. CASE Invalidate(w)
  <2>1. k \notin todo[w][1]
    BY <1>0, <1>5 DEF Invalidate, Drop, Stale
  <2>2. k \in late => k \in late'
    BY <1>0, <1>5, <2>1 DEF Invalidate, Drop
  <2>3. k \in lost => k \in lost'
    BY <1>0, <1>5, <2>1 DEF Invalidate, Drop
  <2>4. todo'[w] = Tail(todo[w])
    BY <1>5 DEF Invalidate, CInv, TypeOK
  <2>5. Awaited(k) => Awaited(k)'
    BY <1>0, <2>1, <2>4, TailAwaited
  <2> QED
    BY <1>2, <2>2, <2>3, <2>5
<1>6. CASE InvalidateFails(w)
  <2>1. todo'[w] = Tail(todo[w])
    BY <1>6 DEF InvalidateFails, CInv, TypeOK
  <2>2. CASE k \in todo[w][1]
    BY <1>0, <1>6, <2>2 DEF InvalidateFails
  <2>3. CASE k \notin todo[w][1]
    <3>1. Awaited(k) => Awaited(k)'
      BY <1>0, <2>1, <2>3, TailAwaited
    <3> QED
      BY <1>2, <1>6, <3>1 DEF InvalidateFails
  <2> QED
    BY <2>2, <2>3
<1>7. CASE Abandon(w)
  <2>1. CASE \E n \in DOMAIN todo[w] : k \in todo[w][n]
    BY <1>7, <2>1 DEF Abandon
  <2>2. CASE ~\E n \in DOMAIN todo[w] : k \in todo[w][n]
    <3>1. Awaited(k) => Awaited(k)'
      BY <1>0, <2>2 DEF Awaited
    <3> QED
      BY <1>2, <1>7, <3>1 DEF Abandon
  <2> QED
    BY <2>1, <2>2
<1> QED
  BY <1>5, <1>6, <1>7 DEF Finish

LEMMA ExpireInv ==
    ASSUME CInv, NEW k \in Key, Expire(k)
    PROVE  CInv'
<1>1. TypeOK'
  BY DropType DEF CInv, TypeOK, Expire
<1>2. StaleExplained'
  BY DEF CInv, TypeOK, StaleExplained, Stale, View, Expire, Drop
<1> QED
  BY <1>1, <1>2 DEF CInv

-----------------------------------------------------------------------------

\* Every step preserves the invariant.
LEMMA CInvStep == ASSUME CInv, [Next]_vars PROVE CInv'
<1>1. ASSUME NEW c \in Reader, Read(c) PROVE CInv'
  BY <1>1, ReadType, ReadExplained DEF CInv
<1>2. ASSUME NEW c \in Reader, NEW k \in Key, Miss(c, k) PROVE CInv'
  BY <1>2, MissInv
<1>3. ASSUME NEW w \in Writer, Write(w) PROVE CInv'
  BY <1>3, WriteType, WriteExplained DEF CInv
<1>4. ASSUME NEW w \in Writer, Finish(w) PROVE CInv'
  BY <1>4, FinishType, FinishExplained DEF CInv
<1>5. ASSUME NEW k \in Key, Expire(k) PROVE CInv'
  BY <1>5, ExpireInv
<1>6. ASSUME NEW i \in Incident, NEW v \in Content, Seed(i, v) PROVE CInv'
  BY <1>6, SeedInv
<1>7. CASE UNCHANGED vars
  BY <1>7 DEF vars, CInv, TypeOK, StaleExplained, Stale, View
<1> QED
  BY <1>1, <1>2, <1>3, <1>4, <1>5, <1>6, <1>7 DEF Next

LEMMA Invariance == Spec => []CInv
<1>1. Init => CInv
  BY InitCInv
<1>2. CInv /\ [Next]_vars => CInv'
  BY CInvStep
<1> QED
  BY <1>1, <1>2, PTL DEF Spec

\* The table, the cache and the requests keep their types: the entry of a key is
\* always the answer of that key's own query.
THEOREM TypeCorrect == Spec => []TypeOK
BY Invariance, PTL DEF CInv

\* Commit first, delete afterwards, on every key the commit can falsify: a stale
\* entry has a writer that will still delete it, or its deletion was lost or never
\* made, or a read was overtaken by the write.
THEOREM StaleIsExplained == Spec => []StaleExplained
BY Invariance, PTL DEF CInv

-----------------------------------------------------------------------------
(* The entry of one incident *)

OnlyListLost == lost \subseteq {All}

LEMMA OnlyListLostStep ==
    ASSUME ~CallsMayFail, OnlyListLost, [Next]_vars
    PROVE  OnlyListLost'
BY DEF OnlyListLost, Next, Read, Query, Fill, FillFails, Miss, Write, Create, Update, Delete,
       Finish, Invalidate, InvalidateFails, Abandon, Drop, Seed, Expire, history, vars

\* While Redis and the database answer, seeding is no danger to the entry of an incident:
\* it is out of date only when its writer is about to delete it, or when the read that
\* filled it was overtaken.
THEOREM OwnEntryIsExplained ==
    ASSUME ~CallsMayFail
    PROVE  Spec => [](\A i \in Incident : Stale(i) => i \in late \/ Awaited(i))
<1>1. Init => OnlyListLost
  BY DEF Init, OnlyListLost
<1>2. OnlyListLost /\ [Next]_vars => OnlyListLost'
  BY OnlyListLostStep
<1>3. OnlyListLost /\ StaleExplained =>
         \A i \in Incident : Stale(i) => i \in late \/ Awaited(i)
  BY NameAssumption DEF OnlyListLost, StaleExplained, Awaited, Key
<1> QED
  BY <1>1, <1>2, <1>3, StaleIsExplained, PTL DEF Spec

-----------------------------------------------------------------------------
(* When nobody writes *)

\* A request is about to store what is not in the database any more.
Outdated(c) == reader[c].at = "fill" /\ reader[c].data # View(reader[c].key)

Quiet ==
    /\ \A w \in Writer : ~Write(w)
    /\ \A i \in Incident, v \in Content : ~Seed(i, v)

\* No request becomes outdated, and an entry becomes stale only when an outdated
\* request stores it and is outdated no more.
Heals ==
    Quiet =>
        /\ \A c \in Reader : Outdated(c)' => Outdated(c)
        /\ \A k \in Key : Stale(k)' => \/ Stale(k)
                                       \/ \E c \in Reader : /\ Outdated(c) /\ reader[c].key = k
                                                            /\ ~Outdated(c)'

LEMMA QuietViews ==
    ASSUME [Next]_vars, Quiet
    PROVE  \A k : View(k)' = View(k)
BY DEF Next, Quiet, Read, Query, Fill, FillFails, Miss, Finish, Invalidate, InvalidateFails,
       Abandon, Expire, View, vars

\* A request that comes to its fill in such a step was just given what the database
\* holds, and those that wait there do not see it change.
LEMMA NoNewOutdated ==
    ASSUME TypeOK, Next, Quiet, NEW c \in Reader, Outdated(c)'
    PROVE  Outdated(c)
<1>0. \A k : View(k)' = View(k)
  BY QuietViews
<1>1. CASE reader'[c] = reader[c]
  BY <1>0, <1>1 DEF Outdated
<1>2. CASE Query(c)
  BY <1>0, <1>2 DEF Query, Outdated, TypeOK, Idle
<1>3. CASE Fill(c) \/ FillFails(c) \/ \E k \in Key : Miss(c, k)
  BY <1>3 DEF Fill, FillFails, Miss, Outdated, TypeOK, Idle
<1>4. ASSUME NEW d \in Reader, d # c, Read(d) \/ \E k \in Key : Miss(d, k)
      PROVE  reader'[c] = reader[c]
  BY <1>4 DEF Read, Query, Fill, FillFails, Miss, TypeOK
<1>5. (\E w \in Writer : Finish(w)) \/ (\E k \in Key : Expire(k)) => reader' = reader
  BY DEF Finish, Invalidate, InvalidateFails, Abandon, Expire
<1> QED
  BY <1>1, <1>2, <1>3, <1>4, <1>5 DEF Next, Quiet, Read

LEMMA StaleByFill ==
    ASSUME TypeOK, Next, Quiet, NEW k \in Key, Stale(k)', ~Stale(k)
    PROVE  \E c \in Reader : Outdated(c) /\ reader[c].key = k /\ ~Outdated(c)'
<1>0. View(k)' = View(k)
  BY QuietViews
<1>1. cache'[k] # cache[k] /\ cache'[k] # NoEntry
  BY <1>0 DEF Stale
<1>2. ASSUME NEW c \in Reader, Fill(c)
      PROVE  Outdated(c) /\ reader[c].key = k /\ ~Outdated(c)'
  <2>1. reader[c].key = k
    BY <1>1, <1>2 DEF Fill, TypeOK
  <2>2. cache'[k] = reader[c].data
    BY <1>2, <2>1 DEF Fill, TypeOK
  <2>3. reader'[c].at = "idle"
    BY <1>2 DEF Fill, TypeOK, Idle
  <2> QED
    BY <1>0, <1>2, <2>1, <2>2, <2>3 DEF Fill, Stale, Outdated
<1>3. ASSUME NEW c \in Reader, Query(c) \/ FillFails(c) \/ \E l \in Key : Miss(c, l)
      PROVE  cache' = cache
  BY <1>3 DEF Query, FillFails, Miss
<1>4. ASSUME NEW w \in Writer, Finish(w)
      PROVE  cache'[k] \in {cache[k], NoEntry}
  BY <1>4 DEF Finish, Invalidate, InvalidateFails, Abandon, Drop
<1>5. ASSUME NEW l \in Key, Expire(l)
      PROVE  cache'[k] \in {cache[k], NoEntry}
  BY <1>5 DEF Expire, Drop
<1> QED
  BY <1>1, <1>2, <1>3, <1>4, <1>5 DEF Next, Quiet, Read

\* Without writes the cache can only get better: each time that an entry becomes stale
\* one of the requests that a write had overtaken is used up, and no new ones appear.
\* So EventuallyFresh is left with nothing but the expiry of the last of them.
THEOREM CacheHeals == Spec => [][Heals]_vars
<1>1. TypeOK /\ [Next]_vars => [Heals]_vars
  <2> SUFFICES ASSUME TypeOK, Next, Quiet
               PROVE  /\ \A c \in Reader : Outdated(c)' => Outdated(c)
                      /\ \A k \in Key : Stale(k)' => \/ Stale(k)
                                                     \/ \E c \in Reader :
                                                           /\ Outdated(c)
                                                           /\ reader[c].key = k
                                                           /\ ~Outdated(c)'
    BY DEF Heals
  <2> QED
    BY NoNewOutdated, StaleByFill
<1> QED
  BY <1>1, TypeCorrect, PTL DEF Spec

=============================================================================
