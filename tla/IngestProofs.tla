---------------------------- MODULE IngestProofs ----------------------------
(***************************************************************************)
(* Proofs about Ingest, for any deliveries, ids and prefixes: the webhooks    *)
(* are writers of IncidentCache, and a delivery that was answered 201 is kept *)
(* and listed.                                                              *)
(***************************************************************************)
EXTENDS Ingest, CacheProofs

\* A delivery makes at most one incident.
LEMMA CreatesOne == ASSUME NEW d \in Delivery, NEW i \in Creates(d), NEW j \in Creates(d)
                    PROVE  i = j
  <1>1. Sent[d].to \in Tool
    BY DeliveryAssumption DEF Request
  <1>2. Creates(d) \in {{}, GenericId(Sent[d]), PagerDutyId(Sent[d]), OpsGenieId(Sent[d]),
                        AlertmanagerId(Sent[d])}
    BY <1>1 DEF Creates, Tool
  <1>3. QED
    BY <1>2 DEF GenericId, PagerDutyId, OpsGenieId, AlertmanagerId

\* A row that a delivery created is there, a promised one is its delivery's own, and
\* all a delivery still has to do is to invalidate the list.
Kept ==
    /\ \A i \in Incident : origin[i] # {} => db[i] # Absent
    /\ CreatedIsKept
    /\ \A d \in Delivery : todo[d] \in {<<>>, <<{All}>>}

IInv == CInv /\ IngestTypeOK /\ Kept /\ ListedOnceCreated

LEMMA InitIInv == IngestInit => IInv
  <1> SUFFICES ASSUME IngestInit
               PROVE  IInv
    OBVIOUS
  <1> USE DEF IngestInit
  <1>1. CInv
    BY InitCInv
  <1>2. IngestTypeOK
    BY <1>1 DEF IngestTypeOK, CInv
  <1>3. \A d \in Delivery : todo[d] = <<>>
    BY DeliveryAssumption DEF Init
  <1>4. Kept /\ ListedOnceCreated
    BY <1>3 DEF Kept, CreatedIsKept, ListedOnceCreated
  <1>5. QED
    BY <1>1, <1>2, <1>4 DEF IInv

\* Every step is one of IncidentCache.
LEMMA CacheShape ==
  ASSUME IngestNext
  PROVE  Next
  <1> USE IdAssumption, DeliveryAssumption, TriageAssumption
  <1>1. ASSUME NEW d \in Delivery, Deliver(d)
        PROVE  Next
    BY <1>1 DEF Deliver, Next, Write
  <1>2. ASSUME NEW d \in Delivery, Accept(d) \/ Orphan(d)
        PROVE  Next
    BY <1>2 DEF Accept, Orphan, Next, Finish
  <1>3. ASSUME NEW w \in Writer, UpdateRow(w) \/ DeleteRow(w) \/ FinishWrite(w)
        PROVE  Next
    BY <1>3 DEF UpdateRow, DeleteRow, FinishWrite, Next, Write
  <1>4. CASE Startup \/ Forget \/ \E c \in Reader : Get(c)
    BY <1>4 DEF Startup, Forget, Get, Next
  <1>5. QED
    BY <1>1, <1>2, <1>3, <1>4 DEF IngestNext

\* What invalidates, or fails to, leaves the table and shortens a queue.
LEMMA FinishShape ==
  ASSUME TypeOK, NEW w \in Writer, Finish(w)
  PROVE  /\ UNCHANGED db
         /\ \A u \in Writer : u # w => todo'[u] = todo[u]
         /\ todo[w] = <<{All}>> => todo'[w] = <<>>
         /\ cache'[All] = NoEntry \/ (cache'[All] = cache[All] /\ (All \in late \union lost => All \in late' \union lost'))
         /\ todo[w] = <<{All}>> => cache'[All] = NoEntry \/ All \in late' \union lost'
  <1> USE DEF TypeOK, history
  <1>0. All \in Key
    BY DEF Key
  <1>1. CASE Invalidate(w)
    BY <1>0, <1>1 DEF Invalidate, Drop
  <1>2. CASE InvalidateFails(w)
    BY <1>0, <1>2 DEF InvalidateFails
  <1>3. CASE Abandon(w)
    <2>1. /\ UNCHANGED <<db, cache, late>>
          /\ lost' = lost \union UNION {todo[w][n] : n \in DOMAIN todo[w]}
          /\ todo' = [todo EXCEPT ![w] = <<>>]
      BY <1>3 DEF Abandon
    <2>2. ASSUME todo[w] = <<{All}>>
          PROVE  All \in lost'
      <3>1. 1 \in DOMAIN todo[w] /\ All \in todo[w][1]
        BY <2>2
      <3>2. All \in UNION {todo[w][n] : n \in DOMAIN todo[w]}
        BY <3>1
      <3>3. QED
        BY <2>1, <3>2
    <2>3. QED
      BY <2>1, <2>2
  <1>4. QED
    BY <1>1, <1>2, <1>3 DEF Finish

\* The deliveries' own steps.
LEMMA DeliveryStep ==
  ASSUME IInv, NEW d \in Delivery, Deliver(d) \/ Accept(d) \/ Orphan(d)
  PROVE  IngestTypeOK' /\ Kept' /\ ListedOnceCreated'
  <1>0. CInv'
    <2>1. Next
      BY CacheShape DEF IngestNext
    <2>2. QED
      BY <2>1, CInvStep DEF IInv
  <1> USE IdAssumption, DeliveryAssumption DEF IInv, CInv
  <1>1. d \in Writer /\ \A e \in Delivery : e \in Writer
    OBVIOUS
  <1>2. CASE Deliver(d)
    <2>1. PICK i \in Creates(d) : Create(d, i, Triage) /\ origin' = [origin EXCEPT ![i] = {d}]
      BY <1>2 DEF Deliver
    <2>2. /\ i \in Incident /\ db[i] = Absent /\ db' = [db EXCEPT ![i] = Triage]
          /\ todo' = [todo EXCEPT ![d] = <<{All}>>]
          /\ UNCHANGED <<cache, late, lost, promised>>
          /\ Triage # Absent
      BY <1>2, <2>1, NameAssumption, TriageAssumption DEF Deliver, Create, history
    <2>3. IngestTypeOK'
      BY <1>0, <2>1, <2>2 DEF IngestTypeOK
    <2>4. \A j \in Incident : (j = i => db'[j] = Triage /\ origin'[j] = {d})
                             /\ (j # i => db'[j] = db[j] /\ origin'[j] = origin[j])
      BY <2>1, <2>2 DEF TypeOK, Table, IngestTypeOK
    <2>5. CreatedIsKept'
      <3> SUFFICES ASSUME NEW e \in promised
                   PROVE  \E j \in Creates(e) : db'[j] # Absent /\ origin'[j] = {e}
        BY <2>2 DEF CreatedIsKept
      <3>1. PICK j \in Creates(e) : db[j] # Absent /\ origin[j] = {e}
        BY DEF Kept, CreatedIsKept
      <3>2. j \in Incident /\ j # i
        BY <2>2, <3>1 DEF IngestTypeOK
      <3>3. QED
        BY <2>4, <3>1, <3>2
    <2>6. \A e \in Delivery : todo'[e] \in {<<>>, <<{All}>>}
      BY <2>2, <1>1 DEF Kept, TypeOK
    <2>7. Kept'
      BY <2>2, <2>4, <2>5, <2>6 DEF Kept
    <2>8. ListedOnceCreated'
      BY <2>2 DEF ListedOnceCreated
    <2>9. QED
      BY <2>3, <2>7, <2>8
  <1>3. CASE Accept(d) \/ Orphan(d)
    <2>1. Finish(d) /\ UNCHANGED origin /\ promised' \in {promised, promised \union Standing({d})}
      BY <1>3 DEF Accept, Orphan, Finish, ingestVars
    <2>2. /\ UNCHANGED db
          /\ \A u \in Writer : u # d => todo'[u] = todo[u]
          /\ todo[d] = <<{All}>> => todo'[d] = <<>>
          /\ cache'[All] = NoEntry \/ (cache'[All] = cache[All] /\ (All \in late \union lost => All \in late' \union lost'))
          /\ todo[d] = <<{All}>> => cache'[All] = NoEntry \/ All \in late' \union lost'
      BY <1>1, <2>1, FinishShape
    <2>3. todo[d] = <<{All}>>
      BY <1>3 DEF Kept, Accept, Orphan, Invalidate, InvalidateFails, Abandon
    <2>4. Standing({d}) \subseteq {d} /\ \A e \in Standing({d}) : \E i \in Creates(e) : origin[i] = {e}
      BY DEF Standing
    <2>5. IngestTypeOK'
      BY <1>0, <2>1, <2>4 DEF IngestTypeOK
    <2>6. CreatedIsKept'
      <3>1. ASSUME NEW e \in promised'
            PROVE  \E i \in Creates(e) : db[i] # Absent /\ origin[i] = {e}
        <4>1. CASE e \in promised
          BY <4>1 DEF Kept, CreatedIsKept
        <4>2. CASE e \in Standing({d})
          <5>1. PICK i \in Creates(e) : origin[i] = {e}
            BY <4>2, <2>4
          <5>2. i \in Incident /\ origin[i] # {}
            BY <5>1, <4>2, <2>4
          <5>3. QED
            BY <5>1, <5>2 DEF Kept
        <4>3. QED
          BY <3>1, <4>1, <4>2, <2>1
      <3>2. QED
        BY <3>1, <2>1, <2>2 DEF CreatedIsKept
    <2>7. Kept'
      BY <1>1, <2>1, <2>2, <2>3, <2>6 DEF Kept
    <2>8. ListedOnceCreated'
      BY <2>2, <2>3 DEF ListedOnceCreated
    <2>9. QED
      BY <2>5, <2>7, <2>8
  <1>4. QED
    BY <1>2, <1>3

\* The steps of the worker and of DELETE.
LEMMA WorkerStep ==
  ASSUME IInv, NEW w \in Writer \ Delivery, UpdateRow(w) \/ DeleteRow(w) \/ FinishWrite(w)
  PROVE  IngestTypeOK' /\ Kept' /\ ListedOnceCreated'
  <1>0. CInv'
    <2>1. Next
      BY CacheShape DEF IngestNext
    <2>2. QED
      BY <2>1, CInvStep DEF IInv
  <1> USE IdAssumption, DeliveryAssumption DEF IInv, CInv
  <1>1. w \in Writer /\ \A e \in Delivery : e \in Writer /\ e # w
    OBVIOUS
  <1>2. CASE UpdateRow(w)
    <2>1. PICK i \in Incident, v \in Content : Update(w, i, v)
      BY <1>2 DEF UpdateRow
    <2>2. /\ db' = [db EXCEPT ![i] = IF @ = Absent THEN Absent ELSE v]
          /\ todo' = [todo EXCEPT ![w] = <<{All, i}>>]
          /\ UNCHANGED <<cache, late, lost, origin, promised>>
          /\ v # Absent
      BY <1>2, <2>1, NameAssumption DEF UpdateRow, Update, history, ingestVars
    <2>3. \A j \in Incident : db[j] # Absent => db'[j] # Absent
      BY <2>2 DEF TypeOK, Table
    <2>4. \A e \in Delivery : todo'[e] = todo[e]
      BY <2>2, <1>1 DEF TypeOK
    <2>5. CreatedIsKept'
      BY <2>2, <2>3 DEF Kept, CreatedIsKept, IngestTypeOK
    <2>6. QED
      BY <1>0, <2>2, <2>3, <2>4, <2>5 DEF IngestTypeOK, Kept, ListedOnceCreated
  <1>3. CASE DeleteRow(w)
    <2>1. PICK i \in Incident : /\ Delete(w, i)
                               /\ origin' = [origin EXCEPT ![i] = {}]
                               /\ promised' = {d \in promised : i \notin Creates(d)}
      BY <1>3 DEF DeleteRow
    <2>2. /\ db' = [db EXCEPT ![i] = Absent]
          /\ todo' = [todo EXCEPT ![w] = <<{All}, {i}>>]
          /\ UNCHANGED <<cache, late, lost>>
      BY <2>1 DEF Delete, history
    <2>3. \A j \in Incident : j # i => db'[j] = db[j] /\ origin'[j] = origin[j]
      BY <2>1, <2>2 DEF TypeOK, Table, IngestTypeOK
    <2>4. origin'[i] = {} /\ origin' \in [Incident -> SUBSET Delivery]
      BY <2>1 DEF IngestTypeOK
    <2>5. \A e \in Delivery : todo'[e] = todo[e]
      BY <2>2, <1>1 DEF TypeOK
    <2>6. promised' \subseteq promised
      BY <2>1
    <2>7. CreatedIsKept'
      <3>1. ASSUME NEW e \in promised'
            PROVE  \E j \in Creates(e) : db'[j] # Absent /\ origin'[j] = {e}
        <4>1. PICK j \in Creates(e) : db[j] # Absent /\ origin[j] = {e}
          BY <3>1, <2>6 DEF Kept, CreatedIsKept
        <4>2. j # i /\ j \in Incident
          BY <3>1, <2>1, <4>1 DEF IngestTypeOK
        <4>3. QED
          BY <4>1, <4>2, <2>3
      <3>2. QED
        BY <3>1 DEF CreatedIsKept
    <2>8. IngestTypeOK'
      BY <1>0, <2>4, <2>6 DEF IngestTypeOK
    <2>9. \A j \in Incident : origin'[j] # {} => db'[j] # Absent
      BY <2>3, <2>4 DEF Kept
    <2>10. Kept'
      BY <2>5, <2>7, <2>9 DEF Kept
    <2>11. ListedOnceCreated'
      BY <2>2, <2>6 DEF ListedOnceCreated
    <2>12. QED
      BY <2>8, <2>10, <2>11
  <1>4. CASE FinishWrite(w)
    <2>1. Finish(w) /\ UNCHANGED <<origin, promised>>
      BY <1>4 DEF FinishWrite, ingestVars
    <2>2. /\ UNCHANGED db
          /\ \A u \in Writer : u # w => todo'[u] = todo[u]
          /\ cache'[All] = NoEntry \/ (cache'[All] = cache[All] /\ (All \in late \union lost => All \in late' \union lost'))
      BY <1>1, <2>1, FinishShape
    <2>3. CreatedIsKept'
      BY <2>1, <2>2 DEF Kept, CreatedIsKept
    <2>4. Kept'
      BY <1>1, <2>1, <2>2, <2>3 DEF Kept
    <2>5. ListedOnceCreated'
      BY <2>1, <2>2 DEF ListedOnceCreated
    <2>6. QED
      BY <1>0, <2>1, <2>4, <2>5 DEF IngestTypeOK
  <1>5. QED
    BY <1>2, <1>3, <1>4

\* The steps that are no writer's.
LEMMA OtherStep ==
  ASSUME IInv, Startup \/ Forget \/ \E c \in Reader : Get(c)
  PROVE  IngestTypeOK' /\ Kept' /\ ListedOnceCreated'
  <1>0. CInv'
    <2>1. Next
      BY CacheShape DEF IngestNext
    <2>2. QED
      BY <2>1, CInvStep DEF IInv
  <1> USE IdAssumption, DeliveryAssumption DEF IInv, CInv
  <1>1. UNCHANGED <<origin, promised, todo>>
    BY DEF Startup, Forget, Get, Seed, Expire, Read, Miss, Query, Fill, FillFails, ingestVars
  <1>2. \A j \in Incident : db[j] # Absent => db'[j] = db[j]
    <2>1. CASE Startup
      BY <2>1 DEF Startup, Seed, TypeOK, Table
    <2>2. CASE Forget \/ \E c \in Reader : Get(c)
      BY <2>2 DEF Forget, Get, Expire, Read, Miss, Query, Fill, FillFails
    <2>3. QED
      BY <2>1, <2>2
  <1>3. IngestTypeOK' /\ Kept'
    <2>1. CreatedIsKept'
      BY <1>1, <1>2 DEF Kept, CreatedIsKept, IngestTypeOK
    <2>2. QED
      BY <1>0, <1>1, <1>2, <2>1 DEF IngestTypeOK, Kept
  <1>4. All \in Key
    BY DEF Key
  <1> DEFINE ListStep ==
                \/ All \in late' \union lost'
                \/ cache'[All] = NoEntry
                \/ cache'[All] = cache[All] /\ (All \in late \union lost => All \in late' \union lost')
                \/ cache'[All] = db
  <1>5. ListStep
    <2>1. ASSUME NEW c \in Reader, Fill(c)
          PROVE  ListStep
      <3>1. reader[c].key \in Key
        BY DEF TypeOK
      <3>2. QED
        BY <2>1, <3>1, <1>4 DEF Fill, View, TypeOK
    <2>2. CASE Startup
      BY <2>2 DEF Startup, Seed
    <2>3. CASE Forget
      BY <2>3, <1>4 DEF Forget, Expire, Drop
    <2>4. CASE \E c \in Reader : Query(c) \/ FillFails(c) \/ \E k \in Key : Miss(c, k)
      BY <2>4 DEF Query, FillFails, Miss, history
    <2>5. QED
      BY <2>1, <2>2, <2>3, <2>4 DEF Get, Read
  <1>6. \A d \in promised : \A i \in Creates(d) : db[i] # Absent
    BY CreatesOne DEF Kept, CreatedIsKept, IngestTypeOK
  <1>9. ListedOnceCreated'
    BY <1>1, <1>5, <1>6 DEF ListedOnceCreated
  <1>10. QED
    BY <1>3, <1>9

\* IInv is an invariant.
THEOREM IngestInvariance == IngestSpec => []IInv
  <1>1. IngestInit => IInv
    BY InitIInv
  <1>2. IInv /\ [IngestNext]_ivars => IInv'
    <2> SUFFICES ASSUME IInv, [IngestNext]_ivars
                 PROVE  IInv'
      OBVIOUS
    <2>1. CASE IngestNext
      <3>1. CInv'
        BY <2>1, CacheShape, CInvStep DEF IInv
      <3>2. IngestTypeOK' /\ Kept' /\ ListedOnceCreated'
        BY <2>1, DeliveryStep, WorkerStep, OtherStep DEF IngestNext
      <3>3. QED
        BY <3>1, <3>2 DEF IInv
    <2>2. CASE UNCHANGED ivars
      <3>1. UNCHANGED vars /\ UNCHANGED <<db, cache, todo, late, lost, origin, promised>>
        BY <2>2 DEF ivars, vars, ingestVars, history
      <3>2. CInv'
        BY <3>1, CInvStep DEF IInv
      <3>3. QED
        BY <3>1, <3>2 DEF IInv, CInv, IngestTypeOK, Kept, CreatedIsKept, ListedOnceCreated
    <2>3. QED
      BY <2>1, <2>2
  <1>3. QED
    BY <1>1, <1>2, PTL DEF IngestSpec

-----------------------------------------------------------------------------

\* The types of the cache, and of who created what.
THEOREM IngestTypeCorrect == IngestSpec => []IngestTypeOK
  <1>1. IInv => IngestTypeOK
    BY DEF IInv
  <1>2. QED
    BY <1>1, IngestInvariance, PTL

\* The webhooks, the worker and DELETE are writers of IncidentCache: what CacheProofs
\* shows of the cache holds whatever is delivered.
THEOREM WebhooksAreWriters == IngestSpec => Spec
  <1>1. IngestInit => Init
    BY DEF IngestInit
  <1>2. [IngestNext]_ivars => [Next]_vars
    BY CacheShape DEF ivars
  <1>3. QED
    BY <1>1, <1>2, PTL DEF IngestSpec, Spec

\* A delivery that was answered 201 is neither overwritten by a repetition nor by an
\* alert whose id has the same beginning.
THEOREM CreatedKept == IngestSpec => []CreatedIsKept
  <1>1. IInv => CreatedIsKept
    BY DEF IInv, Kept
  <1>2. QED
    BY <1>1, IngestInvariance, PTL

\* From its 201 on the incident is listed, but for lost invalidations and late fills.
THEOREM CreatedListed == IngestSpec => []ListedOnceCreated
  <1>1. IInv => ListedOnceCreated
    BY DEF IInv
  <1>2. QED
    BY <1>1, IngestInvariance, PTL

\* Two alerts that both got a 201 have two incidents, for as long as these are there: of
\* alerts whose ids have the same eight characters no more than one is ever answered 201
\* before somebody deletes its incident.
OneIncidentEach ==
    \A d, e \in promised : Creates(d) \intersect Creates(e) # {} => d = e

\* No two alerts are told that they have the incident that only one of them has.
THEOREM NoSharedIncident == IngestSpec => []OneIncidentEach
  <1>1. IInv => OneIncidentEach
    <2> SUFFICES ASSUME IInv, NEW d \in promised, NEW e \in promised,
                        NEW i \in Creates(d) \intersect Creates(e)
                 PROVE  d = e
      BY DEF OneIncidentEach
    <2>1. d \in Delivery /\ e \in Delivery
      BY DEF IInv, IngestTypeOK
    <2>2. PICK j \in Creates(d) : origin[j] = {d}
      BY DEF IInv, Kept, CreatedIsKept
    <2>3. PICK k \in Creates(e) : origin[k] = {e}
      BY DEF IInv, Kept, CreatedIsKept
    <2>4. j = i /\ k = i
      BY <2>1, CreatesOne
    <2>5. QED
      BY <2>2, <2>3, <2>4
  <1>2. QED
    BY <1>1, IngestInvariance, PTL

=============================================================================
