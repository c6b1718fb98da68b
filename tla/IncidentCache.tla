---------------------------- MODULE IncidentCache ----------------------------
(***************************************************************************)
(* The cache-aside reads of incidents (routers/incidents.py, cache.py) and   *)
(* the three writers that invalidate them: a webhook that creates an         *)
(* incident, the worker that updates one, and DELETE; and the seeding at     *)
(* startup (main.py), which does not.  A read is a cache miss, a query and a *)
(* fill with awaits in between; a write is a commit and then one or two      *)
(* deletions of cache keys, each of which swallows errors.                   *)
(***************************************************************************)
EXTENDS Integers, Sequences

CONSTANTS
    Incident,        \* incident ids
    Content,         \* what an incident row can say
    Reader,          \* GET requests under way
    Writer,          \* webhooks, DELETE requests and worker executions
    CallsMayFail     \* may Redis or the database raise, or a writer be lost?

Absent == "absent"
All == "incidents:all"

ASSUME NameAssumption == All \notin Incident /\ Absent \notin Content
ASSUME SwitchAssumption == CallsMayFail \in BOOLEAN

VARIABLES
    db,          \* the incidents table: the committed content of each row
    cache,       \* Redis: the entry of each key, NoEntry if there is none
    reader,      \* progress of the GET requests
    todo,        \* the keys a writer still deletes, one set per DEL
    late,        \* history: entries that were out of date when stored
    lost         \* history: entries whose invalidation was lost or never made

vars == <<db, cache, reader, todo, late, lost>>
history == <<late, lost>>

\* incident:{id} for every incident, and incidents:all.
Key == Incident \union {All}

\* What the query behind key k returns now.
View(k) == IF k = All THEN db ELSE [i \in {k} |-> db[i]]

Table == [Incident -> Content \union {Absent}]
NoEntry == [i \in {} |-> Absent]
Entry(k) == {NoEntry} \union (IF k = All THEN Table ELSE [{k} -> Content])
AnyEntry == UNION {Entry(k) : k \in Key}

\* Does the query find something to cache?  A list does, even an empty one.
Found(k) == k # All => db[k] # Absent

Idle == [at |-> "idle", key |-> All, data |-> NoEntry]

TypeOK ==
    /\ db \in Table
    /\ cache \in [Key -> AnyEntry]
    /\ \A k \in Key : cache[k] \in Entry(k)
    /\ reader \in [Reader -> [at : {"idle", "miss", "fill"}, key : Key, data : AnyEntry]]
    /\ \A c \in Reader : reader[c].data \in Entry(reader[c].key)
    /\ todo \in [Writer -> Seq(SUBSET Key)]
    /\ late \in SUBSET Key
    /\ lost \in SUBSET Key

Init ==
    /\ db \in Table
    /\ cache = [k \in Key |-> NoEntry]
    /\ reader = [c \in Reader |-> Idle]
    /\ todo = [w \in Writer |-> <<>>]
    /\ late = {}
    /\ lost = {}

-----------------------------------------------------------------------------
(* GET /incidents and GET /incidents/{id}.  A hit changes nothing. *)

\* cache_get finds no entry, or Redis raises and the error counts as a miss.
Miss(c, k) ==
    /\ reader[c].at = "idle"
    /\ cache[k] = NoEntry \/ CallsMayFail
    /\ reader' = [reader EXCEPT ![c] = [at |-> "miss", key |-> k, data |-> NoEntry]]
    /\ UNCHANGED <<db, cache, todo, history>>

\* Mutant of Query: an incident that is not there is cached as well.
QueryWithout404(c) ==
    LET k == reader[c].key IN
    /\ reader[c].at = "miss"
    /\ reader' = [reader EXCEPT ![c] = [at |-> "fill", key |-> k, data |-> View(k)]]
    /\ UNCHANGED <<db, cache, todo, history>>

\* Query the database; 404 if a single incident is not there.
Query(c) ==
    LET k == reader[c].key IN
    /\ reader[c].at = "miss"
    /\ \/ /\ Found(k)
          /\ reader' = [reader EXCEPT ![c] = [at |-> "fill", key |-> k, data |-> View(k)]]
       \/ /\ ~Found(k)
          /\ reader' = [reader EXCEPT ![c] = Idle]
    /\ UNCHANGED <<db, cache, todo, history>>

\* cache_set with a TTL of 60 s, and the answer.
Fill(c) ==
    LET k == reader[c].key IN
    /\ reader[c].at = "fill"
    /\ cache' = [cache EXCEPT ![k] = reader[c].data]
    /\ late' = IF reader[c].data = View(k) THEN late \ {k} ELSE late \union {k}
    /\ lost' = lost \ {k}
    /\ reader' = [reader EXCEPT ![c] = Idle]
    /\ UNCHANGED <<db, todo>>

\* cache_set swallows an error; or the query raises, or the client goes away.
FillFails(c) ==
    /\ CallsMayFail
    /\ reader[c].at # "idle"
    /\ reader' = [reader EXCEPT ![c] = Idle]
    /\ UNCHANGED <<db, cache, todo, history>>

-----------------------------------------------------------------------------
(* The writers: the commit first, the invalidation afterwards.               *)

\* A webhook: create_incident raises, and the endpoint answers 409, when the id is
\* taken; otherwise the list is invalidated.
Create(w, i, v) ==
    /\ todo[w] = <<>>
    /\ db[i] = Absent
    /\ db' = [db EXCEPT ![i] = v]
    /\ todo' = [todo EXCEPT ![w] = <<{All}>>]
    /\ UNCHANGED <<cache, reader, history>>

\* Mutant of Update: the worker invalidates only the incident's own key.
UpdateForgetsList(w, i, v) ==
    /\ todo[w] = <<>>
    /\ db' = [db EXCEPT ![i] = IF @ = Absent THEN Absent ELSE v]
    /\ todo' = [todo EXCEPT ![w] = <<{i}>>]
    /\ UNCHANGED <<cache, reader, history>>

\* The worker: update_incident, which is a no-op for a deleted row, and at the end
\* of the execution one DEL of both keys.
Update(w, i, v) ==
    /\ todo[w] = <<>>
    /\ db' = [db EXCEPT ![i] = IF @ = Absent THEN Absent ELSE v]
    /\ todo' = [todo EXCEPT ![w] = <<{All, i}>>]
    /\ UNCHANGED <<cache, reader, history>>

\* DELETE /incidents/{id}: 404 if it is not there, else two DELs.
Delete(w, i) ==
    /\ todo[w] = <<>>
    /\ db[i] # Absent
    /\ db' = [db EXCEPT ![i] = Absent]
    /\ todo' = [todo EXCEPT ![w] = <<{All}, {i}>>]
    /\ UNCHANGED <<cache, reader, history>>

\* _seed_db, when an API process starts: the sample incidents that are not there are
\* created, those that an admin deleted included, and nothing is invalidated.
Seed(i, v) ==
    /\ db[i] = Absent
    /\ db' = [db EXCEPT ![i] = v]
    /\ lost' = lost \union {All}
    /\ UNCHANGED <<cache, reader, todo, late>>

\* Forget the entries of the keys in K.
Drop(K) ==
    /\ cache' = [k \in Key |-> IF k \in K THEN NoEntry ELSE cache[k]]
    /\ late' = late \ K
    /\ lost' = lost \ K

\* cache_delete
Invalidate(w) ==
    /\ todo[w] # <<>>
    /\ Drop(Head(todo[w]))
    /\ todo' = [todo EXCEPT ![w] = Tail(@)]
    /\ UNCHANGED <<db, reader>>

\* cache_delete swallows an error and the writer goes on.
InvalidateFails(w) ==
    /\ CallsMayFail
    /\ todo[w] # <<>>
    /\ lost' = lost \union Head(todo[w])
    /\ todo' = [todo EXCEPT ![w] = Tail(@)]
    /\ UNCHANGED <<db, cache, reader, late>>

\* What stands between the commit and the invalidation raises (the audit commit of
\* create_incident, complete_agent_run in the worker), or the process is lost.
Abandon(w) ==
    /\ CallsMayFail
    /\ todo[w] # <<>>
    /\ lost' = lost \union UNION {todo[w][n] : n \in DOMAIN todo[w]}
    /\ todo' = [todo EXCEPT ![w] = <<>>]
    /\ UNCHANGED <<db, cache, reader, late>>

-----------------------------------------------------------------------------

\* Mutant of Expire: incidents:all is stored without a TTL.
ExpireOneOnly(k) ==
    /\ k # All
    /\ cache[k] # NoEntry
    /\ Drop({k})
    /\ UNCHANGED <<db, reader, todo>>

\* The TTL of an entry runs out in Redis.
Expire(k) ==
    /\ cache[k] # NoEntry
    /\ Drop({k})
    /\ UNCHANGED <<db, reader, todo>>

Read(c) ==
    \/ Query(c)
    \/ Fill(c)
    \/ FillFails(c)

Write(w) ==
    \/ \E i \in Incident, v \in Content : Create(w, i, v) \/ Update(w, i, v)
    \/ \E i \in Incident : Delete(w, i)

Finish(w) ==
    \/ Invalidate(w)
    \/ InvalidateFails(w)
    \/ Abandon(w)

Next ==
    \/ \E c \in Reader : Read(c) \/ \E k \in Key : Miss(c, k)
    \/ \E w \in Writer : Write(w) \/ Finish(w)
    \/ \E i \in Incident, v \in Content : Seed(i, v)
    \/ \E k \in Key : Expire(k)

Spec == Init /\ [][Next]_vars

\* A started request goes on, and Redis expires what it holds.
FairSpec ==
    /\ Spec
    /\ \A c \in Reader : WF_vars(Read(c))
    /\ \A w \in Writer : WF_vars(Finish(w))
    /\ \A k \in Key : WF_vars(Expire(k))

-----------------------------------------------------------------------------
(* Properties *)

Stale(k) == cache[k] # NoEntry /\ cache[k] # View(k)

\* tasks.py:256, "Invalidate cache after the DB transaction is committed": an entry
\* that was right when it was stored does not become wrong unless the writer that
\* made it wrong is still going to delete it, or that deletion was lost or, of a
\* seeded incident, never made.  The only
\* other stale entries are those of a read that was overtaken by a write.
StaleExplained ==
    \A k \in Key : Stale(k) =>
        \/ k \in late
        \/ k \in lost
        \/ \E w \in Writer : \E n \in DOMAIN todo[w] : k \in todo[w][n]

\* The TTL heals both: once nobody writes any more, every entry is right from some
\* time on, although reads never stop and invalidations may have been lost.
EventuallyFresh ==
    <>[][/\ \A w \in Writer : ~Write(w)
         /\ \A i \in Incident, v \in Content : ~Seed(i, v)]_vars
        => <>[](\A k \in Key : ~Stale(k))

=============================================================================
