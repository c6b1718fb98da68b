------------------------------ MODULE Knowledge ------------------------------
(***************************************************************************)
(* The runbook knowledge base (memory.py) with memory enabled: the chunks   *)
(* that a document is cut into, the rows they are stored as by uploads      *)
(* (routers/runbooks.py) and by the ingestion at startup (main.py), and the *)
(* database session in which a worker looks memories up before it goes on   *)
(* with its task (tasks.py).                                                *)
(***************************************************************************)
EXTENDS Integers, Sequences, FiniteSets

CONSTANTS
    Document,        \* documents: a title and a sequence of words
    Upload,          \* requests to POST /api/admin/runbooks
    File,            \* the *.md files of AIOPS_RUNBOOK_DIR, in sorted order
    FileTitle(_),    \* the title made from the name of a file
    Worker,          \* worker processes, one task at a time each
    ChunkSize,       \* chunk_size (500 words)
    Overlap,         \* overlap (50 words)
    MaxRestarts,     \* bound: how often the API process goes down
    CallsMayFail     \* may the database raise?

\* source_path of every upload; a file's is its path.
Api == "api"
Path == {Api} \union {File[n] : n \in DOMAIN File}

ASSUME DocumentAssumption == \A d \in Document : d.words \in Seq(STRING)
ASSUME FileAssumption == /\ File \in Seq(STRING \ {Api})
                         /\ \A m, n \in DOMAIN File : File[m] = File[n] => m = n
ASSUME SizeAssumption == ChunkSize \in Nat /\ Overlap \in Nat /\ Overlap < ChunkSize
ASSUME RestartAssumption == MaxRestarts \in Nat
ASSUME SwitchAssumption == CallsMayFail \in BOOLEAN

VARIABLES
    rows,            \* the table runbook_embeddings
    request,         \* progress of the uploads
    boot,            \* progress of the API process' startup
    restarts,        \* how often it went down
    task,            \* where the worker's task stands
    txn,             \* the transaction of the task's session
    skipped          \* history: files of this startup with nothing to store

apiVars == <<request, boot, restarts>>
workerVars == <<task, txn>>
vars == <<rows, apiVars, workerVars, skipped>>

-----------------------------------------------------------------------------
(* chunk_markdown *)

Least(a, b) == IF a < b THEN a ELSE b
Greatest(a, b) == IF a < b THEN b ELSE a

\* Mutant of Step: the next chunk starts where the last one ends.
StepWithoutOverlap == Greatest(1, ChunkSize)

Step == Greatest(1, ChunkSize - Overlap)

\* The loop appends the words from 0, Step, 2 * Step and so on while there are any.
ChunkMarkdown(words) ==
    [k \in 1..((Len(words) + Step - 1) \div Step) |->
        SubSeq(words, (k - 1) * Step + 1, Least((k - 1) * Step + ChunkSize, Len(words)))]

-----------------------------------------------------------------------------

\* The rows that store_runbook adds for document d.  Their primary key is made of
\* the source path and the index alone.
RowsFor(path, d) ==
    LET chunks == ChunkMarkdown(d.words)
    IN  {[path |-> path, index |-> k, title |-> d.title, text |-> chunks[k]] :
            k \in DOMAIN chunks}

Clash(r, s) == r.path = s.path /\ r.index = s.index
Stored(path) == {r \in rows : r.path = path}

NoDocument == [title |-> "", words |-> <<>>]
AnyDocument == Document \union {NoDocument}

TypeOK ==
    /\ rows \in SUBSET UNION {RowsFor(p, d) : p \in Path, d \in Document}
    /\ request \in [Upload -> [at : {"idle", "store", "answered", "lost"},
                               doc : AnyDocument, stored : Nat]]
    /\ boot \in [at : {"down", "file", "store", "ready"},
                 pos : 1..(Len(File) + 1), doc : AnyDocument]
    /\ restarts \in 0..MaxRestarts
    /\ task \in [Worker -> {"idle", "similar", "runbooks", "persist", "embed", "failed"}]
    /\ txn \in [Worker -> {"usable", "aborted"}]
    /\ skipped \in SUBSET Path

Init ==
    /\ rows = {}
    /\ request = [u \in Upload |-> [at |-> "idle", doc |-> NoDocument, stored |-> 0]]
    /\ boot = [at |-> "down", pos |-> 1, doc |-> NoDocument]
    /\ restarts = 0
    /\ task = [w \in Worker |-> "idle"]
    /\ txn = [w \in Worker |-> "usable"]
    /\ skipped = {}

-----------------------------------------------------------------------------
(* store_runbook.  One transaction inserts all chunks, and any error rolls all   *)
(* of them back and is swallowed.                                               *)

\* Mutant of Insert: rows that are there already are overwritten one by one.
MergeRows(path, d) ==
    rows' = {r \in rows : \A s \in RowsFor(path, d) : ~Clash(r, s)} \union RowsFor(path, d)

Insert(path, d) ==
    /\ \A r \in rows, s \in RowsFor(path, d) : ~Clash(r, s)
    /\ rows' = rows \union RowsFor(path, d)

\* A primary key is taken.
Collide(path, d) ==
    /\ \E r \in rows, s \in RowsFor(path, d) : Clash(r, s)
    /\ UNCHANGED rows

\* The database raises, before the commit or after it was made.
StoreRaises(path, d) ==
    /\ CallsMayFail
    /\ UNCHANGED rows \/ Insert(path, d)

-----------------------------------------------------------------------------
(* POST /api/admin/runbooks *)

\* The document is cut and embedded; requests are served once startup is over.
Receive(u, d) ==
    /\ boot.at = "ready"
    /\ request[u].at = "idle"
    /\ request' = [request EXCEPT ![u].at = "store", ![u].doc = d]
    /\ UNCHANGED <<rows, boot, restarts, workerVars, skipped>>

\* Answer 201 with chunks_stored = n.
Answer(u, n) ==
    /\ request' = [request EXCEPT ![u].at = "answered", ![u].stored = n]
    /\ UNCHANGED <<boot, restarts, workerVars, skipped>>

\* Mutant of UploadStores: the last index is returned in place of the count.
UploadTellsLastIndex(u) ==
    /\ request[u].at = "store"
    /\ Insert(Api, request[u].doc)
    /\ Answer(u, Len(ChunkMarkdown(request[u].doc.words)) - 1)

UploadStores(u) ==
    /\ request[u].at = "store"
    /\ Insert(Api, request[u].doc)
    /\ Answer(u, Len(ChunkMarkdown(request[u].doc.words)))

\* Mutant of UploadStoresNothing: the count is taken before the commit.
UploadCountsAnyway(u) ==
    /\ request[u].at = "store"
    /\ Collide(Api, request[u].doc) \/ StoreRaises(Api, request[u].doc)
    /\ Answer(u, Len(ChunkMarkdown(request[u].doc.words)))

UploadStoresNothing(u) ==
    /\ request[u].at = "store"
    /\ Collide(Api, request[u].doc) \/ StoreRaises(Api, request[u].doc)
    /\ Answer(u, 0)

-----------------------------------------------------------------------------
(* _ingest_runbooks, at startup *)

StartUp ==
    /\ boot.at = "down"
    /\ boot' = [at |-> "file", pos |-> 1, doc |-> NoDocument]
    /\ skipped' = {}
    /\ UNCHANGED <<rows, request, restarts, workerVars>>

\* Open the next file, which may have been edited since the last startup.
ReadFile(d) ==
    /\ boot.at = "file"
    /\ boot.pos <= Len(File)
    /\ d.title = FileTitle(File[boot.pos])
    /\ boot' = [boot EXCEPT !.at = "store", !.doc = d]
    /\ skipped' = IF RowsFor(File[boot.pos], d) = {}
                  THEN skipped \union {File[boot.pos]} ELSE skipped
    /\ UNCHANGED <<rows, request, restarts, workerVars>>

\* A file cannot be read: the exception leaves the loop, and the rest is not tried.
ReadRaises ==
    /\ CallsMayFail
    /\ boot.at = "file"
    /\ boot.pos <= Len(File)
    /\ boot' = [boot EXCEPT !.at = "ready"]
    /\ skipped' = skipped \union {File[n] : n \in boot.pos..Len(File)}
    /\ UNCHANGED <<rows, request, restarts, workerVars>>

NextFile ==
    /\ boot' = [at |-> "file", pos |-> boot.pos + 1, doc |-> NoDocument]
    /\ UNCHANGED <<request, restarts, workerVars>>

FileStored ==
    /\ boot.at = "store"
    /\ Insert(File[boot.pos], boot.doc)
    /\ NextFile
    /\ UNCHANGED skipped

\* Mutant of FileKnown: the exception of the commit leaves the loop.
FileKnownEnds ==
    /\ boot.at = "store"
    /\ Collide(File[boot.pos], boot.doc)
    /\ boot' = [boot EXCEPT !.at = "ready", !.doc = NoDocument]
    /\ UNCHANGED <<request, restarts, workerVars, skipped>>

\* The file was stored in an earlier startup, and stays as it was then.
FileKnown ==
    /\ boot.at = "store"
    /\ Collide(File[boot.pos], boot.doc)
    /\ NextFile
    /\ UNCHANGED skipped

FileRaises ==
    /\ boot.at = "store"
    /\ StoreRaises(File[boot.pos], boot.doc)
    /\ NextFile
    /\ skipped' = skipped \union {File[boot.pos]}

\* Startup is over.
Serve ==
    /\ boot.at = "file"
    /\ boot.pos > Len(File)
    /\ boot' = [boot EXCEPT !.at = "ready"]
    /\ UNCHANGED <<rows, request, restarts, workerVars, skipped>>

\* The process goes down, and its requests with it.
GoDown ==
    /\ boot.at # "down"
    /\ restarts < MaxRestarts
    /\ restarts' = restarts + 1
    /\ boot' = [at |-> "down", pos |-> 1, doc |-> NoDocument]
    /\ request' = [u \in Upload |-> IF request[u].at = "store"
                                    THEN [request[u] EXCEPT !.at = "lost"] ELSE request[u]]
    /\ UNCHANGED <<rows, workerVars, skipped>>

-----------------------------------------------------------------------------
(* The worker's task, whose session serves the lookups and everything after.    *)

\* get_incident, in a new session; a failed task is retried.
TaskLoads(w) ==
    /\ task[w] \in {"idle", "failed"}
    /\ task' = [task EXCEPT ![w] = "similar"]
    /\ txn' = [txn EXCEPT ![w] = "usable"]
    /\ UNCHANGED <<rows, apiVars, skipped>>

\* find_similar_incidents, then find_relevant_runbooks.
AfterLookup(w) == IF task[w] = "similar" THEN "runbooks" ELSE "persist"

LookupReturns(w) ==
    /\ task[w] \in {"similar", "runbooks"}
    /\ txn[w] = "usable"
    /\ task' = [task EXCEPT ![w] = AfterLookup(w)]
    /\ UNCHANGED <<rows, apiVars, txn, skipped>>

\* The error is swallowed without a rollback.  PostgreSQL then refuses every later
\* statement of the transaction; an error before the statement is sent does no harm.
LookupRaises(w) ==
    /\ task[w] \in {"similar", "runbooks"}
    /\ CallsMayFail \/ txn[w] = "aborted"
    /\ task' = [task EXCEPT ![w] = AfterLookup(w)]
    /\ \E s \in {txn[w], "aborted"} : txn' = [txn EXCEPT ![w] = s]
    /\ UNCHANGED <<rows, apiVars, skipped>>

\* After the graph: the statements that store the run's progress and result.
TaskPersists(w) ==
    /\ task[w] = "persist"
    /\ txn[w] = "usable"
    /\ task' = [task EXCEPT ![w] = "embed"]
    /\ UNCHANGED <<rows, apiVars, txn, skipped>>

TaskFails(w) ==
    /\ task[w] = "persist"
    /\ txn[w] = "aborted"
    /\ task' = [task EXCEPT ![w] = "failed"]
    /\ UNCHANGED <<rows, apiVars, txn, skipped>>

\* store_incident_embedding, which rolls back when it fails.
TaskEmbeds(w) ==
    /\ task[w] = "embed"
    /\ task' = [task EXCEPT ![w] = "idle"]
    /\ UNCHANGED <<rows, apiVars, txn, skipped>>

-----------------------------------------------------------------------------

HandleUpload(u) ==
    \/ \E d \in Document : Receive(u, d)
    \/ UploadStores(u)
    \/ UploadStoresNothing(u)

Ingest ==
    \/ StartUp
    \/ \E d \in Document : ReadFile(d)
    \/ ReadRaises
    \/ FileStored
    \/ FileKnown
    \/ FileRaises
    \/ Serve

RunTask(w) ==
    \/ TaskLoads(w)
    \/ LookupReturns(w)
    \/ LookupRaises(w)
    \/ TaskPersists(w)
    \/ TaskFails(w)
    \/ TaskEmbeds(w)

Next ==
    \/ \E u \in Upload : HandleUpload(u)
    \/ Ingest
    \/ GoDown
    \/ \E w \in Worker : RunTask(w)

Spec == Init /\ [][Next]_vars

-----------------------------------------------------------------------------
(* Properties *)

\* Put the chunks of the rows R of one path together again, as the docstring of
\* chunk_markdown tells: each chunk but the first repeats Overlap words.
Rebuild(R) ==
    LET text(k) == (CHOOSE r \in R : r.index = k).text
        upTo[k \in 0..Cardinality(R)] ==
            IF k = 0 THEN <<>>
            ELSE upTo[k - 1] \o SubSeq(text(k), IF k = 1 THEN 1 ELSE Overlap + 1, Len(text(k)))
    IN  upTo[Cardinality(R)]

\* The rows of a path are one document: whatever uploads, startups and losses came
\* together, they carry one title and, put together, that document's words.
StoredWhole ==
    \A p \in Path : Stored(p) # {} =>
        \E d \in Document : /\ \A r \in Stored(p) : r.title = d.title
                            /\ Rebuild(Stored(p)) = d.words

\* The count in a 201 is true for good: with a positive one, the document of the
\* request, all of it and nothing else, is what the uploads' path holds.
AnswerTellsStored ==
    \A u \in Upload : request[u].at = "answered" /\ request[u].stored > 0 =>
        /\ Stored(Api) = RowsFor(Api, request[u].doc)
        /\ request[u].stored = Cardinality(Stored(Api))

\* A startup that was cut short does not keep a later one from ingesting the rest:
\* once the API serves, every file has its rows, but for those that were empty or
\* could not be read or stored.
IngestComplete ==
    boot.at = "ready" => \A n \in DOMAIN File : Stored(File[n]) # {} \/ File[n] \in skipped

-----------------------------------------------------------------------------
(* Claims of the documentation that the code does not keep *)

\* routers/runbooks.py:28, "Chunk, embed, and store a Markdown runbook in the vector
\* knowledge base": an upload that has words is stored, if the database works.
UploadIsStored ==
    \A u \in Upload : request[u].at = "answered" /\ request[u].doc.words # <<>>
        => request[u].stored > 0

\* memory.py:184, "the workflow must never fail because of missing memory".  Only
\* lookups raise of themselves here.
LookupNeverFailsTask == \A w \in Worker : task[w] # "failed"

=============================================================================
