# AegisOps Copilot: a TLA+ verification of the incident workflow

AegisOps Copilot takes incidents from alerting tools, lets an operator start an
LLM-driven workflow on one of them, stops that workflow at a human approval gate,
and, when it is approved and sure enough of itself, posts to Slack and opens a
Jira ticket. The hard part is not any single step. The workflow lives in a Celery
worker, the approval arrives at an API process, the two meet only in PostgreSQL and
Redis, every task may be retried or delivered twice, alerting tools repeat
their deliveries, and the LLM providers behind it all come and go. This directory models that part, checks it with TLC and proves the
safety properties with TLAPS.

Paths below are relative to `apps/api/src/aegisops_api/` unless they say otherwise.

## 1. Inventory

| Component | State it keeps | Operations that change state | Modelled by |
|---|---|---|---|
| Celery task and broker (`tasks.py`, `worker.py`) | message, retry count, stored result; the execution's local variables | deliver, every effect of `_execute_async`, retry, redelivery of a lost worker's message, acknowledge | `RunLifecycle` |
| Execute endpoint (`routers/execute.py`) | progress of one request | insert the row, log it, enqueue, answer | `RunLifecycle` |
| Approval endpoints (`routers/runs.py`) | a request between its check and its answer | check, write the decision, log it | `RunLifecycle` |
| Task polling (`routers/tasks.py`) | none, reads the result backend | none | `RunProperties` (`ResultMatchesRow`) |
| LangGraph workflow (`agents.py`) | the thread's state and checkpoint | invoke, five nodes, interrupt, resume, rate, act, package | `WorkflowGraph` |
| LLM chain (`llm.py`) | position in the chain, attempts | skip, admit, build, invoke, retry, fall back | `FallbackChain` |
| Circuit breakers (`circuit_breaker.py`) | state, failure count, time of the last failure, per provider and process | read the state, record success, record failure | `FallbackChain` |
| Incident cache (`cache.py`, `routers/incidents.py`) | two kinds of Redis key | miss, query, fill, expire, delete | `IncidentCache` |
| Repository and tables (`db/`) | incidents, runs, audit log, users | two-commit writes: the row, then its audit entry | inside `RunLifecycle`, `IncidentCache` and `Ingest` |
| Webhooks (`routers/webhooks.py`) | none | refuse, ignore, or create an incident and invalidate the list, for four tools | `Ingest`, over `IncidentCache` |
| Event stream (`events.py`, SSE in `routers/incidents.py`) | subscriptions and what they have received | publish (API, task, graph), subscribe, forward, lose the connection, disconnect | `EventStream` |
| Startup (`main.py`, `store.py`) | how far the startup has come | seed incidents and users, ingest runbooks | `IncidentCache.Seed`, `Knowledge`; users are left out |
| Memory and runbooks (`memory.py`, `routers/runbooks.py`) | chunks of runbooks, embeddings of incidents | chunk, upload, ingest a directory, look up | `Knowledge` |
| Tools and notifications (`tools.py`, `notifications.py`) | none | post to Slack, create a Jira issue, notify of an approval needed and of a completed run | `WorkflowGraph.PostSlack` and `FileTicket`; `NotifyGate` and `Report` of `EventStream` |
| Authentication, limits, health, audit and provider lists, settings, metrics, dashboard, migrations | none of interest | | not modelled, section 8 |

How they interact. `POST /api/incidents/{id}/execute` commits a `queued` row and
enqueues a Celery message. A worker slot takes the message and runs the graph, whose
LLM calls go through the fallback chain and its breakers. The graph interrupts at
`human_review`; the worker stores `needs_human`, sets `approval_pending:{run_id}` in
Redis, and polls `approval_decision:{run_id}`, which the approve and reject endpoints
set after reading the row. Approval resumes the graph; otherwise the worker makes up
a `rejected` result. The worker then updates the incident, completes the run, drops
the cached reads of the incident and returns a payload that Celery stores for
`GET /api/tasks/{id}`. All along, the API, the task and the graph publish events on the
incident's Redis channel, which each connection to `GET /api/incidents/{id}/stream`
forwards to a browser, and the task notifies Slack. Incidents come from the webhooks,
which insert a row and drop the cached list.

What is hard. Seven things happen in orders nobody wrote down: a decision against the
gate's deadline; a decision against another decision; a retry or redelivery against
the keys and rows that an earlier execution left; a deletion against everything; a cache fill against an invalidation; an event
against the commit that it tells of; and a delivery
against its own repetition or one with the same id. Almost every database write is two commits, so a failure in
between leaves half of it. The waits occupy the worker pool. The runbook store meets its own
old rows: every upload shares one path, and every startup reads the files again.

What makes each part correct:

* *Run*: the stored result and the row agree, unless a worker is lost between storing
  the one and acknowledging the message; a final status stays unless the task is repeated; nothing is posted
  without an approval, and `done` means that it was posted; the audit trail is true,
  and of decisions complete while nothing fails; every task ends.
* *Graph*: Slack and Jira hear only of approved, sufficiently rated drafts; the status
  tells whether they did; a resume repeats no LLM call; node events nest.
* *Chain and breakers*: a breaker's state follows from its count and clock; the primary is used again once it answers; a call fails
  only with the whole chain tried.
* *Cache*: a stale entry has a known cause and does not survive the TTL.
* *Event stream*: a subscription hears everything since it began, in order and once;
  what the task's own events tell of the row is committed and Slack's last word is about
  its status, unless the run is deleted; a listener sees no node running at the end and does hear the end.
* *Webhooks*: an alert that was answered 201 has an incident that no other delivery
  takes over, and that the list shows.
* *Knowledge base*: a path holds one document, whole and in order; an answer that
  counts stored chunks stays true; a startup makes up for one that was cut short; no
  word of a document is lost between chunks.

The complete list of hazards, each at its line and with the properties that watch it,
is in `PROJECT.json`.

## 2. Modules

| Module | What it is |
|---|---|
| `RunLifecycle` | The run across API, broker, workers, Redis and database. One action per effect that another process can see. |
| `RunProperties` | What is claimed of `RunLifecycle`, and the mapping to `ApprovalContract`. |
| `ApprovalContract` | The abstract specification: queue, ask, approve, fire, finish, refuse, delete. No queues, keys, workers or retries. |
| `RunProofs` | Theorems about `RunProperties`. |
| `RunExecutionProofs` | Further theorems about the executions of a run's task: how many, that they end, under which approval, what the task relies on. |
| `WorkflowGraph` | One thread of the LangGraph workflow: nodes, interrupt, checkpoint, resume, rating, result. Contains its properties. |
| `WorkflowCall` | The abstract specification of calling it: ask, then act and succeed, or escalate, refuse, raise. |
| `GraphProofs` | Theorems about `WorkflowGraph`. |
| `EventStream` | Extends `WorkflowGraph` by the task around it, the events of all three publishers, the SSE connections and the Slack notifications. |
| `Broadcast` | The abstract specification of the stream: send, tune in, hear the next, leave. |
| `StreamProofs` | Theorems about `EventStream`. |
| `FallbackChain` | Callers, chain and breakers, with a clock and providers that come and go. |
| `FallbackProofs` | Theorems about `FallbackChain`. |
| `IncidentCache` | Cache-aside readers against three kinds of writer, and the seeding at startup. |
| `CacheProofs` | Theorems about `IncidentCache`. |
| `Ingest` | Extends `IncidentCache` by the four webhooks: refusals, ids, collisions, repetitions. |
| `IngestProofs` | Theorems about `Ingest`. |
| `Knowledge` | Chunking, the table of runbook chunks under uploads and startups, and the session of a task's memory lookups. |
| `KnowledgeProofs` | Theorems about `Knowledge`. |
| `MCRun`, `MCStream`, `MCFallback`, `MCKnowledge`, `MCIngest` | Values of constants for TLC. |

Composition. `RunLifecycle` does not contain the graph's state. It takes the graph as
the three outcomes that `WorkflowCall` allows a resumed call (`ResumeConfident` with
`Package`, `ResumeUnsure`, `Fail`) and the one that it allows a first call
(`RunGraph`); `WorkflowGraph` is shown to implement `WorkflowCall`, which makes that
step legitimate. In the same way the graph takes the chain as an LLM call that
answers or raises. `EventStream` does contain the graph: each of its steps that moves
the graph is an action of `WorkflowGraph` joined with the event that the code publishes
there, and `ThreadsAreGraphs` proves that nothing else happens to the graph. `Ingest` is
composed with `IncidentCache` in the same way (`WebhooksAreWriters`), so the properties of
both parts are checked, and proved, of the compositions.

Every definition that carries a comment "Mutant of X" is a plausible mistake in `X`.
It is used by no specification. Putting it in place of `X` must make TLC refute the
property that `PROJECT.json` pairs with it, which shows that the property depends on
the code.

## 3. How the models correspond to the code

### RunLifecycle

`row`, `incident` and `audit` are the database; the audit log is kept as the set of
actions logged for a run, since no property counts entries. `exec` and `requests` are
the handlers in flight. `queue`, `attempt` and `result` are Celery: the messages in
the broker, `request.retries`, the result backend. `decision` and `pending` are the
two Redis keys. `pc[r]` is where the execution of run `r` stands; the phases are the
lines of `_execute_async` at which something becomes visible:

| Phase, action | Code |
|---|---|
| `start`, `Load`, `LoadMissing` | `workflow_started`, `get_incident`, `ValueError` |
| `graph`, `RunGraph`, `EmitRaises` | the first `run_incident_workflow`, and its emitter |
| `park`, `parkAudit` | `update_agent_run_status(needs_human)`, two commits |
| `pend`, `wait`, `Poll`, `Timeout` | `setex approval_pending`, `_wait_for_approval_decision` |
| `resume`, `package`, `refuse` | the second `run_incident_workflow`, or the rejected result |
| `clear` | `redis.delete(approval_pending)` |
| `settle`, `settleAudit`, `complete`, `completeAudit` | `update_incident`, `complete_agent_run`, two commits each |
| `finish`, `ack` | `workflow_done`, the returned payload, the late acknowledgement |

Decisions that are not obvious:

* Slack notifications, events and memory touch no state that this module keeps; the
  first two are steps of `EventStream`. A publish that raises is a `Fail`. What a swallowed lookup error does to the
  session, and so to the task's next statement, is in `Knowledge`; here it is a `Fail`. The invalidation at the end of the execution is
  in `IncidentCache`.
* Every other call may raise at any phase (`Fail`). `Raise` is `autoretry_for`: a new
  message with one more retry, until `max_retries`, and then `FAILURE` in the result
  backend. Nobody tells the row: after `FAILURE` it stays `queued` or `needs_human`.
* `Crash` is a lost worker. `task_acks_late` with `task_reject_on_worker_lost` puts
  the message back with its retry count unchanged, also when the payload is already
  stored and only the acknowledgement is missing (`ack`).
* `StoreResult` is the Redis result backend that `worker.py` configures. Celery's
  key-value backends ignore every update of a task whose stored state is `SUCCESS`, so
  the first payload stays, whatever a later execution returns or raises. `resent` is
  history: the runs executed again in that way. `GET /api/tasks` may show such a run as
  `done` and its row as `rejected`, for good. That stored results expire, after a day
  unless configured, is left out.
* A decision may come too late for its gate, or be overwritten by another before the
  worker polls. The endpoint has answered 200 all the same, and nothing in the repository
  says that such a decision counts: no property forbids its loss.
* Repository functions that load a row and then update it: a deletion between the two
  makes the UPDATE match no row and SQLAlchemy raise, which is `Fail`. A deletion
  before the load makes them return `None`, which is the second disjunct of `Park`,
  `Settle` and `Complete`. The session's identity map is weak and the row is
  loaded anew by each of them.
* `EmitOutcomes` selects the emitter. As committed, the emitter passes `run_id` twice
  and each node event raises a `TypeError`. With only that emitter nothing behind the
  first node is reachable (theorem `CommittedEmitterBlocksEveryRun`), so the rest is
  checked with the one that would be meant, and the fault run with either.
* `interrupt()` is modelled as the exception `GraphInterrupt`, which is how the code
  and its tests use it.
* The model never runs two executions of one run side by side. Celery with Redis
  would deliver an unacknowledged message again after its visibility timeout, an hour
  unless configured; the default approval window is five minutes.

### WorkflowGraph

`at` is the node that an invocation is in, `begun` whether it has emitted
`node_started`, `saved` what the checkpoint continues with. `package` is split at its
three outside effects: the rating call (`Rate...`), the message to Slack (`PostSlack`) and
the Jira ticket (`FileTicket`). An exception may end it between any two. Confidences
are integers; `Scale` stands for 1.0. A reply without a number gives `Half`, a
number is clamped, and NaN, which Python's JSON parser accepts, passes
`min`/`max` as 1.0. Prompts, summaries and token counts are left out.

### FallbackChain

One action per iteration step of `call_with_fallback`, and per attempt of
`_invoke_with_retry`. Reading a breaker's state may change it, so `Look` is part of
the actions that read. `age` is the time since the last failure, up to the
recovery window: beyond it all ages are alike. The real failure count is unbounded;
`MaxFailures` saturates it above the threshold, where all counts are alike. `up`
flips at any time; `built`, whether a provider has a key, never changes.

Breakers belong to a process. The workers of `docker-compose.yml` and of the Helm chart
are prefork processes, which run one task and so one LLM call at a time, and the API
never calls an LLM: there each breaker has one caller. `Caller` may have any number of
elements all the same. More than one is a generalisation, to a worker started with
threads, that costs the proofs nothing; what holds for two callers on one breaker
holds for one.

### IncidentCache

An entry of the cache is the rows it was made from. A reader is a miss, a query
and a fill. A writer commits and then holds `todo`, the deletions it still owes: one
`DEL` with one key for a webhook, one with both for the worker, two with one each for
`DELETE`. The list and the single entry are independent keys. `Seed` is `_seed_db`
creating a missing incident; it deletes no key. `late` and `lost` are history.

### EventStream

One execution of the task, with `step` for where the task stands, `row` for the status
of the run, and `published` and `link` for the channel. An event is its name and
what tells it from others of that name; `approval_required`, `workflow_rejected` and
`workflow_done` are each published from two places, and the model tells them apart
because clients cannot rely on both (`ToldAfterCommit`). `Publish` hands an event to
the subscriptions that are open at that moment, as Redis does. `Forward` is a turn of the
endpoint's loop that finds a message; a turn that finds none, and a keepalive, change
nothing. When the connection to Redis breaks, `get_message` raises and the stream ends,
or the client library connects and subscribes again by itself, depending on its
release; `Break` allows both.

`Delete` takes the incident away at any time, and its run with it. It stops neither the
execution nor the open connections. `update_agent_run_status` and `complete_agent_run`
answer `None` for a row that is gone, and the task ignores it: `Store` changes nothing,
and the gate and the end are published and sent to Slack as if they had been committed.
A new connection is answered 404, and a task that has not begun fails.
A deletion between the load and the UPDATE of one such function raises (`TaskRaises`).

Some behaviour of the code that the module shows and a reader might not expect:

* `workflow_queued` is published after the task was sent, so it may come after
  `workflow_started`, and even after the end.
* A failed execution publishes nothing at its end: a listener waits on.
* A refused run is never resumed, so `human_review` stays announced and uncompleted.
* `notify_run_completed` skips `needs_human`: a run that is escalated for low
  confidence has no message of its own, and the last one in Slack is the approval
  request of a gate that is over.

`caller = "direct"` is a caller without an emitter, like the tests; it may also resume
with a refusal, which the task never does. Retries and the committed emitter's
`TypeError` are `RunLifecycle`'s; here a node event is published or raises.

### Ingest

`Sent[d]` is the request that delivery `d` carries: the endpoint, whether its
signature is missing, wrong or right, whether the body has the endpoint's shape, what
it reports, whether its severity is one of `models.py`, and the ids of its alerts.
`Creates(d)` is the id that the endpoint inserts, if any. `Cut` is the truncation to
eight capitals behind the tool's prefix; the constant may map several raw ids to one.
A delivery may come any number of times. `Deliver` is the commit of the row, which the
primary key refuses when the id is taken (409, no change); `Accept` is the invalidation
and the 201; `Orphan` is the audit commit that raises after the row's (409 although the
incident exists), or the process lost at that point. `origin` and `promised` are history.

Some behaviour of the code that the module shows: of an Alertmanager group only the
first alert becomes an incident; two alerts with the same eight characters are one
incident, and the second is refused for good; a severity outside of `models.py` is a
500 for `generic` and `pagerduty`, since the incident is built outside of the `try`; a
repeated delivery never takes an incident back to `triage`; an incident whose delivery
was orphaned is answered 409 on every repetition. Lines 412-484 of `routers/webhooks.py`
register the generic and PagerDuty endpoints once more; the first registration answers.

### Knowledge



`rows` is the table `runbook_embeddings` with memory enabled. A document is a title
and a sequence of words. `store_runbook` is one transaction: `Insert` when no primary
key is taken, `Collide` when one is, `StoreRaises` when the database raises, before
the commit or after it; the last two are swallowed and reported as no chunk. The
primary key is a hash of path and index, and hashes are taken not to collide.
`HandleUpload` is the endpoint; every upload has the path `"api"`. `Ingest` is the
loop over the runbook directory at startup, whose files may be edited between two
startups (`ReadFile` takes any document with the file's title) and may fail to be
read, which ends the loop. `GoDown` is the API process going away at any point.

`RunTask` is the other user of `memory.py`: a worker's task looks up similar incidents
and runbooks in the session that it later updates the run with. `txn` is that
session's transaction. `LookupRaises` covers an error of the statement, which aborts
the transaction, and an error before it is sent, which does not. Which rows a search
returns changes no state and is left out, and so are the rows of
`incident_embeddings`: nothing but their similarity is ever read.

## 4. Runs

| Run | Asks | Bounds |
|---|---|---|
| `RunFaults` | Do the safety properties and the contract hold under everything at once: raising calls, a retry, a lost worker, expiry, deletion, both emitters? | 1 run, 1 reviewer, 1 retry, 1 crash, 1 slot |
| `RunPool` | Without failures, does every task settle though gates hold the only slot, and is every decision logged? | 2 runs, 1 slot |
| `RunEmitter` | Does a task persist its result with the committed emitter? No. | 1 run, nothing fails |
| `RunStaleApproval` | Was the approval given to the gate that it opens? No. | 1 run, 1 retry |
| `RunDeadGate` | Does every `needs_human` run have somebody to read the answer? No. | 1 run, nothing fails |
| `Fallback` | Do the breakers keep their meaning, even with more callers than a prefork worker has, and is the primary used again? | 2 callers, 2 providers, threshold 2, window of 1 tick, 2 attempts |
| `FallbackKeyless` | Does a call end without a response only when the chain is exhausted? No. | 1 caller, 2 providers |
| `Cache` | Is an accepted incident kept and listed, has every stale entry a known cause, and is every entry right in the end? | 1 incident id, 2 contents, 1 reader, 1 worker who is also the admin, 10 deliveries: 2 that collide on the id, 8 that are refused or ignored, each for another reason |
| `Graph` | Do the graph's properties and `WorkflowCall` hold with any rating and an exception anywhere, and is what the outside hears in step with the row, whenever that may be deleted? | ratings −1/3 to 4/3 in thirds, threshold 2/3, 1 listener, 1 execution |
| `Knowledge` | Is what a path holds always one whole document, are answers true, does a startup make up for an earlier one? | chunks of 3 words overlapping by 1; 4 documents of 0, 2, 3 and 4 words; 2 files, 2 uploads, 1 worker, 1 restart |
| `KnowledgeUpload` | Is an upload stored if the database works? No. | as above, nothing fails |
| `KnowledgeLookup` | Does a memory error never fail the task? No. | as above, 1 upload, calls may raise |

Why the bounds are enough. Runs of one incident share only the incident row, the
worker slots and DELETE, so one run shows every interplay of retries, keys and
rows, and two with one slot show the competition. One retry and one crash give
three executions of the same task, of which the middle one both inherits and
leaves. Reviewers are alike and a request holds no state beyond its decision; one
reviewer may send any number of requests one after the other. One caller is
what a prefork worker has; the second, beyond the deployments, reports after
somebody else's change of the breaker. Threshold 2
distinguishes the first failure, the opening one and one beyond it. A worker and two
deliveries let one read be overtaken twice, and a list entry differs from a single one
already with one incident; collisions and repetitions need one id. Thirds give a rating
below the threshold, one at it, one above, a default (1/3) and one beyond each end.
Connections do not see each other, so one shows all that can happen to any. For the knowledge base, three words with one of overlap make documents with no
chunk, one, and two of which the last is all overlap; two uploads are the first
collision, and with one restart each file is read twice, the second time edited.
The proofs of section 6 are free of these bounds.

Deadlock is checked in `Fallback`, `FallbackKeyless`, `Cache` and the three runs of
`Knowledge`. The run and the
execution do stop: a settled run of a deleted incident, with no request open, has no step
left, and neither has an execution that is over once its listener is gone. Their
configurations say `CHECK_DEADLOCK FALSE`.

## 5. Properties

`RunProperties`: `ResultMatchesRow`, `FinalUnlessRepeated`, `AuditTruthful`,
`ActedOncePerExecution`, `IncidentLeadsRun`, `PendingLeftOnlyByFailure`,
`ImplementsContract`, `AuditComplete`, `EveryTaskSettles`. Four are weaker than one
might wish because the code is. A final status may change in a repeated execution.
Actions fire once per execution, not per run. The stored result and the row may
differ after a worker was lost between the payload and the acknowledgement
(`resent`). And `AuditComplete` is about decisions only, and only while nothing raises:
every change and its audit entry are two commits, and a failure in between loses the entry.

`WorkflowGraph`: `ActsOnlyWhenSure`, `StatusTellsActions`, `NoReplay`,
`EventsMatchReturn`, `ImplementsCall`. `FallbackChain`: `ClosedIffBelowThreshold`,
`HalfOpenOnlyAfterRecovery`, `PrimaryRecovers`. `IncidentCache`: `StaleExplained`,
`EventuallyFresh`. `Knowledge`: `StoredWhole`, `AnswerTellsStored`, `IngestComplete`.
`EventStream`: `ImplementsBroadcast`, `ToldAfterCommit`, `SlackFollowsRow`,
`EndShowsNodes`, `EndIsHeard`; `ToldAfterCommit` and `SlackFollowsRow` are about rows
that are there, since deleted runs are announced and reported as well. `Ingest`: `CreatedIsKept`, `ListedOnceCreated`.
Each module has one type invariant; those of `EventStream` and `Ingest` contain the
ones of the modules they extend. `StoredWhole` is two questions in one and has two
mutants: rows that merge two documents, and chunks that do not overlap.

Fairness. `RunLifecycle.FairSpec` is weakly fair in `Deliver` and `Work`: a running
pool takes messages, and every wait in an execution has a deadline. Nothing is assumed
of operators, expiry or failures. `FallbackChain.FairSpec` assumes that time passes
and that a started call goes on; `PrimaryRecovers` states what it needs of callers
and provider as its premise, since nothing in the code provides it.
`IncidentCache.FairSpec` assumes that started requests go on and that Redis
expires keys, and so does `Ingest.IngestFairSpec`. `EventStream.StreamFairSpec` assumes
that the worker goes on with its task, whose one wait has a deadline, and that a
connection forwards what it has received; nothing makes a connection last, so
`EndIsHeard` excepts lost ones, and failed executions, which publish no end.
`WorkflowGraph` alone has no fairness: its caller is the task.

Statements of the documentation that the code does not keep are stated as properties
that the violation runs refute; `PROJECT.json` has them under "findings":

1. The worker's emitter raises on every node event, so no run gets past `queued`.
2. An execution that is retried or redelivered acts on the approval that was given to
   an earlier one, on other evidence.
3. A run that is escalated for low confidence shows `needs_human` and takes an
   approval, but nobody is left to read it.
4. A provider without an API key ends the call although others have not been tried.
5. Every upload after the first is answered 201 and not stored.
6. A failed memory lookup leaves the task's transaction aborted, and the task fails.

One more is not a run but the condition of a theorem: a draft that the LLM failed to
rate counts as 0.5 and is escalated, as `agents.py:46` says, only while the configured
threshold is above 0.5 and no reply holds a NaN (`UnratedEscalates`). And one is a
comment that a look at the code refutes: `main.py:43` says that the incidents are seeded
"if the table is empty", while `_seed_db` creates each seed that is missing, so a
deleted one is back after a restart (`IncidentCache.Seed`).

## 6. Proofs

The proofs need only the constants' named assumptions: bounds are naturals, a threshold
is positive, a confidence threshold is on the scale, key names differ from incident ids.

* `RunProofs`. `IInv` joins `TypeOK` with the facts that make the properties
  inductive: which phase implies which contents of `out`, `asked`, `given` and
  `acted`, when a message is in the queue, which retries were counted, what a stored
  result says about the row, which requests exist. None of the properties is
  inductive alone: `ResultMatchesRow`, for one, needs that a run in `finish` already
  shows `out` or is deleted, and that a run with a stored payload is not executed
  again unless it is `resent`. From it: `TypeCorrect`, `ResultAgreement`, `AuditTruth`,
  `ActsOnce`, `IncidentLeads`, `PendingLeft`, the action property `FinalStays`, the
  refinement `Refinement` (each action maps to a step of the contract or a
  stutter), `AuditIsComplete` under the assumption that no call raises, and
  `CommittedEmitterBlocksEveryRun`.
* `RunExecutionProofs` goes on from `IInv`. *How many executions:* every one but the
  first, and every waiting message, is paid for by a counted retry or a lost worker
  (`ExecutionsPaid`), which bounds the executions of a task and its calls of Slack and
  Jira (`ExecutionsAreBounded`). *That they end:* `Budget` counts the steps that an
  execution has before it and those of every execution that may follow; nothing adds to
  it and each step of the task takes from it (`WorkRunsOut`). *Under which approval:*
  a first execution acts only on an approval written while its own gate was open
  (`FirstApprovalIsForThisGate`), because a decision key that exists then was
  written then (`DecisionIsFresh`). *Without a reader:* `needs_human` with nobody
  waiting means a low confidence, a task that gave up, or one executed again after its
  payload was stored (`DeadGatesExplained`).
  *Both directions of the composition:* `DoneWasApproved` reads off the contract, through
  `Refinement`, what it promises for the run; `TaskKeepsToTheCall` shows that the task
  takes the graph to do nothing that `WorkflowCall` does not allow, which with
  `GraphProofs!Refinement` justifies modelling the graph by its outcomes.
* `FallbackProofs`. `BInv` adds to `TypeOK` that a caller past its check stands
  inside the chain, and that a breaker's state, count and age fit together.
  `TypeCorrect`, `ClosedIff` and `ProbeAfterRecovery` for any chain and any callers, and
  from them what the breaker is for, the action property `AdmittedOnlyWhenDue`. `CallsRunOut`:
  the measure `Steps` of a call, a block of steps for each provider still ahead of it, falls with
  every step of the call's own and is touched by nothing else.
* `CacheProofs`. `CInv` is `TypeOK` with `StaleExplained`, per key; for any
  incidents, contents, readers and writers. `OwnEntryIsExplained`: while no call fails, only
  the list can be left stale by seeding. `CacheHeals`: without writes, an entry becomes
  stale only when an overtaken request fills it, which uses that request up.
* `GraphProofs`. `GInv` relates the node that an invocation is in to the announced
  nodes, the answer, the ratings and the counts of LLM calls. `TypeCorrect`,
  `ActsSure`, `StatusAgrees`, `NothingReplayed`, `EventsAgree`, `Refinement`,
  `UnratedEscalates` (with a threshold above 0.5 and no NaN the docstring's
  claim is true), and `ThreadsRunOut`, by a measure over invocations, nodes and the rating.
* `StreamProofs`. `SInv` is `GInv` with the types and these parts: where the task and the
  graph stand to each other (`Placed`), what has been committed and told by then
  (`Committed`), what Slack was told last (`Notified`), and `Joined`: the part of
  `published` since a subscription began is what was forwarded on it followed by its
  inbox, which is what makes `ImplementsBroadcast` provable. `EndShowsNodes` needs two
  more: the nodes that the log shows as running are the open ones (`Showing`), and a
  last word is followed by nothing but `workflow_queued` (`LastOnly`). From it:
  `StreamTypeCorrect`, `StreamRefinement`, `ToldIsCommitted`, `SlackIsCurrent`,
  `EndIsShown`, and `ThreadsAreGraphs`, by which every theorem of `GraphProofs` holds of
  the task's threads. Two consequences are about what reaches the browser:
  `HeardIsCommitted` (who asks the API after hearing of a gate or an end finds it there, or no run any more)
  and `NothingIsMissed` (a connection that has caught up has heard `published` from its
  subscription on, to the last event). `ExecutionRunsOut` bounds the worker's steps.
* `IngestProofs`. `IInv` is `CInv` with `Kept` (a row that a delivery created is there,
  and all that a delivery may still owe is the invalidation of the list) and
  `ListedOnceCreated`. From it: `IngestTypeCorrect`, `CreatedKept`, `CreatedListed`,
  `NoSharedIncident` (colliding ids never give two alerts one incident), and
  `WebhooksAreWriters`, by which every theorem of `CacheProofs` holds under any
  deliveries. Of the constants it needs that a delivery is a request, that one from a
  tool other than Alertmanager is about one alert, and that what it creates is an incident.
* `KnowledgeProofs`. First about chunking alone, from the facts of integer division:
  `NoWordLost` and `OverlapRepeated`, for any sizes with an overlap below the chunk
  size. Then `KInv`: each path holds the rows of one document or none
  (`OneDocument`), a received request has a document, and the startup loop has
  rows or a reason for every file it has passed (`FilesInOrder`). The key is
  `InsertNeedsRoom`: two non-empty documents of one path always clash, on their first
  chunk. From it: `TypeCorrect`, `AnswersAreTrue`, `StartupIsComplete`, and
  `StoredStays`, which is also the reason why an edited file is never picked up.
  `StoredIsWhole` puts a document together chunk by chunk, by induction: `Rebuild` is a
  recursive function, and the library's induction theorems, which take an operator, cannot be
  used. Instead `LeastElement` takes the least index at which the claim fails, as a
  member of a set, from the theorem of `WellFoundedInduction` that states just that of sets.
  About uploads, `UploadInvariant`: at most one upload is ever stored
  (`OnlyOneUpload`), and who is refused came after it (`FirstComeFirstServed`).

What the violation runs refute is proved where its conditions hold, so that a finding
comes with what would make it go away:

| Claim | Refuted by | True when | Theorem |
|---|---|---|---|
| `TaskPersistsResult` | `RunEmitter` | the emitter publishes and calls do not fail; lost workers do not matter | `RepairedTaskPersists` |
| `ApprovalIsForThisGate` | `RunStaleApproval` | the task is neither retried nor redelivered | `UnrepeatedApprovalIsForThisGate` |
| `DecisionHasReader` | `RunDeadGate` | no low confidence, no task that gave up, none executed again after its payload was stored | `DeadGatesExplained` |
| `NoResponseOnlyWhenExhausted` | `FallbackKeyless` | every provider of the chain has its key | `WithAllModelsChainIsTried` |
| `UploadIsStored` | `KnowledgeUpload` | the database works and the upload is the first | `RefusedUploadCameSecond` |
| `LookupNeverFailsTask` | `KnowledgeLookup` | no statement raises | `LookupsAreHarmless` |

The conditions on failures, retries and keys are met by configurations that the runs use as well
(`RunPool`, `KnowledgeUpload`); the others speak of the state, and the theorems state them
in full.

Every safety property and action property of the passing runs is proved. Only
model-checked are the four liveness properties. Liveness under
fairness and ENABLED are out of this prover's reach, but what is left of each property
once fairness is set aside, that the work before the goal cannot go on for ever, is proved:

| Liveness (TLC) | Bounded work (TLAPS) |
|---|---|
| `EveryTaskSettles` | `WorkRunsOut` |
| `EndIsHeard` | `ExecutionRunsOut`, `ThreadsRunOut`, `NothingIsMissed` |
| `EventuallyFresh` | `CacheHeals` |
| `PrimaryRecovers` | `CallsRunOut`, for the calls; that the window passes and somebody probes is left to TLC |

No module declares a RECURSIVE operator, which the prover could not deal with.

## 7. State of the plan

Written, in this order: `RunLifecycle` with its contract, `FallbackChain`,
`IncidentCache`, `WorkflowGraph`, `Knowledge`, then `EventStream` and `Ingest` as
compositions over two of them, the proofs of each, and then `RunExecutionProofs`, the
conditions of the refuted claims and the bounds on work. What would still add something:

1. `EventStream` inside `RunLifecycle`: the events and notifications of a retried
   execution, which tells its listeners everything a second time. The two modules
   share the task's steps, so the composition is a refinement between them.
2. Two executions of one run at a time, for approval windows beyond the broker's
   visibility timeout.

## 8. Not modelled

Authentication, roles and rate limits decide who may call, not what a call does.
Health, audit and provider lists, metrics, tracing and logging only read. The health
endpoint reads the breakers of its own process, which never calls an LLM. Pages of
the audit log are offsets into a growing list, newest first, so entries written between
two requests push some onto the next page. Users are seeded and logged in with, and
nothing else. Two API processes that seed at the same time are decided by the primary
key: the loser exits in its lifespan. The `MemorySaver` of a worker keeps every thread
for good, which nothing reads. The
dashboard (`apps/web`) renders one snapshot of two GET requests. Migrations, Helm and
Terraform are deployment; `docker-compose.yml` gives the two prefork slots that
`Slots` stands for. Prompts, LLM texts, Slack and Jira payloads are data that no
property tells apart. Behaviour of asyncio across event loops and of the database
driver's pool is outside the repository; it appears as a cause of `Fail`.
