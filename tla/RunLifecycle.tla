---------------------------- MODULE RunLifecycle ----------------------------
(***************************************************************************)
(* The life of the agent runs of one incident, across the processes that    *)
(* touch them: POST /execute (routers/execute.py), the Celery task          *)
(* (tasks.py) with the broker's deliveries, retries and lost workers, the   *)
(* approval gate, the approve and reject endpoints (routers/runs.py) and    *)
(* DELETE /incidents.  Every commit to the database and every write to      *)
(* Redis that another process can observe in between is a step of its own.  *)
(***************************************************************************)
EXTENDS Integers, FiniteSets

CONSTANTS
    Run,             \* runs of the incident, one per execute request
    Reviewer,        \* operators calling approve and reject
    MaxRetries,      \* max_retries of the Celery task (3 in the code)
    MaxCrashes,      \* bound: how many workers are lost
    Slots,           \* task slots of the worker pool (Celery concurrency)
    CallsMayFail,    \* may a database, Redis or LLM call raise?
    EmitOutcomes     \* what emitting a node event can do: {"raised"} for the
                     \* emitter as committed (run_id is passed twice, so every
                     \* call is a TypeError), {"published"} once repaired

ASSUME RetriesAssumption == MaxRetries \in Nat
ASSUME CrashesAssumption == MaxCrashes \in Nat
ASSUME SlotsAssumption == Slots \in Nat \ {0}
ASSUME SwitchAssumption == /\ CallsMayFail \in BOOLEAN
                            /\ EmitOutcomes \subseteq {"raised", "published"}

VARIABLES
    row,         \* agent_runs.status, "none" before and "deleted" after the row
    incident,    \* the incident row: "open", "investigating" or "deleted"
    audit,       \* audit[r]: actions logged on behalf of run r
    exec,        \* progress of the execute request that created the run
    requests,    \* approve and reject requests past their status check
    queue,       \* runs whose task message waits in the broker
    attempt,     \* request.retries of the task message
    result,      \* the task's entry in the result backend
    crashes,     \* workers lost so far
    resent,      \* history: runs whose message came back after their result was stored
    pc,          \* where the execution of the run's task stands
    out,         \* the `result["status"]` that the execution holds
    decision,    \* Redis key approval_decision:{run_id}
    pending,     \* runs with a Redis key approval_pending:{run_id}
    starts,      \* history: executions started per run
    asked,       \* history: runs that were shown as "needs_human"
    given,       \* history: given[r], decisions ever written for run r
    fresh,       \* history: was the decision written under the latest gate?
    acted        \* history: how often the automatic actions fired

dbVars == <<row, incident, audit>>
apiVars == <<exec, requests>>
brokerVars == <<queue, attempt, result, crashes, resent>>
redisVars == <<decision, pending>>
gateHistory == <<asked, given, fresh>>
vars == <<dbVars, apiVars, brokerVars, pc, out, redisVars, starts, gateHistory, acted>>

-----------------------------------------------------------------------------

Decision == {"approve", "reject"}
\* What a workflow invocation returns as its status.
Outcome == {"needs_human", "done", "rejected"}
RowStatus == {"none", "queued", "deleted"} \union Outcome
ExecPhase == {"none", "created", "logged", "sent", "accepted", "error"}
AuditAction == {"agent_run_queued", "agent_run_status_changed",
                "agent_run_completed", "incident_status_changed",
                "run_approved", "run_rejected"}
Request == [by : Reviewer, run : Run, action : Decision, at : {"checked", "written"}]

\* The steps of one execution of _execute_async, in the order of the code.
Phase == {"idle", "start", "graph", "park", "parkAudit", "pend", "wait",
          "resume", "package", "refuse", "clear", "settle", "settleAudit",
          "complete", "completeAudit", "finish", "ack"}

TypeOK ==
    /\ row \in [Run -> RowStatus]
    /\ incident \in {"open", "investigating", "deleted"}
    /\ audit \in [Run -> SUBSET AuditAction]
    /\ exec \in [Run -> ExecPhase]
    /\ requests \in SUBSET Request
    /\ queue \in SUBSET Run
    /\ attempt \in [Run -> 0..MaxRetries]
    /\ result \in [Run -> {"PENDING", "RETRY", "FAILURE"} \union Outcome]
    /\ crashes \in 0..MaxCrashes
    /\ resent \in SUBSET Run
    /\ pc \in [Run -> Phase]
    /\ out \in [Run -> {"none"} \union Outcome]
    /\ decision \in [Run -> {"none"} \union Decision]
    /\ pending \in SUBSET Run
    /\ starts \in [Run -> Nat]
    /\ asked \in SUBSET Run
    /\ given \in [Run -> SUBSET Decision]
    /\ fresh \in [Run -> BOOLEAN]
    /\ acted \in [Run -> Nat]

Init ==
    /\ row = [r \in Run |-> "none"]
    /\ incident = "open"
    /\ audit = [r \in Run |-> {}]
    /\ exec = [r \in Run |-> "none"]
    /\ requests = {}
    /\ queue = {}
    /\ attempt = [r \in Run |-> 0]
    /\ result = [r \in Run |-> "PENDING"]
    /\ crashes = 0
    /\ resent = {}
    /\ pc = [r \in Run |-> "idle"]
    /\ out = [r \in Run |-> "none"]
    /\ decision = [r \in Run |-> "none"]
    /\ pending = {}
    /\ starts = [r \in Run |-> 0]
    /\ asked = {}
    /\ given = [r \in Run |-> {}]
    /\ fresh = [r \in Run |-> FALSE]
    /\ acted = [r \in Run |-> 0]

-----------------------------------------------------------------------------
(* POST /incidents/{id}/execute *)

\* get_incident, then the INSERT of the queued row: its foreign key makes the
\* INSERT fail, with no effect, if the incident went away in between.
ExecCreate(r) ==
    /\ exec[r] = "none"
    /\ incident # "deleted"
    /\ row' = [row EXCEPT ![r] = "queued"]
    /\ exec' = [exec EXCEPT ![r] = "created"]
    /\ UNCHANGED <<incident, audit, requests, brokerVars, pc, out, redisVars,
                   starts, gateHistory, acted>>

\* The second commit of create_agent_run.
ExecAudit(r) ==
    /\ exec[r] = "created"
    /\ audit' = [audit EXCEPT ![r] = @ \union {"agent_run_queued"}]
    /\ exec' = [exec EXCEPT ![r] = "logged"]
    /\ UNCHANGED <<row, incident, requests, brokerVars, pc, out, redisVars,
                   starts, gateHistory, acted>>

\* execute_incident_task.delay(): from here on a worker may run the task.
ExecDelay(r) ==
    /\ exec[r] = "logged"
    /\ queue' = queue \union {r}
    /\ exec' = [exec EXCEPT ![r] = "sent"]
    /\ UNCHANGED <<dbVars, requests, attempt, result, crashes, resent, pc, out,
                   redisVars, starts, gateHistory, acted>>

\* Publish workflow_queued and answer 202.
ExecAccept(r) ==
    /\ exec[r] = "sent"
    /\ exec' = [exec EXCEPT ![r] = "accepted"]
    /\ UNCHANGED <<dbVars, requests, brokerVars, pc, out, redisVars, starts,
                   gateHistory, acted>>

\* A call of the handler raises: the client sees a 500, what was done stays done.
ExecError(r) ==
    /\ CallsMayFail
    /\ exec[r] \in {"created", "logged", "sent"}
    /\ exec' = [exec EXCEPT ![r] = "error"]
    /\ UNCHANGED <<dbVars, requests, brokerVars, pc, out, redisVars, starts,
                   gateHistory, acted>>

\* DELETE /incidents/{id}: the foreign key cascades to the runs.
DeleteIncident ==
    /\ incident # "deleted"
    /\ incident' = "deleted"
    /\ row' = [r \in Run |-> IF row[r] = "none" THEN "none" ELSE "deleted"]
    /\ UNCHANGED <<audit, apiVars, brokerVars, pc, out, redisVars, starts,
                   gateHistory, acted>>

-----------------------------------------------------------------------------
(* POST /runs/{id}/approve and /reject *)

\* Read the row; any status but needs_human is answered 404 or 409.
ReviewCheck(c, r, a) ==
    /\ \A q \in requests : q.by # c
    /\ row[r] = "needs_human"
    /\ requests' = requests \union {[by |-> c, run |-> r, action |-> a, at |-> "checked"]}
    /\ UNCHANGED <<dbVars, exec, brokerVars, pc, out, redisVars, starts,
                   gateHistory, acted>>

\* SETEX approval_decision:{run_id} 3600, overwriting what is there.
ReviewWrite(q) ==
    /\ q.at = "checked"
    /\ decision' = [decision EXCEPT ![q.run] = q.action]
    /\ given' = [given EXCEPT ![q.run] = @ \union {q.action}]
    /\ fresh' = [fresh EXCEPT ![q.run] = TRUE]
    /\ requests' = (requests \ {q}) \union {[q EXCEPT !.at = "written"]}
    /\ UNCHANGED <<dbVars, exec, brokerVars, pc, out, pending, starts, asked, acted>>

\* Mutant of ReviewAudit: the decision is logged before it is written.
ReviewAuditFirst(q) ==
    /\ audit' = [audit EXCEPT ![q.run] = @ \union
                    {IF q.action = "approve" THEN "run_approved" ELSE "run_rejected"}]
    /\ UNCHANGED <<row, incident, apiVars, brokerVars, pc, out, redisVars, starts,
                   gateHistory, acted>>

\* Mutant of ReviewAudit: the reject endpoint logs the approve endpoint's action.
ReviewAuditCopied(q) ==
    /\ q.at = "written"
    /\ audit' = [audit EXCEPT ![q.run] = @ \union {"run_approved"}]
    /\ requests' = requests \ {q}
    /\ UNCHANGED <<row, incident, exec, brokerVars, pc, out, redisVars, starts,
                   gateHistory, acted>>

\* log_audit_event, in a transaction of its own, and the 200 answer.
ReviewAudit(q) ==
    /\ q.at = "written"
    /\ audit' = [audit EXCEPT ![q.run] = @ \union
                    {IF q.action = "approve" THEN "run_approved" ELSE "run_rejected"}]
    /\ requests' = requests \ {q}
    /\ UNCHANGED <<row, incident, exec, brokerVars, pc, out, redisVars, starts,
                   gateHistory, acted>>

\* Redis or the database raises, or the API process goes away.
ReviewError(q) ==
    /\ CallsMayFail
    /\ requests' = requests \ {q}
    /\ UNCHANGED <<dbVars, exec, brokerVars, pc, out, redisVars, starts,
                   gateHistory, acted>>

-----------------------------------------------------------------------------
(* The broker and the worker pool *)

\* A free slot takes the message; acks_late leaves it unacknowledged.
Deliver(r) ==
    /\ r \in queue
    /\ Cardinality({s \in Run : pc[s] # "idle"}) < Slots
    /\ queue' = queue \ {r}
    /\ pc' = [pc EXCEPT ![r] = "start"]
    /\ starts' = [starts EXCEPT ![r] = @ + 1]
    /\ UNCHANGED <<dbVars, apiVars, attempt, result, crashes, resent, out, redisVars,
                   gateHistory, acted>>

\* The backend writes an entry unless it holds a payload: after a SUCCESS, Celery's
\* key-value backends ignore every update.
StoreResult(r, s) ==
    result' = IF result[r] \in Outcome THEN result ELSE [result EXCEPT ![r] = s]

\* Mutant of Raise: one retry too many.
RaiseOnceMore(r) ==
    /\ \/ /\ attempt[r] <= MaxRetries
          /\ attempt' = [attempt EXCEPT ![r] = @ + 1]
          /\ queue' = queue \union {r}
          /\ StoreResult(r, "RETRY")
       \/ /\ attempt[r] > MaxRetries
          /\ StoreResult(r, "FAILURE")
          /\ UNCHANGED <<attempt, queue>>
    /\ pc' = [pc EXCEPT ![r] = "idle"]
    /\ out' = [out EXCEPT ![r] = "none"]
    /\ UNCHANGED <<dbVars, apiVars, crashes, resent, redisVars, starts, gateHistory,
                   acted>>

\* The task raised: autoretry_for sends a new message until max_retries, then
\* the failure is stored.  Either way the old message is acknowledged.
Raise(r) ==
    /\ \/ /\ attempt[r] < MaxRetries
          /\ attempt' = [attempt EXCEPT ![r] = @ + 1]
          /\ queue' = queue \union {r}
          /\ StoreResult(r, "RETRY")
       \/ /\ attempt[r] = MaxRetries
          /\ StoreResult(r, "FAILURE")
          /\ UNCHANGED <<attempt, queue>>
    /\ pc' = [pc EXCEPT ![r] = "idle"]
    /\ out' = [out EXCEPT ![r] = "none"]
    /\ UNCHANGED <<dbVars, apiVars, crashes, resent, redisVars, starts, gateHistory,
                   acted>>

\* Every phase makes a call to the database, Redis or an LLM that may raise.
Fail(r) ==
    /\ CallsMayFail
    /\ pc[r] \notin {"idle", "ack"}
    /\ Raise(r)

\* The worker process dies: reject_on_worker_lost puts the message back, also when
\* the result is already stored and only the acknowledgement is missing.
Crash(r) ==
    /\ crashes < MaxCrashes
    /\ pc[r] # "idle"
    /\ crashes' = crashes + 1
    /\ queue' = queue \union {r}
    /\ resent' = IF pc[r] = "ack" THEN resent \union {r} ELSE resent
    /\ pc' = [pc EXCEPT ![r] = "idle"]
    /\ out' = [out EXCEPT ![r] = "none"]
    /\ UNCHANGED <<dbVars, apiVars, attempt, result, redisVars, starts,
                   gateHistory, acted>>

\* The task returned and its result is stored: acknowledge the message.
Ack(r) ==
    /\ pc[r] = "ack"
    /\ pc' = [pc EXCEPT ![r] = "idle"]
    /\ out' = [out EXCEPT ![r] = "none"]
    /\ UNCHANGED <<dbVars, apiVars, brokerVars, redisVars, starts, gateHistory, acted>>

-----------------------------------------------------------------------------
(* _execute_async *)

\* A step of the execution of r that only moves on to phase p.
Goto(r, p) == pc' = [pc EXCEPT ![r] = p]

\* Publish workflow_started and load the incident.
Load(r) ==
    /\ pc[r] = "start"
    /\ incident # "deleted"
    /\ Goto(r, "graph")
    /\ UNCHANGED <<dbVars, apiVars, brokerVars, out, redisVars, starts, gateHistory, acted>>

\* The incident is gone: ValueError, which Celery retries like any other.
LoadMissing(r) ==
    /\ pc[r] = "start"
    /\ incident = "deleted"
    /\ Raise(r)

\* The first invocation of the graph: assess and evidence run, human_review
\* interrupts.  Every path of the graph goes through human_review, so an
\* invocation that does not raise returns needs_human.
RunGraph(r) ==
    /\ pc[r] = "graph"
    /\ "published" \in EmitOutcomes
    /\ out' = [out EXCEPT ![r] = "needs_human"]
    /\ Goto(r, "park")
    /\ UNCHANGED <<dbVars, apiVars, brokerVars, redisVars, starts, gateHistory, acted>>

\* assess emits node_started with a run_id of its own: TypeError.
EmitRaises(r) ==
    /\ pc[r] = "graph"
    /\ "raised" \in EmitOutcomes
    /\ Raise(r)

\* update_agent_run_status(needs_human); None, with no audit, if the row is gone.
Park(r) ==
    /\ pc[r] = "park"
    /\ \/ /\ row[r] # "deleted"
          /\ row' = [row EXCEPT ![r] = "needs_human"]
          /\ asked' = asked \union {r}
          /\ Goto(r, "parkAudit")
       \/ /\ row[r] = "deleted"
          /\ Goto(r, "pend")
          /\ UNCHANGED <<row, asked>>
    /\ fresh' = [fresh EXCEPT ![r] = FALSE]
    /\ UNCHANGED <<incident, audit, apiVars, brokerVars, out, redisVars, starts, given, acted>>

ParkAudit(r) ==
    /\ pc[r] = "parkAudit"
    /\ audit' = [audit EXCEPT ![r] = @ \union {"agent_run_status_changed"}]
    /\ Goto(r, "pend")
    /\ UNCHANGED <<row, incident, apiVars, brokerVars, out, redisVars, starts, gateHistory, acted>>

\* SETEX approval_pending, publish approval_required, notify Slack.
Pend(r) ==
    /\ pc[r] = "pend"
    /\ pending' = pending \union {r}
    /\ Goto(r, "wait")
    /\ UNCHANGED <<dbVars, apiVars, brokerVars, out, decision, starts, gateHistory, acted>>

\* One poll of approval_decision finds a decision.  The key is not deleted.
Poll(r) ==
    /\ pc[r] = "wait"
    /\ decision[r] # "none"
    /\ Goto(r, IF decision[r] = "approve" THEN "resume" ELSE "refuse")
    /\ UNCHANGED <<dbVars, apiVars, brokerVars, out, redisVars, starts, gateHistory, acted>>

\* Mutant of Timeout: the row is marked rejected but the gate stays open.
TimeoutMarksRow(r) ==
    /\ pc[r] = "wait"
    /\ row[r] = "needs_human"
    /\ row' = [row EXCEPT ![r] = "rejected"]
    /\ UNCHANGED <<incident, audit, apiVars, brokerVars, pc, out, redisVars, starts,
                   gateHistory, acted>>

\* Mutant of Timeout: silence counts as consent.
TimeoutApproves(r) ==
    /\ pc[r] = "wait"
    /\ Goto(r, "resume")
    /\ UNCHANGED <<dbVars, apiVars, brokerVars, out, redisVars, starts, gateHistory, acted>>

\* Mutant of Timeout: the poll loop has no deadline.
TimeoutNever(r) ==
    /\ pc[r] = "wait"
    /\ decision[r] = "reject"
    /\ Goto(r, "refuse")
    /\ UNCHANGED <<dbVars, apiVars, brokerVars, out, redisVars, starts, gateHistory, acted>>

\* The deadline passes; a decision written since the last poll is not looked at.
Timeout(r) ==
    /\ pc[r] = "wait"
    /\ Goto(r, "refuse")
    /\ UNCHANGED <<dbVars, apiVars, brokerVars, out, redisVars, starts, gateHistory, acted>>

\* Mutant of ResumeConfident: the resumed graph comes back to the gate, where the
\* decision is still readable.
ResumeToGate(r) ==
    /\ pc[r] = "resume"
    /\ acted' = [acted EXCEPT ![r] = @ + 1]
    /\ pc' = [pc EXCEPT ![r] = IF acted[r] < starts[r] THEN "wait" ELSE "package"]
    /\ UNCHANGED <<dbVars, apiVars, brokerVars, out, redisVars, starts, gateHistory>>

\* Publish workflow_approved and resume the graph up to package_outcome, where
\* the confidence reaches the threshold: the summary is posted to Slack.
ResumeConfident(r) ==
    /\ pc[r] = "resume"
    /\ acted' = [acted EXCEPT ![r] = @ + 1]
    /\ Goto(r, "package")
    /\ UNCHANGED <<dbVars, apiVars, brokerVars, out, redisVars, starts, gateHistory>>

\* The Jira ticket, the rest of package_outcome and the result packaging: status done.
Package(r) ==
    /\ pc[r] = "package"
    /\ out' = [out EXCEPT ![r] = "done"]
    /\ Goto(r, "clear")
    /\ UNCHANGED <<dbVars, apiVars, brokerVars, redisVars, starts, gateHistory, acted>>

\* As above with a confidence below the threshold: no automatic action, and the
\* resumed workflow returns needs_human once more.
ResumeUnsure(r) ==
    /\ pc[r] = "resume"
    /\ out' = [out EXCEPT ![r] = "needs_human"]
    /\ Goto(r, "clear")
    /\ UNCHANGED <<dbVars, apiVars, brokerVars, redisVars, starts, gateHistory, acted>>

\* Publish workflow_rejected; the graph is left where it was interrupted.
Refuse(r) ==
    /\ pc[r] = "refuse"
    /\ out' = [out EXCEPT ![r] = "rejected"]
    /\ Goto(r, "clear")
    /\ UNCHANGED <<dbVars, apiVars, brokerVars, redisVars, starts, gateHistory, acted>>

\* Mutant of ClearPending: the run is completed before the incident is updated.
ClearAndComplete(r) ==
    /\ pc[r] = "clear"
    /\ pending' = pending \ {r}
    /\ Goto(r, "complete")
    /\ UNCHANGED <<dbVars, apiVars, brokerVars, out, decision, starts, gateHistory, acted>>

\* Mutant of ClearPending: the key is left to its TTL.
ClearNothing(r) ==
    /\ pc[r] = "clear"
    /\ Goto(r, "settle")
    /\ UNCHANGED <<dbVars, apiVars, brokerVars, out, redisVars, starts, gateHistory, acted>>

ClearPending(r) ==
    /\ pc[r] = "clear"
    /\ pending' = pending \ {r}
    /\ Goto(r, "settle")
    /\ UNCHANGED <<dbVars, apiVars, brokerVars, out, decision, starts, gateHistory, acted>>

\* update_incident(status=investigating); None if the incident is gone.
Settle(r) ==
    /\ pc[r] = "settle"
    /\ \/ /\ incident # "deleted"
          /\ incident' = "investigating"
          /\ Goto(r, "settleAudit")
       \/ /\ incident = "deleted"
          /\ Goto(r, "complete")
          /\ UNCHANGED incident
    /\ UNCHANGED <<row, audit, apiVars, brokerVars, out, redisVars, starts, gateHistory, acted>>

SettleAudit(r) ==
    /\ pc[r] = "settleAudit"
    /\ audit' = [audit EXCEPT ![r] = @ \union {"incident_status_changed"}]
    /\ Goto(r, "complete")
    /\ UNCHANGED <<row, incident, apiVars, brokerVars, out, redisVars, starts, gateHistory, acted>>

\* Mutant of Complete: the status is not passed, so the default "done" is stored.
CompleteAsDone(r) ==
    /\ pc[r] = "complete"
    /\ row[r] # "deleted"
    /\ row' = [row EXCEPT ![r] = "done"]
    /\ Goto(r, "completeAudit")
    /\ UNCHANGED <<incident, audit, apiVars, brokerVars, out, redisVars, starts, gateHistory, acted>>

\* complete_agent_run; None, with no audit, if the row is gone.
Complete(r) ==
    /\ pc[r] = "complete"
    /\ \/ /\ row[r] # "deleted"
          /\ row' = [row EXCEPT ![r] = out[r]]
          /\ Goto(r, "completeAudit")
       \/ /\ row[r] = "deleted"
          /\ Goto(r, "finish")
          /\ UNCHANGED row
    /\ UNCHANGED <<incident, audit, apiVars, brokerVars, out, redisVars, starts, gateHistory, acted>>

CompleteAudit(r) ==
    /\ pc[r] = "completeAudit"
    /\ audit' = [audit EXCEPT ![r] = @ \union {"agent_run_completed"}]
    /\ Goto(r, "finish")
    /\ UNCHANGED <<row, incident, apiVars, brokerVars, out, redisVars, starts, gateHistory, acted>>

\* Slack, embedding and cache errors are swallowed; workflow_done is published
\* and the payload returned, which Celery stores before it acknowledges.
Finish(r) ==
    /\ pc[r] = "finish"
    /\ StoreResult(r, out[r])
    /\ Goto(r, "ack")
    /\ UNCHANGED <<dbVars, apiVars, queue, attempt, crashes, resent, out, redisVars,
                   starts, gateHistory, acted>>

-----------------------------------------------------------------------------
(* Redis expiry.  A waiting worker reads approval_decision every 2 s of its    *)
(* 3600 s, and approval_pending outlives the wait by 300 s.                    *)

ExpireDecision(r) ==
    /\ decision[r] # "none"
    /\ pc[r] # "wait"
    /\ decision' = [decision EXCEPT ![r] = "none"]
    /\ UNCHANGED <<dbVars, apiVars, brokerVars, pc, out, pending, starts, gateHistory, acted>>

ExpirePending(r) ==
    /\ r \in pending
    /\ pc[r] # "wait"
    /\ pending' = pending \ {r}
    /\ UNCHANGED <<dbVars, apiVars, brokerVars, pc, out, decision, starts, gateHistory, acted>>

-----------------------------------------------------------------------------

Execute(r) ==
    \/ ExecCreate(r)
    \/ ExecAudit(r)
    \/ ExecDelay(r)
    \/ ExecAccept(r)
    \/ ExecError(r)

Review ==
    \/ \E c \in Reviewer, r \in Run, a \in Decision : ReviewCheck(c, r, a)
    \/ \E q \in requests : ReviewWrite(q) \/ ReviewAudit(q) \/ ReviewError(q)

\* The steps a live worker takes on its own.
Work(r) ==
    \/ Load(r)
    \/ LoadMissing(r)
    \/ RunGraph(r)
    \/ EmitRaises(r)
    \/ Park(r)
    \/ ParkAudit(r)
    \/ Pend(r)
    \/ Poll(r)
    \/ Timeout(r)
    \/ ResumeConfident(r)
    \/ Package(r)
    \/ ResumeUnsure(r)
    \/ Refuse(r)
    \/ ClearPending(r)
    \/ Settle(r)
    \/ SettleAudit(r)
    \/ Complete(r)
    \/ CompleteAudit(r)
    \/ Finish(r)
    \/ Ack(r)

Disturb(r) ==
    \/ Fail(r)
    \/ Crash(r)
    \/ ExpireDecision(r)
    \/ ExpirePending(r)

Next ==
    \/ \E r \in Run : Execute(r) \/ Deliver(r) \/ Work(r) \/ Disturb(r)
    \/ Review
    \/ DeleteIncident

Spec == Init /\ [][Next]_vars

\* The worker processes keep running: a free slot takes waiting messages, and an
\* execution goes on (every wait in it has a deadline).  Nothing is assumed of
\* operators, of failures or of expiry.
FairSpec ==
    /\ Spec
    /\ \A r \in Run : WF_vars(Deliver(r)) /\ WF_vars(Work(r))

=============================================================================
