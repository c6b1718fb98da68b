--------------------------- MODULE RunProperties ---------------------------
(***************************************************************************)
(* What RunLifecycle is checked for, and what RunProofs proves of it.       *)
(***************************************************************************)
EXTENDS RunLifecycle

\* No message of the run's task is waiting or being worked on.
Settled(r) == r \notin queue /\ pc[r] = "idle"

\* The runs one of whose executions was cut short or repeated.
Repeated(r) == starts[r] > 1

-----------------------------------------------------------------------------

\* GET /api/tasks/{id} and GET /api/runs/{incident} agree: from the moment a payload
\* is stored for a run's task, the run's row shows the status of that payload,
\* whatever failed, was retried or redelivered on the way.  One case is excepted, as
\* nothing in the code prevents it: a worker lost between storing the payload and
\* acknowledging the message.  The task is then executed again, its row is written
\* again, and the backend keeps the first payload, so the two may differ for good.
ResultMatchesRow ==
    \A r \in Run : result[r] \in Outcome
                        => row[r] \in {result[r], "deleted"} \/ r \in resent

\* A status that complete_agent_run made final changes again only by deletion, or
\* in an execution that repeats an earlier one of the same task.
FinalUnlessRepeated ==
    [][\A r \in Run : row[r] \in {"done", "rejected"} /\ row'[r] # row[r]
                        => row'[r] = "deleted" \/ Repeated(r)]_vars

\* The audit trail never tells of a decision nobody wrote, nor of a completion
\* that no execution of the task reached.
AuditTruthful ==
    \A r \in Run :
        /\ "run_approved" \in audit[r] => "approve" \in given[r]
        /\ "run_rejected" \in audit[r] => "reject" \in given[r]
        /\ "agent_run_completed" \in audit[r] => r \in asked

\* One execution of the task calls Slack and Jira at most once, although it goes
\* through the graph twice: the gate's resume does not replay what came before.
ActedOncePerExecution == \A r \in Run : acted[r] <= starts[r]

\* A reader never finds a finished run on an incident that no worker has moved to
\* "investigating": update_incident commits before complete_agent_run.
IncidentLeadsRun ==
    \A r \in Run : row[r] \in {"done", "rejected"} => incident # "open"

\* approval_pending:{run_id} is left behind only by an execution that failed or
\* was repeated; an undisturbed run takes its key away.
PendingLeftOnlyByFailure ==
    \A r \in pending : Settled(r) => Repeated(r) \/ result[r] = "FAILURE"

\* Approving and executing as the API's readers see them: the contract of
\* ApprovalContract, under the mapping of its four variables.
Contract == INSTANCE ApprovalContract WITH
    status <- row,
    asked <- asked,
    approved <- {r \in Run : "approve" \in given[r]},
    fired <- {r \in Run : acted[r] > 0}

\* RunLifecycle implements the contract.
ImplementsContract == Contract!Spec

\* Every decision that was written is in the audit trail, or the request that
\* wrote it is about to log it.  Holds while no call of the API raises.
AuditComplete ==
    \A r \in Run : \A a \in given[r] :
        \/ (IF a = "approve" THEN "run_approved" ELSE "run_rejected") \in audit[r]
        \/ \E q \in requests : q.run = r /\ q.action = a /\ q.at = "written"

\* Every enqueued task settles, with as few as one slot in the pool: a gate that
\* nobody answers gives its slot back at the deadline.
EveryTaskSettles == \A r \in Run : r \in queue ~> Settled(r)

-----------------------------------------------------------------------------
(* Claims of the documentation that the code does not keep *)

\* FUTURE_SCOPE.md:281, "Before the agent executes high-risk runbook steps,
\* require an explicit engineer approval": the approval under which an execution
\* resumes was written after that execution opened its gate.
ApprovalIsForThisGate ==
    \A r \in Run : pc[r] \in {"resume", "package"} => fresh[r]

\* FUTURE_SCOPE.md:284, "POST /api/runs/{run_id}/approve - resume graph with
\* approval": a run that shows needs_human, the status for which the endpoint
\* answers 200, has an execution under way or still to come that reads the answer.
DecisionHasReader ==
    \A r \in Run : row[r] = "needs_human" => ~Settled(r)

\* tasks.py:35, "Run the LangGraph incident workflow and persist the result":
\* where no call fails and no worker is lost, a settled task has a result.
TaskPersistsResult ==
    \A r \in Run : Settled(r) /\ incident # "deleted" => result[r] # "FAILURE"

=============================================================================
