----------------------------- MODULE RunProofs -----------------------------
(***************************************************************************)
(* Proofs that hold for every set of runs and reviewers, every number of    *)
(* retries, crashes and slots, for failing and for reliable calls, and for  *)
(* the emitter as committed as well as for a repaired one.                  *)
(***************************************************************************)
EXTENDS RunProperties, TLAPS

\* Phases between the commit of needs_human and the end of the execution.
AfterPark == {"parkAudit", "pend", "wait", "resume", "package", "refuse", "clear",
              "settle", "settleAudit", "complete", "completeAudit", "finish", "ack"}
\* Phases in which the final result of the execution is known.
Decided == {"clear", "settle", "settleAudit", "complete", "completeAudit", "finish", "ack"}
\* Phases before the automatic actions can have been fired by this execution.
BeforeAct == {"start", "graph", "park", "parkAudit", "pend", "wait", "resume"}
\* Phases in which approval_pending:{run_id} is set by this execution.
Gated == {"wait", "resume", "package", "refuse", "clear"}
\* Phases after complete_agent_run has committed.
Completed == {"completeAudit", "finish", "ack"}

-----------------------------------------------------------------------------
(* The inductive invariant, one part per relation between two components. *)

\* The database row exists before the task message does.
RowBeforeTask ==
    \A r \in Run :
        /\ exec[r] = "none" => row[r] = "none"
        /\ exec[r] \in {"none", "created", "logged"} =>
              r \notin queue /\ pc[r] = "idle" /\ result[r] = "PENDING"
        /\ exec[r] # "none" => row[r] # "none"
        /\ pc[r] # "idle" => r \notin queue

\* Whatever a gate leads to, the gate was opened for this run.
GateOpened ==
    /\ \A r \in Run :
        /\ row[r] \in Outcome => r \in asked
        /\ given[r] # {} => r \in asked
        /\ pc[r] \in AfterPark /\ row[r] # "deleted" => r \in asked
        /\ pc[r] = "completeAudit" => r \in asked
    /\ \A q \in requests : q.run \in asked

\* Whatever an approval leads to, the approval was written for this run.
Approved ==
    \A r \in Run :
        /\ decision[r] # "none" => decision[r] \in given[r]
        /\ pc[r] \in {"resume", "package"} => "approve" \in given[r]
        /\ acted[r] > 0 => "approve" \in given[r]
        /\ pc[r] = "package" => acted[r] > 0
        /\ out[r] = "done" => acted[r] > 0
        /\ result[r] = "done" => acted[r] > 0

\* The status held by an execution, the row and the stored result move together, until
\* a task is executed again although its payload is stored.
ResultAgrees ==
    \A r \in Run :
        /\ pc[r] \in Decided => out[r] # "none"
        /\ pc[r] \in Completed => row[r] \in {out[r], "deleted"}
        /\ pc[r] = "ack" => result[r] \in Outcome
        /\ pc[r] = "ack" /\ r \notin resent => result[r] = out[r]
        /\ r \in resent => /\ result[r] \in Outcome
                           /\ r \in queue \/ starts[r] > 1
        /\ result[r] \in Outcome /\ r \notin resent
                => r \notin queue /\ pc[r] \in {"idle", "ack"}

\* How far the first execution of a task has come.
FirstExecution ==
    \A r \in Run :
        /\ pc[r] # "idle" => starts[r] > 0
        /\ starts[r] = 0 => /\ row[r] \in {"none", "queued", "deleted"}
                            /\ result[r] = "PENDING"
                            /\ r \notin pending
        /\ starts[r] = 1 /\ pc[r] \notin Completed \union {"idle"}
                => row[r] \notin {"done", "rejected"}
        /\ starts[r] < 2 /\ pc[r] # "idle" => result[r] # "FAILURE"
        /\ r \in pending => \/ pc[r] \in Gated
                            \/ starts[r] > 1
                            \/ r \in queue
                            \/ result[r] = "FAILURE"

\* An execution has at most one chance to fire the automatic actions.
ActsBounded ==
    \A r \in Run : /\ acted[r] <= starts[r]
                   /\ pc[r] \in BeforeAct => acted[r] < starts[r]

\* The incident is touched before the run is finished.
IncidentFirst ==
    \A r \in Run : /\ row[r] \in {"done", "rejected"} => incident # "open"
                   /\ pc[r] \in {"settleAudit", "complete"} => incident # "open"

\* The audit trail, and the requests about to extend it.
AuditBacked ==
    /\ AuditTruthful
    /\ \A q \in requests : q.at = "written" => q.action \in given[q.run]

IInv ==
    /\ TypeOK
    /\ RowBeforeTask
    /\ GateOpened
    /\ Approved
    /\ ResultAgrees
    /\ ResultMatchesRow
    /\ FirstExecution
    /\ ActsBounded
    /\ IncidentFirst
    /\ AuditBacked

-----------------------------------------------------------------------------

\* Before the first request there is nothing for the invariant to relate.
LEMMA InitInv == Init => IInv
  BY RetriesAssumption, CrashesAssumption DEF Init, IInv, RowBeforeTask, GateOpened,
     Approved, ResultAgrees, ResultMatchesRow, FirstExecution, ActsBounded,
     IncidentFirst, AuditBacked, AuditTruthful, Settled, AfterPark, Decided,
     BeforeAct, Gated, Completed, TypeOK, RowStatus, Outcome, ExecPhase, Phase,
     Decision, AuditAction, Request

\* The execute endpoint creates the row, logs it and only then sends the task.
LEMMA ExecuteInv ==
    ASSUME IInv, NEW r \in Run, Execute(r)
    PROVE  IInv'
<1> USE RetriesAssumption, CrashesAssumption DEF IInv, RowBeforeTask, GateOpened,
        Approved, ResultAgrees, ResultMatchesRow, FirstExecution, ActsBounded,
        IncidentFirst, AuditBacked, AuditTruthful, Settled, AfterPark, Decided,
        BeforeAct, Gated, Completed, TypeOK, RowStatus, Outcome, ExecPhase, Phase,
        Decision, AuditAction, Request, Goto, Raise, StoreResult, vars, dbVars, apiVars,
        brokerVars, redisVars, gateHistory
<1>1. CASE ExecCreate(r)
  BY <1>1 DEF ExecCreate
<1>2. CASE ExecAudit(r)
  BY <1>2 DEF ExecAudit
<1>3. CASE ExecDelay(r)
  BY <1>3 DEF ExecDelay
<1>4. CASE ExecAccept(r)
  BY <1>4 DEF ExecAccept
<1>5. CASE ExecError(r)
  BY <1>5 DEF ExecError
<1> QED
  BY <1>1, <1>2, <1>3, <1>4, <1>5 DEF Execute

\* The steps of an execution: each relation is established one phase before the
\* part of the invariant that relies on it.
LEMMA WorkInv ==
    ASSUME IInv, NEW r \in Run, Work(r)
    PROVE  IInv'
<1> USE RetriesAssumption, CrashesAssumption DEF IInv, RowBeforeTask, GateOpened,
        Approved, ResultAgrees, ResultMatchesRow, FirstExecution, ActsBounded,
        IncidentFirst, AuditBacked, AuditTruthful, Settled, AfterPark, Decided,
        BeforeAct, Gated, Completed, TypeOK, RowStatus, Outcome, ExecPhase, Phase,
        Decision, AuditAction, Request, Goto, Raise, StoreResult, vars, dbVars, apiVars,
        brokerVars, redisVars, gateHistory
<1>1. CASE Load(r)
  BY <1>1 DEF Load
<1>2. CASE LoadMissing(r)
  BY <1>2 DEF LoadMissing
<1>3. CASE RunGraph(r)
  BY <1>3 DEF RunGraph
<1>4. CASE EmitRaises(r)
  BY <1>4 DEF EmitRaises
<1>5. CASE Park(r)
  <2>1. CASE row[r] # "deleted"
    BY <1>5, <2>1 DEF Park
  <2>2. CASE row[r] = "deleted"
    BY <1>5, <2>2 DEF Park
  <2> QED BY <2>1, <2>2
<1>6. CASE ParkAudit(r)
  BY <1>6 DEF ParkAudit
<1>7. CASE Pend(r)
  BY <1>7 DEF Pend
<1>8. CASE Poll(r)
  BY <1>8 DEF Poll
<1>9. CASE Timeout(r)
  BY <1>9 DEF Timeout
<1>10. CASE ResumeConfident(r)
  BY <1>10 DEF ResumeConfident
<1>11. CASE Package(r)
  BY <1>11 DEF Package
<1>12. CASE ResumeUnsure(r)
  BY <1>12 DEF ResumeUnsure
<1>13. CASE Refuse(r)
  BY <1>13 DEF Refuse
<1>14. CASE ClearPending(r)
  BY <1>14 DEF ClearPending
<1>15. CASE Settle(r)
  BY <1>15 DEF Settle
<1>16. CASE SettleAudit(r)
  BY <1>16 DEF SettleAudit
<1>17. CASE Complete(r)
  BY <1>17 DEF Complete
<1>18. CASE CompleteAudit(r)
  BY <1>18 DEF CompleteAudit
<1>19. CASE Finish(r)
  BY <1>19 DEF Finish
<1>20. CASE Ack(r)
  BY <1>20 DEF Ack
<1> QED
  BY <1>1, <1>2, <1>3, <1>4, <1>5, <1>6, <1>7, <1>8, <1>9, <1>10, <1>11,
     <1>12, <1>13, <1>14, <1>15, <1>16, <1>17, <1>18, <1>19, <1>20 DEF Work

\* Exceptions, lost workers and expiring keys only forget what an execution held.
LEMMA DisturbInv ==
    ASSUME IInv, NEW r \in Run, Disturb(r)
    PROVE  IInv'
<1> USE RetriesAssumption, CrashesAssumption DEF IInv, RowBeforeTask, GateOpened,
        Approved, ResultAgrees, ResultMatchesRow, FirstExecution, ActsBounded,
        IncidentFirst, AuditBacked, AuditTruthful, Settled, AfterPark, Decided,
        BeforeAct, Gated, Completed, TypeOK, RowStatus, Outcome, ExecPhase, Phase,
        Decision, AuditAction, Request, Goto, Raise, StoreResult, vars, dbVars, apiVars,
        brokerVars, redisVars, gateHistory
<1>1. CASE Fail(r)
  BY <1>1 DEF Fail
<1>2. CASE Crash(r)
  BY <1>2 DEF Crash
<1>3. CASE ExpireDecision(r)
  BY <1>3 DEF ExpireDecision
<1>4. CASE ExpirePending(r)
  BY <1>4 DEF ExpirePending
<1> QED
  BY <1>1, <1>2, <1>3, <1>4 DEF Disturb

\* A delivery starts an execution that has not fired anything yet.
LEMMA DeliverInv ==
    ASSUME IInv, NEW r \in Run, Deliver(r)
    PROVE  IInv'
<1> USE RetriesAssumption, CrashesAssumption DEF IInv, RowBeforeTask, GateOpened,
        Approved, ResultAgrees, ResultMatchesRow, FirstExecution, ActsBounded,
        IncidentFirst, AuditBacked, AuditTruthful, Settled, AfterPark, Decided,
        BeforeAct, Gated, Completed, TypeOK, RowStatus, Outcome, ExecPhase, Phase,
        Decision, AuditAction, Request, Goto, Raise, StoreResult, vars, dbVars, apiVars,
        brokerVars, redisVars, gateHistory
<1> QED BY DEF Deliver

\* The approve and reject endpoints: a decision needs a row that showed
\* needs_human, and is written before it is logged.
LEMMA ReviewInv ==
    ASSUME IInv, Review
    PROVE  IInv'
<1> USE RetriesAssumption, CrashesAssumption DEF IInv, RowBeforeTask, GateOpened,
        Approved, ResultAgrees, ResultMatchesRow, FirstExecution, ActsBounded,
        IncidentFirst, AuditBacked, AuditTruthful, Settled, AfterPark, Decided,
        BeforeAct, Gated, Completed, TypeOK, RowStatus, Outcome, ExecPhase, Phase,
        Decision, AuditAction, Request, Goto, Raise, StoreResult, vars, dbVars, apiVars,
        brokerVars, redisVars, gateHistory
<1>1. ASSUME NEW c \in Reviewer, NEW r \in Run, NEW a \in Decision, ReviewCheck(c, r, a)
      PROVE  IInv'
  BY <1>1 DEF ReviewCheck
<1>2. ASSUME NEW q \in requests, ReviewWrite(q)
      PROVE  IInv'
  BY <1>2 DEF ReviewWrite
<1>3. ASSUME NEW q \in requests, ReviewAudit(q)
      PROVE  IInv'
  BY <1>3 DEF ReviewAudit
<1>4. ASSUME NEW q \in requests, ReviewError(q)
      PROVE  IInv'
  BY <1>4 DEF ReviewError
<1> QED
  BY <1>1, <1>2, <1>3, <1>4 DEF Review

\* The cascade turns every row into "deleted", which satisfies every part.
LEMMA DeleteInv ==
    ASSUME IInv, DeleteIncident
    PROVE  IInv'
<1> USE RetriesAssumption, CrashesAssumption DEF IInv, RowBeforeTask, GateOpened,
        Approved, ResultAgrees, ResultMatchesRow, FirstExecution, ActsBounded,
        IncidentFirst, AuditBacked, AuditTruthful, Settled, AfterPark, Decided,
        BeforeAct, Gated, Completed, TypeOK, RowStatus, Outcome, ExecPhase, Phase,
        Decision, AuditAction, Request, Goto, Raise, StoreResult, vars, dbVars, apiVars,
        brokerVars, redisVars, gateHistory
<1> QED BY DEF DeleteIncident

\* A step that changes nothing keeps the invariant.
LEMMA StutterInv ==
    ASSUME IInv, UNCHANGED vars
    PROVE  IInv'
<1> USE RetriesAssumption, CrashesAssumption DEF IInv, RowBeforeTask, GateOpened,
        Approved, ResultAgrees, ResultMatchesRow, FirstExecution, ActsBounded,
        IncidentFirst, AuditBacked, AuditTruthful, Settled, AfterPark, Decided,
        BeforeAct, Gated, Completed, TypeOK, RowStatus, Outcome, ExecPhase, Phase,
        Decision, AuditAction, Request, Goto, Raise, StoreResult, vars, dbVars, apiVars,
        brokerVars, redisVars, gateHistory
<1> QED OBVIOUS

\* IInv is an inductive invariant of the specification.
LEMMA Invariance == Spec => []IInv
<1>1. Init => IInv
  BY InitInv
<1>2. IInv /\ [Next]_vars => IInv'
  BY ExecuteInv, DeliverInv, WorkInv, DisturbInv, ReviewInv, DeleteInv, StutterInv
     DEF Next
<1> QED
  BY <1>1, <1>2, PTL DEF Spec

-----------------------------------------------------------------------------

\* Every variable keeps its type; it takes the invariant to know that a stored
\* result is never the empty status of an execution without a result.
THEOREM TypeCorrect == Spec => []TypeOK
  BY Invariance, PTL DEF IInv

\* A stored payload and the run's row agree (the polling endpoint and the runs endpoint
\* tell the same story), unless the worker was lost between storing the payload and
\* acknowledging the message: no retry, no other crash and no late decision makes the
\* two differ.
THEOREM ResultAgreement == Spec => []ResultMatchesRow
  BY Invariance, PTL DEF IInv

\* The audit trail only tells of decisions and completions that took place.
THEOREM AuditTruth == Spec => []AuditTruthful
<1>1. IInv => AuditTruthful
  BY DEF IInv, AuditBacked
<1> QED
  BY <1>1, Invariance, PTL

\* An execution fires the automatic actions at most once.
THEOREM ActsOnce == Spec => []ActedOncePerExecution
<1>1. IInv => ActedOncePerExecution
  BY DEF IInv, ActsBounded, ActedOncePerExecution
<1> QED
  BY <1>1, Invariance, PTL

\* The incident is "investigating" before a run of it can be seen finished.
THEOREM IncidentLeads == Spec => []IncidentLeadsRun
<1>1. IInv => IncidentLeadsRun
  BY DEF IInv, IncidentFirst, IncidentLeadsRun
<1> QED
  BY <1>1, Invariance, PTL

\* An undisturbed execution removes the approval_pending key it set.
THEOREM PendingLeft == Spec => []PendingLeftOnlyByFailure
<1>1. IInv => PendingLeftOnlyByFailure
  BY DEF IInv, TypeOK, FirstExecution, PendingLeftOnlyByFailure, Settled, Repeated, Gated
<1> QED
  BY <1>1, Invariance, PTL

-----------------------------------------------------------------------------

\* The handlers that write a run's row; every other step leaves the rows alone.
LEMMA RowWriters ==
    ASSUME Next
    PROVE  \/ UNCHANGED row
           \/ \E r \in Run : ExecCreate(r) \/ Park(r) \/ Complete(r)
           \/ DeleteIncident
<1> USE DEF dbVars
<1>1. ASSUME NEW r \in Run, Execute(r)
      PROVE  UNCHANGED row \/ ExecCreate(r)
  BY <1>1 DEF Execute, ExecAudit, ExecDelay, ExecAccept, ExecError
<1>2. ASSUME NEW r \in Run, Deliver(r)
      PROVE  UNCHANGED row
  BY <1>2 DEF Deliver
<1>3. ASSUME NEW r \in Run, Work(r)
      PROVE  UNCHANGED row \/ Park(r) \/ Complete(r)
  BY <1>3 DEF Work, Load, LoadMissing, Raise, RunGraph, EmitRaises, ParkAudit, Pend,
     Poll, Timeout, ResumeConfident, Package, ResumeUnsure, Refuse, ClearPending,
     Settle, SettleAudit, CompleteAudit, Finish, Ack
<1>4. ASSUME NEW r \in Run, Disturb(r)
      PROVE  UNCHANGED row
  BY <1>4 DEF Disturb, Fail, Raise, Crash, ExpireDecision, ExpirePending
<1>5. ASSUME Review
      PROVE  UNCHANGED row
  BY <1>5 DEF Review, ReviewCheck, ReviewWrite, ReviewAudit, ReviewError
<1> QED
  BY <1>1, <1>2, <1>3, <1>4, <1>5 DEF Next

\* A finished run changes only by deletion or in a repeated execution: the first
\* execution that gets past complete_agent_run writes no row again.
THEOREM FinalStays == Spec => FinalUnlessRepeated
<1> DEFINE Stays(r) == row[r] \in {"done", "rejected"} /\ row'[r] # row[r]
                            => row'[r] = "deleted" \/ Repeated(r)
<1>1. IInv /\ [Next]_vars => [\A r \in Run : Stays(r)]_vars
  <2> SUFFICES ASSUME IInv, Next, NEW r \in Run
               PROVE  Stays(r)
    OBVIOUS
  <2> USE DEF IInv, TypeOK
  <2>1. CASE UNCHANGED row
    BY <2>1
  <2>2. ASSUME NEW s \in Run, ExecCreate(s)
        PROVE  Stays(r)
    BY <2>2 DEF ExecCreate, RowBeforeTask
  <2>3. ASSUME NEW s \in Run, Park(s)
        PROVE  Stays(r)
    BY <2>3 DEF Park, FirstExecution, Completed, Repeated, Goto
  <2>4. ASSUME NEW s \in Run, Complete(s)
        PROVE  Stays(r)
    BY <2>4 DEF Complete, FirstExecution, Completed, Repeated, Goto
  <2>5. CASE DeleteIncident
    BY <2>5 DEF DeleteIncident
  <2> QED
    BY <2>1, <2>2, <2>3, <2>4, <2>5, RowWriters
<1> QED
  BY <1>1, Invariance, PTL DEF Spec, FinalUnlessRepeated

-----------------------------------------------------------------------------
(* RunLifecycle implements ApprovalContract. *)

\* The history of approvals and of fired actions, as the contract sees it, changes
\* only where a decision is written and where the resumed graph acts.
LEMMA ContractHistory ==
    ASSUME Next
    PROVE  \/ UNCHANGED <<given, acted>>
           \/ \E q \in requests : ReviewWrite(q)
           \/ \E r \in Run : ResumeConfident(r)
<1> USE DEF gateHistory
<1>1. ASSUME NEW r \in Run, Execute(r)
      PROVE  UNCHANGED <<given, acted>>
  BY <1>1 DEF Execute, ExecCreate, ExecAudit, ExecDelay, ExecAccept, ExecError
<1>2. ASSUME NEW r \in Run, Deliver(r)
      PROVE  UNCHANGED <<given, acted>>
  BY <1>2 DEF Deliver
<1>3. ASSUME NEW r \in Run, Work(r)
      PROVE  UNCHANGED <<given, acted>> \/ ResumeConfident(r)
  BY <1>3 DEF Work, Load, LoadMissing, Raise, RunGraph, EmitRaises, Park, ParkAudit,
     Pend, Poll, Timeout, Package, ResumeUnsure, Refuse, ClearPending, Settle,
     SettleAudit, Complete, CompleteAudit, Finish, Ack
<1>4. ASSUME NEW r \in Run, Disturb(r)
      PROVE  UNCHANGED <<given, acted>>
  BY <1>4 DEF Disturb, Fail, Raise, Crash, ExpireDecision, ExpirePending
<1>5. ASSUME Review
      PROVE  UNCHANGED <<given, acted>> \/ \E q \in requests : ReviewWrite(q)
  BY <1>5 DEF Review, ReviewCheck, ReviewAudit, ReviewError
<1>6. CASE DeleteIncident
  BY <1>6 DEF DeleteIncident
<1> QED
  BY <1>1, <1>2, <1>3, <1>4, <1>5, <1>6 DEF Next

\* The set of runs that were ever asked about grows only with a parked row.
LEMMA AskedWriters ==
    ASSUME Next
    PROVE  UNCHANGED asked \/ \E r \in Run : Park(r)
<1> USE DEF gateHistory
<1>1. ASSUME NEW r \in Run, Execute(r) \/ Deliver(r) \/ Disturb(r)
      PROVE  UNCHANGED asked
  BY <1>1 DEF Execute, ExecCreate, ExecAudit, ExecDelay, ExecAccept, ExecError,
     Deliver, Disturb, Fail, Raise, Crash, ExpireDecision, ExpirePending
<1>2. ASSUME NEW r \in Run, Work(r)
      PROVE  UNCHANGED asked \/ Park(r)
  BY <1>2 DEF Work, Load, LoadMissing, Raise, RunGraph, EmitRaises, ParkAudit, Pend,
     Poll, Timeout, ResumeConfident, Package, ResumeUnsure, Refuse, ClearPending,
     Settle, SettleAudit, Complete, CompleteAudit, Finish, Ack
<1>3. CASE Review
  BY <1>3 DEF Review, ReviewCheck, ReviewWrite, ReviewAudit, ReviewError
<1>4. CASE DeleteIncident
  BY <1>4 DEF DeleteIncident
<1> QED
  BY <1>1, <1>2, <1>3, <1>4 DEF Next

\* Every step of the lifecycle is a step of the contract or changes nothing that
\* the contract speaks of: who was asked, who approved, what was fired, what a
\* reader sees.
THEOREM Refinement == Spec => ImplementsContract
<1> USE DEF Contract!vars
<1>1. Init => Contract!Init
  BY DEF Init, Contract!Init
<1>2. IInv /\ [Next]_vars => [Contract!Next]_Contract!vars
  <2> SUFFICES ASSUME IInv, Next
               PROVE  Contract!Next \/ UNCHANGED Contract!vars
    BY DEF vars, dbVars, gateHistory
  <2> USE DEF IInv, TypeOK, gateHistory, dbVars, Contract!Exists
  <2>1. ASSUME NEW r \in Run, ExecCreate(r)
        PROVE  Contract!Queue(r)
    BY <2>1 DEF ExecCreate, RowBeforeTask, Contract!Queue
  <2>2. ASSUME NEW r \in Run, Park(r)
        PROVE  Contract!Ask(r) \/ UNCHANGED Contract!vars
    <3>1. row[r] # "none"
      BY <2>2 DEF Park, RowBeforeTask
    <3> QED
      BY <2>2, <3>1 DEF Park, Contract!Ask
  <2>3. ASSUME NEW r \in Run, Complete(r)
        PROVE  \/ Contract!Ask(r) \/ Contract!Finish(r) \/ Contract!Refuse(r)
               \/ UNCHANGED Contract!vars
    <3>1. CASE row[r] = "deleted"
      BY <2>3, <3>1 DEF Complete
    <3>2. CASE row[r] # "deleted"
      <4>1. row[r] # "none" /\ r \in asked /\ out[r] \in Outcome
        BY <2>3, <3>2 DEF Complete, RowBeforeTask, GateOpened, AfterPark,
           ResultAgrees, Decided, Outcome
      <4>2. row' = [row EXCEPT ![r] = out[r]] /\ UNCHANGED <<asked, given, acted>>
        BY <2>3, <3>2 DEF Complete
      <4>3. CASE out[r] = "done"
        <5>1. acted[r] > 0
          BY <4>3 DEF Approved
        <5> QED
          BY <3>2, <4>1, <4>2, <4>3, <5>1 DEF Contract!Finish
      <4>4. CASE out[r] = "rejected"
        BY <3>2, <4>1, <4>2, <4>4 DEF Contract!Refuse
      <4>5. CASE out[r] = "needs_human"
        BY <3>2, <4>1, <4>2, <4>5 DEF Contract!Ask
      <4> QED
        BY <4>1, <4>3, <4>4, <4>5 DEF Outcome
    <3> QED
      BY <3>1, <3>2
  <2>4. ASSUME DeleteIncident
        PROVE  Contract!Delete
    BY <2>4 DEF DeleteIncident, Contract!Delete, RowStatus, Outcome
  <2>5. ASSUME NEW q \in requests, ReviewWrite(q)
        PROVE  Contract!Approve(q.run) \/ UNCHANGED Contract!vars
    BY <2>5 DEF ReviewWrite, GateOpened, Contract!Approve, Request, Decision
  <2>6. ASSUME NEW r \in Run, ResumeConfident(r)
        PROVE  Contract!Fire(r)
    BY <2>6 DEF ResumeConfident, Approved, Contract!Fire
  <2>7. ASSUME UNCHANGED <<row, asked, given, acted>>
        PROVE  UNCHANGED Contract!vars
    BY <2>7
  <2>8. \/ UNCHANGED <<row, asked, given, acted>>
        \/ \E r \in Run : \/ ExecCreate(r) \/ Park(r) \/ Complete(r)
                          \/ ResumeConfident(r)
        \/ \E q \in requests : ReviewWrite(q)
        \/ DeleteIncident
    BY RowWriters, ContractHistory, AskedWriters
  <2>9. ASSUME NEW q \in requests
        PROVE  q.run \in Run
    BY <2>9 DEF Request
  <2> QED
    BY <2>1, <2>2, <2>3, <2>4, <2>5, <2>6, <2>7, <2>8, <2>9 DEF Contract!Next
<1> QED
  BY <1>1, <1>2, Invariance, PTL DEF Spec, Contract!Spec, ImplementsContract

-----------------------------------------------------------------------------

\* While no call of the API raises, every decision written is logged, or the
\* request that wrote it is still going to log it.
THEOREM AuditIsComplete == ~CallsMayFail => (Spec => []AuditComplete)
<1> SUFFICES ASSUME ~CallsMayFail
             PROVE  Spec => []AuditComplete
  OBVIOUS
<1>1. Init => AuditComplete
  BY DEF Init, AuditComplete
<1>2. IInv /\ AuditComplete /\ [Next]_vars => AuditComplete'
  <2> SUFFICES ASSUME IInv, AuditComplete, [Next]_vars
               PROVE  AuditComplete'
    OBVIOUS
  <2> USE DEF IInv, TypeOK, AuditComplete, dbVars, apiVars, gateHistory
  <2>1. ASSUME NEW r \in Run, Execute(r)
        PROVE  AuditComplete'
    BY <2>1 DEF Execute, ExecCreate, ExecAudit, ExecDelay, ExecAccept, ExecError
  <2>2. ASSUME NEW r \in Run, Work(r)
        PROVE  AuditComplete'
    <3>1. UNCHANGED <<given, requests>>
      BY <2>2 DEF Work, Load, LoadMissing, Raise, RunGraph, EmitRaises, Park,
         ParkAudit, Pend, Poll, Timeout, ResumeConfident, Package, ResumeUnsure,
         Refuse, ClearPending, Settle, SettleAudit, Complete, CompleteAudit, Finish, Ack
    <3>2. \A s \in Run : audit[s] \subseteq audit'[s]
      BY <2>2 DEF Work, Load, LoadMissing, Raise, RunGraph, EmitRaises, Park,
         ParkAudit, Pend, Poll, Timeout, ResumeConfident, Package, ResumeUnsure,
         Refuse, ClearPending, Settle, SettleAudit, Complete, CompleteAudit, Finish, Ack
    <3> QED
      BY <3>1, <3>2
  <2>3. ASSUME NEW r \in Run, Deliver(r) \/ Disturb(r)
        PROVE  AuditComplete'
    BY <2>3 DEF Deliver, Disturb, Fail, Raise, Crash, ExpireDecision, ExpirePending
  <2>4. CASE Review
    <3>1. ASSUME NEW c \in Reviewer, NEW r \in Run, NEW a \in Decision,
                 ReviewCheck(c, r, a)
          PROVE  AuditComplete'
      BY <3>1 DEF ReviewCheck
    <3>2. ASSUME NEW q \in requests, ReviewWrite(q)
          PROVE  AuditComplete'
      <4> DEFINE w == [q EXCEPT !.at = "written"]
      <4>1. /\ w.run = q.run /\ w.action = q.action /\ w.at = "written"
            /\ q.run \in Run /\ q.action \in Decision
        BY DEF Request
      <4>2. /\ requests' = (requests \ {q}) \union {w}
            /\ given' = [given EXCEPT ![q.run] = @ \union {q.action}]
            /\ audit' = audit
            /\ q.at = "checked"
        BY <3>2 DEF ReviewWrite
      <4>3. ASSUME NEW r \in Run, NEW a \in given'[r]
            PROVE  \/ (IF a = "approve" THEN "run_approved" ELSE "run_rejected") \in audit'[r]
                   \/ \E p \in requests' : p.run = r /\ p.action = a /\ p.at = "written"
        <5>1. CASE r = q.run /\ a = q.action
          BY <4>1, <4>2, <5>1
        <5>2. CASE a \in given[r]
          BY <4>2, <5>2
        <5> QED
          BY <4>1, <4>2, <5>1, <5>2
      <4> QED
        BY <4>3
    <3>3. ASSUME NEW q \in requests, ReviewAudit(q)
          PROVE  AuditComplete'
      BY <3>3 DEF ReviewAudit, Request
    <3>4. ASSUME NEW q \in requests, ReviewError(q)
          PROVE  AuditComplete'
      BY <3>4 DEF ReviewError
    <3> QED
      BY <2>4, <3>1, <3>2, <3>3, <3>4 DEF Review
  <2>5. CASE DeleteIncident
    BY <2>5 DEF DeleteIncident
  <2>6. CASE UNCHANGED vars
    BY <2>6 DEF vars
  <2> QED
    BY <2>1, <2>2, <2>3, <2>4, <2>5, <2>6 DEF Next
<1> QED
  BY <1>1, <1>2, Invariance, PTL DEF Spec

-----------------------------------------------------------------------------

\* No run is ever parked, finished or rejected.
NeverLeavesQueued == \A r \in Run : row[r] \in {"none", "queued", "deleted"}

\* With the emitter as committed no execution gets past the graph's first node, so
\* every run stays "queued" for ever: the gate, the approvals and the completion
\* are unreachable until the emitter is repaired.
THEOREM CommittedEmitterBlocksEveryRun ==
    EmitOutcomes = {"raised"} => (Spec => []NeverLeavesQueued)
<1> SUFFICES ASSUME EmitOutcomes = {"raised"}
             PROVE  Spec => []NeverLeavesQueued
  OBVIOUS
<1> DEFINE Early == \A r \in Run : pc[r] \in {"idle", "start", "graph"}
           J == NeverLeavesQueued /\ Early
<1>1. Init => J
  BY DEF Init, NeverLeavesQueued
<1>2. IInv /\ J /\ [Next]_vars => J'
  <2> SUFFICES ASSUME IInv, J, [Next]_vars
               PROVE  J'
    OBVIOUS
  <2> USE DEF NeverLeavesQueued, IInv, TypeOK, dbVars, Raise, Goto
  <2>1. ASSUME NEW r \in Run, Execute(r)
        PROVE  J'
    BY <2>1 DEF Execute, ExecCreate, ExecAudit, ExecDelay, ExecAccept, ExecError
  <2>2. ASSUME NEW r \in Run, Work(r)
        PROVE  J'
    <3>1. pc[r] \in {"idle", "start", "graph"}
      OBVIOUS
    <3>2. Load(r) \/ LoadMissing(r) \/ EmitRaises(r)
      BY <2>2, <3>1 DEF Work, RunGraph, Park, ParkAudit, Pend, Poll, Timeout,
         ResumeConfident, Package, ResumeUnsure, Refuse, ClearPending, Settle,
         SettleAudit, Complete, CompleteAudit, Finish, Ack
    <3> QED
      BY <3>2 DEF Load, LoadMissing, EmitRaises
  <2>3. ASSUME NEW r \in Run, Deliver(r) \/ Disturb(r)
        PROVE  J'
    BY <2>3 DEF Deliver, Disturb, Fail, Crash, ExpireDecision, ExpirePending
  <2>4. CASE Review
    BY <2>4 DEF Review, ReviewCheck, ReviewWrite, ReviewAudit, ReviewError
  <2>5. CASE DeleteIncident
    BY <2>5 DEF DeleteIncident
  <2>6. CASE UNCHANGED vars
    BY <2>6 DEF vars
  <2> QED
    BY <2>1, <2>2, <2>3, <2>4, <2>5, <2>6 DEF Next
<1> QED
  BY <1>1, <1>2, Invariance, PTL DEF Spec
=============================================================================
