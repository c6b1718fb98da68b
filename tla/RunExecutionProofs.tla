------------------------- MODULE RunExecutionProofs -------------------------
(***************************************************************************)
(* What RunProofs leaves open about the executions of a run's task, whatever *)
(* is retried, redelivered or lost: how many there are and that each comes   *)
(* to an end, which approval an execution acts under, how a gate can be left *)
(* without a reader, and that a task relies on no more than WorkflowCall     *)
(* when it calls the graph.  For every value of the constants.              *)
(***************************************************************************)
EXTENDS RunProofs

-----------------------------------------------------------------------------
(* How many executions there are *)

Waiting(r) == IF r \in queue THEN 1 ELSE 0

\* Every execution of a task but its first, and every message that still waits for
\* one, is paid for by a counted retry or by a lost worker.
ExecutionsPaid ==
    \A r \in Run : starts[r] + Waiting(r) <= 1 + attempt[r] + crashes

\* A task that was not sent has not been executed.
SentBeforeExecuted ==
    \A r \in Run : exec[r] \in {"none", "created", "logged"} => starts[r] = 0

EInv == ExecutionsPaid /\ SentBeforeExecuted

LEMMA ExecutionsInv == Spec => []EInv
<1> USE DEF EInv, ExecutionsPaid, SentBeforeExecuted, Waiting, dbVars, apiVars, brokerVars
<1>1. Init => EInv
  BY CrashesAssumption DEF Init
<1>2. IInv /\ EInv /\ [Next]_vars => EInv'
  <2> SUFFICES ASSUME IInv, EInv, [Next]_vars
               PROVE  EInv'
    OBVIOUS
  <2> USE RetriesAssumption, CrashesAssumption DEF IInv, TypeOK, RowBeforeTask
  <2>1. ASSUME NEW r \in Run, Execute(r)
        PROVE  EInv'
    BY <2>1 DEF Execute, ExecCreate, ExecAudit, ExecDelay, ExecAccept, ExecError
  <2>2. ASSUME NEW r \in Run, Deliver(r)
        PROVE  EInv'
    BY <2>2 DEF Deliver
  <2>3. ASSUME NEW r \in Run, Raise(r), pc[r] # "idle"
        PROVE  EInv'
    BY <2>3 DEF Raise
  <2>4. ASSUME NEW r \in Run, Work(r)
        PROVE  EInv'
    <3>1. CASE LoadMissing(r) \/ EmitRaises(r)
      BY <2>3, <3>1 DEF LoadMissing, EmitRaises
    <3>2. CASE ~(LoadMissing(r) \/ EmitRaises(r))
      <4>1. UNCHANGED <<exec, queue, attempt, crashes, starts>>
        BY <2>4, <3>2 DEF Work, Load, RunGraph, Park, ParkAudit, Pend, Poll, Timeout,
           ResumeConfident, Package, ResumeUnsure, Refuse, ClearPending, Settle,
           SettleAudit, Complete, CompleteAudit, Finish, Ack
      <4> QED
        BY <4>1
    <3> QED
      BY <3>1, <3>2
  <2>5. ASSUME NEW r \in Run, Disturb(r)
        PROVE  EInv'
    BY <2>3, <2>5 DEF Disturb, Fail, Crash, ExpireDecision, ExpirePending
  <2>6. CASE Review
    BY <2>6 DEF Review, ReviewCheck, ReviewWrite, ReviewAudit, ReviewError
  <2>7. CASE DeleteIncident
    BY <2>7 DEF DeleteIncident
  <2>8. CASE UNCHANGED vars
    BY <2>8 DEF vars
  <2> QED
    BY <2>1, <2>2, <2>4, <2>5, <2>6, <2>7, <2>8 DEF Next
<1> QED
  BY <1>1, <1>2, Invariance, PTL DEF Spec

\* A run's task is executed at most once for each counted retry, for each lost
\* worker, and once besides; and so often at most are Slack and Jira called for it.
\* Neither a redelivery nor a retry multiplies the other (tasks.py, acks_late,
\* reject_on_worker_lost and max_retries).
THEOREM ExecutionsAreBounded ==
    Spec => [](\A r \in Run : /\ starts[r] <= 1 + attempt[r] + crashes
                              /\ acted[r] <= 1 + MaxRetries + MaxCrashes)
<1>1. IInv /\ EInv => \A r \in Run : /\ starts[r] <= 1 + attempt[r] + crashes
                                     /\ acted[r] <= 1 + MaxRetries + MaxCrashes
  <2> SUFFICES ASSUME IInv, EInv, NEW r \in Run
               PROVE  /\ starts[r] <= 1 + attempt[r] + crashes
                      /\ acted[r] <= 1 + MaxRetries + MaxCrashes
    OBVIOUS
  <2>1. /\ starts[r] \in Nat
        /\ acted[r] \in Nat
        /\ attempt[r] \in 0..MaxRetries
        /\ crashes \in 0..MaxCrashes
        /\ acted[r] <= starts[r]
    BY DEF IInv, TypeOK, ActsBounded
  <2>2. starts[r] <= 1 + attempt[r] + crashes
    BY <2>1, RetriesAssumption, CrashesAssumption DEF EInv, ExecutionsPaid, Waiting
  <2> QED
    BY <2>1, <2>2, RetriesAssumption, CrashesAssumption
<1> QED
  BY <1>1, ExecutionsInv, Invariance, PTL

-----------------------------------------------------------------------------
(* That they come to an end *)

\* How many steps an execution in phase p has before it at most.
Left(p) ==
    CASE p = "idle" -> 0
      [] p = "ack" -> 1
      [] p = "finish" -> 2
      [] p = "completeAudit" -> 3
      [] p = "complete" -> 4
      [] p = "settleAudit" -> 5
      [] p = "settle" -> 6
      [] p = "clear" -> 7
      [] p \in {"package", "refuse"} -> 8
      [] p = "resume" -> 9
      [] p = "wait" -> 10
      [] p = "pend" -> 11
      [] p = "parkAudit" -> 12
      [] p = "park" -> 13
      [] p = "graph" -> 14
      [] p = "start" -> 15

Unsent(r) == IF exec[r] \in {"none", "created", "logged"} THEN 1 ELSE 0

\* How many messages for the task of r there may still be.
Messages(r) == Waiting(r) + Unsent(r) + (MaxRetries - attempt[r]) + (MaxCrashes - crashes)

\* How many steps workers have still to do for r at most.
Budget(r) == Left(pc[r]) + 16 * Messages(r)

LEMMA LeftType == \A p \in Phase : Left(p) \in 0..15
BY DEF Left, Phase

LEMMA BudgetType ==
    ASSUME IInv, NEW r \in Run
    PROVE  /\ pc[r] \in Phase
           /\ Left(pc[r]) \in 0..15
           /\ Messages(r) \in Nat
           /\ Budget(r) \in Nat
<1>1. /\ attempt[r] \in 0..MaxRetries
      /\ crashes \in 0..MaxCrashes
      /\ pc[r] \in Phase
  BY DEF IInv, TypeOK
<1>2. Messages(r) \in Nat
  BY <1>1, RetriesAssumption, CrashesAssumption DEF Messages, Waiting, Unsent
<1> QED
  BY <1>1, <1>2, LeftType DEF Budget

\* A retry pays for the message that it sends.
LEMMA RaiseSpends ==
    ASSUME IInv, NEW s \in Run, Raise(s), pc[s] # "idle", UNCHANGED exec, NEW r \in Run
    PROVE  Budget(r)' <= Budget(r) /\ (s = r => Budget(r)' < Budget(r))
<1>1. /\ \A t \in Run : pc'[t] = IF t = s THEN "idle" ELSE pc[t]
      /\ UNCHANGED <<exec, crashes>>
      /\ s \notin queue
  BY DEF Raise, IInv, TypeOK, RowBeforeTask
<1>2. Messages(r)' <= Messages(r) /\ Messages(r)' \in Int /\ Messages(r) \in Int
  BY <1>1, RetriesAssumption, CrashesAssumption
  DEF Raise, IInv, TypeOK, Messages, Waiting, Unsent
<1>3. /\ Left("idle") = 0
      /\ pc[s] # "idle" => Left(pc[s]) > 0
  BY BudgetType DEF Left, Phase
<1>4. Left(pc'[r]) <= Left(pc[r]) /\ (s = r => Left(pc'[r]) < Left(pc[r]))
  BY <1>1, <1>3, BudgetType
<1>5. Left(pc'[r]) \in Int /\ Left(pc[r]) \in Int
  BY <1>1, <1>3, BudgetType
<1> QED
  BY <1>2, <1>4, <1>5 DEF Budget

\* A step of an execution that does not raise leads to a later phase.
LEMMA WorkSpends ==
    ASSUME IInv, NEW s \in Run, Work(s), NEW r \in Run
    PROVE  Budget(r)' <= Budget(r) /\ (s = r => Budget(r)' < Budget(r))
<1>1. CASE LoadMissing(s) \/ EmitRaises(s)
  <2>1. Raise(s) /\ pc[s] # "idle"
    BY <1>1 DEF LoadMissing, EmitRaises
  <2>2. UNCHANGED exec
    BY <2>1 DEF Raise, apiVars
  <2> QED
    BY <2>1, <2>2, RaiseSpends
<1>2. CASE ~(LoadMissing(s) \/ EmitRaises(s))
  <2>1. UNCHANGED <<exec, queue, attempt, crashes>>
    BY <1>2 DEF Work, Load, RunGraph, Park, ParkAudit, Pend, Poll, Timeout,
       ResumeConfident, Package, ResumeUnsure, Refuse, ClearPending, Settle,
       SettleAudit, Complete, CompleteAudit, Finish, Ack, apiVars, brokerVars
  <2>2. /\ pc' = [pc EXCEPT ![s] = pc'[s]]
        /\ Left(pc'[s]) < Left(pc[s])
        /\ Left(pc'[s]) \in Int
    <3> USE DEF IInv, TypeOK, Goto, Left
    <3>1. CASE Load(s) \/ RunGraph(s) \/ Park(s) \/ ParkAudit(s) \/ Pend(s)
      BY <3>1 DEF Load, RunGraph, Park, ParkAudit, Pend
    <3>2. CASE Poll(s) \/ Timeout(s) \/ Refuse(s) \/ ClearPending(s)
      BY <3>2 DEF Poll, Timeout, Refuse, ClearPending
    <3>3. CASE ResumeConfident(s) \/ Package(s) \/ ResumeUnsure(s)
      BY <3>3 DEF ResumeConfident, Package, ResumeUnsure
    <3>4. CASE Settle(s) \/ SettleAudit(s) \/ Complete(s) \/ CompleteAudit(s)
      BY <3>4 DEF Settle, SettleAudit, Complete, CompleteAudit
    <3>5. CASE Finish(s) \/ Ack(s)
      BY <3>5 DEF Finish, Ack
    <3> QED
      BY <1>2, <3>1, <3>2, <3>3, <3>4, <3>5 DEF Work
  <2>3. Messages(r)' = Messages(r)
    BY <2>1 DEF Messages, Waiting, Unsent
  <2>4. /\ Left(pc'[r]) <= Left(pc[r])
        /\ s = r => Left(pc'[r]) < Left(pc[r])
        /\ Left(pc'[r]) \in Int
    BY <2>2, BudgetType DEF IInv, TypeOK
  <2> QED
    BY <2>3, <2>4, BudgetType DEF Budget
<1> QED
  BY <1>1, <1>2

\* A delivery turns a message into an execution, which is shorter.
LEMMA DeliverSpends ==
    ASSUME IInv, NEW s \in Run, Deliver(s), NEW r \in Run
    PROVE  Budget(r)' <= Budget(r) /\ (s = r => Budget(r)' < Budget(r))
<1>1. /\ \A t \in Run : pc'[t] = IF t = s THEN "start" ELSE pc[t]
      /\ UNCHANGED <<exec, attempt, crashes>>
      /\ pc[s] = "idle"
      /\ s \in queue
      /\ queue' = queue \ {s}
  BY DEF Deliver, IInv, TypeOK, RowBeforeTask, apiVars
<1>2. Waiting(r)' = IF r = s THEN Waiting(r) - 1 ELSE Waiting(r)
  BY <1>1 DEF Waiting
<1>4. /\ Unsent(r)' = Unsent(r)
      /\ Unsent(r) \in Int /\ Waiting(r) \in Int
      /\ attempt[r] \in Int /\ crashes \in Int /\ MaxRetries \in Int /\ MaxCrashes \in Int
  BY <1>1, RetriesAssumption, CrashesAssumption DEF Unsent, Waiting, IInv, TypeOK
<1>5. Messages(r)' = IF r = s THEN Messages(r) - 1 ELSE Messages(r)
  BY <1>1, <1>2, <1>4 DEF Messages
<1>3. Left("idle") = 0 /\ Left("start") = 15
  BY DEF Left
<1> QED
  BY <1>1, <1>3, <1>5, BudgetType DEF Budget

\* What disturbs an execution ends it, and pays for what it sends.
LEMMA DisturbSpends ==
    ASSUME IInv, NEW s \in Run, Disturb(s), NEW r \in Run
    PROVE  Budget(r)' <= Budget(r)
<1>1. CASE Fail(s)
  <2>1. Raise(s) /\ pc[s] # "idle" /\ UNCHANGED exec
    BY <1>1 DEF Fail, Raise, apiVars
  <2> QED
    BY <2>1, RaiseSpends
<1>2. CASE Crash(s)
  <2>1. /\ \A t \in Run : pc'[t] = IF t = s THEN "idle" ELSE pc[t]
        /\ UNCHANGED <<exec, attempt>>
        /\ crashes' = crashes + 1
        /\ queue' = queue \union {s}
    BY <1>2 DEF Crash, IInv, TypeOK, apiVars
  <2>2. Messages(r)' <= Messages(r) /\ Messages(r)' \in Int
    BY <2>1, RetriesAssumption, CrashesAssumption
    DEF Messages, Waiting, Unsent, IInv, TypeOK
  <2>3. Left("idle") = 0
    BY DEF Left
  <2> QED
    BY <2>1, <2>2, <2>3, BudgetType DEF Budget
<1>3. CASE ExpireDecision(s) \/ ExpirePending(s)
  <2>1. UNCHANGED <<pc, exec, queue, attempt, crashes>>
    BY <1>3 DEF ExpireDecision, ExpirePending, apiVars, brokerVars
  <2> QED
    BY <2>1, BudgetType DEF Budget, Messages, Waiting, Unsent
<1> QED
  BY <1>1, <1>2, <1>3 DEF Disturb

\* Sending the task turns a request into a message, once.
LEMMA ExecuteSpends ==
    ASSUME IInv, NEW s \in Run, Execute(s), NEW r \in Run
    PROVE  Budget(r)' <= Budget(r)
<1>1. UNCHANGED <<pc, attempt, crashes>>
  BY DEF Execute, ExecCreate, ExecAudit, ExecDelay, ExecAccept, ExecError, brokerVars
<1>2. Waiting(r)' + Unsent(r)' <= Waiting(r) + Unsent(r)
  BY DEF Execute, ExecCreate, ExecAudit, ExecDelay, ExecAccept, ExecError, brokerVars,
         Waiting, Unsent, IInv, TypeOK, RowBeforeTask
<1>3. Waiting(r)' + Unsent(r)' \in Int /\ Waiting(r) + Unsent(r) \in Int
  BY DEF Waiting, Unsent
<1>4. /\ attempt[r] \in Int
      /\ crashes \in Int
      /\ MaxRetries \in Int
      /\ MaxCrashes \in Int
  BY RetriesAssumption, CrashesAssumption DEF IInv, TypeOK
<1>5. Messages(r)' <= Messages(r) /\ Messages(r)' \in Int /\ Messages(r) \in Int
  BY <1>1, <1>2, <1>4 DEF Messages, Waiting, Unsent
<1> QED
  BY <1>1, <1>5, BudgetType DEF Budget

\* The budget of a run at the beginning: the steps of every execution that it can have.
AllSteps == 16 * (1 + MaxRetries + MaxCrashes)

\* What is left to be done for a run never grows, whatever operators, other runs,
\* failures and lost workers do, and every step of its task uses some of it up: a task
\* settles after at most AllSteps steps of workers.  This is all of EveryTaskSettles
\* but the fairness that makes a worker take its next step.
THEOREM WorkRunsOut ==
    Spec => /\ [](\A r \in Run : Budget(r) \in 0..AllSteps)
            /\ [][\A r \in Run : /\ Budget(r)' <= Budget(r)
                                 /\ Deliver(r) \/ Work(r) => Budget(r)' < Budget(r)]_vars
<1> DEFINE Spent(r) == /\ Budget(r)' <= Budget(r)
                       /\ Deliver(r) \/ Work(r) => Budget(r)' < Budget(r)
           Within == \A r \in Run : Budget(r) <= AllSteps
<1>1. Init => Within
  <2> SUFFICES ASSUME Init, NEW r \in Run
               PROVE  Budget(r) <= AllSteps
    OBVIOUS
  <2>1. Messages(r) = 1 + MaxRetries + MaxCrashes
    BY RetriesAssumption, CrashesAssumption DEF Init, Messages, Waiting, Unsent
  <2>2. Left(pc[r]) = 0
    BY DEF Init, Left
  <2> QED
    BY <2>1, <2>2, RetriesAssumption, CrashesAssumption DEF Budget, AllSteps
<1>2. IInv /\ [Next]_vars => \A r \in Run : Budget(r)' <= Budget(r)
  <2> SUFFICES ASSUME IInv, [Next]_vars, NEW r \in Run
               PROVE  Budget(r)' <= Budget(r)
    OBVIOUS
  <2>1. CASE UNCHANGED <<pc, exec, queue, attempt, crashes>>
    BY <2>1, BudgetType DEF Budget, Messages, Waiting, Unsent
  <2>2. Review \/ DeleteIncident \/ UNCHANGED vars
            => UNCHANGED <<pc, exec, queue, attempt, crashes>>
    BY DEF Review, ReviewCheck, ReviewWrite, ReviewAudit, ReviewError, DeleteIncident,
           vars, apiVars, brokerVars
  <2> QED
    BY <2>1, <2>2, ExecuteSpends, DeliverSpends, WorkSpends, DisturbSpends DEF Next
<1>3. IInv /\ [Next]_vars => [\A r \in Run : Spent(r)]_vars
  BY <1>2, DeliverSpends, WorkSpends
<1>5. IInv => \A r \in Run : Budget(r) \in Nat
  BY BudgetType
<1>6. (IInv => \A r \in Run : Budget(r) \in Nat)'
  BY <1>5, PTL
<1>8. IInv /\ Within /\ [Next]_vars => Within'
  <2> SUFFICES ASSUME IInv, Within, [Next]_vars, NEW r \in Run
               PROVE  Budget(r)' <= AllSteps
    BY DEF AllSteps
  <2>1. IInv'
    BY ExecuteInv, DeliverInv, WorkInv, DisturbInv, ReviewInv, DeleteInv, StutterInv
       DEF Next
  <2>2. Budget(r)' \in Nat
    BY <2>1, <1>6
  <2>3. AllSteps \in Nat
    BY RetriesAssumption, CrashesAssumption DEF AllSteps
  <2>4. Budget(r)' <= Budget(r) /\ Budget(r) <= AllSteps /\ Budget(r) \in Nat
    BY <1>2, BudgetType
  <2> QED
    BY <2>2, <2>3, <2>4
<1>7. IInv /\ Within => \A r \in Run : Budget(r) \in 0..AllSteps
  BY BudgetType, RetriesAssumption, CrashesAssumption DEF AllSteps
<1> QED
  BY <1>1, <1>3, <1>7, <1>8, Invariance, PTL DEF Spec

-----------------------------------------------------------------------------
(* Which approval an execution acts under *)

\* The first execution of a task finds no decision but one written under its own gate.
DecisionIsFresh ==
    \A r \in Run :
        /\ starts[r] = 0 => r \notin asked
        /\ starts[r] = 1 /\ pc[r] \in {"start", "graph", "park"} => r \notin asked
        /\ starts[r] = 1 /\ decision[r] # "none" => fresh[r]
        /\ starts[r] = 1 /\ pc[r] \in {"resume", "package"} => fresh[r]

LEMMA FreshInv == Spec => []DecisionIsFresh
<1> USE DEF DecisionIsFresh
<1>1. Init => DecisionIsFresh
  BY DEF Init
<1>2. IInv /\ DecisionIsFresh /\ [Next]_vars => DecisionIsFresh'
  <2> SUFFICES ASSUME IInv, DecisionIsFresh, [Next]_vars
               PROVE  DecisionIsFresh'
    OBVIOUS
  <2> USE DEF IInv, TypeOK, dbVars, apiVars, brokerVars, redisVars, gateHistory
  <2>0. \A r \in Run : /\ decision[r] # "none" => r \in asked
                       /\ r \in asked => starts[r] > 0
                       /\ pc[r] # "idle" => starts[r] > 0
    BY DEF Approved, GateOpened, FirstExecution
  <2>1. ASSUME NEW r \in Run, Execute(r)
        PROVE  DecisionIsFresh'
    BY <2>1 DEF Execute, ExecCreate, ExecAudit, ExecDelay, ExecAccept, ExecError
  <2>2. ASSUME NEW r \in Run, Deliver(r)
        PROVE  DecisionIsFresh'
    BY <2>0, <2>2 DEF Deliver
  <2>3. ASSUME NEW r \in Run, Park(r)
        PROVE  DecisionIsFresh'
    <3>1. starts[r] = 1 => decision[r] = "none"
      BY <2>0, <2>3 DEF Park
    <3> QED
      BY <2>0, <2>3, <3>1 DEF Park, Goto
  <2>4. ASSUME NEW r \in Run, Work(r)
        PROVE  DecisionIsFresh'
    <3>1. CASE Load(r) \/ LoadMissing(r) \/ RunGraph(r) \/ EmitRaises(r)
      BY <2>0, <3>1 DEF Load, LoadMissing, RunGraph, EmitRaises, Raise, Goto
    <3>2. CASE Poll(r) \/ Timeout(r)
      BY <2>0, <3>2 DEF Poll, Timeout, Goto
    <3>3. CASE ParkAudit(r) \/ Pend(r) \/ ResumeConfident(r) \/ Package(r)
                  \/ ResumeUnsure(r) \/ Refuse(r) \/ ClearPending(r)
      BY <2>0, <3>3 DEF ParkAudit, Pend, ResumeConfident, Package, ResumeUnsure, Refuse,
         ClearPending, Goto
    <3>4. CASE Settle(r) \/ SettleAudit(r) \/ Complete(r) \/ CompleteAudit(r)
                  \/ Finish(r) \/ Ack(r)
      BY <2>0, <3>4 DEF Settle, SettleAudit, Complete, CompleteAudit, Finish, Ack, Goto
    <3> QED
      BY <2>3, <2>4, <3>1, <3>2, <3>3, <3>4 DEF Work
  <2>5. ASSUME NEW r \in Run, Disturb(r)
        PROVE  DecisionIsFresh'
    BY <2>5 DEF Disturb, Fail, Raise, Crash, ExpireDecision, ExpirePending
  <2>6. CASE Review
    BY <2>6 DEF Review, ReviewCheck, ReviewWrite, ReviewAudit, ReviewError, Request
  <2>7. CASE DeleteIncident
    BY <2>7 DEF DeleteIncident
  <2>8. CASE UNCHANGED vars
    BY <2>8 DEF vars
  <2> QED
    BY <2>1, <2>2, <2>4, <2>5, <2>6, <2>7, <2>8 DEF Next
<1> QED
  BY <1>1, <1>2, Invariance, PTL DEF Spec

\* A task that is executed once acts only under an approval that was written while its
\* own gate was open: the stale approvals that ApprovalIsForThisGate finds need a
\* retried or redelivered task, and nothing else (tasks.py never deletes the key).
THEOREM FirstApprovalIsForThisGate ==
    Spec => [](\A r \in Run : ~Repeated(r) /\ pc[r] \in {"resume", "package"} => fresh[r])
<1>1. IInv /\ DecisionIsFresh =>
         \A r \in Run : ~Repeated(r) /\ pc[r] \in {"resume", "package"} => fresh[r]
  BY DEF IInv, TypeOK, FirstExecution, DecisionIsFresh, Repeated
<1> QED
  BY <1>1, FreshInv, Invariance, PTL

\* Where no message is ever sent again the claim of FUTURE_SCOPE.md:281 is true.
THEOREM UnrepeatedApprovalIsForThisGate ==
    MaxRetries = 0 /\ MaxCrashes = 0 => (Spec => []ApprovalIsForThisGate)
<1> SUFFICES ASSUME MaxRetries = 0, MaxCrashes = 0
             PROVE  Spec => []ApprovalIsForThisGate
  OBVIOUS
<1>1. IInv /\ EInv => \A r \in Run : ~Repeated(r)
  BY DEF IInv, TypeOK, EInv, ExecutionsPaid, Waiting, Repeated
<1>2. IInv /\ EInv /\ (\A r \in Run : ~Repeated(r) /\ pc[r] \in {"resume", "package"} => fresh[r])
         => ApprovalIsForThisGate
  BY <1>1 DEF ApprovalIsForThisGate
<1> QED
  BY <1>2, FirstApprovalIsForThisGate, ExecutionsInv, Invariance, PTL

-----------------------------------------------------------------------------
(* How a gate is left without a reader *)

\* A task that was executed and rests has stored how it ended.
EndIsStored ==
    \A r \in Run : Settled(r) /\ starts[r] > 0 => result[r] \in Outcome \union {"FAILURE"}

\* A run that shows needs_human with nobody left to read the answer has one of three
\* histories.  The task result tells the first two: the task gave up, or the resumed
\* graph escalated a low confidence.  It does not tell the third, a task that was
\* executed again because its worker was lost after storing an earlier payload, which
\* the backend keeps.  DecisionHasReader fails in these cases and no other.
THEOREM DeadGatesExplained ==
    Spec => [](\A r \in Run : row[r] = "needs_human" /\ Settled(r)
                                  => \/ result[r] \in {"needs_human", "FAILURE"}
                                     \/ r \in resent)
<1> USE DEF EndIsStored, Settled
<1>1. Init => EndIsStored
  BY DEF Init
<1>2. IInv /\ EndIsStored /\ [Next]_vars => EndIsStored'
  <2> SUFFICES ASSUME IInv, EndIsStored, [Next]_vars
               PROVE  EndIsStored'
    OBVIOUS
  <2> USE DEF IInv, TypeOK, dbVars, apiVars, brokerVars, redisVars, gateHistory
  <2>1. ASSUME NEW r \in Run, Execute(r)
        PROVE  EndIsStored'
    BY <2>1 DEF Execute, ExecCreate, ExecAudit, ExecDelay, ExecAccept, ExecError
  <2>2. ASSUME NEW r \in Run, Deliver(r)
        PROVE  EndIsStored'
    BY <2>2 DEF Deliver
  <2>3. ASSUME NEW r \in Run, Raise(r)
        PROVE  EndIsStored'
    BY <2>3 DEF Raise, StoreResult
  <2>4. ASSUME NEW r \in Run, Ack(r)
        PROVE  EndIsStored'
    BY <2>4 DEF Ack, ResultAgrees, Decided
  <2>5. ASSUME NEW r \in Run, Work(r)
        PROVE  EndIsStored'
    <3>1. CASE LoadMissing(r) \/ EmitRaises(r)
      BY <2>3, <3>1 DEF LoadMissing, EmitRaises
    <3>2. CASE ~(LoadMissing(r) \/ EmitRaises(r) \/ Ack(r))
      <4>1. /\ UNCHANGED <<queue, starts>>
            /\ \A s \in Run : s # r => pc'[s] = pc[s] /\ result'[s] = result[s]
            /\ pc'[r] # "idle"
        BY <2>5, <3>2 DEF Work, Load, RunGraph, Park, ParkAudit, Pend, Poll, Timeout,
           ResumeConfident, Package, ResumeUnsure, Refuse, ClearPending, Settle,
           SettleAudit, Complete, CompleteAudit, Finish, StoreResult, Goto
      <4> QED
        BY <4>1
    <3> QED
      BY <2>4, <3>1, <3>2
  <2>6. ASSUME NEW r \in Run, Disturb(r)
        PROVE  EndIsStored'
    BY <2>3, <2>6 DEF Disturb, Fail, Crash, ExpireDecision, ExpirePending
  <2>7. CASE Review
    BY <2>7 DEF Review, ReviewCheck, ReviewWrite, ReviewAudit, ReviewError
  <2>8. CASE DeleteIncident
    BY <2>8 DEF DeleteIncident
  <2>9. CASE UNCHANGED vars
    BY <2>9 DEF vars
  <2> QED
    BY <2>1, <2>2, <2>5, <2>6, <2>7, <2>8, <2>9 DEF Next
<1>3. IInv /\ EndIsStored => \A r \in Run : row[r] = "needs_human" /\ Settled(r)
                                  => \/ result[r] \in {"needs_human", "FAILURE"}
                                     \/ r \in resent
  <2> SUFFICES ASSUME IInv, EndIsStored, NEW r \in Run, row[r] = "needs_human", Settled(r),
                      r \notin resent
               PROVE  result[r] \in {"needs_human", "FAILURE"}
    OBVIOUS
  <2>1. starts[r] > 0
    BY DEF IInv, TypeOK, FirstExecution
  <2>2. result[r] \in Outcome => result[r] = "needs_human"
    BY DEF IInv, ResultMatchesRow
  <2> QED
    BY <2>1, <2>2
<1> QED
  BY <1>1, <1>2, <1>3, Invariance, PTL DEF Spec

-----------------------------------------------------------------------------
(* What it takes to persist every result *)

\* Only the loss of its incident makes a task give up.
FailureExplained == \A r \in Run : result[r] = "FAILURE" => incident = "deleted"

\* With an emitter that publishes and calls that do not fail, the docstring of
\* execute_incident_task is true, however many workers are lost on the way: the committed
\* emitter is all that RunEmitter's counterexample needs.
THEOREM RepairedTaskPersists ==
    ASSUME ~CallsMayFail, "raised" \notin EmitOutcomes
    PROVE  Spec => []TaskPersistsResult
<1> USE DEF FailureExplained
<1>1. Init => FailureExplained
  BY DEF Init
<1>2. TypeOK /\ FailureExplained /\ [Next]_vars => FailureExplained'
  <2> SUFFICES ASSUME TypeOK, FailureExplained, [Next]_vars
               PROVE  FailureExplained'
    OBVIOUS
  <2> USE DEF TypeOK, dbVars, apiVars, brokerVars, redisVars, gateHistory
  <2>1. incident = "deleted" => incident' = "deleted"
    <3>1. ASSUME NEW r \in Run, Execute(r) \/ Deliver(r) \/ Disturb(r)
          PROVE  UNCHANGED incident
      BY <3>1 DEF Execute, ExecCreate, ExecAudit, ExecDelay, ExecAccept, ExecError, Deliver,
         Disturb, Fail, Raise, Crash, ExpireDecision, ExpirePending
    <3>2. ASSUME NEW r \in Run, Work(r), ~Settle(r)
          PROVE  UNCHANGED incident
      BY <3>2 DEF Work, Load, LoadMissing, Raise, RunGraph, EmitRaises, Park, ParkAudit, Pend,
         Poll, Timeout, ResumeConfident, Package, ResumeUnsure, Refuse, ClearPending,
         SettleAudit, Complete, CompleteAudit, Finish, Ack
    <3>3. ASSUME NEW r \in Run, Settle(r)
          PROVE  incident = "deleted" => incident' = "deleted"
      BY <3>3 DEF Settle
    <3>4. Review \/ UNCHANGED vars => UNCHANGED incident
      BY DEF Review, ReviewCheck, ReviewWrite, ReviewAudit, ReviewError, vars
    <3>5. DeleteIncident => incident' = "deleted"
      BY DEF DeleteIncident
    <3> QED
      BY <3>1, <3>2, <3>3, <3>4, <3>5 DEF Next
  <2>2. ASSUME NEW r \in Run, LoadMissing(r)
        PROVE  FailureExplained'
    BY <2>1, <2>2 DEF LoadMissing
  <2>3. ASSUME NEW r \in Run, Finish(r)
        PROVE  FailureExplained'
    BY <2>1, <2>3 DEF Finish, StoreResult, Outcome
  <2>4. CASE UNCHANGED result
    BY <2>1, <2>4
  <2>5. (\E r \in Run : LoadMissing(r) \/ Finish(r)) \/ UNCHANGED result
    <3>1. ASSUME NEW r \in Run, Execute(r) \/ Deliver(r) \/ Disturb(r)
          PROVE  UNCHANGED result
      BY <3>1 DEF Execute, ExecCreate, ExecAudit, ExecDelay, ExecAccept, ExecError, Deliver,
         Disturb, Fail, Crash, ExpireDecision, ExpirePending
    <3>2. ASSUME NEW r \in Run, Work(r), ~LoadMissing(r), ~Finish(r)
          PROVE  UNCHANGED result
      BY <3>2 DEF Work, Load, RunGraph, EmitRaises, Park, ParkAudit, Pend, Poll, Timeout,
         ResumeConfident, Package, ResumeUnsure, Refuse, ClearPending, Settle, SettleAudit,
         Complete, CompleteAudit, Ack
    <3>3. Review \/ DeleteIncident \/ UNCHANGED vars => UNCHANGED result
      BY DEF Review, ReviewCheck, ReviewWrite, ReviewAudit, ReviewError, DeleteIncident, vars
    <3> QED
      BY <3>1, <3>2, <3>3 DEF Next
  <2> QED
    BY <2>2, <2>3, <2>4, <2>5
<1>3. FailureExplained => TaskPersistsResult
  BY DEF TaskPersistsResult
<1> QED
  BY <1>1, <1>2, <1>3, TypeCorrect, PTL DEF Spec

-----------------------------------------------------------------------------
(* What the contracts give *)

\* The contract of ApprovalContract alone forbids unapproved actions.
LEMMA ContractUpheld == Contract!Spec => []Contract!NothingUnapproved
<1> DEFINE approved == {r \in Run : "approve" \in given[r]}
           fired == {r \in Run : acted[r] > 0}
           J == Contract!TypeOK /\ Contract!NothingUnapproved
<1> USE DEF Contract!NothingUnapproved, Contract!TypeOK, Contract!Status, Contract!Exists
<1>1. Contract!Init => J
  BY DEF Contract!Init
<1>2. J /\ [Contract!Next]_Contract!vars => J'
  <2> SUFFICES ASSUME J, [Contract!Next]_Contract!vars
               PROVE  J'
    OBVIOUS
  <2>1. J <=> /\ row \in [Run -> Contract!Status]
              /\ asked \subseteq Run
              /\ approved \subseteq Run
              /\ fired \subseteq Run
              /\ approved \subseteq asked
              /\ fired \subseteq approved
              /\ \A r \in Run : row[r] = "done" => r \in fired
    OBVIOUS
  <2>2. J' <=> /\ row' \in [Run -> Contract!Status]
               /\ asked' \subseteq Run
               /\ approved' \subseteq Run
               /\ fired' \subseteq Run
               /\ approved' \subseteq asked'
               /\ fired' \subseteq approved'
               /\ \A r \in Run : row'[r] = "done" => r \in fired'
    OBVIOUS
  <2>3. CASE UNCHANGED Contract!vars
    <3>1. approved' = approved /\ fired' = fired /\ asked' = asked /\ row' = row
      BY <2>3 DEF Contract!vars
    <3> HIDE DEF approved, fired
    <3> QED
      BY <2>1, <2>2, <3>1
  <2>4. ASSUME NEW r \in Run, Contract!Queue(r) \/ Contract!Ask(r) \/ Contract!Refuse(r)
        PROVE  J'
    <3>1. /\ \E v \in {"queued", "needs_human", "rejected"} : row' = [row EXCEPT ![r] = v]
          /\ asked \subseteq asked' /\ asked' \subseteq Run
          /\ approved' = approved
          /\ fired' = fired
      BY <2>4 DEF Contract!Queue, Contract!Ask, Contract!Refuse
    <3> HIDE DEF approved, fired, J
    <3> QED
      BY <2>1, <2>2, <3>1
  <2>5. ASSUME NEW r \in Run, Contract!Approve(r) \/ Contract!Fire(r) \/ Contract!Finish(r)
        PROVE  J'
    <3>1. CASE Contract!Approve(r)
      <4>1. /\ r \in asked /\ approved' = approved \union {r}
            /\ row' = row /\ asked' = asked /\ fired' = fired
        BY <3>1 DEF Contract!Approve
      <4> HIDE DEF approved, fired, J
      <4> QED
        BY <2>1, <2>2, <4>1
    <3>2. CASE Contract!Fire(r)
      <4>1. /\ r \in approved /\ fired' = fired \union {r}
            /\ row' = row /\ asked' = asked /\ approved' = approved
        BY <3>2 DEF Contract!Fire
      <4> HIDE DEF approved, fired, J
      <4> QED
        BY <2>1, <2>2, <4>1
    <3>3. CASE Contract!Finish(r)
      <4>1. /\ r \in fired /\ row' = [row EXCEPT ![r] = "done"]
            /\ asked' = asked /\ approved' = approved /\ fired' = fired
        BY <3>3 DEF Contract!Finish
      <4> HIDE DEF approved, fired, J
      <4> QED
        BY <2>1, <2>2, <4>1
    <3> QED
      BY <2>5, <3>1, <3>2, <3>3
  <2>6. CASE Contract!Delete
    <3>1. /\ row' = [r \in Run |-> IF row[r] \notin {"none", "deleted"} THEN "deleted" ELSE row[r]]
          /\ asked' = asked /\ approved' = approved /\ fired' = fired
      BY <2>6 DEF Contract!Delete
    <3> HIDE DEF approved, fired, J
    <3> QED
      BY <2>1, <2>2, <3>1
  <2> QED
    BY <2>3, <2>4, <2>5, <2>6 DEF Contract!Next
<1> QED
  BY <1>1, <1>2, PTL DEF Contract!Spec

\* Slack and Jira are called for a run only after an operator's approve was accepted for
\* it, and that only after the run had asked; a run that shows done was approved and
\* acted upon, by the refinement and from the contract alone; and so was one whose
\* stored payload says done, also where the row has moved on in a later execution.
THEOREM DoneWasApproved ==
    Spec => [](\A r \in Run : /\ acted[r] > 0 => "approve" \in given[r] /\ r \in asked
                              /\ "done" \in {row[r], result[r]} => acted[r] > 0)
<1>1. Contract!NothingUnapproved =>
         \A r \in Run : /\ acted[r] > 0 => "approve" \in given[r] /\ r \in asked
                        /\ row[r] = "done" => acted[r] > 0
  BY DEF Contract!NothingUnapproved
<1>2. IInv => \A r \in Run : result[r] = "done" => acted[r] > 0
  BY DEF IInv, Approved
<1>3. IInv /\ Contract!NothingUnapproved =>
         \A r \in Run : /\ acted[r] > 0 => "approve" \in given[r] /\ r \in asked
                        /\ "done" \in {row[r], result[r]} => acted[r] > 0
  BY <1>1, <1>2
<1> QED
  BY <1>3, Invariance, ContractUpheld, Refinement, PTL DEF ImplementsContract

\* The graph as the execution of r has come to know it.  Between executions there is no
\* graph, and a refused one is never resumed.
CallState(r) ==
    IF pc[r] \in {"idle", "start", "graph"} THEN "new"
    ELSE IF pc[r] = "package" THEN "acted"
    ELSE IF pc[r] \in Decided /\ out[r] = "done" THEN "done"
    ELSE IF pc[r] \in Decided /\ out[r] = "needs_human" THEN "unsure"
    ELSE "asked"

Call(r) == INSTANCE WorkflowCall WITH state <- CallState(r)

CallStep == \A r \in Run : Call(r)!Next \/ UNCHANGED CallState(r) \/ pc'[r] = "idle"

\* A task relies on no more than what WorkflowCall promises of run_incident_workflow,
\* and that is what WorkflowGraph was shown to implement: whatever an execution takes
\* the graph to have done is a step of the contract, until it ends or is cut short.
THEOREM TaskKeepsToTheCall == Spec => [][CallStep]_vars
<1>1. IInv /\ [Next]_vars => [CallStep]_vars
  <2> SUFFICES ASSUME IInv, Next, NEW r \in Run
               PROVE  Call(r)!Next \/ UNCHANGED CallState(r) \/ pc'[r] = "idle"
    BY DEF CallStep
  <2> USE DEF IInv, TypeOK, CallState, Goto, apiVars, brokerVars, redisVars, gateHistory,
              dbVars
  <2>1. CASE pc'[r] = pc[r] /\ out'[r] = out[r]
    BY <2>1
  <2>2. ASSUME NEW s \in Run, s # r, Deliver(s) \/ Work(s) \/ Disturb(s)
        PROVE  pc'[r] = pc[r] /\ out'[r] = out[r]
    BY <2>2 DEF Deliver, Work, Load, LoadMissing, Raise, RunGraph, EmitRaises, Park,
       ParkAudit, Pend, Poll, Timeout, ResumeConfident, Package, ResumeUnsure, Refuse,
       ClearPending, Settle, SettleAudit, Complete, CompleteAudit, Finish, Ack,
       Disturb, Fail, Crash, ExpireDecision, ExpirePending
  <2>3. ASSUME NEW s \in Run, Execute(s)
        PROVE  UNCHANGED <<pc, out>>
    BY <2>3 DEF Execute, ExecCreate, ExecAudit, ExecDelay, ExecAccept, ExecError
  <2>4. Review \/ DeleteIncident => UNCHANGED <<pc, out>>
    BY DEF Review, ReviewCheck, ReviewWrite, ReviewAudit, ReviewError, DeleteIncident
  <2>5. ASSUME Work(r)
        PROVE  Call(r)!Next \/ UNCHANGED CallState(r) \/ pc'[r] = "idle"
    <3>1. CASE RunGraph(r)
      BY <3>1 DEF RunGraph, Decided, Call!Next, Call!Ask
    <3>2. CASE ResumeConfident(r)
      BY <3>2 DEF ResumeConfident, Decided, Call!Next, Call!Act
    <3>3. CASE Package(r)
      BY <3>3 DEF Package, Decided, Call!Next, Call!Succeed
    <3>4. CASE ResumeUnsure(r)
      BY <3>4 DEF ResumeUnsure, Decided, Call!Next, Call!Escalate
    <3>5. CASE Load(r)
      <4>1. pc[r] \in {"idle", "start", "graph"} /\ pc'[r] \in {"idle", "start", "graph"}
        BY <3>5 DEF Load
      <4> QED
        BY <4>1
    <3>9. CASE LoadMissing(r) \/ EmitRaises(r) \/ Ack(r)
      BY <3>9 DEF LoadMissing, EmitRaises, Raise, Ack
    <3>6. CASE Park(r) \/ ParkAudit(r) \/ Pend(r) \/ Poll(r) \/ Timeout(r) \/ Refuse(r)
      BY <3>6 DEF Park, ParkAudit, Pend, Poll, Timeout, Refuse, Decided
    <3>7. CASE ClearPending(r) \/ Settle(r) \/ SettleAudit(r)
      BY <3>7 DEF ClearPending, Settle, SettleAudit, Decided
    <3>8. CASE Complete(r) \/ CompleteAudit(r) \/ Finish(r)
      BY <3>8 DEF Complete, CompleteAudit, Finish, Decided
    <3> QED
      BY <2>5, <3>1, <3>2, <3>3, <3>4, <3>5, <3>6, <3>7, <3>8, <3>9 DEF Work
  <2>6. ASSUME Deliver(r)
        PROVE  UNCHANGED CallState(r)
    <3>1. pc[r] \in {"idle", "start", "graph"} /\ pc'[r] \in {"idle", "start", "graph"}
      BY <2>6 DEF Deliver, RowBeforeTask
    <3> QED
      BY <3>1
  <2>7. ASSUME Disturb(r)
        PROVE  pc'[r] = "idle" \/ UNCHANGED <<pc, out>>
    BY <2>7 DEF Disturb, Fail, Raise, Crash, ExpireDecision, ExpirePending
  <2> QED
    BY <2>1, <2>2, <2>3, <2>4, <2>5, <2>6, <2>7 DEF Next
<1> QED
  BY <1>1, Invariance, PTL DEF Spec
=============================================================================
