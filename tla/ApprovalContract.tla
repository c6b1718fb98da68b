-------------------------- MODULE ApprovalContract --------------------------
(***************************************************************************)
(* What the approval gate promises a reader of the API, said without        *)
(* queues, keys, workers or retries.  A run shows one status; a gate must   *)
(* have been opened for a run before anybody can approve it; the automatic  *)
(* Slack and Jira actions fire only for an approved run; and a run shows    *)
(* "done" only when they fired.  RunLifecycle is shown to implement this.   *)
(***************************************************************************)
CONSTANT Run            \* the runs of one incident

VARIABLES
    status,             \* status[r]: the run as GET /api/runs shows it
    asked,              \* runs for which a gate was opened at least once
    approved,           \* runs for which an approval was accepted
    fired               \* runs whose automatic actions were executed

vars == <<status, asked, approved, fired>>

Status == {"none", "queued", "needs_human", "done", "rejected", "deleted"}

\* The run is a row of the database that a worker can still find.
Exists(r) == status[r] \notin {"none", "deleted"}

TypeOK ==
    /\ status \in [Run -> Status]
    /\ asked \subseteq Run
    /\ approved \subseteq Run
    /\ fired \subseteq Run

Init ==
    /\ status = [r \in Run |-> "none"]
    /\ asked = {}
    /\ approved = {}
    /\ fired = {}

-----------------------------------------------------------------------------

Queue(r) ==
    /\ status[r] = "none"
    /\ status' = [status EXCEPT ![r] = "queued"]
    /\ UNCHANGED <<asked, approved, fired>>

\* Open the gate, or come back to it: a run that is executed again, or whose
\* analysis scored a low confidence, asks for a human whatever it showed before.
Ask(r) ==
    /\ Exists(r)
    /\ status' = [status EXCEPT ![r] = "needs_human"]
    /\ asked' = asked \union {r}
    /\ UNCHANGED <<approved, fired>>

Approve(r) ==
    /\ r \in asked
    /\ approved' = approved \union {r}
    /\ UNCHANGED <<status, asked, fired>>

\* Slack and Jira are external: a deleted run's actions may still be on the way.
Fire(r) ==
    /\ r \in approved
    /\ fired' = fired \union {r}
    /\ UNCHANGED <<status, asked, approved>>

Finish(r) ==
    /\ Exists(r)
    /\ r \in fired
    /\ status' = [status EXCEPT ![r] = "done"]
    /\ UNCHANGED <<asked, approved, fired>>

Refuse(r) ==
    /\ Exists(r)
    /\ r \in asked
    /\ status' = [status EXCEPT ![r] = "rejected"]
    /\ UNCHANGED <<asked, approved, fired>>

\* Deleting the incident cascades to every run of it.
Delete ==
    /\ status' = [r \in Run |-> IF Exists(r) THEN "deleted" ELSE status[r]]
    /\ UNCHANGED <<asked, approved, fired>>

Next ==
    \/ \E r \in Run : \/ Queue(r)
                      \/ Ask(r)
                      \/ Approve(r)
                      \/ Fire(r)
                      \/ Finish(r)
                      \/ Refuse(r)
    \/ Delete

Spec == Init /\ [][Next]_vars

-----------------------------------------------------------------------------

\* What follows from the contract: whatever was done automatically was approved, and
\* whatever was approved had been asked; a run that shows done was acted upon.
NothingUnapproved ==
    /\ approved \subseteq asked
    /\ fired \subseteq approved
    /\ \A r \in Run : status[r] = "done" => r \in fired

=============================================================================
