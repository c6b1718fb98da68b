----------------------------- MODULE WorkflowCall -----------------------------
(***************************************************************************)
(* What a task execution may rely on when it calls run_incident_workflow     *)
(* twice, once to reach the approval gate and once to resume from it.  This  *)
(* is the graph as RunLifecycle's steps RunGraph, ResumeConfident, Package   *)
(* and ResumeUnsure know it; WorkflowGraph implements it.                   *)
(***************************************************************************)

VARIABLE state

Ending == {"done", "unsure", "rejected", "raised"}
State == {"new", "asked", "acted"} \union Ending

Init == state = "new"

\* The first call pauses for approval; nothing irreversible has been done.
Ask == state = "new" /\ state' = "asked"

\* The resumed call begins to act, with a message to Slack; a ticket in Jira follows, and
\* only then can it end well.
Act == state = "asked" /\ state' = "acted"
Succeed == state = "acted" /\ state' = "done"

\* The resumed call ends without having posted anything.
Escalate == state = "asked" /\ state' = "unsure"
Refuse == state = "asked" /\ state' = "rejected"

\* Either call may raise, also after it has posted.
Raise == state \notin Ending /\ state' = "raised"

Next == Ask \/ Act \/ Succeed \/ Escalate \/ Refuse \/ Raise

Spec == Init /\ [][Next]_state

=============================================================================
