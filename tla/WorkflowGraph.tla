---------------------------- MODULE WorkflowGraph ----------------------------
(***************************************************************************)
(* The LangGraph workflow of one task execution (agents.py): the nodes from  *)
(* assess to package, the checkpoint that human_review's interrupt leaves in *)
(* the MemorySaver, the second invocation that resumes from it, the LLM's    *)
(* rating of its own work, and the status that run_incident_workflow makes   *)
(* of it all.  Confidences are integers on a scale, 10 standing for 1.0.     *)
(***************************************************************************)
EXTENDS Integers

CONSTANTS
    Score,           \* numbers the LLM may rate itself with
    Scale,           \* 1.0
    Half,            \* 0.5, the rating assumed when there is none
    Threshold,       \* settings.confidence_threshold
    NaNReplies,      \* may the LLM's JSON hold NaN, which Python's json accepts?
    CallsMayFail     \* may an LLM call or an event raise?

ASSUME ScoreAssumption == Score \subseteq Int
ASSUME ScaleAssumption == Scale \in Nat /\ Half \in 0..Scale /\ Threshold \in 0..Scale
ASSUME SwitchAssumption == NaNReplies \in BOOLEAN /\ CallsMayFail \in BOOLEAN

VARIABLES
    at,              \* where the running invocation stands, "idle" if none runs
    begun,           \* has the node it stands at announced its start?
    open,            \* nodes announced as started and not yet as completed
    saved,           \* the node that the thread's checkpoint continues with
    answer,          \* the value the invocation resumes with
    rating,          \* confidence as computed by _assess_confidence
    confidence,      \* confidence in the state of the graph
    refused,         \* is the __REJECTED__ sentinel in next_action?
    returned,        \* what the latest call of run_incident_workflow made of it
    posts,           \* history: how often the summary was posted to Slack
    tickets,         \* history: how often a Jira ticket was asked for
    ran,             \* history: completed LLM calls of each node
    rated            \* history: did the LLM's reply hold a proper number?

results == <<rating, confidence, refused>>
history == <<posts, tickets, ran, rated>>
vars == <<at, begun, open, saved, answer, returned, results, history>>

Unset == -1
Node == {"assess", "evidence", "human_review", "response", "package"}
\* The nodes that call the LLM; package does it to rate the draft.
Thinker == Node \ {"human_review"}
\* package in parts: after the rating Slack and then Jira are called, and then it ends.
Place == {"idle", "act", "ticket", "packaged", "end"} \union Node
\* "interrupted" and "unsure" are both the status needs_human; only the first comes
\* with the thread_id that a resume needs.
Status == {"none", "interrupted", "unsure", "done", "rejected", "raised"}

TypeOK ==
    /\ at \in Place
    /\ begun \in BOOLEAN
    /\ open \in SUBSET Node
    /\ saved \in {"none", "end"} \union Node
    /\ answer \in {"none", "approve", "reject"}
    /\ rating \in {Unset} \union 0..Scale
    /\ confidence \in {Unset} \union 0..Scale
    /\ refused \in BOOLEAN
    /\ returned \in Status
    /\ posts \in Nat
    /\ tickets \in Nat
    /\ ran \in [Thinker -> Nat]
    /\ rated \in BOOLEAN

Init ==
    /\ at = "idle"
    /\ begun = FALSE
    /\ open = {}
    /\ saved = "none"
    /\ answer = "none"
    /\ rating = Unset
    /\ confidence = Unset
    /\ refused = FALSE
    /\ returned = "none"
    /\ posts = 0
    /\ tickets = 0
    /\ ran = [n \in Thinker |-> 0]
    /\ rated = FALSE

-----------------------------------------------------------------------------
(* Invocations *)

\* A fresh call: a thread_id of its own, and the graph starts at assess.
Invoke ==
    /\ at = "idle"
    /\ saved = "none"
    /\ returned = "none"
    /\ at' = "assess"
    /\ UNCHANGED <<begun, open, saved, answer, returned, results, history>>

\* Mutant of Resume: the resumed thread starts over.
ResumeFromStart(a) ==
    /\ at = "idle"
    /\ returned = "interrupted"
    /\ answer' = a
    /\ at' = "assess"
    /\ returned' = "none"
    /\ UNCHANGED <<begun, open, saved, results, history>>

\* Command(resume=a) on the interrupted thread: the node of the checkpoint runs
\* again from its start.
Resume(a) ==
    /\ at = "idle"
    /\ returned = "interrupted"
    /\ answer' = a
    /\ at' = saved
    /\ returned' = "none"
    /\ UNCHANGED <<begun, open, saved, results, history>>

-----------------------------------------------------------------------------
(* Nodes *)

\* Every node begins by emitting node_started.
Start ==
    /\ at \in Node
    /\ ~begun
    /\ begun' = TRUE
    /\ open' = open \union {at}
    /\ UNCHANGED <<at, saved, answer, returned, results, history>>

\* Node n has emitted node_completed and returned; the checkpointer saves that m is
\* next.
Leave(n, m) ==
    /\ begun' = FALSE
    /\ open' = open \ {n}
    /\ at' = m
    /\ saved' = m

\* Node n, which is an LLM call and what is made of it; m is next.
Think(n, m) ==
    /\ at = n
    /\ begun
    /\ ran' = [ran EXCEPT ![n] = @ + 1]
    /\ Leave(n, m)
    /\ UNCHANGED <<answer, returned, results, posts, tickets, rated>>

Assess == Think("assess", "evidence")
GatherEvidence == Think("evidence", "human_review")
DraftResponse == Think("response", "package")

\* human_review without an answer: interrupt() ends the invocation, which answers
\* needs_human and leaves the checkpoint in front of this node.
Interrupt ==
    /\ at = "human_review"
    /\ begun
    /\ answer = "none"
    /\ returned' = "interrupted"
    /\ at' = "idle"
    /\ begun' = FALSE
    /\ UNCHANGED <<open, saved, answer, results, history>>

\* Mutant of HumanReview: the sentinel is written, but the edge goes on regardless.
ReviewIgnored ==
    /\ at = "human_review"
    /\ begun
    /\ answer # "none"
    /\ refused' = (answer = "reject")
    /\ Leave("human_review", "response")
    /\ UNCHANGED <<answer, returned, rating, confidence, history>>

\* Mutant of HumanReview: a refusal returns before node_completed is emitted.
ReviewSilent ==
    /\ at = "human_review"
    /\ begun
    /\ answer # "none"
    /\ refused' = (answer = "reject")
    /\ begun' = FALSE
    /\ open' = IF answer = "reject" THEN open ELSE open \ {at}
    /\ at' = IF answer = "reject" THEN "end" ELSE "response"
    /\ saved' = at'
    /\ UNCHANGED <<answer, returned, rating, confidence, history>>

\* human_review with an answer, and _route_after_review.
HumanReview ==
    /\ at = "human_review"
    /\ begun
    /\ answer # "none"
    /\ refused' = (answer = "reject")
    /\ Leave("human_review", IF answer = "reject" THEN "end" ELSE "response")
    /\ UNCHANGED <<answer, returned, rating, confidence, history>>

\* Mutant of Rated: the tools are called whatever the rating is.
RatedAlwaysActs(c, proper) ==
    /\ at = "package"
    /\ begun
    /\ rating' = c
    /\ rated' = proper
    /\ ran' = [ran EXCEPT !["package"] = @ + 1]
    /\ at' = "act"
    /\ UNCHANGED <<begun, open, saved, answer, returned, confidence, refused, posts,
                   tickets>>

\* package_outcome has rated the draft with c; the tools are called from the
\* threshold on.
Rated(c, proper) ==
    /\ at = "package"
    /\ begun
    /\ rating' = c
    /\ rated' = proper
    /\ ran' = [ran EXCEPT !["package"] = @ + 1]
    /\ at' = IF c >= Threshold THEN "act" ELSE "packaged"
    /\ UNCHANGED <<begun, open, saved, answer, returned, confidence, refused, posts,
                   tickets>>

\* Mutant of RateNumber: the reply is not clamped.
RateUnclamped == \E s \in Score : Rated(s, TRUE)

\* A number in the reply is clamped to 0.0..1.0.
RateNumber ==
    \E s \in Score : Rated(IF s < 0 THEN 0 ELSE IF s > Scale THEN Scale ELSE s, TRUE)

\* min(1.0, nan) is 1.0 in Python, as the comparison nan < 1.0 is false.
RateNaN == NaNReplies /\ Rated(Scale, FALSE)

\* The LLM failed, or its reply holds no JSON object, no number or no such field.
RateUnusable == Rated(Half, FALSE)

\* slack_post_incident_summary, which returns an error of Slack as text.
PostSlack ==
    /\ at = "act"
    /\ posts' = posts + 1
    /\ at' = "ticket"
    /\ UNCHANGED <<begun, open, saved, answer, returned, results, tickets, ran, rated>>

\* jira_create_incident_ticket, whatever became of the message to Slack.
FileTicket ==
    /\ at = "ticket"
    /\ tickets' = tickets + 1
    /\ at' = "packaged"
    /\ UNCHANGED <<begun, open, saved, answer, returned, results, posts, ran, rated>>

\* package_outcome returns: its result becomes part of the state.
EndPackage ==
    /\ at = "packaged"
    /\ confidence' = rating
    /\ Leave("package", "end")
    /\ UNCHANGED <<answer, returned, rating, refused, history>>

-----------------------------------------------------------------------------

\* Mutant of Return: a confidence at the threshold is escalated although the tools
\* were called.
ReturnAtMost ==
    /\ at = "end"
    /\ returned' = IF refused THEN "rejected"
                   ELSE IF confidence # Unset /\ confidence <= Threshold THEN "unsure"
                   ELSE "done"
    /\ at' = "idle"
    /\ UNCHANGED <<begun, open, saved, answer, results, history>>

\* The invocation has returned a state: result packaging.
Return ==
    /\ at = "end"
    /\ returned' = IF refused THEN "rejected"
                   ELSE IF confidence # Unset /\ confidence < Threshold THEN "unsure"
                   ELSE "done"
    /\ at' = "idle"
    /\ UNCHANGED <<begun, open, saved, answer, results, history>>

\* An LLM call, a tool or the event emitter raises: the exception reaches the task,
\* which does not come back to this thread.
Raise ==
    /\ CallsMayFail
    /\ at # "idle"
    /\ returned' = "raised"
    /\ at' = "idle"
    /\ begun' = FALSE
    /\ UNCHANGED <<open, saved, answer, results, history>>

Next ==
    \/ Invoke
    \/ \E a \in {"approve", "reject"} : Resume(a)
    \/ Start
    \/ Assess
    \/ GatherEvidence
    \/ Interrupt
    \/ HumanReview
    \/ DraftResponse
    \/ RateNumber
    \/ RateNaN
    \/ RateUnusable
    \/ PostSlack
    \/ FileTicket
    \/ EndPackage
    \/ Return
    \/ Raise

Spec == Init /\ [][Next]_vars

-----------------------------------------------------------------------------
(* Properties *)

\* Slack and Jira hear of a thread only after somebody approved it, and only when
\* its draft was rated at the threshold or above; and Jira of none that Slack has not.
ActsOnlyWhenSure ==
    /\ posts > 0 => answer = "approve" /\ rating >= Threshold
    /\ tickets <= posts

\* The status tells what was done: done says that both tools were called, and rejected
\* or a low-confidence needs_human that neither was, although an exception may end the
\* call between the two (that call has no status).
StatusTellsActions ==
    /\ returned = "done" => posts = 1 /\ tickets = 1
    /\ returned \in {"interrupted", "unsure", "rejected"} => posts = 0 /\ tickets = 0

\* No node pays for its LLM call twice: the resumed invocation continues behind the
\* gate, and what ran before the interrupt is not replayed.
NoReplay == \A n \in Thinker : ran[n] <= 1

\* Whoever follows the events sees no node running once a call has returned, but for
\* human_review, which really is waiting, although the gate announces it twice.
EventsMatchReturn ==
    at = "idle" /\ returned \notin {"none", "raised"} =>
        open = IF returned = "interrupted" THEN {"human_review"} ELSE {}

\* The graph implements what RunLifecycle's task relies on.
Call == INSTANCE WorkflowCall WITH
    state <- IF returned \in {"done", "unsure", "rejected", "raised"} THEN returned
             ELSE IF posts > 0 THEN "acted"
             ELSE IF returned = "interrupted" \/ answer # "none" THEN "asked"
             ELSE "new"

ImplementsCall == Call!Spec

\* agents.py:46, "Returns 0.5 (conservative default) on any LLM or parsing failure so
\* that uncertain incidents are always escalated rather than silently auto-actioned":
\* a draft that the LLM did not rate with a number is never acted on.
UnratedIsEscalated == posts > 0 => rated

=============================================================================
