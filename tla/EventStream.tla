----------------------------- MODULE EventStream -----------------------------
(***************************************************************************)
(* One execution of the Celery task (tasks.py) around the workflow, as the   *)
(* outside hears of it: the events that the API, the task and the graph      *)
(* publish on the Redis channel of the incident (events.py), the SSE         *)
(* connections that forward them (routers/incidents.py), and the Slack       *)
(* notifications (notifications.py), between the commits that they tell of.  *)
(* Retries and other runs are RunLifecycle's.  As there, a node event is     *)
(* published or raises; the emitter as committed always raises.              *)
(***************************************************************************)
EXTENDS WorkflowGraph, Sequences

CONSTANT Listener    \* connections to GET /incidents/{id}/stream

VARIABLES
    caller,      \* who runs the workflow: the task, or a caller without emitter
    step,        \* where the task stands
    verdict,     \* the `result["status"]` that the task ends with
    row,         \* agent_runs.status; "deleted" once the run is gone with its incident
    was,         \* history: the statuses the row has had
    slack,       \* history: the statuses handed to _post_to_slack
    queued,      \* has POST /execute published workflow_queued?
    published,   \* history: everything published on the channel
    link         \* link[c]: an SSE connection with its Redis subscription

taskVars == <<caller, step, verdict, row, was, slack>>
channel == <<published, link>>
svars == <<vars, taskVars, queued, channel>>

Steps == {"start", "graph", "announce", "notify", "wait", "resume", "settle",
          "report", "finish", "over", "failed"}

\* An event is its name and what tells it from others of that name: the node, or who
\* publishes it.  The task's last word carries the status, and graph_run_id.
Started(n) == <<"node_started", n>>
Completed(n) == <<"node_completed", n>>
GateOpened == <<"approval_required", "task">>
LastWord(v) == <<"workflow_done", v>>
Verdict == {"done", "unsure", "rejected"}

Event ==
    {Started(n) : n \in Node} \union {Completed(n) : n \in Node}
    \union {LastWord(v) : v \in Verdict}
    \union {<<"approval_required", "graph">>, <<"workflow_rejected", "graph">>,
            <<"workflow_low_confidence", "graph">>, <<"workflow_done", "graph">>}
    \union {<<"workflow_queued", "api">>, <<"workflow_started", "task">>, GateOpened,
            <<"workflow_approved", "task">>, <<"workflow_rejected", "task">>}

\* The status that complete_agent_run stores; a low confidence is needs_human.
Shown(v) == IF v = "unsure" THEN "needs_human" ELSE v

\* inbox: received from Redis, not yet forwarded; from, heard: history of where in
\* `published` the subscription began, and of what was forwarded since.
Away == [at |-> "away", inbox |-> <<>>, from |-> 0, heard |-> <<>>]

Connection == [at : {"away", "open", "cut", "gone"}, inbox : Seq(Event),
               from : Nat, heard : Seq(Event)]

StreamTypeOK ==
    /\ TypeOK
    /\ caller \in {"task", "direct"}
    /\ step \in Steps
    /\ verdict \in {"none"} \union Verdict
    /\ row \in {"queued", "needs_human", "done", "rejected", "deleted"}
    /\ was \in SUBSET {"queued", "needs_human", "done", "rejected"}
    /\ slack \in Seq({"needs_human", "done", "rejected"})
    /\ queued \in BOOLEAN
    /\ published \in Seq(Event)
    /\ link \in [Listener -> Connection]

StreamInit ==
    /\ Init
    /\ caller \in {"task", "direct"}
    /\ step = "start"
    /\ verdict = "none"
    /\ row = "queued"
    /\ was = {"queued"}
    /\ slack = <<>>
    /\ queued = FALSE
    /\ published = <<>>
    /\ link = [c \in Listener |-> Away]

-----------------------------------------------------------------------------
(* The channel *)

\* Mutant of Publish: a listener that is still busy with an event misses the next.
PublishOverwrites(e) ==
    /\ published' = Append(published, e)
    /\ link' = [c \in Listener |->
                    IF link[c].at = "open" THEN [link[c] EXCEPT !.inbox = <<e>>]
                    ELSE link[c]]

\* publish_incident_event: Redis hands the event to whoever is subscribed now.
Publish(e) ==
    /\ published' = Append(published, e)
    /\ link' = [c \in Listener |->
                    IF link[c].at = "open" THEN [link[c] EXCEPT !.inbox = Append(@, e)]
                    ELSE link[c]]

\* emit: nothing happens without an emitter.
Emit(e) == IF caller = "task" THEN Publish(e) ELSE UNCHANGED channel

\* GET /incidents/{id}/stream, up to the subscription (404 if the incident is gone); and
\* the Redis client's new subscription after it lost its connection.
Subscribe(c) ==
    /\ link[c].at \in {"away", "cut"}
    /\ link[c].at = "away" => row # "deleted"
    /\ link' = [link EXCEPT ![c] = [at |-> "open", inbox |-> <<>>,
                                    from |-> Len(published), heard |-> <<>>]]
    /\ UNCHANGED <<vars, taskVars, queued, published>>

\* get_message and the yield of what it returned.
Forward(c) ==
    /\ link[c].at = "open"
    /\ link[c].inbox # <<>>
    /\ link' = [link EXCEPT ![c].heard = Append(@, Head(link[c].inbox)),
                            ![c].inbox = Tail(@)]
    /\ UNCHANGED <<vars, taskVars, queued, published>>

\* The connection to Redis is lost, and what it had received with it.  Depending on
\* the release of the client get_message raises, which ends the stream, or the client
\* connects and subscribes again.
Break(c) ==
    /\ CallsMayFail
    /\ link[c].at = "open"
    /\ \E p \in {"cut", "gone"} : link' = [link EXCEPT ![c] = [Away EXCEPT !.at = p]]
    /\ UNCHANGED <<vars, taskVars, queued, published>>

\* request.is_disconnected, or the client was gone before the yield: unsubscribe.
Disconnect(c) ==
    /\ link[c].at = "open"
    /\ link' = [link EXCEPT ![c] = [Away EXCEPT !.at = "gone"]]
    /\ UNCHANGED <<vars, taskVars, queued, published>>

\* POST /execute publishes only after it has sent the task, which may be under way
\* by then, or over.
PublishQueued ==
    /\ caller = "task"
    /\ ~queued
    /\ queued' = TRUE
    /\ Publish(<<"workflow_queued", "api">>)
    /\ UNCHANGED <<vars, taskVars>>

\* DELETE /incidents/{id}, at any time: the incident's runs go with it.
Delete ==
    /\ row # "deleted"
    /\ row' = "deleted"
    /\ UNCHANGED <<vars, caller, step, verdict, was, slack, queued, channel>>

-----------------------------------------------------------------------------
(* The graph with its events *)

InGraph == caller = "task" => step = "graph"

Enter ==
    /\ InGraph
    /\ Invoke
    /\ UNCHANGED <<taskVars, queued, channel>>

StartNode ==
    /\ InGraph
    /\ Start
    /\ Emit(Started(at))
    /\ UNCHANGED <<taskVars, queued>>

\* Mutant of CompleteNode: the gate's completion is told by the task's
\* workflow_approved alone.
CompleteButReview ==
    /\ InGraph
    /\ \/ Assess
       \/ GatherEvidence
       \/ HumanReview
       \/ DraftResponse
    /\ IF at = "human_review" THEN UNCHANGED channel ELSE Emit(Completed(at))
    /\ UNCHANGED <<taskVars, queued>>

CompleteNode ==
    /\ InGraph
    /\ \/ Assess
       \/ GatherEvidence
       \/ HumanReview
       \/ DraftResponse
    /\ Emit(Completed(at))
    /\ UNCHANGED <<taskVars, queued>>

RateAndAct ==
    /\ InGraph
    /\ \/ RateNumber
       \/ RateNaN
       \/ RateUnusable
       \/ PostSlack
       \/ FileTicket
    /\ UNCHANGED <<taskVars, queued, channel>>

CompletePackage ==
    /\ InGraph
    /\ EndPackage
    /\ Emit(Completed("package"))
    /\ UNCHANGED <<taskVars, queued>>

\* approval_required is published here, before the row shows needs_human, and once
\* more by the task.
ReachGate ==
    /\ InGraph
    /\ Interrupt
    /\ Emit(<<"approval_required", "graph">>)
    /\ UNCHANGED <<taskVars, queued>>

\* The event of the result packaging, before the result is committed.
ReturnResult ==
    /\ InGraph
    /\ Return
    /\ Emit(CASE returned' = "rejected" -> <<"workflow_rejected", "graph">>
              [] returned' = "unsure" -> <<"workflow_low_confidence", "graph">>
              [] returned' = "done" -> <<"workflow_done", "graph">>)
    /\ UNCHANGED <<taskVars, queued>>

\* A node, or an event of it, raises: the task fails with it.
GraphRaises ==
    /\ InGraph
    /\ Raise
    /\ step' = IF caller = "task" THEN "failed" ELSE step
    /\ UNCHANGED <<caller, verdict, row, was, slack, queued, channel>>

\* The task resumes with True only; a refusal is what other callers may resume with.
ResumeGraph ==
    \/ /\ caller = "direct"
       /\ \E a \in {"approve", "reject"} : Resume(a)
       /\ UNCHANGED <<taskVars, queued, channel>>
    \/ /\ step = "resume"
       /\ Resume("approve")
       /\ step' = "graph"
       /\ UNCHANGED <<caller, verdict, row, was, slack, queued, channel>>

-----------------------------------------------------------------------------
(* The task around it *)

\* workflow_started, then get_incident: the task fails if the incident is gone.
BeginTask ==
    /\ caller = "task"
    /\ step = "start"
    /\ step' = IF row = "deleted" THEN "failed" ELSE "graph"
    /\ Publish(<<"workflow_started", "task">>)
    /\ UNCHANGED <<vars, caller, verdict, row, was, slack, queued>>

\* Commit status s of the row.  update_agent_run_status and complete_agent_run answer
\* None for a row that is gone; the task does not look and goes on.
Store(s) ==
    IF row = "deleted" THEN UNCHANGED <<row, was>>
    ELSE row' = s /\ was' = was \union {s}

\* update_agent_run_status(needs_human)
Park ==
    /\ caller = "task"
    /\ step = "graph"
    /\ returned = "interrupted"
    /\ Store("needs_human")
    /\ step' = "announce"
    /\ UNCHANGED <<vars, caller, verdict, slack, queued, channel>>

AnnounceGate ==
    /\ step = "announce"
    /\ step' = "notify"
    /\ Publish(GateOpened)
    /\ UNCHANGED <<vars, caller, verdict, row, was, slack, queued>>

\* notify_run_needs_human; _post_to_slack never raises.
NotifyGate ==
    /\ step = "notify"
    /\ step' = "wait"
    /\ slack' = Append(slack, "needs_human")
    /\ UNCHANGED <<vars, caller, verdict, row, was, queued, channel>>

Approved ==
    /\ step = "wait"
    /\ step' = "resume"
    /\ Publish(<<"workflow_approved", "task">>)
    /\ UNCHANGED <<vars, caller, verdict, row, was, slack, queued>>

\* A refusal, or the deadline: the graph stays where it was interrupted.
NotApproved ==
    /\ step = "wait"
    /\ verdict' = "rejected"
    /\ step' = "settle"
    /\ Publish(<<"workflow_rejected", "task">>)
    /\ UNCHANGED <<vars, caller, row, was, slack, queued>>

\* Mutant of Settle: the result of the resumed graph is taken for committed.
SettleRefusedOnly ==
    /\ \/ /\ caller = "task"
          /\ step = "graph"
          /\ returned \in {"done", "unsure"}
          /\ verdict' = returned
          /\ UNCHANGED <<row, was>>
       \/ /\ step = "settle"
          /\ UNCHANGED verdict
          /\ Store(Shown(verdict))
    /\ step' = "report"
    /\ UNCHANGED <<vars, caller, slack, queued, channel>>

\* update_incident and complete_agent_run, with the result of the resumed graph or
\* with the refusal.
Settle ==
    /\ \/ /\ caller = "task"
          /\ step = "graph"
          /\ returned \in {"done", "unsure"}
          /\ verdict' = returned
       \/ /\ step = "settle"
          /\ UNCHANGED verdict
    /\ Store(Shown(verdict'))
    /\ step' = "report"
    /\ UNCHANGED <<vars, caller, slack, queued, channel>>

\* Mutant of Report: only done is worth a notification.
ReportDoneOnly ==
    /\ step = "report"
    /\ step' = "finish"
    /\ slack' = IF verdict = "done" THEN Append(slack, verdict) ELSE slack
    /\ UNCHANGED <<vars, caller, verdict, row, was, queued, channel>>

\* notify_run_completed, which skips a run that is needs_human again.
Report ==
    /\ step = "report"
    /\ step' = "finish"
    /\ slack' = IF verdict \in {"done", "rejected"} THEN Append(slack, verdict) ELSE slack
    /\ UNCHANGED <<vars, caller, verdict, row, was, queued, channel>>

\* Mutant of FinishTask: a refusal has been told by workflow_rejected already.
FinishButRefused ==
    /\ step = "finish"
    /\ step' = "over"
    /\ IF verdict = "rejected" THEN UNCHANGED channel ELSE Publish(LastWord(verdict))
    /\ UNCHANGED <<vars, caller, verdict, row, was, slack, queued>>

\* cache_delete and the task's workflow_done.
FinishTask ==
    /\ step = "finish"
    /\ step' = "over"
    /\ Publish(LastWord(verdict))
    /\ UNCHANGED <<vars, caller, verdict, row, was, slack, queued>>

\* The database, Redis or a publish raises outside of the graph.
TaskRaises ==
    /\ CallsMayFail
    /\ caller = "task"
    /\ step \notin {"over", "failed"}
    /\ at = "idle"
    /\ step' = "failed"
    /\ UNCHANGED <<vars, caller, verdict, row, was, slack, queued, channel>>

-----------------------------------------------------------------------------

Graph ==
    \/ Enter
    \/ StartNode
    \/ CompleteNode
    \/ RateAndAct
    \/ CompletePackage
    \/ ReachGate
    \/ ReturnResult
    \/ GraphRaises
    \/ ResumeGraph

Task ==
    \/ BeginTask
    \/ Park
    \/ AnnounceGate
    \/ NotifyGate
    \/ Approved
    \/ NotApproved
    \/ Settle
    \/ Report
    \/ FinishTask
    \/ TaskRaises

Stream(c) ==
    \/ Subscribe(c)
    \/ Forward(c)
    \/ Break(c)
    \/ Disconnect(c)

StreamNext ==
    \/ Graph
    \/ Task
    \/ PublishQueued
    \/ Delete
    \/ \E c \in Listener : Stream(c)

StreamSpec == StreamInit /\ [][StreamNext]_svars

\* The worker goes on with its task (its wait has a deadline), and a connection
\* forwards what it has received.
StreamFairSpec ==
    /\ StreamSpec
    /\ WF_svars(Graph \/ Task)
    /\ \A c \in Listener : WF_svars(Forward(c))

-----------------------------------------------------------------------------
(* Properties *)

\* events.py and routers/incidents.py keep the promise of Broadcast: although events
\* come from two processes and a listener is slow, a subscription is forwarded all
\* that was published since it began, in order and once.
Channel == INSTANCE Broadcast WITH
    log <- published,
    heard <- [c \in Listener |-> [on |-> link[c].at = "open",
                                  from |-> link[c].from, said |-> link[c].heard]]

ImplementsBroadcast == Channel!Spec

Told(e) == \E n \in DOMAIN published : published[n] = e

\* Who reacts to the task's own approval_required or to its last word by asking the
\* API finds what the event tells of, or that the run is gone: the task announces gates
\* and ends of deleted runs too.  (The graph publishes approval_required and
\* workflow_done as well, and earlier; nothing of the kind holds of those.)
ToldAfterCommit ==
    /\ Told(GateOpened) => "needs_human" \in was \/ row = "deleted"
    /\ \A v \in Verdict : Told(LastWord(v)) => row \in {Shown(v), "deleted"}

\* Slack follows the row: but for the moments between a commit and its notification,
\* the latest message is about the status that the row has, as long as there is a row
\* (of a deleted one Slack may be told what was never stored).  A run escalated for low
\* confidence is announced by no message of its own: its approval message, which
\* offers buttons for a gate that is over, stays the last.
SlackFollowsRow == row # "deleted" =>
    /\ step \in {"wait", "resume", "settle", "finish", "over"} =>
            slack # <<>> /\ slack[Len(slack)] = row
    /\ slack # <<>> => slack[Len(slack)] \in was

\* The nodes that events s show as running.
Running(s) ==
    {n \in Node : \E k \in DOMAIN s : /\ s[k] = Started(n)
                                      /\ \A m \in DOMAIN s : m > k => s[m] # Completed(n)}

\* Whoever has followed an execution from its beginning sees no node running once it
\* hears the last word, although human_review announces itself twice; but a refused
\* one shows human_review as running for good, as the task never resumes that graph.
EndShowsNodes ==
    \A c \in Listener, v \in Verdict :
        /\ link[c].from = 0
        /\ \E n \in DOMAIN link[c].heard : link[c].heard[n] = LastWord(v)
        => Running(link[c].heard) = IF v = "rejected" THEN {"human_review"} ELSE {}

\* A listener of an execution under way is told how it ended, unless the connection
\* is lost or the execution fails: then nothing is published, and it waits on.
EndIsHeard ==
    \A c \in Listener :
        caller = "task" /\ link[c].at = "open" /\ step \notin {"over", "failed"} ~>
            \/ \E v \in Verdict :
                    \E n \in DOMAIN link[c].heard : link[c].heard[n] = LastWord(v)
            \/ link[c].at # "open"
            \/ step = "failed"

=============================================================================
