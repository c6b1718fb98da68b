---------------------------- MODULE StreamProofs ----------------------------
(***************************************************************************)
(* Proofs about EventStream, for any number of connections: the execution is *)
(* a behaviour of WorkflowGraph, the channel keeps the promise of Broadcast,  *)
(* and what is told of the row is true of it.                               *)
(***************************************************************************)
EXTENDS EventStream, GraphProofs

\* What was published since an open subscription is what was forwarded on it and
\* then its inbox; one that is not open has nothing.
Joined ==
    \A c \in Listener :
        IF link[c].at = "open"
        THEN /\ link[c].from + Len(link[c].heard) + Len(link[c].inbox) = Len(published)
             /\ \A n \in 1..Len(link[c].inbox) :
                    link[c].inbox[n] = published[link[c].from + Len(link[c].heard) + n]
             /\ \A n \in 1..Len(link[c].heard) :
                    link[c].heard[n] = published[link[c].from + n]
        ELSE link[c] = [Away EXCEPT !.at = link[c].at]

\* The variables of the channel have their types.
ChannelOK == published \in Seq(Event) /\ link \in [Listener -> Connection]

\* The types of what the task keeps.
TaskOK ==
    /\ caller \in {"task", "direct"}
    /\ step \in Steps
    /\ verdict \in {"none"} \union Verdict
    /\ row \in {"queued", "needs_human", "done", "rejected", "deleted"}
    /\ was \in SUBSET {"queued", "needs_human", "done", "rejected"}
    /\ slack \in Seq({"needs_human", "done", "rejected"})
    /\ queued \in BOOLEAN

\* Where the workflow stands when the task is at a step of its own.
Placed ==
    /\ caller = "direct" => step = "start"
    /\ caller = "task" /\ step = "start" =>
            at = "idle" /\ answer = "none" /\ returned = "none"
    /\ step \in {"announce", "notify", "wait", "resume", "settle"} =>
            at = "idle" /\ returned = "interrupted"
    /\ step \in {"report", "finish", "over"} =>
            /\ at = "idle"
            /\ returned = IF verdict = "rejected" THEN "interrupted" ELSE verdict

\* What has been committed when the task is there, unless the run is gone, and what the
\* channel tells of it.
Committed ==
    /\ row \in was \union {"deleted"}
    /\ step \in {"announce", "notify", "wait", "resume", "settle"} =>
            row \in {"needs_human", "deleted"}
    /\ step = "settle" => verdict = "rejected"
    /\ step \in {"report", "finish", "over"} =>
            verdict \in Verdict /\ row \in {Shown(verdict), "deleted"}
    /\ Told(GateOpened) => "needs_human" \in was \/ row = "deleted"
    /\ \A v \in Verdict : Told(LastWord(v)) => step = "over" /\ verdict = v

\* What Slack was told last when the task is there.
Latest(s) == slack # <<>> /\ slack[Len(slack)] = s
Notified ==
    /\ step \in {"wait", "resume", "settle", "report"} => Latest("needs_human")
    /\ step = "graph" /\ answer # "none" => Latest("needs_human")
    /\ step \in {"finish", "over"} /\ row # "deleted" => Latest(row)
    /\ slack # <<>> => slack[Len(slack)] \in was \/ row = "deleted"

-----------------------------------------------------------------------------
(* The channel *)

\* What the workflow and the task publish are events.
LEMMA EventsAre ==
  /\ \A n \in Node : Started(n) \in Event /\ Completed(n) \in Event
  /\ \A v \in Verdict : LastWord(v) \in Event
  /\ GateOpened \in Event
  /\ <<"approval_required", "graph">> \in Event
  /\ <<"workflow_rejected", "graph">> \in Event
  /\ <<"workflow_low_confidence", "graph">> \in Event
  /\ <<"workflow_done", "graph">> \in Event
  /\ <<"workflow_queued", "api">> \in Event
  /\ <<"workflow_started", "task">> \in Event
  /\ <<"workflow_approved", "task">> \in Event
  /\ <<"workflow_rejected", "task">> \in Event
  BY DEF Event

\* A connection without a subscription is one.
LEMMA AwayIs == \A p \in {"away", "cut", "gone"} : [Away EXCEPT !.at = p] \in Connection
  <1>1. <<>> \in Seq(Event)
    OBVIOUS
  <1>2. QED
    BY <1>1 DEF Away, Connection

\* Every step publishes one event, leaves the channel alone, or is one of a
\* connection.
LEMMA StepShape ==
  ASSUME GInv, Committed, StreamNext
  PROVE  \/ \E e \in Event : Publish(e)
         \/ UNCHANGED channel
         \/ \E c \in Listener : Stream(c)
  <1> USE EventsAre DEF Emit
  <1> USE DEF GInv, TypeOK
  <1>1. CASE Graph
    <2>1. CASE StartNode
      BY <2>1 DEF StartNode, Start
    <2>2. CASE CompleteNode
      BY <2>2 DEF CompleteNode, Assess, GatherEvidence, HumanReview, DraftResponse, Think, Node
    <2>3. CASE CompletePackage
      BY <2>3 DEF CompletePackage, Node
    <2>4. CASE ReachGate
      BY <2>4 DEF ReachGate
    <2>5. CASE ReturnResult
      <3>1. returned' \in {"rejected", "unsure", "done"}
        BY <2>5 DEF ReturnResult, Return
      <3>2. QED
        BY <2>5, <3>1 DEF ReturnResult
    <2>6. CASE Enter \/ RateAndAct \/ GraphRaises \/ ResumeGraph
      BY <2>6 DEF Enter, RateAndAct, GraphRaises, ResumeGraph
    <2>7. QED
      BY <1>1, <2>1, <2>2, <2>3, <2>4, <2>5, <2>6 DEF Graph
  <1>2. CASE Task
    <2>1. CASE BeginTask
      BY <2>1 DEF BeginTask
    <2>2. CASE AnnounceGate
      BY <2>2 DEF AnnounceGate
    <2>3. CASE Approved \/ NotApproved
      BY <2>3 DEF Approved, NotApproved
    <2>4. CASE FinishTask
      BY <2>4 DEF FinishTask, Committed
    <2>5. CASE Park \/ NotifyGate \/ Settle \/ Report \/ TaskRaises
      BY <2>5 DEF Park, NotifyGate, Settle, Report, TaskRaises
    <2>6. QED
      BY <1>2, <2>1, <2>2, <2>3, <2>4, <2>5 DEF Task
  <1>3. CASE PublishQueued
    BY <1>3 DEF PublishQueued
  <1>4. CASE \E c \in Listener : Stream(c)
    BY <1>4
  <1>5. CASE Delete
    BY <1>5 DEF Delete
  <1>6. QED
    BY <1>1, <1>2, <1>3, <1>4, <1>5 DEF StreamNext

\* What a publication appends.
LEMMA PublishAppends ==
  ASSUME ChannelOK, NEW e \in Event, Publish(e)
  PROVE  /\ published' \in Seq(Event)
         /\ Len(published') = Len(published) + 1
         /\ \A n \in 1..Len(published) : published'[n] = published[n]
         /\ published'[Len(published) + 1] = e
         /\ \A f : Told(f)' <=> Told(f) \/ f = e
  <1>1. published \in Seq(Event) /\ published' = Append(published, e)
    BY DEF ChannelOK, Publish
  <1>2. /\ published' \in Seq(Event)
        /\ Len(published') = Len(published) + 1
        /\ \A n \in 1..Len(published) : published'[n] = published[n]
        /\ published'[Len(published) + 1] = e
    BY <1>1
  <1>3. DOMAIN published = 1..Len(published) /\ DOMAIN published' = 1..Len(published')
    BY <1>1, <1>2
  <1>4. Len(published) \in Nat
    BY <1>1
  <1>5. ASSUME NEW f
        PROVE  Told(f)' <=> Told(f) \/ f = e
    <2>1. CASE Told(f)
      <3>1. PICK n \in 1..Len(published) : published[n] = f
        BY <2>1, <1>3 DEF Told
      <3>2. published'[n] = f /\ n \in 1..Len(published')
        BY <3>1, <1>2, <1>4
      <3>3. QED
        BY <2>1, <3>2, <1>3 DEF Told
    <2>2. CASE f = e
      <3>1. Len(published) + 1 \in 1..Len(published')
        BY <1>2, <1>4
      <3>2. QED
        BY <2>2, <3>1, <1>2, <1>3 DEF Told
    <2>3. CASE ~Told(f) /\ f # e
      <3>1. ASSUME NEW n \in 1..Len(published')
            PROVE  published'[n] # f
        <4>1. n \in 1..Len(published) \/ n = Len(published) + 1
          BY <1>2, <1>4
        <4>2. QED
          BY <4>1, <1>2, <1>3, <2>3 DEF Told
      <3>2. QED
        BY <3>1, <1>3, <2>3 DEF Told
    <2>4. QED
      BY <2>1, <2>2, <2>3
  <1>6. QED
    BY <1>2, <1>5

\* What becomes of Broadcast's record of a listener that hears something.
LEMMA SaidGrows ==
  ASSUME NEW b, NEW f, NEW s, NEW t
  PROVE  [[on |-> b, from |-> f, said |-> s] EXCEPT !.said = t]
            = [on |-> b, from |-> f, said |-> t]
  OBVIOUS

\* The channel's types and the segments stay, and the step is one of Broadcast.
LEMMA ChannelStep ==
  ASSUME ChannelOK, Joined,
         \/ \E e \in Event : Publish(e)
         \/ UNCHANGED channel
         \/ \E c \in Listener : Stream(c)
  PROVE  ChannelOK' /\ Joined' /\ [Channel!Next]_Channel!vars
  <1> USE DEF ChannelOK
  <1>1. ASSUME NEW e \in Event, Publish(e)
        PROVE  ChannelOK' /\ Joined' /\ [Channel!Next]_Channel!vars
    <2>1. /\ published' \in Seq(Event)
          /\ Len(published') = Len(published) + 1
          /\ \A n \in 1..Len(published) : published'[n] = published[n]
          /\ published'[Len(published) + 1] = e
      BY <1>1, PublishAppends
    <2>2. ASSUME NEW c \in Listener
          PROVE  /\ link'[c] \in Connection
                 /\ link'[c].at = link[c].at /\ link'[c].from = link[c].from
                 /\ link'[c].heard = link[c].heard
                 /\ link[c].at = "open" => link'[c].inbox = Append(link[c].inbox, e)
                 /\ link[c].at # "open" => link'[c] = link[c]
      <3>1. link[c] \in Connection /\ link[c].inbox \in Seq(Event)
        BY DEF Connection
      <3>2. Append(link[c].inbox, e) \in Seq(Event)
        BY <3>1
      <3>3. CASE link[c].at = "open"
        <4>1. link'[c] = [link[c] EXCEPT !.inbox = Append(link[c].inbox, e)]
          BY <1>1, <3>3 DEF Publish
        <4>2. QED
          BY <4>1, <3>1, <3>2, <3>3 DEF Connection
      <3>4. CASE link[c].at # "open"
        BY <1>1, <3>1, <3>4 DEF Publish
      <3>5. QED
        BY <3>3, <3>4
    <2>3. ASSUME NEW c \in Listener, link[c].at = "open"
          PROVE  /\ link'[c].from + Len(link'[c].heard) + Len(link'[c].inbox) = Len(published')
                 /\ \A n \in 1..Len(link'[c].inbox) :
                        link'[c].inbox[n] = published'[link'[c].from + Len(link'[c].heard) + n]
                 /\ \A n \in 1..Len(link'[c].heard) :
                        link'[c].heard[n] = published'[link'[c].from + n]
      <3> DEFINE inbox == link[c].inbox
                 base == link[c].from + Len(link[c].heard)
      <3>1. inbox \in Seq(Event) /\ base \in Nat /\ Len(inbox) \in Nat
        BY DEF Connection
      <3>2. /\ base + Len(inbox) = Len(published)
            /\ \A n \in 1..Len(inbox) : inbox[n] = published[base + n]
        BY <2>3 DEF Joined
      <3>3. link'[c].inbox = Append(inbox, e) /\ link'[c].from + Len(link'[c].heard) = base
        BY <2>2, <2>3
      <3> HIDE DEF inbox, base
      <3>4. /\ Len(link'[c].inbox) = Len(inbox) + 1
            /\ \A n \in 1..Len(inbox) : link'[c].inbox[n] = inbox[n]
            /\ link'[c].inbox[Len(inbox) + 1] = e
        BY <3>1, <3>3
      <3>5. ASSUME NEW n \in 1..(Len(inbox) + 1)
            PROVE  link'[c].inbox[n] = published'[base + n]
        <4>1. CASE n \in 1..Len(inbox)
          <5>1. base + n \in 1..Len(published)
            BY <4>1, <3>1, <3>2
          <5>2. QED
            BY <4>1, <5>1, <3>2, <3>4, <2>1
        <4>2. CASE n = Len(inbox) + 1
          <5>1. base + n = Len(published) + 1
            BY <4>2, <3>1, <3>2
          <5>2. QED
            BY <4>2, <5>1, <3>4, <2>1
        <4>3. QED
          BY <4>1, <4>2, <3>1
      <3>6. base + (Len(inbox) + 1) = Len(published')
        <4>1. Len(published) \in Nat
          OBVIOUS
        <4>2. QED
          BY <4>1, <3>1, <3>2, <2>1
      <3>7. \A n \in 1..Len(link'[c].heard) : link'[c].heard[n] = published'[link'[c].from + n]
        <4>1. /\ link[c].from \in Nat /\ Len(link[c].heard) \in Nat
              /\ link'[c].from = link[c].from /\ link'[c].heard = link[c].heard
          BY <2>2 DEF Connection
        <4>2. \A n \in 1..Len(link[c].heard) : link[c].heard[n] = published[link[c].from + n]
          BY <2>3 DEF Joined
        <4>3. base = link[c].from + Len(link[c].heard) /\ base <= Len(published)
          BY <3>1, <3>2 DEF base
        <4>4. \A n \in 1..Len(link[c].heard) : link[c].from + n \in 1..Len(published)
          BY <4>1, <4>3
        <4>5. QED
          BY <4>1, <4>2, <4>4, <2>1
      <3>8. QED
        BY <3>3, <3>4, <3>5, <3>6, <3>7
    <2>4. Joined'
      <3>1. ASSUME NEW c \in Listener, link[c].at # "open"
            PROVE  link'[c] = [Away EXCEPT !.at = link'[c].at]
        BY <3>1, <2>2 DEF Joined
      <3>2. QED
        BY <2>2, <2>3, <3>1 DEF Joined
    <2>5. link' \in [Listener -> Connection]
      BY <1>1, <2>2 DEF Publish
    <2>6. Channel!Next
      <3>1. published' = Append(published, e)
        BY <1>1 DEF Publish
      <3>2. [c \in Listener |-> [on |-> link'[c].at = "open", from |-> link'[c].from, said |-> link'[c].heard]]
              = [c \in Listener |-> [on |-> link[c].at = "open", from |-> link[c].from, said |-> link[c].heard]]
        BY <2>2
      <3>3. Channel!Send(e)
        BY <3>1, <3>2 DEF Channel!Send
      <3>4. QED
        BY <3>3 DEF Channel!Next
    <2>7. QED
      BY <2>1, <2>4, <2>5, <2>6
  <1>2. CASE UNCHANGED channel
    BY <1>2 DEF channel, Joined, Channel!vars
  <1>3. ASSUME NEW c \in Listener, Stream(c)
        PROVE  ChannelOK' /\ Joined' /\ [Channel!Next]_Channel!vars
    <2> DEFINE view == [d \in Listener |-> [on |-> link[d].at = "open",
                                            from |-> link[d].from, said |-> link[d].heard]]
    <2>1. ASSUME NEW l \in Connection, link' = [link EXCEPT ![c] = l], UNCHANGED published,
                 l.at # "open" => l = [Away EXCEPT !.at = l.at],
                 l.at = "open" =>
                    /\ l.from + Len(l.heard) + Len(l.inbox) = Len(published)
                    /\ \A n \in 1..Len(l.inbox) :
                            l.inbox[n] = published[l.from + Len(l.heard) + n]
                    /\ \A n \in 1..Len(l.heard) : l.heard[n] = published[l.from + n]
          PROVE  /\ ChannelOK' /\ Joined'
                 /\ view' = [view EXCEPT ![c] = [on |-> l.at = "open", from |-> l.from, said |-> l.heard]]
      <3>1. link' \in [Listener -> Connection] /\ link'[c] = l
            /\ \A d \in Listener : d # c => link'[d] = link[d]
        BY <2>1
      <3>2. Joined'
        <4>1. ASSUME NEW d \in Listener
              PROVE  IF link'[d].at = "open"
                     THEN /\ link'[d].from + Len(link'[d].heard) + Len(link'[d].inbox) = Len(published)
                          /\ \A n \in 1..Len(link'[d].inbox) :
                                link'[d].inbox[n] = published[link'[d].from + Len(link'[d].heard) + n]
                          /\ \A n \in 1..Len(link'[d].heard) :
                                link'[d].heard[n] = published[link'[d].from + n]
                     ELSE link'[d] = [Away EXCEPT !.at = link'[d].at]
          <5>1. CASE d = c
            BY <5>1, <3>1, <2>1
          <5>2. CASE d # c
            BY <5>2, <3>1 DEF Joined
          <5>3. QED
            BY <5>1, <5>2
        <4>2. QED
          BY <4>1, <2>1 DEF Joined
      <3>3. view' = [view EXCEPT ![c] = [on |-> l.at = "open", from |-> l.from, said |-> l.heard]]
        BY <3>1
      <3>4. QED
        BY <3>1, <3>2, <3>3, <2>1
    <2>2. Len(published) \in Nat /\ <<>> \in Seq(Event)
      OBVIOUS
    <2>3. CASE Subscribe(c)
      <3> DEFINE l == [at |-> "open", inbox |-> <<>>, from |-> Len(published), heard |-> <<>>]
      <3>1. l \in Connection
        BY <2>2 DEF Connection
      <3>2. link' = [link EXCEPT ![c] = l] /\ UNCHANGED published /\ link[c].at # "open"
        BY <2>3 DEF Subscribe
      <3>3. l.from + Len(l.heard) + Len(l.inbox) = Len(published) /\ l.inbox = <<>> /\ l.at = "open"
        BY <2>2
      <3>4. /\ \A n \in 1..Len(l.inbox) : l.inbox[n] = published[l.from + Len(l.heard) + n]
            /\ \A n \in 1..Len(l.heard) : l.heard[n] = published[l.from + n]
        BY <3>3
      <3>5. l.at = "open" /\ l.from = Len(published) /\ l.heard = <<>>
        OBVIOUS
      <3> HIDE DEF l, view
      <3>6. ChannelOK' /\ Joined' /\ view' = [view EXCEPT ![c] = [on |-> l.at = "open", from |-> l.from, said |-> l.heard]]
        BY <2>1, <3>1, <3>2, <3>3, <3>4
      <3>7. view' = [view EXCEPT ![c] = [on |-> TRUE, from |-> Len(published), said |-> <<>>]]
        BY <3>6, <3>5
      <3>8. ~view[c].on
        BY <3>2 DEF view
      <3>9. Channel!Tune(c)
        BY <3>2, <3>7, <3>8 DEF Channel!Tune, view
      <3>10. QED
        BY <3>6, <3>9 DEF Channel!Next
    <2>4. CASE Forward(c)
      <3> DEFINE l == [link[c] EXCEPT !.heard = Append(link[c].heard, Head(link[c].inbox)),
                                      !.inbox = Tail(link[c].inbox)]
                 inbox == link[c].inbox
                 base == link[c].from + Len(link[c].heard)
      <3>1. link[c] \in Connection /\ link[c].at = "open" /\ inbox \in Seq(Event)
            /\ inbox # <<>> /\ link[c].heard \in Seq(Event) /\ link[c].from \in Nat
        BY <2>4 DEF Forward, Connection
      <3>2. Head(inbox) \in Event /\ Tail(inbox) \in Seq(Event) /\ Head(inbox) = inbox[1]
            /\ Len(Tail(inbox)) = Len(inbox) - 1 /\ Len(inbox) \in Nat /\ Len(inbox) > 0
            /\ \A n \in 1..Len(Tail(inbox)) : Tail(inbox)[n] = inbox[n + 1]
        BY <3>1
      <3>3. Append(link[c].heard, inbox[1]) \in Seq(Event)
            /\ Len(Append(link[c].heard, inbox[1])) = Len(link[c].heard) + 1
            /\ Len(link[c].heard) \in Nat
        BY <3>1, <3>2
      <3>4. /\ l \in Connection
            /\ l.at = "open" /\ l.from = link[c].from /\ l.inbox = Tail(inbox)
            /\ l.heard = Append(link[c].heard, inbox[1])
        BY <3>1, <3>2, <3>3 DEF Connection
      <3>5. link' = [link EXCEPT ![c] = l] /\ UNCHANGED published
        BY <2>4 DEF Forward
      <3>6. /\ base + Len(inbox) = Len(published)
            /\ \A n \in 1..Len(inbox) : inbox[n] = published[base + n]
        BY <3>1 DEF Joined
      <3>7. base \in Nat /\ l.from + Len(l.heard) = base + 1
        BY <3>1, <3>3, <3>4
      <3> HIDE DEF l, view, inbox, base
      <3>8. l.from + Len(l.heard) + Len(l.inbox) = Len(published)
        BY <3>2, <3>4, <3>6, <3>7
      <3>9. \A n \in 1..Len(l.inbox) : l.inbox[n] = published[l.from + Len(l.heard) + n]
        <4>1. ASSUME NEW n \in 1..Len(l.inbox)
              PROVE  l.inbox[n] = published[l.from + Len(l.heard) + n]
          <5>1. n + 1 \in 1..Len(inbox) /\ l.inbox[n] = inbox[n + 1]
            BY <3>2, <3>4
          <5>2. base + (n + 1) = l.from + Len(l.heard) + n
            BY <3>7
          <5>3. QED
            BY <5>1, <5>2, <3>6
        <4>2. QED
          BY <4>1
      <3>10. ChannelOK' /\ Joined' /\ view' = [view EXCEPT ![c] = [on |-> l.at = "open", from |-> l.from, said |-> l.heard]]
        <4>1. base + 1 <= Len(published) /\ published[base + 1] = inbox[1]
          BY <3>2, <3>6, <3>7
        <4>2. base = link[c].from + Len(link[c].heard) /\ link[c].from \in Nat /\ Len(link[c].heard) \in Nat
          BY <3>1, <3>3 DEF base
        <4>3. \A n \in 1..Len(link[c].heard) : link[c].heard[n] = published[link[c].from + n]
          BY <3>1 DEF Joined
        <4>4. /\ \A n \in 1..Len(link[c].heard) : l.heard[n] = link[c].heard[n]
              /\ l.heard[Len(link[c].heard) + 1] = inbox[1]
              /\ Len(l.heard) = Len(link[c].heard) + 1
          BY <3>1, <3>2, <3>3, <3>4
        <4>5. \A n \in 1..Len(l.heard) : n \in 1..Len(link[c].heard) \/ n = Len(link[c].heard) + 1
          BY <4>2, <4>4
        <4>6. \A n \in 1..Len(l.heard) : l.heard[n] = published[link[c].from + n]
          <5>1. ASSUME NEW n \in 1..Len(l.heard)
                PROVE  l.heard[n] = published[link[c].from + n]
            <6>1. CASE n \in 1..Len(link[c].heard)
              BY <6>1, <4>3, <4>4
            <6>2. CASE n = Len(link[c].heard) + 1
              <7>1. link[c].from + n = base + 1
                BY <6>2, <4>2
              <7>2. QED
                BY <6>2, <7>1, <4>1, <4>4
            <6>3. QED
              BY <6>1, <6>2, <4>5
          <5>2. QED
            BY <5>1
        <4>7. QED
          BY <2>1, <3>4, <3>5, <3>8, <3>9, <4>6
      <3>11. view[c].on /\ view[c].from + Len(view[c].said) + 1 = base + 1
             /\ view[c] = [on |-> TRUE, from |-> link[c].from, said |-> link[c].heard]
        BY <3>1, <3>3 DEF view, base
      <3>12. base + 1 <= Len(published) /\ published[base + 1] = inbox[1]
        BY <3>2, <3>6, <3>7
      <3>13. [view EXCEPT ![c].said = Append(@, inbox[1])]
               = [view EXCEPT ![c] = [on |-> TRUE, from |-> link[c].from, said |-> Append(link[c].heard, inbox[1])]]
        <4>1. [view[c] EXCEPT !.said = Append(view[c].said, inbox[1])]
                = [on |-> TRUE, from |-> link[c].from, said |-> Append(link[c].heard, inbox[1])]
          <5>1. PICK b, f, s, t : /\ b = TRUE /\ f = link[c].from /\ s = link[c].heard
                                  /\ t = Append(link[c].heard, inbox[1])
            OBVIOUS
          <5>2. [[on |-> b, from |-> f, said |-> s] EXCEPT !.said = t]
                  = [on |-> b, from |-> f, said |-> t]
            BY SaidGrows
          <5>3. view[c] = [on |-> b, from |-> f, said |-> s] /\ t = Append(view[c].said, inbox[1])
            BY <3>11, <5>1
          <5>4. QED
            BY <5>1, <5>2, <5>3, Zenon
        <4>2. QED
          BY <4>1
      <3>14. view' = [view EXCEPT ![c].said = Append(@, published[view[c].from + Len(view[c].said) + 1])]
        BY <3>10, <3>4, <3>11, <3>12, <3>13
      <3>15. Channel!Hear(c)
        BY <3>5, <3>11, <3>12, <3>14 DEF Channel!Hear, view
      <3>16. QED
        BY <3>10, <3>15 DEF Channel!Next
    <2>5. CASE Break(c) \/ Disconnect(c)
      <3>1. PICK p \in {"cut", "gone"} : link' = [link EXCEPT ![c] = [Away EXCEPT !.at = p]]
        BY <2>5 DEF Break, Disconnect
      <3>2. link[c].at = "open" /\ UNCHANGED published
        BY <2>5 DEF Break, Disconnect
      <3>3. PICK l : l = [Away EXCEPT !.at = p]
        OBVIOUS
      <3>4. /\ l \in Connection /\ l.at = p /\ l = [Away EXCEPT !.at = l.at]
            /\ l.from = 0 /\ l.heard = <<>>
        BY <3>3, AwayIs DEF Away
      <3>5. l.at # "open" /\ link' = [link EXCEPT ![c] = l]
        BY <3>1, <3>3, <3>4
      <3> HIDE DEF view
      <3>6. ChannelOK' /\ Joined' /\ view' = [view EXCEPT ![c] = [on |-> l.at = "open", from |-> l.from, said |-> l.heard]]
        BY <2>1, <3>2, <3>4, <3>5
      <3>7. view' = [view EXCEPT ![c] = [on |-> FALSE, from |-> 0, said |-> <<>>]]
        BY <3>6, <3>4, <3>5
      <3>8. view[c].on
        BY <3>2 DEF view
      <3>9. Channel!Leave(c)
        BY <3>2, <3>7, <3>8 DEF Channel!Leave, Channel!Deaf, view
      <3>10. QED
        BY <3>6, <3>9 DEF Channel!Next
    <2>6. QED
      BY <1>3, <2>3, <2>4, <2>5 DEF Stream
  <1>4. QED
    BY <1>1, <1>2, <1>3

-----------------------------------------------------------------------------
(* The task *)

\* The events that ToldAfterCommit does not speak of.
Remark == Event \ ({GateOpened} \union {LastWord(v) : v \in Verdict})

\* The graph's events, and the task's but for the two, are remarks.
LEMMA RemarksAre ==
  /\ \A n \in Node : Started(n) \in Remark /\ Completed(n) \in Remark
  /\ <<"approval_required", "graph">> \in Remark
  /\ <<"workflow_rejected", "graph">> \in Remark
  /\ <<"workflow_low_confidence", "graph">> \in Remark
  /\ <<"workflow_done", "graph">> \in Remark
  /\ <<"workflow_queued", "api">> \in Remark
  /\ <<"workflow_started", "task">> \in Remark
  /\ <<"workflow_approved", "task">> \in Remark
  /\ <<"workflow_rejected", "task">> \in Remark
  BY EventsAre DEF Remark, GateOpened, LastWord, Verdict, Started, Completed

\* A remark tells nothing of the row.
LEMMA RemarkTells ==
  ASSUME ChannelOK, (\E e \in Remark : Publish(e)) \/ UNCHANGED channel
  PROVE  /\ Told(GateOpened)' <=> Told(GateOpened)
         /\ \A v \in Verdict : Told(LastWord(v))' <=> Told(LastWord(v))
  <1>1. ASSUME NEW e \in Remark, Publish(e)
        PROVE  /\ Told(GateOpened)' <=> Told(GateOpened)
               /\ \A v \in Verdict : Told(LastWord(v))' <=> Told(LastWord(v))
    <2>1. e \in Event /\ e # GateOpened /\ \A v \in Verdict : e # LastWord(v)
      BY DEF Remark
    <2>2. \A f : Told(f)' <=> Told(f) \/ f = e
      BY <1>1, <2>1, PublishAppends
    <2>3. Told(GateOpened)' <=> Told(GateOpened) \/ GateOpened = e
      BY <2>2
    <2>4. \A v \in Verdict : Told(LastWord(v))' <=> Told(LastWord(v)) \/ LastWord(v) = e
      BY <2>2
    <2>5. QED
      BY <2>1, <2>3, <2>4
  <1>2. CASE UNCHANGED channel
    BY <1>2 DEF channel, Told, GateOpened, LastWord
  <1>3. QED
    BY <1>1, <1>2

TInv == GInv /\ ChannelOK /\ TaskOK /\ Placed /\ Committed /\ Notified

\* The graph's steps are steps of WorkflowGraph, and tell only remarks.
LEMMA GraphShape ==
  ASSUME TInv, Graph
  PROVE  /\ Next
         /\ (\E e \in Remark : Publish(e)) \/ UNCHANGED channel
         /\ InGraph \/ (step = "resume" /\ step' = "graph" /\ answer' = "approve")
         /\ UNCHANGED <<caller, verdict, row, was, slack, queued>>
         /\ \/ step' = step
            \/ step = "graph" /\ step' = "failed"
            \/ step = "resume" /\ step' = "graph"
         /\ answer' = answer \/ caller = "direct" \/ step = "resume"
  <1> USE RemarksAre DEF Emit, taskVars, TInv, GInv, TypeOK, InGraph
  <1>1. CASE Enter
    BY <1>1 DEF Enter, Invoke, Next
  <1>2. CASE StartNode
    BY <1>2 DEF StartNode, Start, Next
  <1>3. CASE CompleteNode
    BY <1>3 DEF CompleteNode, Assess, GatherEvidence, HumanReview, DraftResponse, Think, Node, Next
  <1>4. CASE RateAndAct
    BY <1>4 DEF RateAndAct, RateNumber, RateNaN, RateUnusable, Rated, PostSlack, FileTicket, Next
  <1>5. CASE CompletePackage
    BY <1>5 DEF CompletePackage, EndPackage, Node, Next
  <1>6. CASE ReachGate
    BY <1>6 DEF ReachGate, Interrupt, Next
  <1>7. CASE ReturnResult
    <2>1. returned' \in {"rejected", "unsure", "done"}
      BY <1>7 DEF ReturnResult, Return
    <2>2. (\E e \in Remark : Publish(e)) \/ UNCHANGED channel
      BY <1>7, <2>1 DEF ReturnResult
    <2>3. QED
      BY <1>7, <2>2 DEF ReturnResult, Return, Next
  <1>8. CASE GraphRaises
    BY <1>8 DEF GraphRaises, Raise, Next, Placed
  <1>9. CASE ResumeGraph
    BY <1>9 DEF ResumeGraph, Resume, Next, Placed
  <1>10. QED
    BY <1>1, <1>2, <1>3, <1>4, <1>5, <1>6, <1>7, <1>8, <1>9 DEF Graph

\* Next, and any other step that leaves WorkflowGraph's variables alone.
LEMMA GraphInvariant ==
  ASSUME GInv, [Next]_vars
  PROVE  GInv'
  <1> USE DEF Next
  <1>1. CASE Invoke \/ \E a \in {"approve", "reject"} : Resume(a)
    BY <1>1, CallStep
  <1>2. CASE Start \/ Assess \/ GatherEvidence \/ Interrupt \/ HumanReview \/ DraftResponse
    BY <1>2, NodeStep
  <1>3. CASE RateNumber \/ RateNaN \/ RateUnusable \/ PostSlack \/ FileTicket \/ EndPackage \/ Return \/ Raise
    BY <1>3, OutcomeStep
  <1>4. CASE UNCHANGED vars
    BY <1>4, StutterStep
  <1>5. QED
    BY <1>1, <1>2, <1>3, <1>4

\* The graph's steps preserve the invariant of the task.
LEMMA GraphStep ==
  ASSUME TInv, Graph
  PROVE  Next /\ TaskOK' /\ Placed' /\ Committed' /\ Notified'
  <1>1. /\ Next
        /\ InGraph \/ (step = "resume" /\ step' = "graph" /\ answer' = "approve")
        /\ UNCHANGED <<caller, verdict, row, was, slack, queued>>
        /\ \/ step' = step
           \/ step = "graph" /\ step' = "failed"
           \/ step = "resume" /\ step' = "graph"
        /\ answer' = answer \/ caller = "direct" \/ step = "resume"
    BY GraphShape
  <1>2. /\ Told(GateOpened)' <=> Told(GateOpened)
        /\ \A v \in Verdict : Told(LastWord(v))' <=> Told(LastWord(v))
    BY GraphShape, RemarkTells DEF TInv
  <1> USE <1>1 DEF TInv
  <1>3. TaskOK'
    BY DEF TaskOK, Steps
  <1>4. Placed'
    BY DEF Placed, InGraph, TaskOK
  <1>5. Committed'
    BY <1>2 DEF Committed, Shown
  <1>6. Notified'
    BY DEF Notified, Latest, Placed, InGraph
  <1>7. QED
    BY <1>3, <1>4, <1>5, <1>6

\* The task's own steps preserve it.
LEMMA TaskStep ==
  ASSUME TInv, Task
  PROVE  UNCHANGED vars /\ TaskOK' /\ Placed' /\ Committed' /\ Notified'
  <1> USE DEF TInv
  <1>1. ASSUME UNCHANGED channel \/ \E e \in Remark : Publish(e)
        PROVE  /\ Told(GateOpened)' <=> Told(GateOpened)
               /\ \A v \in Verdict : Told(LastWord(v))' <=> Told(LastWord(v))
    BY <1>1, RemarkTells
  <1>2. GateOpened \in Event /\ \A v \in Verdict : LastWord(v) \in Event
    BY EventsAre
  <1>3. \A v, u \in Verdict : LastWord(v) # GateOpened /\ (LastWord(v) = LastWord(u) => v = u)
    BY DEF LastWord, GateOpened, Verdict
  <1> USE DEF Placed, Committed, Notified, TaskOK, Steps, Verdict, Shown, Store, Latest
  <1>4. CASE BeginTask
    <2>1. /\ Told(GateOpened)' <=> Told(GateOpened)
          /\ \A v \in Verdict : Told(LastWord(v))' <=> Told(LastWord(v))
      BY <1>1, <1>4, RemarksAre DEF BeginTask
    <2>2. QED
      BY <1>4, <2>1 DEF BeginTask, vars, results, history
  <1>5. CASE Park
    <2>1. /\ Told(GateOpened)' <=> Told(GateOpened)
          /\ \A v \in Verdict : Told(LastWord(v))' <=> Told(LastWord(v))
      BY <1>1, <1>5 DEF Park
    <2>2. QED
      BY <1>5, <2>1 DEF Park, vars, results, history, GInv, GatePart
  <1>6. CASE AnnounceGate
    <2>1. \A f : Told(f)' <=> Told(f) \/ f = GateOpened
      BY <1>6, <1>2, PublishAppends DEF AnnounceGate
    <2>2. \A v \in Verdict : Told(LastWord(v))' <=> Told(LastWord(v))
      BY <2>1, <1>3
    <2>3. QED
      BY <1>6, <2>2 DEF AnnounceGate, vars, results, history
  <1>7. CASE NotifyGate
    <2>1. /\ Told(GateOpened)' <=> Told(GateOpened)
          /\ \A v \in Verdict : Told(LastWord(v))' <=> Told(LastWord(v))
      BY <1>1, <1>7 DEF NotifyGate
    <2>2. slack' # <<>> /\ slack' \in Seq({"needs_human", "done", "rejected"})
          /\ slack'[Len(slack')] = "needs_human"
      BY <1>7 DEF NotifyGate
    <2>3. QED
      BY <1>7, <2>1, <2>2 DEF NotifyGate, vars, results, history
  <1>8. CASE Approved \/ NotApproved
    <2>1. /\ Told(GateOpened)' <=> Told(GateOpened)
          /\ \A v \in Verdict : Told(LastWord(v))' <=> Told(LastWord(v))
      BY <1>1, <1>8, RemarksAre DEF Approved, NotApproved
    <2>2. QED
      BY <1>8, <2>1 DEF Approved, NotApproved, vars, results, history
  <1>9. CASE Settle
    <2>1. /\ Told(GateOpened)' <=> Told(GateOpened)
          /\ \A v \in Verdict : Told(LastWord(v))' <=> Told(LastWord(v))
      BY <1>1, <1>9 DEF Settle
    <2>2. /\ verdict' \in Verdict
          /\ returned = IF verdict' = "rejected" THEN "interrupted" ELSE verdict'
          /\ at = "idle"
          /\ Latest("needs_human")
      BY <1>9 DEF Settle, GInv, GatePart, ActPart
    <2>3. QED
      BY <1>9, <2>1, <2>2 DEF Settle, vars, results, history
  <1>10. CASE Report
    <2>1. /\ Told(GateOpened)' <=> Told(GateOpened)
          /\ \A v \in Verdict : Told(LastWord(v))' <=> Told(LastWord(v))
      BY <1>1, <1>10 DEF Report
    <2>2. /\ slack' \in Seq({"needs_human", "done", "rejected"})
          /\ slack' # <<>> /\ (row # "deleted" => slack'[Len(slack')] = row)
      <3>1. CASE verdict \in {"done", "rejected"}
        BY <1>10, <3>1 DEF Report
      <3>2. CASE verdict = "unsure"
        BY <1>10, <3>2 DEF Report
      <3>3. QED
        BY <1>10, <3>1, <3>2 DEF Report
    <2>3. QED
      BY <1>10, <2>1, <2>2 DEF Report, vars, results, history
  <1>11. CASE FinishTask
    <2>1. \A f : Told(f)' <=> Told(f) \/ f = LastWord(verdict)
      BY <1>11, <1>2, PublishAppends DEF FinishTask
    <2>2. /\ Told(GateOpened)' <=> Told(GateOpened)
          /\ \A v \in Verdict : Told(LastWord(v))' => Told(LastWord(v)) \/ v = verdict
      BY <2>1, <1>3, <1>11 DEF FinishTask
    <2>3. QED
      BY <1>11, <2>2 DEF FinishTask, vars, results, history
  <1>12. CASE TaskRaises
    <2>1. /\ Told(GateOpened)' <=> Told(GateOpened)
          /\ \A v \in Verdict : Told(LastWord(v))' <=> Told(LastWord(v))
      BY <1>1, <1>12 DEF TaskRaises
    <2>2. QED
      BY <1>12, <2>1 DEF TaskRaises, vars, results, history
  <1>13. QED
    BY <1>4, <1>5, <1>6, <1>7, <1>8, <1>9, <1>10, <1>11, <1>12 DEF Task

-----------------------------------------------------------------------------
(* What the events show of the nodes *)

\* Whoever has heard everything sees the nodes that are running.
Showing == caller = "task" => Running(published) = open

\* The task's last word may be followed by the API's workflow_queued alone.
LastOnly ==
    \A v \in Verdict, n \in 1..Len(published), m \in 1..Len(published) :
        published[n] = LastWord(v) /\ m > n => published[m] = <<"workflow_queued", "api">>

\* What one more event shows of node m.
LEMMA RunningAfter ==
  ASSUME ChannelOK, NEW e \in Event, Publish(e), NEW m \in Node
  PROVE  (m \in Running(published))' <=>
            e = Started(m) \/ (m \in Running(published) /\ e # Completed(m))
  <1>1. /\ published \in Seq(Event) /\ published' \in Seq(Event)
        /\ Len(published') = Len(published) + 1
        /\ \A n \in 1..Len(published) : published'[n] = published[n]
        /\ published'[Len(published) + 1] = e
    BY PublishAppends DEF ChannelOK
  <1>2. /\ DOMAIN published = 1..Len(published) /\ DOMAIN published' = 1..(Len(published) + 1)
        /\ Len(published) \in Nat
    BY <1>1
  <1> DEFINE top == Len(published) + 1
  <1>3. \A k \in 1..top : k \in 1..Len(published) \/ k = top
    BY <1>2
  <1>4. ASSUME (m \in Running(published))', e # Started(m)
        PROVE  m \in Running(published) /\ e # Completed(m)
    <2>1. PICK k \in 1..top :
                /\ published'[k] = Started(m)
                /\ \A j \in 1..top : j > k => published'[j] # Completed(m)
      BY <1>4, <1>2 DEF Running, Started, Completed
    <2>2. k \in 1..Len(published) /\ published[k] = Started(m)
      BY <2>1, <1>1, <1>3, <1>4
    <2>3. \A j \in 1..Len(published) : j > k => published[j] # Completed(m)
      BY <2>1, <1>1, <1>2
    <2>4. e # Completed(m)
      BY <2>1, <2>2, <1>1, <1>2
    <2>5. QED
      BY <2>2, <2>3, <2>4, <1>2 DEF Running
  <1>5. ASSUME e = Started(m)
        PROVE  (m \in Running(published))'
    <2>1. top \in 1..top /\ published'[top] = Started(m) /\ \A j \in 1..top : ~(j > top)
      BY <1>1, <1>2, <1>5
    <2>2. QED
      BY <2>1, <1>2 DEF Running, Started, Completed
  <1>6. ASSUME m \in Running(published), e # Completed(m)
        PROVE  (m \in Running(published))'
    <2>1. PICK k \in 1..Len(published) :
                /\ published[k] = Started(m)
                /\ \A j \in 1..Len(published) : j > k => published[j] # Completed(m)
      BY <1>6, <1>2 DEF Running
    <2>2. k \in 1..top /\ published'[k] = Started(m)
      BY <2>1, <1>1, <1>2
    <2>3. \A j \in 1..top : j > k => published'[j] # Completed(m)
      BY <2>1, <1>1, <1>3, <1>6
    <2>4. QED
      BY <2>2, <2>3, <1>2 DEF Running, Started, Completed
  <1>7. QED
    BY <1>4, <1>5, <1>6

\* Events of other kinds show nothing of the nodes.
LEMMA NodesAlone ==
  /\ \A n, m \in Node : /\ Started(n) = Started(m) => n = m
                       /\ Completed(n) = Completed(m) => n = m
                       /\ Started(n) # Completed(m)
  /\ \A n \in Node : \A e \in {Started(n), Completed(n)} :
        /\ e # GateOpened
        /\ \A v \in Verdict : e # LastWord(v)
        /\ e \notin {<<"approval_required", "graph">>, <<"workflow_rejected", "graph">>,
                     <<"workflow_low_confidence", "graph">>, <<"workflow_done", "graph">>,
                     <<"workflow_queued", "api">>, <<"workflow_started", "task">>,
                     <<"workflow_approved", "task">>, <<"workflow_rejected", "task">>}
  BY DEF Started, Completed, GateOpened, LastWord

\* How the graph and what it tells go together.
LEMMA NodeEvents ==
  ASSUME TInv, StreamNext
  PROVE  \/ UNCHANGED open /\ (UNCHANGED published \/ caller # "task"
                \/ \E e \in Event : Publish(e) /\ \A n \in Node : e \notin {Started(n), Completed(n)})
         \/ \E n \in Node : open' = open \union {n} /\ Emit(Started(n))
         \/ \E n \in Node : open' = open \ {n} /\ Emit(Completed(n))
  <1> USE EventsAre, NodesAlone DEF TInv
  <1>1. CASE Graph
    <2> USE DEF GInv, TypeOK, channel
    <2>1. CASE StartNode
      BY <2>1 DEF StartNode, Start
    <2>2. CASE CompleteNode
      <3>1. at \in Node /\ Emit(Completed(at)) /\ open' = open \ {at}
        BY <2>2 DEF CompleteNode, Assess, GatherEvidence, HumanReview, DraftResponse, Think, Leave, Node
      <3>2. QED
        BY <3>1
    <2>3. CASE CompletePackage
      BY <2>3 DEF CompletePackage, EndPackage, Leave, Node
    <2>4. CASE ReachGate
      BY <2>4 DEF ReachGate, Interrupt, Emit
    <2>5. CASE ReturnResult
      <3>1. returned' \in {"rejected", "unsure", "done"} /\ UNCHANGED open
        BY <2>5 DEF ReturnResult, Return
      <3>2. QED
        BY <2>5, <3>1 DEF ReturnResult, Emit
    <2>6. CASE Enter \/ GraphRaises \/ ResumeGraph
      BY <2>6 DEF Enter, GraphRaises, ResumeGraph, Invoke, Raise, Resume
    <2>7. CASE RateAndAct
      BY <2>7 DEF RateAndAct, RateNumber, RateNaN, RateUnusable, Rated, PostSlack, FileTicket
    <2>8. QED
      BY <1>1, <2>1, <2>2, <2>3, <2>4, <2>5, <2>6, <2>7 DEF Graph
  <1>2. CASE Task
    <2> USE DEF vars, channel
    <2>1. CASE BeginTask
      BY <2>1 DEF BeginTask
    <2>2. CASE AnnounceGate
      BY <2>2 DEF AnnounceGate
    <2>3. CASE Approved \/ NotApproved
      BY <2>3 DEF Approved, NotApproved
    <2>4. CASE FinishTask
      BY <2>4 DEF FinishTask, Committed
    <2>5. CASE Park \/ NotifyGate \/ Settle \/ Report \/ TaskRaises
      BY <2>5 DEF Park, NotifyGate, Settle, Report, TaskRaises
    <2>6. QED
      BY <1>2, <2>1, <2>2, <2>3, <2>4, <2>5 DEF Task
  <1>3. CASE PublishQueued
    BY <1>3 DEF PublishQueued, vars
  <1>4. CASE \E c \in Listener : Stream(c)
    BY <1>4 DEF Stream, Subscribe, Forward, Break, Disconnect, vars
  <1>5. CASE Delete
    BY <1>5 DEF Delete, vars, channel
  <1>6. QED
    BY <1>1, <1>2, <1>3, <1>4, <1>5 DEF StreamNext

\* The nodes that run and those that the events show stay the same.
LEMMA ShowingStep ==
  ASSUME TInv, Showing, StreamNext, UNCHANGED caller
  PROVE  Showing'
  <1> SUFFICES ASSUME caller = "task"
               PROVE  Running(published)' = open'
    BY DEF Showing
  <1>1. /\ Running(published) = open /\ open \subseteq Node
    BY DEF Showing, TInv, GInv, TypeOK
  <1>2. Running(published)' \subseteq Node
    BY DEF Running, Started, Completed
  <1> USE DEF TInv
  <1>3. CASE UNCHANGED open /\ UNCHANGED published
    BY <1>1, <1>3 DEF Running, Started, Completed
  <1>4. ASSUME NEW e \in Event, Publish(e), UNCHANGED open,
               \A n \in Node : e \notin {Started(n), Completed(n)}
        PROVE  Running(published)' = open'
    <2>1. \A m \in Node : (m \in Running(published))' <=> m \in Running(published)
      BY <1>4, RunningAfter
    <2>2. QED
      BY <2>1, <1>1, <1>2, <1>4
  <1>5. ASSUME NEW n \in Node, open' = open \union {n}, Emit(Started(n))
        PROVE  Running(published)' = open'
    <2>1. Publish(Started(n)) /\ Started(n) \in Event
      BY <1>5, EventsAre DEF Emit
    <2>2. \A m \in Node : (m \in Running(published))' <=>
                Started(n) = Started(m) \/ (m \in Running(published) /\ Started(n) # Completed(m))
      BY <2>1, RunningAfter
    <2>3. \A m \in Node : (m \in Running(published))' <=> n = m \/ m \in Running(published)
      <3>1. \A m \in Node : (Started(n) = Started(m) <=> n = m) /\ Started(n) # Completed(m)
        BY DEF Started, Completed
      <3>2. QED
        BY <2>2, <3>1
    <2>4. QED
      BY <2>3, <1>1, <1>2, <1>5
  <1>6. ASSUME NEW n \in Node, open' = open \ {n}, Emit(Completed(n))
        PROVE  Running(published)' = open'
    <2>1. Publish(Completed(n)) /\ Completed(n) \in Event
      BY <1>6, EventsAre DEF Emit
    <2>2. \A m \in Node : (m \in Running(published))' <=>
                Completed(n) = Started(m) \/ (m \in Running(published) /\ Completed(n) # Completed(m))
      BY <2>1, RunningAfter
    <2>3. \A m \in Node : (m \in Running(published))' <=> n # m /\ m \in Running(published)
      <3>1. \A m \in Node : (Completed(n) = Completed(m) <=> n = m) /\ Completed(n) # Started(m)
        BY DEF Started, Completed
      <3>2. QED
        BY <2>2, <3>1
    <2>4. QED
      BY <2>3, <1>1, <1>2, <1>6
  <1>7. QED
    BY <1>3, <1>4, <1>5, <1>6, NodeEvents

\* Once the last word is out, only the API may still publish.
LEMMA LastOnlyStep ==
  ASSUME TInv, LastOnly, StreamNext
  PROVE  LastOnly'
  <1> USE DEF TInv
  <1>1. published \in Seq(Event) /\ Len(published) \in Nat /\ DOMAIN published = 1..Len(published)
    BY DEF ChannelOK
  <1>2. ASSUME NEW e \in Event, Publish(e),
               e = <<"workflow_queued", "api">> \/ \A v \in Verdict : ~Told(LastWord(v))
        PROVE  LastOnly'
    <2>1. /\ Len(published') = Len(published) + 1
          /\ \A n \in 1..Len(published) : published'[n] = published[n]
          /\ published'[Len(published) + 1] = e
      BY <1>2, PublishAppends
    <2>2. ASSUME NEW v \in Verdict, NEW n \in 1..Len(published'), NEW m \in 1..Len(published'),
                 published'[n] = LastWord(v), m > n
          PROVE  published'[m] = <<"workflow_queued", "api">>
      <3>1. n \in 1..Len(published) /\ published[n] = LastWord(v)
        BY <2>1, <2>2, <1>1
      <3>2. Told(LastWord(v))
        BY <3>1, <1>1 DEF Told
      <3>3. m \in 1..Len(published) \/ m = Len(published) + 1
        BY <2>1, <1>1
      <3>4. QED
        BY <3>1, <3>2, <3>3, <2>1, <2>2, <1>2 DEF LastOnly
    <2>3. QED
      BY <2>2 DEF LastOnly, LastWord
  <1>3. CASE UNCHANGED published
    BY <1>3 DEF LastOnly, LastWord
  <1>4. step # "over" => \A v \in Verdict : ~Told(LastWord(v))
    BY DEF Committed
  <1>5. CASE PublishQueued
    BY <1>5, <1>2, EventsAre DEF PublishQueued
  <1>6. CASE Graph
    <2>1. (\E e \in Remark : Publish(e)) \/ UNCHANGED published
      BY <1>6, GraphShape DEF channel
    <2>2. step # "over"
      BY <1>6, GraphShape DEF InGraph, Placed, TaskOK
    <2>3. QED
      BY <2>1, <2>2, <1>2, <1>3, <1>4 DEF Remark
  <1>7. CASE Task
    <2>1. step # "over"
      BY <1>7 DEF Task, BeginTask, Park, AnnounceGate, NotifyGate, Approved, NotApproved,
                  Settle, Report, FinishTask, TaskRaises
    <2>2. (\E e \in Event : Publish(e)) \/ UNCHANGED channel \/ \E c \in Listener : Stream(c)
      BY <1>7, StepShape DEF StreamNext
    <2>3. UNCHANGED published \/ \E e \in Event : Publish(e)
      BY <2>2 DEF channel, Stream, Subscribe, Forward, Break, Disconnect
    <2>4. QED
      BY <2>1, <2>3, <1>2, <1>3, <1>4
  <1>8. CASE \E c \in Listener : Stream(c)
    BY <1>8, <1>3 DEF Stream, Subscribe, Forward, Break, Disconnect
  <1>9. CASE Delete
    BY <1>9, <1>3 DEF Delete, channel
  <1>10. QED
    BY <1>5, <1>6, <1>7, <1>8, <1>9 DEF StreamNext

-----------------------------------------------------------------------------

SInv == TInv /\ Joined /\ Showing /\ LastOnly

\* Nothing is published, and nobody listens, at first.
LEMMA InitSInv == StreamInit => SInv
  <1> SUFFICES ASSUME StreamInit
               PROVE  SInv
    OBVIOUS
  <1> USE DEF StreamInit
  <1>1. GInv
    BY InitGInv
  <1>2. ChannelOK
    BY DEF ChannelOK, Away, Connection
  <1>3. TaskOK /\ Placed
    <2>1. <<>> \in Seq({"needs_human", "done", "rejected"})
      OBVIOUS
    <2>2. TaskOK
      BY <2>1 DEF TaskOK, Steps
    <2>3. Placed
      BY DEF Placed, Init
    <2>4. QED
      BY <2>2, <2>3
  <1>4. \A e : ~Told(e)
    BY DEF Told
  <1>5. Committed /\ Notified
    BY <1>4 DEF Committed, Notified, Latest
  <1>6. Joined
    BY DEF Joined, Away
  <1>7. Showing /\ LastOnly
    BY DEF Showing, LastOnly, Running, Init
  <1>8. QED
    BY <1>1, <1>2, <1>3, <1>5, <1>6, <1>7 DEF SInv, TInv

\* Every step preserves it, and is one of the workflow and one of Broadcast.
LEMMA SInvStep ==
  ASSUME SInv, StreamNext
  PROVE  SInv' /\ [Next]_vars /\ [Channel!Next]_Channel!vars
  <1> USE DEF SInv
  <1>1. ChannelOK' /\ Joined' /\ [Channel!Next]_Channel!vars
    BY StepShape, ChannelStep DEF TInv
  <1>2. [Next]_vars /\ TaskOK' /\ Placed' /\ Committed' /\ Notified' /\ UNCHANGED caller
    <2>1. CASE Graph
      BY <2>1, GraphStep, GraphShape
    <2>2. CASE Task
      <3>1. UNCHANGED caller
        BY <2>2 DEF Task, BeginTask, Park, AnnounceGate, NotifyGate, Approved, NotApproved,
                    Settle, Report, FinishTask, TaskRaises
      <3>2. QED
        BY <2>2, <3>1, TaskStep
    <2>3. CASE PublishQueued \/ \E c \in Listener : Stream(c)
      <3>1. UNCHANGED <<vars, taskVars>> /\ queued' \in BOOLEAN
        BY <2>3 DEF PublishQueued, Stream, Subscribe, Forward, Break, Disconnect, TInv, TaskOK
      <3>2. (\E e \in Remark : Publish(e)) \/ UNCHANGED published
        BY <2>3, RemarksAre DEF PublishQueued, Stream, Subscribe, Forward, Break, Disconnect
      <3>3. /\ Told(GateOpened)' <=> Told(GateOpened)
            /\ \A v \in Verdict : Told(LastWord(v))' <=> Told(LastWord(v))
        <4>1. CASE \E e \in Remark : Publish(e)
          BY <4>1, RemarkTells DEF TInv
        <4>2. CASE UNCHANGED published
          BY <4>2 DEF Told, GateOpened, LastWord
        <4>3. QED
          BY <3>2, <4>1, <4>2
      <3>4. QED
        BY <3>1, <3>3 DEF taskVars, vars, results, history, TInv, TaskOK, Placed, Committed,
                          Notified, Latest, Shown
    <2>4. CASE Delete
      <3>1. /\ UNCHANGED <<vars, caller, step, verdict, was, slack, queued, published>>
            /\ row' = "deleted"
        BY <2>4 DEF Delete, channel
      <3>2. /\ Told(GateOpened)' <=> Told(GateOpened)
            /\ \A v \in Verdict : Told(LastWord(v))' <=> Told(LastWord(v))
        BY <3>1 DEF Told, GateOpened, LastWord
      <3>3. QED
        BY <3>1, <3>2 DEF vars, TInv, TaskOK, Placed, Committed, Notified, Latest
    <2>5. QED
      BY <2>1, <2>2, <2>3, <2>4 DEF StreamNext
  <1>3. GInv'
    BY <1>2, GraphInvariant DEF TInv
  <1>4. Showing' /\ LastOnly'
    BY <1>2, ShowingStep, LastOnlyStep
  <1>5. QED
    BY <1>1, <1>2, <1>3, <1>4 DEF TInv

\* A stutter of everything.
LEMMA SInvStutter ==
  ASSUME SInv, UNCHANGED svars
  PROVE  SInv' /\ [Next]_vars /\ [Channel!Next]_Channel!vars
  <1>1. UNCHANGED vars /\ UNCHANGED taskVars /\ UNCHANGED queued /\ UNCHANGED channel
    BY DEF svars
  <1>2. GInv' /\ ChannelOK' /\ Joined' /\ [Channel!Next]_Channel!vars
    BY <1>1, GraphInvariant, ChannelStep DEF SInv, TInv
  <1>3. UNCHANGED <<at, answer, returned, open, published, caller, step, verdict, row, was, slack, queued>>
    BY <1>1 DEF vars, taskVars, channel
  <1>4. TaskOK' /\ Placed'
    BY <1>3 DEF SInv, TInv, TaskOK, Placed
  <1>5. Committed' /\ Notified'
    BY <1>3 DEF SInv, TInv, Committed, Notified, Latest, Told, GateOpened, LastWord, Shown
  <1>6. Showing' /\ LastOnly'
    BY <1>3 DEF SInv, Showing, LastOnly, Running, Started, Completed, LastWord
  <1>7. QED
    BY <1>1, <1>2, <1>4, <1>5, <1>6 DEF SInv, TInv

\* SInv is an invariant of an execution and its listeners.
THEOREM StreamInvariance == StreamSpec => []SInv
  <1>1. StreamInit => SInv
    BY InitSInv
  <1>2. SInv /\ [StreamNext]_svars => SInv'
    BY SInvStep, SInvStutter
  <1>3. QED
    BY <1>1, <1>2, PTL DEF StreamSpec

-----------------------------------------------------------------------------

\* The types of an execution and its connections.
THEOREM StreamTypeCorrect == StreamSpec => []StreamTypeOK
  <1>1. SInv => StreamTypeOK
    BY DEF SInv, TInv, GInv, TaskOK, ChannelOK, StreamTypeOK
  <1>2. QED
    BY <1>1, StreamInvariance, PTL

\* The task and its listeners do to the workflow only what WorkflowGraph allows: what
\* GraphProofs shows of a thread holds of every thread of the task.
THEOREM ThreadsAreGraphs == StreamSpec => Spec
  <1>1. StreamInit => Init
    BY DEF StreamInit
  <1>2. SInv /\ [StreamNext]_svars => [Next]_vars
    BY SInvStep, SInvStutter
  <1>3. QED
    BY <1>1, <1>2, StreamInvariance, PTL DEF StreamSpec, Spec

\* Every connection is forwarded, from its subscription on, all that is published
\* (events.py, routers/incidents.py), in order and once.
THEOREM StreamRefinement == StreamSpec => ImplementsBroadcast
  <1>1. StreamInit => Channel!Init
    <2> SUFFICES ASSUME StreamInit
                 PROVE  Channel!Init
      OBVIOUS
    <2>1. published = <<>> /\ link = [c \in Listener |-> Away]
      BY DEF StreamInit
    <2>2. /\ Away.from = 0 /\ Away.heard = <<>>
          /\ (Away.at = "open") = FALSE
      BY DEF Away
    <2>3. \A c \in Listener : link[c] = Away
      BY <2>1
    <2>4. [c \in Listener |-> [on |-> link[c].at = "open", from |-> link[c].from, said |-> link[c].heard]]
            = [c \in Listener |-> [on |-> FALSE, from |-> 0, said |-> <<>>]]
      BY <2>2, <2>3
    <2>5. QED
      BY <2>1, <2>4 DEF Channel!Init, Channel!Deaf
  <1>2. SInv /\ [StreamNext]_svars => [Channel!Next]_Channel!vars
    BY SInvStep, SInvStutter
  <1>3. QED
    BY <1>1, <1>2, StreamInvariance, PTL DEF StreamSpec, ImplementsBroadcast, Channel!Spec

\* The task's approval_required and its last word come after the commits they tell of, if
\* the run has not been deleted: of a deleted one they tell what is stored nowhere.
THEOREM ToldIsCommitted == StreamSpec => []ToldAfterCommit
  <1>1. SInv => ToldAfterCommit
    BY DEF SInv, TInv, Committed, ToldAfterCommit, Verdict
  <1>2. QED
    BY <1>1, StreamInvariance, PTL

\* What Slack was told last is the status of the row, as long as there is one.
THEOREM SlackIsCurrent == StreamSpec => []SlackFollowsRow
  <1>1. SInv => SlackFollowsRow
    BY DEF SInv, TInv, Committed, Notified, Latest, SlackFollowsRow
  <1>2. QED
    BY <1>1, StreamInvariance, PTL

\* Who has heard the last word, and all before it, sees no node running but a gate
\* that was not passed.
THEOREM EndIsShown == StreamSpec => []EndShowsNodes
  <1>1. SInv => EndShowsNodes
    <2> SUFFICES ASSUME SInv, NEW c \in Listener, NEW v \in Verdict, link[c].from = 0,
                        NEW n \in DOMAIN link[c].heard, link[c].heard[n] = LastWord(v)
                 PROVE  Running(link[c].heard) = IF v = "rejected" THEN {"human_review"} ELSE {}
      BY DEF EndShowsNodes
    <2> USE DEF SInv, TInv
    <2> DEFINE heard == link[c].heard
    <2>1. /\ heard \in Seq(Event) /\ DOMAIN heard = 1..Len(heard) /\ Len(heard) \in Nat
          /\ Len(link[c].inbox) \in Nat /\ Len(published) \in Nat
          /\ DOMAIN published = 1..Len(published)
      BY DEF ChannelOK, Connection
    <2>2. link[c].at = "open"
      <3>1. link[c].at # "open" => link[c] = [Away EXCEPT !.at = link[c].at]
        BY DEF Joined
      <3>2. link[c].at # "open" => link[c].heard = <<>>
        BY <3>1 DEF Away
      <3>3. heard # <<>>
        BY <2>1
      <3>4. QED
        BY <3>2, <3>3
    <2>3. /\ Len(heard) <= Len(published)
          /\ \A k \in 1..Len(heard) : k \in 1..Len(published) /\ heard[k] = published[k]
      <3>1. /\ link[c].from + Len(heard) + Len(link[c].inbox) = Len(published)
            /\ \A k \in 1..Len(heard) : heard[k] = published[link[c].from + k]
        BY <2>2 DEF Joined
      <3> HIDE DEF heard
      <3>2. /\ 0 + Len(heard) + Len(link[c].inbox) = Len(published)
            /\ \A k \in 1..Len(heard) : heard[k] = published[0 + k]
        BY <3>1
      <3>3. Len(heard) <= Len(published)
        <4>1. PICK h \in Nat, i \in Nat : h = Len(heard) /\ i = Len(link[c].inbox)
          BY <2>1
        <4>2. Len(published) = h + i
          BY <3>2, <4>1
        <4>3. QED
          BY <4>1, <4>2
      <3>4. \A k \in 1..Len(heard) : 0 + k = k /\ k \in 1..Len(published)
        BY <3>3, <2>1
      <3>5. QED
        BY <3>2, <3>3, <3>4
    <2> HIDE DEF heard
    <2>4. n \in 1..Len(published) /\ published[n] = LastWord(v)
      BY <2>1, <2>3 DEF heard
    <2>5. \A k \in 1..Len(published) : k \notin 1..Len(heard) =>
                /\ published[k] = <<"workflow_queued", "api">>
                /\ \A m \in Node : published[k] \notin {Started(m), Completed(m)}
      <3>1. n \in 1..Len(heard)
        BY <2>1 DEF heard
      <3>2. \A k \in 1..Len(published) : k \notin 1..Len(heard) => k > n
        BY <3>1, <2>1
      <3>3. \A k \in 1..Len(published) : k > n => published[k] = <<"workflow_queued", "api">>
        BY <2>4 DEF LastOnly
      <3>4. QED
        BY <3>2, <3>3, NodesAlone
    <2>6. Running(heard) = Running(published)
      <3>1. ASSUME NEW m \in Node
            PROVE  m \in Running(heard) <=> m \in Running(published)
        <4>1. m \in Running(heard) <=>
                \E k \in 1..Len(heard) : /\ heard[k] = Started(m)
                                         /\ \A j \in 1..Len(heard) : j > k => heard[j] # Completed(m)
          BY <2>1 DEF Running
        <4>2. m \in Running(published) <=>
                \E k \in 1..Len(published) :
                    /\ published[k] = Started(m)
                    /\ \A j \in 1..Len(published) : j > k => published[j] # Completed(m)
          BY <2>1 DEF Running
        <4>3. \A k \in 1..Len(published) :
                published[k] \in {Started(m), Completed(m)} => k \in 1..Len(heard)
          BY <2>5
        <4>4. QED
          BY <4>1, <4>2, <4>3, <2>3
      <3>2. QED
        BY <3>1 DEF Running
    <2>7. step = "over" /\ verdict = v
      BY <2>1, <2>4 DEF Committed, Told
    <2>8. caller = "task" /\ at = "idle" /\ returned = IF v = "rejected" THEN "interrupted" ELSE v
      BY <2>7 DEF Placed, TaskOK
    <2>9. open = IF v = "rejected" THEN {"human_review"} ELSE {}
      BY <2>8 DEF GInv, EventPart, Verdict, Node
    <2>10. QED
      BY <2>6, <2>8, <2>9 DEF Showing, heard
  <1>2. QED
    BY <1>1, StreamInvariance, PTL

\* What a connection has forwarded was published.
LEMMA HeardWasPublished ==
  ASSUME SInv, NEW c \in Listener, NEW n \in DOMAIN link[c].heard
  PROVE  \E m \in DOMAIN published : published[m] = link[c].heard[n]
  <1> USE DEF SInv, TInv
  <1>1. /\ link[c].heard \in Seq(Event) /\ link[c].inbox \in Seq(Event)
        /\ link[c].from \in Nat /\ published \in Seq(Event)
    BY DEF ChannelOK, Connection
  <1>2. link[c].at = "open"
    <2>1. link[c].at # "open" => link[c] = [Away EXCEPT !.at = link[c].at]
      BY DEF Joined
    <2>2. link[c].at # "open" => link[c].heard = <<>>
      BY <2>1 DEF Away
    <2>3. link[c].heard # <<>>
      OBVIOUS
    <2>4. QED
      BY <2>2, <2>3
  <1>3. /\ link[c].from + Len(link[c].heard) + Len(link[c].inbox) = Len(published)
        /\ \A k \in 1..Len(link[c].heard) : link[c].heard[k] = published[link[c].from + k]
    BY <1>2 DEF Joined
  <1>4. n \in 1..Len(link[c].heard) /\ link[c].from + n \in DOMAIN published
    <2>1. n \in 1..Len(link[c].heard)
      BY <1>1
    <2>2. /\ Len(link[c].heard) \in Nat /\ Len(link[c].inbox) \in Nat
          /\ Len(published) \in Nat /\ DOMAIN published = 1..Len(published)
      BY <1>1
    <2> DEFINE f == link[c].from
               h == Len(link[c].heard)
               i == Len(link[c].inbox)
    <2>3. f \in Nat /\ h \in Nat /\ i \in Nat /\ f + h + i = Len(published) /\ n \in 1..h
      BY <1>1, <1>3, <2>1, <2>2
    <2> HIDE DEF f, h, i
    <2>4. f + n \in 1..Len(published)
      BY <2>3
    <2>5. QED
      BY <2>1, <2>2, <2>4 DEF f
  <1>5. QED
    BY <1>3, <1>4

HeardAfterCommit ==
    \A c \in Listener : \A n \in DOMAIN link[c].heard :
        /\ link[c].heard[n] = GateOpened => "needs_human" \in was \/ row = "deleted"
        /\ \A v \in Verdict :
                link[c].heard[n] = LastWord(v) => row \in {Shown(v), "deleted"}

\* Who hears that an approval is required, or how the run ended, and asks the API for
\* the run then, finds it there already or finds no run any more: on every connection,
\* however late it listens and however often it lost Redis.
THEOREM HeardIsCommitted == StreamSpec => []HeardAfterCommit
  <1>1. SInv => HeardAfterCommit
    <2> SUFFICES ASSUME SInv, NEW c \in Listener, NEW n \in DOMAIN link[c].heard
                 PROVE  /\ link[c].heard[n] = GateOpened => "needs_human" \in was \/ row = "deleted"
                        /\ \A v \in Verdict :
                                link[c].heard[n] = LastWord(v) => row \in {Shown(v), "deleted"}
      BY DEF HeardAfterCommit
    <2>1. PICK m \in DOMAIN published : published[m] = link[c].heard[n]
      BY HeardWasPublished
    <2>2. Told(link[c].heard[n])
      BY <2>1 DEF Told
    <2>3. QED
      BY <2>2 DEF SInv, TInv, Committed
  <1>2. QED
    BY <1>1, StreamInvariance, PTL

CaughtUp ==
    \A c \in Listener :
        link[c].at = "open" /\ link[c].inbox = <<>> =>
            link[c].heard = SubSeq(published, link[c].from + 1, Len(published))

\* A connection with nothing left to forward has forwarded all that was published since
\* it subscribed: no event is lost between the subscription and the socket.
THEOREM NothingIsMissed == StreamSpec => []CaughtUp
  <1>1. SInv => CaughtUp
    <2> SUFFICES ASSUME SInv, NEW c \in Listener, link[c].at = "open", link[c].inbox = <<>>
                 PROVE  link[c].heard = SubSeq(published, link[c].from + 1, Len(published))
      BY DEF CaughtUp
    <2> DEFINE from == link[c].from
               heard == link[c].heard
    <2>1. heard \in Seq(Event) /\ from \in Nat /\ published \in Seq(Event)
      BY DEF SInv, TInv, ChannelOK, Connection
    <2>2. /\ from + Len(heard) = Len(published)
          /\ \A k \in 1..Len(heard) : heard[k] = published[from + k]
      BY DEF SInv, TInv, ChannelOK, Connection, Joined
    <2> HIDE DEF from, heard
    <2>3. heard = SubSeq(published, from + 1, Len(published))
      BY <2>1, <2>2
    <2>4. QED
      BY <2>3 DEF from, heard
  <1>2. QED
    BY <1>1, StreamInvariance, PTL

-----------------------------------------------------------------------------
(* An execution ends *)

\* How many steps are left of the task around the workflow at most.
TaskLeft ==
    IF step = "start" THEN 10
    ELSE IF step = "graph" THEN IF answer = "none" THEN 9 ELSE 4
    ELSE IF step = "announce" THEN 8
    ELSE IF step = "notify" THEN 7
    ELSE IF step = "wait" THEN 6
    ELSE IF step = "resume" THEN 5
    ELSE IF step = "settle" THEN 3
    ELSE IF step = "report" THEN 2
    ELSE IF step = "finish" THEN 1
    ELSE 0

ExecutionLeft == ThreadLeft + TaskLeft

RunsOut ==
    /\ Graph \/ Task => ExecutionLeft' < ExecutionLeft
    /\ ~(Graph \/ Task) => ExecutionLeft' = ExecutionLeft

LEMMA LeftByTask ==
  ASSUME TInv, Task
  PROVE  ThreadLeft' = ThreadLeft /\ TaskLeft' < TaskLeft
  <1>1. UNCHANGED <<at, begun, answer, returned>>
    BY TaskStep DEF vars
  <1>2. ThreadLeft' = ThreadLeft
    BY <1>1 DEF ThreadLeft, Ahead
  <1>3. TaskLeft' < TaskLeft
    <2> USE <1>1 DEF TaskLeft
    <2>1. CASE BeginTask \/ AnnounceGate \/ NotifyGate \/ Approved \/ NotApproved
      BY <2>1 DEF BeginTask, AnnounceGate, NotifyGate, Approved, NotApproved
    <2>2. CASE Park
      BY <2>2 DEF Park, TInv, GInv, GatePart
    <2>3. CASE Settle
      BY <2>3 DEF Settle, TInv, GInv, ActPart
    <2>4. CASE Report \/ FinishTask
      BY <2>4 DEF Report, FinishTask
    <2>5. CASE TaskRaises
      BY <2>5 DEF TaskRaises, TInv, TaskOK, Steps
    <2>6. QED
      BY <2>1, <2>2, <2>3, <2>4, <2>5 DEF Task
  <1>4. QED
    BY <1>2, <1>3

LEMMA LeftByGraph ==
  ASSUME TInv, Graph
  PROVE  ThreadLeft' < ThreadLeft /\ TaskLeft' <= TaskLeft
  <1>1. ThreadLeft' < ThreadLeft
    BY GraphShape, ThreadLeftShrinks DEF TInv
  <1>2. TaskLeft' <= TaskLeft
    <2> USE DEF TInv, Placed, TaskOK, InGraph, TaskLeft
    <2>1. CASE step' = step /\ answer' = answer
      BY <2>1
    <2>2. CASE step' = step /\ answer' # answer
      BY <2>2, GraphShape
    <2>3. CASE step = "graph" /\ step' = "failed"
      BY <2>3
    <2>4. CASE step = "resume" /\ step' = "graph"
      BY <2>4, GraphShape
    <2>5. QED
      BY <2>1, <2>2, <2>3, <2>4, GraphShape
  <1>3. QED
    BY <1>1, <1>2

\* An execution of the task, with its workflow, is over after 31 steps of its worker,
\* and neither its listeners nor the API add to them.  This is all of EndIsHeard but the
\* fairness that makes worker and connection go on.
THEOREM ExecutionRunsOut ==
  StreamSpec => [](ExecutionLeft \in 0..31) /\ [][RunsOut]_svars
  <1>1. SInv => ThreadLeft \in 0..21 /\ TaskLeft \in 0..10
    BY ThreadLeftShrinks DEF SInv, TInv, TaskLeft
  <1>2. SInv => ExecutionLeft \in 0..31
    BY <1>1 DEF ExecutionLeft
  <1>3. SInv /\ [StreamNext]_svars => [RunsOut]_svars
    <2> SUFFICES ASSUME SInv, StreamNext
                 PROVE  RunsOut
      OBVIOUS
    <2>1. ThreadLeft \in 0..21 /\ TaskLeft \in 0..10
      BY <1>1
    <2>2. (ThreadLeft \in 0..21)' /\ (TaskLeft \in 0..10)'
      <3>1. SInv'
        BY SInvStep
      <3>2. GInv'
        BY <3>1 DEF SInv, TInv
      <3>3. (ThreadLeft \in 0..21)'
        BY <3>2, ScaleAssumption DEF GInv, TypeOK, GatePart, Place, Node, Status, ThreadLeft, Ahead
      <3>4. (TaskLeft \in 0..10)'
        BY DEF TaskLeft
      <3>5. QED
        BY <3>3, <3>4
    <2>3. ASSUME Graph \/ Task
          PROVE  ExecutionLeft' < ExecutionLeft
      <3> HIDE DEF ThreadLeft, TaskLeft
      <3>1. \/ ThreadLeft' = ThreadLeft /\ TaskLeft' < TaskLeft
            \/ ThreadLeft' < ThreadLeft /\ TaskLeft' <= TaskLeft
        BY <2>3, LeftByTask, LeftByGraph DEF SInv
      <3>2. \A a, b, c, d \in Int : (c = a /\ d < b) \/ (c < a /\ d <= b) => c + d < a + b
        OBVIOUS
      <3>3. /\ ThreadLeft \in Int /\ TaskLeft \in Int
            /\ ThreadLeft' \in Int /\ TaskLeft' \in Int
        BY <2>1, <2>2
      <3>4. ThreadLeft' + TaskLeft' < ThreadLeft + TaskLeft
        BY <3>1, <3>2, <3>3
      <3>5. QED
        BY <3>4 DEF ExecutionLeft
    <2>4. ASSUME ~(Graph \/ Task)
          PROVE  ExecutionLeft' = ExecutionLeft
      <3>1. UNCHANGED <<vars, step>>
        BY <2>4 DEF taskVars, StreamNext, PublishQueued, Delete, Stream, Subscribe, Forward, Break, Disconnect
      <3>2. UNCHANGED <<at, begun, answer, returned, step>>
        BY <3>1 DEF vars
      <3>3. QED
        BY <3>2 DEF ExecutionLeft, ThreadLeft, Ahead, TaskLeft
    <2>5. QED
      BY <2>3, <2>4 DEF RunsOut
  <1>4. QED
    BY <1>2, <1>3, StreamInvariance, PTL DEF StreamSpec

=============================================================================
