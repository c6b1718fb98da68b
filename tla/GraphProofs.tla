----------------------------- MODULE GraphProofs -----------------------------
(***************************************************************************)
(* Proofs about WorkflowGraph, for any ratings, any threshold and any point  *)
(* at which a call raises.                                                  *)
(***************************************************************************)
EXTENDS WorkflowGraph, TLAPS

\* No node behind the gate has run, and there is no answer, before the gate.
GatePart ==
    /\ at \in {"assess", "evidence"} => answer = "none" /\ returned = "none"
    /\ returned = "interrupted" => at = "idle" /\ answer = "none" /\ saved = "human_review"
    /\ answer = "none" => posts = 0 /\ tickets = 0 /\ ran["response"] = 0 /\ ran["package"] = 0
    /\ at \in {"response", "package", "act", "ticket", "packaged"} => answer = "approve"
    /\ saved = "none" /\ at = "idle" /\ returned = "none" =>
            ran["assess"] = 0 /\ ran["evidence"] = 0 /\ answer = "none"
    /\ at # "idle" => returned = "none"
    /\ at \in Node => saved = IF at = "assess" THEN "none" ELSE at
    /\ at \in {"idle", "end"} => ~begun

\* How often the node at hand has thought already.
RanPart ==
    /\ \A n \in Thinker : ran[n] \in {0, 1}
    /\ at = "assess" => ran["assess"] = 0
    /\ at \in {"assess", "evidence"} => ran["evidence"] = 0
    /\ at \in {"human_review", "response"} => ran["response"] = 0
    /\ at \in {"human_review", "response", "package"} => ran["package"] = 0

\* When the tools have been called, and what the rating was.
ActPart ==
    /\ posts \in {0, 1}
    /\ tickets <= posts
    /\ at # "ticket" /\ returned # "raised" => tickets = posts
    /\ at \in Node => posts = 0
    /\ at = "act" => posts = 0 /\ rating >= Threshold /\ rating # Unset
    /\ at = "ticket" => posts = 1 /\ tickets = 0 /\ rating # Unset
    /\ posts = 1 => answer = "approve" /\ rating >= Threshold
    /\ at = "packaged" => rating # Unset /\ (rating >= Threshold <=> posts = 1)
    /\ at = "end" /\ ~refused =>
            confidence # Unset /\ (confidence >= Threshold <=> posts = 1)
    /\ at = "end" /\ refused => posts = 0
    /\ at \notin {"idle", "end"} => refused = FALSE
    /\ returned = "done" => posts = 1 /\ answer # "none"
    /\ returned \in {"unsure", "rejected"} => posts = 0 /\ answer # "none"
    /\ at = "end" => answer # "none"
    /\ returned = "interrupted" => posts = 0 /\ refused = FALSE
    /\ returned = "none" /\ at = "idle" => refused = FALSE /\ posts = 0

\* Which nodes have announced a start that is not over.
EventPart ==
    returned # "raised" =>
        open = IF at \in {"act", "ticket", "packaged"} THEN {"package"}
               ELSE IF at \in Node /\ begun THEN {at}
               ELSE IF returned = "interrupted" \/ (at = "human_review" /\ answer # "none")
                    THEN {"human_review"}
               ELSE {}

GInv == TypeOK /\ GatePart /\ RanPart /\ ActPart /\ EventPart

-----------------------------------------------------------------------------

\* A thread that has not been started satisfies the invariant.
LEMMA InitGInv == Init => GInv
  <1> SUFFICES ASSUME Init
               PROVE  GInv
    OBVIOUS
  <1> USE DEF Init, Node, Thinker
  <1>1. TypeOK
    BY ScaleAssumption DEF TypeOK, Place, Status, Unset
  <1>2. GatePart /\ RanPart
    BY DEF GatePart, RanPart
  <1>3. ActPart /\ EventPart
    BY ScaleAssumption DEF ActPart, EventPart
  <1>4. QED
    BY <1>1, <1>2, <1>3 DEF GInv

\* The two calls of run_incident_workflow preserve it.
LEMMA CallStep ==
  ASSUME GInv, Invoke \/ \E a \in {"approve", "reject"} : Resume(a)
  PROVE  GInv'
  <1> USE DEF GInv, TypeOK, GatePart, RanPart, ActPart, EventPart, Place, Node, Thinker,
              Status, Unset, results, history
  <1>1. CASE Invoke
    BY <1>1, ScaleAssumption DEF Invoke
  <1>2. ASSUME NEW a \in {"approve", "reject"}, Resume(a)
        PROVE  GInv'
    BY <1>2, ScaleAssumption DEF Resume
  <1>3. QED
    BY <1>1, <1>2

\* The nodes that neither rate nor act preserve it.
LEMMA NodeStep ==
  ASSUME GInv, Start \/ Assess \/ GatherEvidence \/ Interrupt \/ HumanReview \/ DraftResponse
  PROVE  GInv'
  <1> USE ScaleAssumption
  <1> USE DEF GInv, TypeOK, GatePart, RanPart, ActPart, EventPart, Place, Node, Thinker,
              Status, Unset, results, history, Leave, Think
  <1>1. CASE Start
    BY <1>1 DEF Start
  <1>2. CASE Assess
    <2>1. at = "assess" /\ begun /\ begun' = FALSE /\ at' = "evidence" /\ saved' = "evidence"
      BY <1>2 DEF Assess
    <2>2. /\ UNCHANGED <<answer, rating, confidence, refused, returned, posts, tickets, rated>>
          /\ open' = open \ {"assess"}
      BY <1>2 DEF Assess
    <2>3. /\ ran' \in [Thinker -> Nat]
          /\ ran["assess"] = 0 /\ ran'["assess"] = 1
          /\ \A m \in Thinker \ {"assess"} : ran'[m] = ran[m]
      BY <1>2 DEF Assess
    <2>4. TypeOK'
      BY <2>1, <2>2, <2>3
    <2>5. GatePart' /\ RanPart'
      BY <2>1, <2>2, <2>3
    <2>6. ActPart' /\ EventPart'
      BY <2>1, <2>2
    <2>7. QED
      BY <2>4, <2>5, <2>6
  <1>3. CASE GatherEvidence
    <2>1. at = "evidence" /\ begun /\ begun' = FALSE /\ at' = "human_review" /\ saved' = "human_review"
      BY <1>3 DEF GatherEvidence
    <2>2. /\ UNCHANGED <<answer, rating, confidence, refused, returned, posts, tickets, rated>>
          /\ open' = open \ {"evidence"}
      BY <1>3 DEF GatherEvidence
    <2>3. /\ ran' \in [Thinker -> Nat]
          /\ ran["evidence"] = 0 /\ ran'["evidence"] = 1
          /\ \A m \in Thinker \ {"evidence"} : ran'[m] = ran[m]
      BY <1>3 DEF GatherEvidence
    <2>4. TypeOK'
      BY <2>1, <2>2, <2>3
    <2>5. GatePart' /\ RanPart'
      BY <2>1, <2>2, <2>3
    <2>6. ActPart' /\ EventPart'
      BY <2>1, <2>2
    <2>7. QED
      BY <2>4, <2>5, <2>6
  <1>4. CASE Interrupt
    BY <1>4 DEF Interrupt
  <1>5. CASE HumanReview
    BY <1>5 DEF HumanReview
  <1>6. CASE DraftResponse
    <2>1. at = "response" /\ begun /\ begun' = FALSE /\ at' = "package" /\ saved' = "package"
      BY <1>6 DEF DraftResponse
    <2>2. /\ UNCHANGED <<answer, rating, confidence, refused, returned, posts, tickets, rated>>
          /\ open' = open \ {"response"}
      BY <1>6 DEF DraftResponse
    <2>3. /\ ran' \in [Thinker -> Nat]
          /\ ran["response"] = 0 /\ ran'["response"] = 1
          /\ \A m \in Thinker \ {"response"} : ran'[m] = ran[m]
      BY <1>6 DEF DraftResponse
    <2>4. TypeOK'
      BY <2>1, <2>2, <2>3
    <2>5. GatePart' /\ RanPart'
      BY <2>1, <2>2, <2>3
    <2>6. ActPart' /\ EventPart'
      BY <2>1, <2>2
    <2>7. QED
      BY <2>4, <2>5, <2>6
  <1>7. QED
    BY <1>1, <1>2, <1>3, <1>4, <1>5, <1>6

\* Whatever number the rating is made of, it lies on the scale.
LEMMA RatingOnScale ==
  ASSUME RateNumber \/ RateNaN \/ RateUnusable
  PROVE  \E c \in 0..Scale, proper \in BOOLEAN : Rated(c, proper)
  <1>1. CASE RateNumber
    <2>1. PICK s \in Score :
            Rated(IF s < 0 THEN 0 ELSE IF s > Scale THEN Scale ELSE s, TRUE)
      BY <1>1 DEF RateNumber
    <2>2. (IF s < 0 THEN 0 ELSE IF s > Scale THEN Scale ELSE s) \in 0..Scale
      BY ScoreAssumption, ScaleAssumption
    <2>3. QED
      BY <2>1, <2>2
  <1>2. CASE RateNaN
    <2>1. Scale \in 0..Scale
      BY ScaleAssumption
    <2>2. QED
      BY <1>2, <2>1, Zenon DEF RateNaN
  <1>3. CASE RateUnusable
    <2>1. Half \in 0..Scale
      BY ScaleAssumption
    <2>2. QED
      BY <1>3, <2>1, Zenon DEF RateUnusable
  <1>4. QED
    BY <1>1, <1>2, <1>3

\* package_outcome, the packaging of the result and an exception preserve it.
LEMMA OutcomeStep ==
  ASSUME GInv,
         RateNumber \/ RateNaN \/ RateUnusable \/ PostSlack \/ FileTicket \/ EndPackage \/ Return \/ Raise
  PROVE  GInv'
  <1> USE ScaleAssumption
  <1> USE DEF GInv, TypeOK, GatePart, RanPart, ActPart, EventPart, Place, Node, Thinker,
              Status, Unset, results, history, Leave
  <1>1. CASE RateNumber \/ RateNaN \/ RateUnusable
    <2>1. PICK c \in 0..Scale, proper \in BOOLEAN : Rated(c, proper)
      BY <1>1, RatingOnScale
    <2>2. QED
      BY <2>1 DEF Rated
  <1>2. CASE PostSlack \/ FileTicket
    BY <1>2 DEF PostSlack, FileTicket
  <1>3. CASE EndPackage
    BY <1>3 DEF EndPackage
  <1>4. CASE Return
    BY <1>4 DEF Return
  <1>5. CASE Raise
    <2>1. at' = "idle" /\ returned' = "raised" /\ begun' = FALSE
      BY <1>5 DEF Raise
    <2>2. UNCHANGED <<open, saved, answer, refused, rating, confidence, posts, tickets, ran,
                     rated>>
      BY <1>5 DEF Raise
    <2>3. TypeOK'
      BY <2>1, <2>2
    <2>4. GatePart' /\ RanPart'
      BY <2>1, <2>2
    <2>5. ActPart' /\ EventPart'
      BY <2>1, <2>2
    <2>6. QED
      BY <2>3, <2>4, <2>5
  <1>6. QED
    BY <1>1, <1>2, <1>3, <1>4, <1>5

\* A step that changes nothing preserves it.
LEMMA StutterStep ==
  ASSUME GInv, UNCHANGED vars
  PROVE  GInv'
  BY DEF GInv, TypeOK, GatePart, RanPart, ActPart, EventPart, vars, results, history

\* GInv is an invariant of the workflow.
THEOREM Invariance == Spec => []GInv
  <1>1. Init => GInv
    BY InitGInv
  <1>2. GInv /\ [Next]_vars => GInv'
    BY CallStep, NodeStep, OutcomeStep, StutterStep DEF Next
  <1>3. QED
    BY <1>1, <1>2, PTL DEF Spec

-----------------------------------------------------------------------------

\* The type invariant of the workflow: in particular a rating is a number of the
\* scale, whatever the LLM answers.
THEOREM TypeCorrect == Spec => []TypeOK
  <1>1. GInv => TypeOK
    BY DEF GInv
  <1>2. QED
    BY <1>1, Invariance, PTL

\* Slack and Jira hear only of threads that were approved and whose rating reaches
\* the threshold (agents.py:407).
THEOREM ActsSure == Spec => []ActsOnlyWhenSure
  <1>1. GInv => ActsOnlyWhenSure
    BY DEF GInv, ActPart, ActsOnlyWhenSure
  <1>2. QED
    BY <1>1, Invariance, PTL

\* The status that run_incident_workflow returns agrees with what was posted.
THEOREM StatusAgrees == Spec => []StatusTellsActions
  <1>1. GInv => StatusTellsActions
    BY DEF GInv, GatePart, ActPart, StatusTellsActions
  <1>2. QED
    BY <1>1, Invariance, PTL

\* The resumed invocation replays no LLM call.
THEOREM NothingReplayed == Spec => []NoReplay
  <1>1. GInv => NoReplay
    BY DEF GInv, RanPart, NoReplay
  <1>2. QED
    BY <1>1, Invariance, PTL

\* The node events tell which node is running when a call returns.
THEOREM EventsAgree == Spec => []EventsMatchReturn
  <1>1. GInv => EventsMatchReturn
    BY DEF GInv, GatePart, EventPart, EventsMatchReturn, Node, TypeOK, Status, Place
  <1>2. QED
    BY <1>1, Invariance, PTL

\* Each step of the graph is a step of the call that RunLifecycle's task relies on,
\* or invisible to it.
THEOREM Refinement == Spec => ImplementsCall
  <1> DEFINE abstract == IF returned \in {"done", "unsure", "rejected", "raised"} THEN returned
             ELSE IF posts > 0 THEN "acted"
             ELSE IF returned = "interrupted" \/ answer # "none" THEN "asked"
             ELSE "new"
  <1>1. Init => Call!Init
    BY DEF Init, Call!Init
  <1>2. GInv /\ [Next]_vars => [Call!Next]_abstract
    <2> SUFFICES ASSUME GInv, [Next]_vars
                 PROVE  Call!Next \/ abstract' = abstract
      OBVIOUS
    <2> USE ScaleAssumption
    <2> USE DEF GInv, TypeOK, GatePart, ActPart, Place, Node, Status, Unset, results, history,
                Call!Next, Call!Ask, Call!Act, Call!Succeed, Call!Escalate, Call!Refuse,
                Call!Raise, Call!Ending
    <2>1. CASE Invoke
      BY <2>1 DEF Invoke
    <2>2. ASSUME NEW a \in {"approve", "reject"}, Resume(a)
          PROVE  abstract' = abstract
      BY <2>2 DEF Resume
    <2>3. CASE Start
      BY <2>3 DEF Start
    <2>4. CASE Assess \/ GatherEvidence \/ DraftResponse
      BY <2>4 DEF Assess, GatherEvidence, DraftResponse, Think, Leave
    <2>5. CASE Interrupt
      BY <2>5 DEF Interrupt
    <2>6. CASE HumanReview
      BY <2>6 DEF HumanReview, Leave
    <2>7. CASE RateNumber \/ RateNaN \/ RateUnusable
      <3>1. PICK c \in 0..Scale, proper \in BOOLEAN : Rated(c, proper)
        BY <2>7, RatingOnScale
      <3>2. QED
        BY <3>1 DEF Rated
    <2>8. CASE PostSlack \/ FileTicket
      BY <2>8 DEF PostSlack, FileTicket
    <2>9. CASE EndPackage
      BY <2>9 DEF EndPackage, Leave
    <2>10. CASE Return
      BY <2>10 DEF Return
    <2>11. CASE Raise
      BY <2>11 DEF Raise
    <2>12. CASE UNCHANGED vars
      BY <2>12 DEF vars
    <2>13. QED
      BY <2>1, <2>2, <2>3, <2>4, <2>5, <2>6, <2>7, <2>8, <2>9, <2>10, <2>11, <2>12 DEF Next
  <1>3. QED
    BY <1>1, <1>2, Invariance, PTL DEF Spec, ImplementsCall, Call!Spec

-----------------------------------------------------------------------------

\* What the docstring of _assess_confidence claims, under what it takes to be true:
\* with a threshold above the default rating (0.6 against 0.5 in settings.py) and no
\* NaN in a reply, a draft that the LLM did not rate is never acted on.
THEOREM UnratedEscalates ==
  Threshold > Half /\ ~NaNReplies => (Spec => []UnratedIsEscalated)
  <1> SUFFICES ASSUME Threshold > Half, ~NaNReplies
               PROVE  Spec => []UnratedIsEscalated
    OBVIOUS
  <1> DEFINE Sure == (at \in {"act", "ticket"} \/ posts > 0) => rated
  <1>1. Init => Sure
    BY DEF Init
  <1>2. GInv /\ Sure /\ [Next]_vars => Sure'
    <2> SUFFICES ASSUME GInv, Sure, [Next]_vars
                 PROVE  Sure'
      OBVIOUS
    <2> USE ScaleAssumption
    <2> USE DEF GInv, TypeOK, GatePart, ActPart, Place, Node, results, history, Leave
    <2>1. CASE Invoke \/ Start \/ Interrupt \/ HumanReview
      BY <2>1 DEF Invoke, Start, Interrupt, HumanReview
    <2>2. ASSUME NEW a \in {"approve", "reject"}, Resume(a)
          PROVE  Sure'
      BY <2>2 DEF Resume
    <2>3. CASE Assess \/ GatherEvidence \/ DraftResponse
      BY <2>3 DEF Assess, GatherEvidence, DraftResponse, Think
    <2>4. CASE RateNumber
      BY <2>4 DEF RateNumber, Rated
    <2>5. CASE RateNaN
      BY <2>5 DEF RateNaN
    <2>6. CASE RateUnusable
      BY <2>6 DEF RateUnusable, Rated
    <2>7. CASE PostSlack \/ FileTicket \/ EndPackage \/ Return \/ Raise
      BY <2>7 DEF PostSlack, FileTicket, EndPackage, Return, Raise
    <2>8. CASE UNCHANGED vars
      BY <2>8 DEF vars
    <2>9. QED
      BY <2>1, <2>2, <2>3, <2>4, <2>5, <2>6, <2>7, <2>8 DEF Next
  <1>3. Sure => UnratedIsEscalated
    BY DEF UnratedIsEscalated
  <1>4. QED
    BY <1>1, <1>2, <1>3, Invariance, PTL DEF Spec

-----------------------------------------------------------------------------
(* A thread ends *)

\* How far a thread that stands at place p still has to go at most.
Ahead(p) ==
    IF p = "assess" THEN 19
    ELSE IF p = "evidence" THEN 17
    ELSE IF p = "human_review" THEN IF answer = "none" THEN 15 ELSE 12
    ELSE IF p = "response" THEN 10
    ELSE IF p = "package" THEN 8
    ELSE IF p = "act" THEN 7
    ELSE IF p = "ticket" THEN 6
    ELSE IF p = "packaged" THEN 5
    ELSE 3

\* How many steps are left of a thread at most: between two calls those of the next one,
\* and none once a call has ended it.
ThreadLeft ==
    IF at # "idle" THEN Ahead(at) - (IF begun THEN 1 ELSE 0)
    ELSE IF returned = "none" THEN 21
    ELSE IF returned = "interrupted" THEN 13
    ELSE 0

LEMMA ThreadLeftShrinks ==
  ASSUME GInv
  PROVE  ThreadLeft \in 0..21 /\ (Next => ThreadLeft' < ThreadLeft)
  <1> USE DEF GInv, TypeOK, GatePart, Place, Node, Status, ThreadLeft, Ahead
  <1>1. ThreadLeft \in 0..21
    OBVIOUS
  <1>2. Invoke => ThreadLeft' < ThreadLeft
    BY DEF Invoke
  <1>3. ASSUME NEW a \in {"approve", "reject"}, Resume(a)
        PROVE  ThreadLeft' < ThreadLeft
    BY <1>3 DEF Resume
  <1>4. Start => ThreadLeft' < ThreadLeft
    BY DEF Start
  <1>5. Assess \/ GatherEvidence \/ DraftResponse => ThreadLeft' < ThreadLeft
    BY DEF Assess, GatherEvidence, DraftResponse, Think, Leave
  <1>6. Interrupt \/ HumanReview => ThreadLeft' < ThreadLeft
    BY DEF Interrupt, HumanReview, Leave
  <1>7. ASSUME NEW c, NEW proper, Rated(c, proper)
        PROVE  ThreadLeft' < ThreadLeft
    BY <1>7 DEF Rated
  <1>8. RateNumber \/ RateNaN \/ RateUnusable => ThreadLeft' < ThreadLeft
    BY <1>7 DEF RateNumber, RateNaN, RateUnusable
  <1>9. PostSlack \/ FileTicket \/ EndPackage \/ Return \/ Raise => ThreadLeft' < ThreadLeft
    BY DEF PostSlack, FileTicket, EndPackage, Return, Raise, Leave
  <1>10. QED
    BY <1>1, <1>2, <1>3, <1>4, <1>5, <1>6, <1>8, <1>9 DEF Next

\* No thread goes on for ever or comes back to where it was: with its gate and its
\* resume it is over after 21 steps, whatever the LLM answers (agents.py has no cycle).
THEOREM ThreadsRunOut ==
  Spec => [](ThreadLeft \in 0..21) /\ [][ThreadLeft' < ThreadLeft]_vars
  <1>1. GInv => ThreadLeft \in 0..21
    BY ThreadLeftShrinks
  <1>2. GInv /\ [Next]_vars => [ThreadLeft' < ThreadLeft]_vars
    BY ThreadLeftShrinks
  <1>3. QED
    BY <1>1, <1>2, Invariance, PTL DEF Spec

=============================================================================
