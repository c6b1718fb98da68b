---------------------------- MODULE FallbackProofs ----------------------------
(***************************************************************************)
(* Proofs about FallbackChain, for any chain of providers, any number of    *)
(* calling threads and any threshold and recovery window.                   *)
(***************************************************************************)
EXTENDS FallbackChain, TLAPS

\* A caller that has been admitted stands inside the chain.
InChain == \A c \in Caller : at[c] \in {"invoke", "after"} => pos[c] <= Len(Chain)

\* What the steps preserve together: the state of a breaker follows from its
\* failure count, and a half-open one has a complete recovery window behind it.
BInv ==
    /\ TypeOK
    /\ InChain
    /\ ClosedIffBelowThreshold
    /\ HalfOpenOnlyAfterRecovery

\* Every position that call_with_fallback looks at holds a known provider.
LEMMA ProviderAt ==
    ASSUME TypeOK, NEW c \in Caller, pos[c] <= Len(Chain)
    PROVE  Chain[pos[c]] \in Provider
BY ChainAssumption DEF TypeOK

LEMMA InitBInv == Init => BInv
BY ThresholdAssumption, RecoveryAssumption, AttemptsAssumption, BoundAssumption
DEF Init, BInv, TypeOK, InChain, ClosedIffBelowThreshold, HalfOpenOnlyAfterRecovery,
    CircuitState, Place, Answer

\* Looking at a breaker keeps the invariant: it moves an open circuit to half-open
\* only when its age has reached the recovery window.
LEMMA LookInv ==
    ASSUME BInv, NEW p \in Provider, Look(p), UNCHANGED <<failures, age>>
    PROVE  /\ circuit' \in [Provider -> CircuitState]
           /\ ClosedIffBelowThreshold'
           /\ HalfOpenOnlyAfterRecovery'
BY RecoveryAssumption
DEF BInv, TypeOK, Look, Refreshed, CircuitState, ClosedIffBelowThreshold,
    HalfOpenOnlyAfterRecovery

\* So does a success: the count falls below any threshold and the circuit closes.
LEMMA SuccessInv ==
    ASSUME BInv, NEW p \in Provider, RecordSuccess(p)
    PROVE  /\ circuit' \in [Provider -> CircuitState]
           /\ failures' \in [Provider -> 0..MaxFailures]
           /\ age' \in [Provider -> 0..Recovery]
           /\ ClosedIffBelowThreshold'
           /\ HalfOpenOnlyAfterRecovery'
BY ThresholdAssumption, BoundAssumption
DEF BInv, TypeOK, RecordSuccess, CircuitState, ClosedIffBelowThreshold,
    HalfOpenOnlyAfterRecovery

\* And a failure: a half-open circuit has a count at the threshold already, so the
\* failed probe opens it again.
LEMMA FailureInv ==
    ASSUME BInv, NEW p \in Provider, RecordFailure(p)
    PROVE  /\ circuit' \in [Provider -> CircuitState]
           /\ failures' \in [Provider -> 0..MaxFailures]
           /\ age' \in [Provider -> 0..Recovery]
           /\ ClosedIffBelowThreshold'
           /\ HalfOpenOnlyAfterRecovery'
BY ThresholdAssumption, RecoveryAssumption, BoundAssumption
DEF BInv, TypeOK, RecordFailure, CircuitState, ClosedIffBelowThreshold,
    HalfOpenOnlyAfterRecovery

\* Every step of call_with_fallback keeps the invariant.
LEMMA StepInv ==
    ASSUME BInv, NEW c \in Caller, Call(c) \/ Step(c)
    PROVE  BInv'
<1> USE AttemptsAssumption DEF Place, Answer, breakerVars, envVars
<1>0. TypeOK /\ InChain /\ Len(Chain) \in Nat
  BY ChainAssumption DEF BInv
<1>1. CASE Call(c)
  BY <1>1 DEF Call, BInv, TypeOK, InChain, ClosedIffBelowThreshold,
              HalfOpenOnlyAfterRecovery
<1>2. CASE Skip(c)
  BY <1>2 DEF Skip, BInv, TypeOK, InChain, ClosedIffBelowThreshold,
              HalfOpenOnlyAfterRecovery
<1>3. CASE Admit(c)
  <2>1. Chain[pos[c]] \in Provider
    BY <1>0, <1>3, ProviderAt DEF Admit
  <2>2. /\ circuit' \in [Provider -> CircuitState]
        /\ ClosedIffBelowThreshold'
        /\ HalfOpenOnlyAfterRecovery'
    BY <2>1, <1>3, LookInv DEF Admit
  <2> QED
    BY <2>2, <1>3 DEF Admit, BInv, TypeOK, InChain
<1>4. CASE BuildFails(c)
  <2>1. Chain[pos[c]] \in Provider
    BY <1>0, <1>4, ProviderAt DEF BuildFails
  <2>2. /\ circuit' \in [Provider -> CircuitState]
        /\ ClosedIffBelowThreshold'
        /\ HalfOpenOnlyAfterRecovery'
    BY <2>1, <1>4, LookInv DEF BuildFails
  <2> QED
    BY <2>2, <1>4 DEF BuildFails, Return, BInv, TypeOK, InChain
<1>5. CASE Exhausted(c)
  BY <1>5 DEF Exhausted, Return, BInv, TypeOK, InChain, ClosedIffBelowThreshold,
              HalfOpenOnlyAfterRecovery
<1>6. CASE InvokeOk(c)
  <2>1. Chain[pos[c]] \in Provider
    BY <1>0, <1>6, ProviderAt DEF InvokeOk, InChain
  <2>2. /\ circuit' \in [Provider -> CircuitState]
        /\ failures' \in [Provider -> 0..MaxFailures]
        /\ age' \in [Provider -> 0..Recovery]
        /\ ClosedIffBelowThreshold'
        /\ HalfOpenOnlyAfterRecovery'
    BY <2>1, <1>6, SuccessInv DEF InvokeOk
  <2> QED
    BY <2>2, <1>6 DEF InvokeOk, Return, BInv, TypeOK, InChain
<1>7. CASE InvokeRetry(c)
  BY <1>7 DEF InvokeRetry, BInv, TypeOK, InChain, ClosedIffBelowThreshold,
              HalfOpenOnlyAfterRecovery
<1>8. CASE InvokeFails(c)
  <2>1. Chain[pos[c]] \in Provider
    BY <1>0, <1>8, ProviderAt DEF InvokeFails, InChain
  <2>2. /\ circuit' \in [Provider -> CircuitState]
        /\ failures' \in [Provider -> 0..MaxFailures]
        /\ age' \in [Provider -> 0..Recovery]
        /\ ClosedIffBelowThreshold'
        /\ HalfOpenOnlyAfterRecovery'
    BY <2>1, <1>8, FailureInv DEF InvokeFails
  <2> QED
    BY <2>2, <1>8 DEF InvokeFails, BInv, TypeOK, InChain
<1>9. CASE FallBack(c)
  <2>1. Chain[pos[c]] \in Provider
    BY <1>0, <1>9, ProviderAt DEF FallBack, InChain
  <2>2. /\ circuit' \in [Provider -> CircuitState]
        /\ ClosedIffBelowThreshold'
        /\ HalfOpenOnlyAfterRecovery'
    BY <2>1, <1>9, LookInv DEF FallBack
  <2> QED
    BY <2>2, <1>9 DEF FallBack, BInv, TypeOK, InChain
<1> QED
  BY <1>1, <1>2, <1>3, <1>4, <1>5, <1>6, <1>7, <1>8, <1>9 DEF Step

\* The clock never makes a half-open circuit young again.
LEMMA TickInv == ASSUME BInv, Tick PROVE BInv'
BY RecoveryAssumption
DEF Tick, BInv, TypeOK, InChain, ClosedIffBelowThreshold, HalfOpenOnlyAfterRecovery,
    callerVars, envVars

LEMMA FlipInv == ASSUME BInv, NEW p \in Provider, Flip(p) PROVE BInv'
BY DEF Flip, BInv, TypeOK, InChain, ClosedIffBelowThreshold, HalfOpenOnlyAfterRecovery,
       breakerVars, callerVars

LEMMA Invariance == Spec => []BInv
<1>1. Init => BInv
  BY InitBInv
<1>2. BInv /\ [Next]_vars => BInv'
  <2> SUFFICES ASSUME BInv, [Next]_vars PROVE BInv'
    OBVIOUS
  <2>1. CASE Next
    BY <2>1, StepInv, TickInv, FlipInv DEF Next
  <2>2. CASE UNCHANGED vars
    BY <2>2 DEF vars, breakerVars, callerVars, envVars, BInv, TypeOK, InChain,
                ClosedIffBelowThreshold, HalfOpenOnlyAfterRecovery
  <2> QED
    BY <2>1, <2>2
<1> QED
  BY <1>1, <1>2, PTL DEF Spec

-----------------------------------------------------------------------------

\* The variables of the chain and of its breakers keep their types; in particular
\* no call makes more attempts than stop_after_attempt allows.
THEOREM TypeCorrect == Spec => []TypeOK
BY Invariance, PTL DEF BInv

\* A breaker is closed exactly while fewer failures than the threshold were counted
\* since the last success, however the reports of concurrent calls interleave.
THEOREM ClosedIff == Spec => []ClosedIffBelowThreshold
BY Invariance, PTL DEF BInv

\* A half-open breaker always has a complete recovery window behind it.
THEOREM ProbeAfterRecovery == Spec => []HalfOpenOnlyAfterRecovery
BY Invariance, PTL DEF BInv

-----------------------------------------------------------------------------
(* What the breaker is for *)

Admitted(c) ==
    failures[Chain[pos[c]]] < Threshold \/ age[Chain[pos[c]]] = Recovery

AdmitDue == \A c \in Caller : at[c] = "check" /\ at'[c] = "invoke" => Admitted(c)

\* A provider that failed as often as the threshold since its last success is not
\* called before the recovery window has passed since its latest failure, whichever
\* thread that failure was reported by.
THEOREM AdmittedOnlyWhenDue == Spec => [][AdmitDue]_vars
<1>1. BInv /\ [Next]_vars => [AdmitDue]_vars
  <2> SUFFICES ASSUME BInv, Next, NEW c \in Caller, at[c] = "check", at'[c] = "invoke"
               PROVE  Admitted(c)
    BY DEF AdmitDue
  <2> USE DEF BInv, TypeOK
  <2>1. ASSUME NEW d \in Caller, Call(d) \/ Step(d), d # c
        PROVE  at'[c] = at[c]
    BY <2>1 DEF Call, Step, Skip, Admit, BuildFails, Exhausted, InvokeOk, InvokeRetry,
                InvokeFails, FallBack, Return
  <2>2. CASE Call(c) \/ Step(c)
    <3>1. Admit(c)
      BY <2>2 DEF Call, Step, Skip, BuildFails, Exhausted, InvokeOk, InvokeRetry,
                  InvokeFails, FallBack, Return
    <3> DEFINE p == Chain[pos[c]]
    <3>2. p \in Provider /\ Refreshed(p) \in {"closed", "half_open"}
      BY <3>1, ProviderAt DEF Admit, Available
    <3>3. CASE circuit[p] = "open"
      BY <3>2, <3>3, RecoveryAssumption DEF Refreshed, Admitted
    <3>4. CASE circuit[p] # "open"
      BY <3>2, <3>4 DEF Refreshed, Admitted, ClosedIffBelowThreshold,
                        HalfOpenOnlyAfterRecovery
    <3> QED
      BY <3>3, <3>4
  <2>3. Tick \/ (\E p \in Provider : Flip(p)) => at' = at
    BY DEF Tick, Flip, callerVars
  <2> QED
    BY <2>1, <2>2, <2>3 DEF Next
<1> QED
  BY <1>1, Invariance, PTL DEF Spec

-----------------------------------------------------------------------------
(* When a call ends without having tried the whole chain *)

\* Some provider of the chain has no model.
ModelMissing == \E n \in DOMAIN Chain : Chain[n] \notin built

ErrorExplained == \A c \in Caller : answer[c] = "build_error" => ModelMissing

LEMMA ErrorStep ==
    ASSUME BInv, ErrorExplained, [Next]_vars
    PROVE  ErrorExplained'
<1> USE DEF ErrorExplained, ModelMissing, BInv, TypeOK
<1>0. built' = built
  BY DEF Next, Call, Step, Skip, Admit, BuildFails, Exhausted, InvokeOk, InvokeRetry,
         InvokeFails, FallBack, Tick, Flip, envVars, vars
<1>1. ASSUME NEW c \in Caller, BuildFails(c)
      PROVE  ModelMissing
  <2>1. pos[c] \in DOMAIN Chain
    BY <1>1, ChainAssumption DEF BuildFails
  <2> QED
    BY <1>1, <2>1 DEF BuildFails
<1>2. ASSUME NEW c \in Caller, answer'[c] = "build_error", answer[c] # "build_error"
      PROVE  BuildFails(c)
  <2>1. ~UNCHANGED answer
    BY <1>2
  <2>2. PICK d \in Caller : Call(d) \/ Step(d)
    BY <2>1 DEF Next, Tick, Flip, vars, callerVars
  <2>3. d = c
    BY <2>2, <1>2 DEF Call, Step, Skip, Admit, BuildFails, Exhausted, InvokeOk,
                      InvokeRetry, InvokeFails, FallBack, Return
  <2> QED
    BY <2>2, <2>3, <1>2 DEF Call, Step, Skip, Admit, Exhausted, InvokeOk, InvokeRetry,
                            InvokeFails, FallBack, Return
<1> QED
  BY <1>0, <1>1, <1>2

\* The one way in which a call ends although providers are left: build_chat_model
\* raises for some provider of the chain.
THEOREM BuildErrorExplained == Spec => []ErrorExplained
<1>1. Init => ErrorExplained
  BY DEF Init, ErrorExplained
<1> QED
  BY <1>1, ErrorStep, Invariance, PTL DEF Spec

\* So where every provider of the chain has its key, a call gets a response or has
\* been through the whole chain, as the docstring of call_with_fallback says.
THEOREM WithAllModelsChainIsTried ==
    Spec /\ ~ModelMissing => []NoResponseOnlyWhenExhausted
<1>1. ~ModelMissing /\ [Next]_vars => (~ModelMissing)'
  BY DEF ModelMissing, Next, Call, Step, Skip, Admit, BuildFails, Exhausted, InvokeOk,
         InvokeRetry, InvokeFails, FallBack, Tick, Flip, envVars, vars
<1>2. TypeOK /\ ErrorExplained /\ ~ModelMissing => NoResponseOnlyWhenExhausted
  BY DEF TypeOK, Answer, ErrorExplained, NoResponseOnlyWhenExhausted
<1> QED
  BY <1>1, <1>2, BuildErrorExplained, TypeCorrect, PTL DEF Spec

-----------------------------------------------------------------------------
(* Every call ends: a number that its steps bring down *)

\* The steps that a call may spend on one provider: the check, its attempts, and the
\* second look at the breaker.
Block == Attempts + 2

\* What is left of the providers' blocks for a caller at its position.
Left(c) == (Len(Chain) + 1 - pos[c]) * Block

\* How many steps the call of c may still make.
Steps(c) ==
    IF at[c] = "idle" THEN 0
    ELSE IF at[c] = "check" THEN Left(c) + 1
    ELSE IF at[c] = "invoke" THEN Left(c) - tries[c]
    ELSE Left(c) - Attempts

\* A call stays within the chain and its end, and within its attempts.
Within ==
    \A c \in Caller :
        /\ pos[c] <= Len(Chain) + 1
        /\ tries[c] < Attempts
        /\ at[c] # "invoke" => tries[c] = 0

LEMMA WithinStep ==
    ASSUME BInv, Within, [Next]_vars
    PROVE  Within'
<1> USE AttemptsAssumption DEF BInv, TypeOK, Within, Place
<1>0. Len(Chain) \in Nat
  BY ChainAssumption
<1>1. ASSUME NEW c \in Caller, Call(c) \/ Step(c)
      PROVE  Within'
  <2>1. CASE Call(c)
    BY <1>0, <2>1 DEF Call
  <2>2. CASE Skip(c)
    BY <1>0, <2>2 DEF Skip
  <2>6. CASE Admit(c)
    BY <1>0, <2>6 DEF Admit
  <2>7. CASE \E a \in Answer : Return(c, a)
    BY <1>0, <2>7 DEF Return
  <2>3. CASE InvokeRetry(c)
    BY <1>0, <2>3 DEF InvokeRetry
  <2>4. CASE InvokeFails(c)
    BY <1>0, <2>4 DEF InvokeFails
  <2>5. CASE FallBack(c)
    <3>1. pos[c] <= Len(Chain)
      BY <2>5 DEF FallBack, InChain
    <3> QED
      BY <1>0, <2>5, <3>1 DEF FallBack
  <2> QED
    BY <1>1, <2>1, <2>2, <2>3, <2>4, <2>5, <2>6, <2>7
    DEF Step, BuildFails, Exhausted, InvokeOk, Answer
<1>2. Tick \/ (\E p \in Provider : Flip(p)) \/ UNCHANGED vars => Within'
  BY DEF Tick, Flip, vars, callerVars
<1> QED
  BY <1>1, <1>2 DEF Next

LEMMA WithinAlways == Spec => []Within
<1>1. Init => Within
  BY ChainAssumption, AttemptsAssumption DEF Init, Within
<1> QED
  BY <1>1, WithinStep, Invariance, PTL DEF Spec

\* Blocks add up: one position on is one block less, and inside the chain there is at
\* least one left.
LEMMA BlockLess ==
    ASSUME NEW m \in Nat
    PROVE  /\ m * Block \in Nat
           /\ (m + 1) * Block = m * Block + Attempts + 2
BY AttemptsAssumption DEF Block

LEMMA OneMore ==
    ASSUME NEW n \in Nat, NEW p \in Nat, p <= n
    PROVE  \E m \in Nat : n + 1 - p = m + 1
<1>1. n - p \in Nat /\ n + 1 - p = (n - p) + 1
  OBVIOUS
<1> QED
  BY <1>1

LEMMA LeftIs ==
    ASSUME BInv, Within, NEW c \in Caller
    PROVE  /\ Left(c) \in Nat
           /\ pos[c] <= Len(Chain) => Left(c) >= Attempts + 2
<1>1. Len(Chain) \in Nat /\ pos[c] \in Nat \ {0} /\ pos[c] <= Len(Chain) + 1
  BY ChainAssumption DEF BInv, TypeOK, Within
<1>2. Left(c) \in Nat
  <2>1. Len(Chain) + 1 - pos[c] \in Nat
    BY <1>1
  <2> QED
    BY <2>1, BlockLess DEF Left
<1>3. ASSUME pos[c] <= Len(Chain)
      PROVE  Left(c) >= Attempts + 2
  <2>1. PICK m \in Nat : Len(Chain) + 1 - pos[c] = m + 1
    BY <1>1, <1>3, OneMore
  <2>2. Left(c) = (m + 1) * Block
    BY <2>1 DEF Left
  <2>3. m * Block \in Nat /\ (m + 1) * Block = m * Block + Attempts + 2
    BY BlockLess
  <2> QED
    BY <2>2, <2>3, AttemptsAssumption
<1> QED
  BY <1>2, <1>3

\* The count of a call under way is a positive number, and every step of the call brings
\* it down, so that no call goes on for ever.
CallEnds ==
    \A c \in Caller :
        at[c] # "idle" => /\ Steps(c) \in Nat \ {0}
                          /\ Step(c) => Steps(c)' < Steps(c)

\* Nobody but the caller touches it.
OwnSteps ==
    \A c \in Caller : at[c] # "idle" /\ ~Step(c) => UNCHANGED Steps(c)

LEMMA StepDescends ==
    ASSUME BInv, Within, NEW c \in Caller, at[c] # "idle"
    PROVE  /\ Steps(c) \in Nat \ {0}
           /\ Step(c) => Steps(c)' < Steps(c)
<1> USE AttemptsAssumption DEF BInv, TypeOK, Within, Place
<1>0. Len(Chain) \in Nat
  BY ChainAssumption
<1>1. /\ Left(c) \in Nat
      /\ pos[c] <= Len(Chain) => Left(c) >= Attempts + 2
      /\ at[c] # "check" => pos[c] <= Len(Chain)
  BY LeftIs DEF InChain
<1>2. Steps(c) \in Nat \ {0}
  BY <1>1 DEF Steps
<1>3. ASSUME pos' = [pos EXCEPT ![c] = @ + 1], pos[c] <= Len(Chain)
      PROVE  Left(c)' = Left(c) - Attempts - 2
  <2>1. PICK m \in Nat : Len(Chain) + 1 - pos[c] = m + 1
    BY <1>0, <1>3, OneMore
  <2>2. Left(c) = (m + 1) * Block
    BY <2>1 DEF Left
  <2>3. Len(Chain) + 1 - pos'[c] = m
    <3>1. pos'[c] = pos[c] + 1 /\ pos[c] \in Nat
      BY <1>3
    <3> QED
      BY <1>0, <2>1, <3>1
  <2>4. Left(c)' = m * Block
    BY <2>3 DEF Left, Block
  <2>5. m * Block \in Nat /\ (m + 1) * Block = m * Block + Attempts + 2
    BY BlockLess
  <2> QED
    BY <2>2, <2>4, <2>5
<1>4. pos'[c] = pos[c] => Left(c)' = Left(c)
  BY DEF Left
<1>5. ASSUME NEW a, Return(c, a)
      PROVE  Steps(c)' < Steps(c)
  <2>1. Steps(c)' = 0
    BY <1>5 DEF Return, Steps
  <2> QED
    BY <2>1, <1>2
<1> HIDE DEF Block
<1>6. CASE Skip(c)
  <2>1. at'[c] = at[c] /\ tries'[c] = tries[c] /\ Left(c)' = Left(c) - Attempts - 2
    BY <1>6, <1>3 DEF Skip
  <2>2. at[c] = "check"
    BY <1>6 DEF Skip
  <2>3. Steps(c) = Left(c) + 1 /\ Steps(c)' = Left(c) - Attempts - 2 + 1
    BY <2>1, <2>2 DEF Steps
  <2> QED
    BY <1>1, <2>3
<1>7. CASE Admit(c)
  BY <1>7, <1>1, <1>4 DEF Admit, Steps
<1>8. CASE InvokeRetry(c)
  BY <1>8, <1>1, <1>4 DEF InvokeRetry, Steps
<1>9. CASE InvokeFails(c)
  BY <1>9, <1>1, <1>4 DEF InvokeFails, Steps
<1>10. CASE FallBack(c)
  <2>1. /\ at[c] = "after" /\ at'[c] = "check" /\ tries'[c] = tries[c]
        /\ Left(c)' = Left(c) - Attempts - 2
    BY <1>10, <1>1, <1>3 DEF FallBack
  <2> QED
    BY <1>1, <2>1 DEF Steps
<1> QED
  BY <1>2, <1>5, <1>6, <1>7, <1>8, <1>9, <1>10 DEF Step, BuildFails, Exhausted, InvokeOk

\* A call of call_with_fallback ends after at most Len(Chain) * (Attempts + 2) + 1 steps
\* of its own, whatever the other threads, the clock and the providers do: the part of
\* its termination that is no matter of scheduling.
THEOREM CallsRunOut == Spec => [][CallEnds /\ OwnSteps]_vars
<1>1. BInv /\ Within /\ [Next]_vars => [CallEnds /\ OwnSteps]_vars
  <2> SUFFICES ASSUME BInv, Within, Next
               PROVE  CallEnds /\ OwnSteps
    OBVIOUS
  <2>1. CallEnds
    BY StepDescends DEF CallEnds
  <2>2. ASSUME NEW c \in Caller, at[c] # "idle", ~Step(c)
        PROVE  UNCHANGED Steps(c)
    <3>1. UNCHANGED <<at[c], pos[c], tries[c]>>
      <4>1. ~Call(c)
        BY <2>2 DEF Call
      <4>2. ASSUME NEW d \in Caller, d # c, Call(d) \/ Step(d)
            PROVE  UNCHANGED <<at[c], pos[c], tries[c]>>
        BY <4>2 DEF BInv, TypeOK, Call, Step, Skip, Admit, BuildFails, Exhausted,
                    InvokeOk, InvokeRetry, InvokeFails, FallBack, Return
      <4> QED
        BY <4>1, <4>2, <2>2 DEF Next, Tick, Flip, callerVars
    <3> QED
      BY <3>1 DEF Steps, Left
  <2> QED
    BY <2>1, <2>2 DEF OwnSteps
<1> QED
  BY <1>1, Invariance, WithinAlways, PTL DEF Spec

=============================================================================
