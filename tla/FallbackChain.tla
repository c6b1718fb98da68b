---------------------------- MODULE FallbackChain ----------------------------
(***************************************************************************)
(* The LLM fallback chain of one worker process (llm.py) and the circuit    *)
(* breaker it keeps per provider (circuit_breaker.py).  A caller is a thread *)
(* inside call_with_fallback: one in a Celery prefork process, several under *)
(* the thread pools the breaker's lock is there for.  Each use of a breaker  *)
(* is atomic, as that lock makes it, and callers interleave between two uses.*)
(***************************************************************************)
EXTENDS Integers, Sequences

CONSTANTS
    Provider,        \* names of LLM providers
    Primary,         \* the provider the run asks for
    Fallback,        \* settings.llm_fallback_chain
    Caller,          \* threads of one process that call the LLM: one in the prefork
                     \* workers of the deployments, more as a generalisation
    Threshold,       \* llm_circuit_failure_threshold
    Recovery,        \* llm_circuit_recovery_seconds, in clock ticks
    Attempts,        \* llm_circuit_retry_attempts
    MaxFailures      \* bound: where the failure count saturates

ASSUME ThresholdAssumption == Threshold \in Nat \ {0}
ASSUME RecoveryAssumption == Recovery \in Nat \ {0}
ASSUME AttemptsAssumption == Attempts \in Nat \ {0}
ASSUME BoundAssumption == MaxFailures \in Nat /\ MaxFailures >= Threshold

VARIABLES
    circuit,         \* _state of the provider's breaker
    failures,        \* _failure_count
    age,             \* time since _last_failure_time, up to Recovery
    at,              \* where the caller stands in call_with_fallback
    pos,             \* its position in the chain
    tries,           \* failed attempts of _invoke_with_retry
    answer,          \* how its latest call ended
    up,              \* providers that answer at the moment
    built            \* providers whose model can be constructed (key present)

breakerVars == <<circuit, failures, age>>
callerVars == <<at, pos, tries, answer>>
envVars == <<up, built>>
vars == <<breakerVars, callerVars, envVars>>

CircuitState == {"closed", "open", "half_open"}
Place == {"idle", "check", "invoke", "after"}
Answer == {"none", "response", "exhausted", "build_error"}

\* _build_fallback_chain
Chain == <<Primary>> \o SelectSeq(Fallback, LAMBDA p : p # Primary)

ASSUME ChainAssumption == Chain \in Seq(Provider)

TypeOK ==
    /\ circuit \in [Provider -> CircuitState]
    /\ failures \in [Provider -> 0..MaxFailures]
    /\ age \in [Provider -> 0..Recovery]
    /\ at \in [Caller -> Place]
    /\ pos \in [Caller -> Nat \ {0}]
    /\ tries \in [Caller -> 0..Attempts]
    /\ answer \in [Caller -> Answer]
    /\ up \in SUBSET Provider
    /\ built \in SUBSET Provider

Init ==
    /\ circuit = [p \in Provider |-> "closed"]
    /\ failures = [p \in Provider |-> 0]
    /\ age = [p \in Provider |-> Recovery]
    /\ at = [c \in Caller |-> "idle"]
    /\ pos = [c \in Caller |-> 1]
    /\ tries = [c \in Caller |-> 0]
    /\ answer = [c \in Caller |-> "none"]
    /\ up \in SUBSET Provider
    /\ built \in SUBSET Provider

-----------------------------------------------------------------------------
(* CircuitBreaker *)

\* Mutant of Refreshed: the recovery window is forgotten.
RefreshedNever(p) == circuit[p]

\* The state property: an open circuit whose recovery window has passed becomes
\* half-open when somebody looks at it.
Refreshed(p) == IF circuit[p] = "open" /\ age[p] >= Recovery THEN "half_open" ELSE circuit[p]

\* is_available, with the transition that reading the state makes.
Look(p) == circuit' = [circuit EXCEPT ![p] = Refreshed(p)]
Available(p) == Refreshed(p) \in {"closed", "half_open"}

\* Mutant of RecordSuccess: the count is reset and the state forgotten.
ResetCountOnly(p) ==
    /\ failures' = [failures EXCEPT ![p] = 0]
    /\ UNCHANGED <<circuit, age>>

RecordSuccess(p) ==
    /\ failures' = [failures EXCEPT ![p] = 0]
    /\ circuit' = [circuit EXCEPT ![p] = "closed"]
    /\ UNCHANGED age

\* Mutant of RecordFailure: the circuit opens when the count reaches the threshold,
\* and not again when a later probe fails.
OpenAtThresholdOnly(p) ==
    LET n == IF failures[p] < MaxFailures THEN failures[p] + 1 ELSE failures[p]
    IN  /\ failures' = [failures EXCEPT ![p] = n]
        /\ age' = [age EXCEPT ![p] = 0]
        /\ circuit' = [circuit EXCEPT ![p] = IF failures[p] + 1 = Threshold THEN "open" ELSE @]

\* Mutant of RecordFailure: the circuit opens one failure late.
OpenAboveThreshold(p) ==
    LET n == IF failures[p] < MaxFailures THEN failures[p] + 1 ELSE failures[p]
    IN  /\ failures' = [failures EXCEPT ![p] = n]
        /\ age' = [age EXCEPT ![p] = 0]
        /\ circuit' = [circuit EXCEPT ![p] = IF n > Threshold THEN "open" ELSE @]

RecordFailure(p) ==
    LET n == IF failures[p] < MaxFailures THEN failures[p] + 1 ELSE failures[p]
    IN  /\ failures' = [failures EXCEPT ![p] = n]
        /\ age' = [age EXCEPT ![p] = 0]
        /\ circuit' = [circuit EXCEPT ![p] = IF n >= Threshold THEN "open" ELSE @]

-----------------------------------------------------------------------------
(* call_with_fallback *)

Call(c) ==
    /\ at[c] = "idle"
    /\ at' = [at EXCEPT ![c] = "check"]
    /\ pos' = [pos EXCEPT ![c] = 1]
    /\ answer' = [answer EXCEPT ![c] = "none"]
    /\ UNCHANGED <<breakerVars, tries, envVars>>

\* The call of c ends with answer a.
Return(c, a) ==
    /\ at' = [at EXCEPT ![c] = "idle"]
    /\ answer' = [answer EXCEPT ![c] = a]
    /\ pos' = [pos EXCEPT ![c] = 1]
    /\ tries' = [tries EXCEPT ![c] = 0]

\* provider_circuit_open_skip
Skip(c) ==
    /\ at[c] = "check"
    /\ pos[c] <= Len(Chain)
    /\ ~Available(Chain[pos[c]])
    /\ pos' = [pos EXCEPT ![c] = @ + 1]
    /\ UNCHANGED <<breakerVars, at, tries, answer, envVars>>

\* The circuit lets the call through and the model is built.
Admit(c) ==
    /\ at[c] = "check"
    /\ pos[c] <= Len(Chain)
    /\ Available(Chain[pos[c]])
    /\ Chain[pos[c]] \in built
    /\ Look(Chain[pos[c]])
    /\ at' = [at EXCEPT ![c] = "invoke"]
    /\ UNCHANGED <<failures, age, pos, tries, answer, envVars>>

\* build_chat_model is outside the try block: its exception ends the whole call.
BuildFails(c) ==
    /\ at[c] = "check"
    /\ pos[c] <= Len(Chain)
    /\ Available(Chain[pos[c]])
    /\ Chain[pos[c]] \notin built
    /\ Look(Chain[pos[c]])
    /\ Return(c, "build_error")
    /\ UNCHANGED <<failures, age, envVars>>

Exhausted(c) ==
    /\ at[c] = "check"
    /\ pos[c] > Len(Chain)
    /\ Return(c, "exhausted")
    /\ UNCHANGED <<breakerVars, envVars>>

InvokeOk(c) ==
    /\ at[c] = "invoke"
    /\ Chain[pos[c]] \in up
    /\ RecordSuccess(Chain[pos[c]])
    /\ Return(c, "response")
    /\ UNCHANGED envVars

\* Mutant of InvokeRetry: one attempt more than stop_after_attempt allows.
InvokeRetryTooOften(c) ==
    /\ at[c] = "invoke"
    /\ Chain[pos[c]] \notin up
    /\ tries' = [tries EXCEPT ![c] = @ + 1]
    /\ UNCHANGED <<breakerVars, at, pos, answer, envVars>>

\* tenacity tries again.
InvokeRetry(c) ==
    /\ at[c] = "invoke"
    /\ Chain[pos[c]] \notin up
    /\ tries[c] + 1 < Attempts
    /\ tries' = [tries EXCEPT ![c] = @ + 1]
    /\ UNCHANGED <<breakerVars, at, pos, answer, envVars>>

\* The last attempt re-raises.
InvokeFails(c) ==
    /\ at[c] = "invoke"
    /\ Chain[pos[c]] \notin up
    /\ tries[c] + 1 >= Attempts
    /\ RecordFailure(Chain[pos[c]])
    /\ at' = [at EXCEPT ![c] = "after"]
    /\ tries' = [tries EXCEPT ![c] = 0]
    /\ UNCHANGED <<pos, answer, envVars>>

\* Look at the circuit again, to log circuit_opened, and go on to the next provider.
FallBack(c) ==
    /\ at[c] = "after"
    /\ Look(Chain[pos[c]])
    /\ at' = [at EXCEPT ![c] = "check"]
    /\ pos' = [pos EXCEPT ![c] = @ + 1]
    /\ UNCHANGED <<failures, age, tries, answer, envVars>>

-----------------------------------------------------------------------------
(* The clock and the providers *)

Tick ==
    /\ \E p \in Provider : age[p] < Recovery
    /\ age' = [p \in Provider |-> IF age[p] < Recovery THEN age[p] + 1 ELSE age[p]]
    /\ UNCHANGED <<circuit, failures, callerVars, envVars>>

Flip(p) ==
    /\ up' = IF p \in up THEN up \ {p} ELSE up \union {p}
    /\ UNCHANGED <<breakerVars, callerVars, built>>

Step(c) ==
    \/ Skip(c)
    \/ Admit(c)
    \/ BuildFails(c)
    \/ Exhausted(c)
    \/ InvokeOk(c)
    \/ InvokeRetry(c)
    \/ InvokeFails(c)
    \/ FallBack(c)

Next ==
    \/ \E c \in Caller : Call(c) \/ Step(c)
    \/ Tick
    \/ \E p \in Provider : Flip(p)

Spec == Init /\ [][Next]_vars

\* A call goes on once it has started, and time passes.
FairSpec == Spec /\ WF_vars(Tick) /\ \A c \in Caller : WF_vars(Step(c))

-----------------------------------------------------------------------------
(* Properties *)

\* The circuit is closed exactly while the failures counted since the last success are
\* below the threshold, over any succession of failures, successes and probes: a failed
\* probe re-opens at once and no success leaves a circuit half-open.
ClosedIffBelowThreshold ==
    \A p \in Provider : circuit[p] = "closed" <=> failures[p] < Threshold

\* A circuit is half-open only when the recovery window has passed since the
\* latest failure, also when that failure came from a call admitted earlier.
HalfOpenOnlyAfterRecovery ==
    \A p \in Provider : circuit[p] = "half_open" => age[p] = Recovery

\* Failover is not for ever: if calls keep coming and the primary provider answers
\* from some time on, its circuit is closed from some time on.
PrimaryRecovers ==
    (/\ <>[](Primary \in up \intersect built)
     /\ \A c \in Caller : []<>(at[c] # "idle") /\ []<>(at[c] = "idle"))
        => <>[](circuit[Primary] = "closed")

\* llm.py:60 and llm.py:66: "Tries each provider in the configured fallback chain
\* in order" and "Raises RuntimeError when every provider in the chain is exhausted":
\* a call that gets no response has been through the whole chain.
NoResponseOnlyWhenExhausted ==
    \A c \in Caller : at[c] = "idle" => answer[c] \in {"none", "response", "exhausted"}

=============================================================================
