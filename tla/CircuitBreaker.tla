--------------------------- MODULE CircuitBreaker ---------------------------
(***************************************************************************)
(* The breaker that the workers of a stage share                           *)
(* (internal/circuitbreaker/breaker.go) and the way the stages use it: a   *)
(* worker asks Allow once, then calls its backend, and the outcome of every*)
(* attempt is recorded, at a time when the breaker may have changed its    *)
(* state under another worker's outcome.  The fetcher may record several   *)
(* attempts of one job; the normalizer records one, and none for an error  *)
(* that a retry would not mend.                                            *)
(***************************************************************************)
EXTENDS Naturals

CONSTANTS
    Callers,            \* the workers that share the breaker
    FailureThreshold,   \* failures in a row that open it
    SuccessThreshold,   \* successes that close it again
    FailureBound        \* bound: failures counted while it is open

ASSUME BreakerConstants ==
    /\ FailureThreshold \in Nat \ {0} /\ SuccessThreshold \in Nat \ {0}
    /\ FailureBound \in Nat /\ FailureBound >= FailureThreshold

VARIABLES
    state,              \* StateClosed, StateOpen, StateHalfOpen
    failureCount, successCount,
    timedOut,           \* more than openTimeout since lastFailureAt
    call,               \* per caller: "idle", "allowed", "recorded"
    backendUp,          \* the callee answers
    probes              \* history: successes since the breaker was half open

breakerVars == <<state, failureCount, successCount, timedOut, call, backendUp, probes>>

BreakerInit ==
    /\ state = "closed" /\ failureCount = 0 /\ successCount = 0 /\ timedOut = TRUE
    /\ call = [c \in Callers |-> "idle"] /\ backendUp \in BOOLEAN /\ probes = 0

\* Mutant: an open breaker never lets a caller probe.
AllowClosedOnly(c) ==
    /\ call[c] = "idle" /\ state # "open"
    /\ call' = [call EXCEPT ![c] = "allowed"]
    /\ UNCHANGED <<state, failureCount, successCount, timedOut, backendUp, probes>>

\* Allow: an open breaker whose timeout is over lets the caller probe.
Allow(c) ==
    /\ call[c] = "idle"
    /\ state = "open" => timedOut
    /\ call' = [call EXCEPT ![c] = "allowed"]
    /\ IF state = "open"
         THEN state' = "half-open" /\ successCount' = 0 /\ probes' = 0
         ELSE UNCHANGED <<state, successCount, probes>>
    /\ UNCHANGED <<failureCount, timedOut, backendUp>>

Closes == state = "half-open" /\ successCount + 1 >= SuccessThreshold

RecordSuccess(c) ==
    /\ call[c] # "idle" /\ backendUp
    /\ call' = [call EXCEPT ![c] = "recorded"]
    /\ failureCount' = 0
    /\ state' = IF Closes THEN "closed" ELSE state
    /\ successCount' = IF Closes THEN 0
                       ELSE IF state = "half-open" THEN successCount + 1 ELSE successCount
    /\ probes' = IF state = "half-open" THEN probes + 1 ELSE probes
    /\ UNCHANGED <<timedOut, backendUp>>

\* Mutant: one failure too many is let pass.
TripsLate == state = "half-open" \/ (state = "closed" /\ failureCount >= FailureThreshold)

Trips == state = "half-open" \/ (state = "closed" /\ failureCount + 1 >= FailureThreshold)

\* A failure reported while the breaker is open already counts and restarts
\* the timeout.
RecordFailure(c) ==
    /\ call[c] # "idle" /\ ~backendUp /\ failureCount < FailureBound
    /\ call' = [call EXCEPT ![c] = "recorded"]
    /\ failureCount' = failureCount + 1
    /\ successCount' = 0
    /\ timedOut' = FALSE
    /\ state' = IF Trips THEN "open" ELSE state
    /\ UNCHANGED <<backendUp, probes>>

\* The job is over: an outcome was recorded, or the error was terminal.
CallEnds(c) ==
    /\ call[c] = "recorded" \/ (call[c] = "allowed" /\ ~backendUp)
    /\ call' = [call EXCEPT ![c] = "idle"]
    /\ UNCHANGED <<state, failureCount, successCount, timedOut, backendUp, probes>>

TimeoutPasses ==
    /\ ~timedOut /\ timedOut' = TRUE
    /\ UNCHANGED <<state, failureCount, successCount, call, backendUp, probes>>

BackendChanges ==
    /\ backendUp' = ~backendUp
    /\ UNCHANGED <<state, failureCount, successCount, timedOut, call, probes>>

BreakerNext ==
    \/ \E c \in Callers : Allow(c) \/ RecordSuccess(c) \/ RecordFailure(c) \/ CallEnds(c)
    \/ TimeoutPasses
    \/ BackendChanges

\* The workers go on taking jobs, the callee answers and time passes.
BreakerFairness ==
    /\ \A c \in Callers : /\ WF_breakerVars(Allow(c))
                          /\ WF_breakerVars(RecordSuccess(c))
                          /\ WF_breakerVars(CallEnds(c))
    /\ WF_breakerVars(TimeoutPasses)

BreakerSpec == BreakerInit /\ [][BreakerNext]_breakerVars /\ BreakerFairness
-----------------------------------------------------------------------------
\* A closed breaker has seen fewer than FailureThreshold failures in a row,
\* whatever late outcomes were recorded while it was open or half open; and a
\* half-open one has counted exactly the successes recorded since it became so
\* (RecordSuccess, RecordFailure and the resets of setState).
CountsMeetState ==
    /\ state = "closed" => failureCount < FailureThreshold
    /\ state = "half-open" => successCount = probes /\ successCount < SuccessThreshold
    /\ state # "half-open" => successCount = 0

\* Once the callee stays up the breaker comes back to normal operation and
\* stays there: late failures cannot keep it open for ever.
Recovers == <>[]backendUp => <>[](state = "closed")
=============================================================================
