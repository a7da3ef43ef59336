--------------------------- MODULE CircuitBreaker ---------------------------
(***************************************************************************)
(* modules/storage/src/circuit-breaker/circuit-breaker.ts: the breaker of  *)
(* one provider.  execute() decides before the awaited call and books the  *)
(* outcome after it, on whatever state the breaker has by then, so the two *)
(* halves are separate: Enter before, OnSuccess or OnFailure after.  A     *)
(* module that EXTENDS this one makes the calls in between.                *)
(***************************************************************************)
EXTENDS Naturals

CONSTANTS
  FailureThreshold,   \* failures that open a closed breaker
  SuccessThreshold,   \* successes that close a half-open one
  HalfOpenMaxCalls,   \* config.halfOpenMaxCalls
  OpenTicks,          \* config.timeout in ticks
  Null                \* lastFailureTime = null

\* The defaults are 5, 2 and 3; the storage service passes only the first.
ASSUME BreakerAssumption ==
  /\ FailureThreshold \in Nat \ {0}
  /\ SuccessThreshold \in Nat \ {0}
  /\ HalfOpenMaxCalls \in Nat
  /\ SuccessThreshold <= HalfOpenMaxCalls
  /\ OpenTicks \in Nat
  /\ Null \notin Nat

VARIABLES
  state,           \* "closed", "open", "half-open"
  failureCount,
  successCount,
  halfOpenCalls,
  sinceFailure     \* ticks since lastFailureTime, up to OpenTicks, or Null

breakerVars == <<state, failureCount, successCount, halfOpenCalls, sinceFailure>>

BreakerTypeOK ==
  /\ state \in {"closed", "open", "half-open"}
  /\ failureCount \in 0 .. FailureThreshold
  /\ successCount \in Nat
  /\ halfOpenCalls \in Nat
  /\ sinceFailure \in (0 .. OpenTicks) \cup {Null}

BreakerInit ==
  /\ state = "closed"
  /\ failureCount = 0
  /\ successCount = 0
  /\ halfOpenCalls = 0
  /\ sinceFailure = Null

TransitionToClosed ==
  /\ state' = "closed"
  /\ failureCount' = 0
  /\ successCount' = 0
  /\ halfOpenCalls' = 0
  /\ sinceFailure' = Null

TransitionToOpen ==
  /\ state' = "open"
  /\ sinceFailure' = 0
  /\ successCount' = 0
  /\ halfOpenCalls' = 0

TransitionToHalfOpen ==
  /\ state' = "half-open"
  /\ successCount' = 0
  /\ halfOpenCalls' = 0
  /\ UNCHANGED <<failureCount, sinceFailure>>

ShouldAttemptHalfOpen == sinceFailure # Null /\ sinceFailure >= OpenTicks

\* execute() throws without calling the operation.
Blocked ==
  \/ state = "open" /\ ~ShouldAttemptHalfOpen
  \/ state = "half-open" /\ halfOpenCalls >= HalfOpenMaxCalls

\* execute() up to the await of the operation.
Enter ==
  /\ ~Blocked
  /\ \/ state = "open" /\ TransitionToHalfOpen
     \/ state # "open" /\ UNCHANGED breakerVars

\* The call resolved: the counters of the state the breaker is in now.
OnSuccess ==
  \/ /\ state = "half-open"
     /\ successCount + 1 >= SuccessThreshold
     /\ TransitionToClosed
  \/ /\ state = "half-open"
     /\ successCount + 1 < SuccessThreshold
     /\ successCount' = successCount + 1
     /\ halfOpenCalls' = halfOpenCalls + 1
     /\ UNCHANGED <<state, failureCount, sinceFailure>>
  \/ /\ state = "closed"
     /\ failureCount' = 0
     /\ UNCHANGED <<state, successCount, halfOpenCalls, sinceFailure>>
  \/ state = "open" /\ UNCHANGED breakerVars

\* The call rejected with an error that is the provider's fault.
OnFailure ==
  \/ /\ state = "half-open"
     /\ TransitionToOpen
     /\ UNCHANGED failureCount
  \/ /\ state = "closed"
     /\ failureCount' = failureCount + 1
     /\ IF failureCount + 1 >= FailureThreshold
          THEN TransitionToOpen
          ELSE /\ sinceFailure' = 0
               /\ UNCHANGED <<state, successCount, halfOpenCalls>>
  \/ state = "open" /\ UNCHANGED breakerVars

\* Date.now() moves on.
BreakerTick ==
  /\ sinceFailure' = IF sinceFailure # Null /\ sinceFailure < OpenTicks
                       THEN sinceFailure + 1 ELSE sinceFailure
  /\ UNCHANGED <<state, failureCount, successCount, halfOpenCalls>>

\* What the counters mean in each state.
BreakerCounts ==
  /\ state = "closed" => /\ failureCount < FailureThreshold
                         /\ successCount = 0 /\ halfOpenCalls = 0
  /\ state = "open" => sinceFailure # Null
  /\ state = "half-open" => /\ halfOpenCalls = successCount
                            /\ successCount < SuccessThreshold

\* A breaker always has a way back.  An open one knows when it opened, so the
\* timeout ends (shouldAttemptHalfOpen is false for ever without a time), and a
\* half-open one always admits another call: nothing but a call's outcome leaves
\* that state, so a half-open breaker out of calls would refuse the provider until
\* the process restarts.  Calls admitted before it opened report into it late.
NeverWedged ==
  /\ state = "open" => sinceFailure # Null
  /\ state = "half-open" => halfOpenCalls < HalfOpenMaxCalls
=============================================================================
