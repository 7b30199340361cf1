---------------------------- MODULE CircuitBreaker ----------------------------
(***************************************************************************)
(* The circuit breaker in front of POST /sync/batch: acquire, the batch,   *)
(* then record_success or record_failure.  Each of the three runs under    *)
(* the breaker's lock, the batch itself does not, so a call may be judged  *)
(* in another state than the one that admitted it.                         *)
(***************************************************************************)
EXTENDS Naturals

CONSTANTS Calls,             \* batch requests in flight
          FailureThreshold,  \* failures before opening
          SuccessThreshold,  \* successes to close from half-open
          MaxProbes,         \* half_open_max_calls
          MaxDropped         \* bound: requests cancelled while the batch runs

ASSUME BreakerAssumption ==
    /\ FailureThreshold \in Nat \ {0} /\ SuccessThreshold \in Nat \ {0}
    /\ MaxProbes \in Nat \ {0} /\ MaxDropped \in Nat

VARIABLES circuit,    \* _state
          failures,   \* _failure_count
          successes,  \* _success_count
          probes,     \* _half_open_calls
          waited,     \* timeout_seconds since _last_failure_time
          healthy,    \* do batches succeed (the database answers)
          running,    \* calls that were admitted and have not recorded an outcome
          dropped     \* calls that never will

breakerVars == <<circuit, failures, successes, probes, waited, healthy, running, dropped>>

\* The counters stay below their thresholds except the failures counted while open.
BreakerTypeOK ==
    /\ circuit \in {"closed", "open", "half_open"}
    /\ failures \in 0..FailureThreshold
    /\ successes \in 0..(SuccessThreshold - 1)
    /\ probes \in 0..MaxProbes
    /\ waited \in BOOLEAN /\ healthy \in BOOLEAN
    /\ running \subseteq Calls /\ dropped \in 0..MaxDropped

BreakerInit ==
    /\ circuit = "closed"
    /\ failures = 0 /\ successes = 0 /\ probes = 0 /\ dropped = 0
    /\ waited = FALSE /\ healthy \in BOOLEAN
    /\ running = {}

\* _transition_to with _reset_counts
Transition(to) ==
    /\ circuit' = to
    /\ failures' = 0 /\ successes' = 0

\* acquire: closed admits, open admits the first call after the timeout as a probe,
\* half-open admits while a slot is free
Acquire(c) ==
    /\ c \notin running
    /\ \/ circuit = "closed" /\ UNCHANGED <<circuit, failures, successes, probes>>
       \/ circuit = "open" /\ waited /\ Transition("half_open") /\ probes' = 1
       \/ /\ circuit = "half_open" /\ probes < MaxProbes
          /\ probes' = probes + 1
          /\ UNCHANGED <<circuit, failures, successes>>
    /\ running' = running \cup {c}
    /\ UNCHANGED <<waited, healthy, dropped>>

\* mutant: a successful probe keeps its slot
SlotAfter(n) == n
\* max(0, _half_open_calls - 1)
SlotFreed(n) == IF n > 0 THEN n - 1 ELSE 0

RecordSuccess(c) ==
    /\ c \in running /\ healthy
    /\ \/ circuit = "half_open" /\ successes + 1 >= SuccessThreshold
          /\ Transition("closed") /\ probes' = 0
       \/ circuit = "half_open" /\ successes + 1 < SuccessThreshold
          /\ successes' = successes + 1 /\ probes' = SlotFreed(probes)
          /\ UNCHANGED <<circuit, failures>>
       \/ circuit = "closed" /\ failures' = 0 /\ UNCHANGED <<circuit, successes, probes>>
       \/ circuit = "open" /\ UNCHANGED <<circuit, failures, successes, probes>>
    /\ running' = running \ {c}
    /\ UNCHANGED <<waited, healthy, dropped>>

\* A failure while open does not move the timer; its count is saturated here, being
\* reset before it is read again.
RecordFailure(c) ==
    /\ c \in running /\ ~healthy
    /\ \/ circuit = "half_open" /\ Transition("open") /\ probes' = 0 /\ waited' = FALSE
       \/ /\ circuit = "closed"
          /\ failures' = failures + 1 /\ waited' = FALSE
          /\ circuit' = IF failures' >= FailureThreshold THEN "open" ELSE "closed"
          /\ UNCHANGED <<successes, probes>>
       \/ /\ circuit = "open"
          /\ failures' = IF failures < FailureThreshold THEN failures + 1 ELSE failures
          /\ UNCHANGED <<circuit, successes, probes, waited>>
    /\ running' = running \ {c}
    /\ UNCHANGED <<healthy, dropped>>

\* the client goes away: CancelledError is not an Exception, nothing is recorded
Drop(c) ==
    /\ c \in running /\ dropped < MaxDropped
    /\ dropped' = dropped + 1
    /\ running' = running \ {c}
    /\ UNCHANGED <<circuit, failures, successes, probes, waited, healthy>>

TimeoutPasses ==
    /\ circuit = "open" /\ ~waited /\ waited' = TRUE
    /\ UNCHANGED <<circuit, failures, successes, probes, healthy, running, dropped>>

HealthChanges ==
    /\ healthy' = ~healthy
    /\ UNCHANGED <<circuit, failures, successes, probes, waited, running, dropped>>

BreakerNext ==
    \/ \E c \in Calls : Acquire(c) \/ RecordSuccess(c) \/ RecordFailure(c) \/ Drop(c)
    \/ TimeoutPasses \/ HealthChanges

\* Devices keep retrying their queue, every batch ends, time passes.
BreakerFairness ==
    /\ \A c \in Calls : /\ WF_breakerVars(Acquire(c))
                        /\ WF_breakerVars(RecordSuccess(c) \/ RecordFailure(c))
    /\ WF_breakerVars(TimeoutPasses)

BreakerSpec == BreakerInit /\ [][BreakerNext]_breakerVars /\ BreakerFairness

\* Once the database answers again the circuit closes for good, also when late answers of
\* calls from before are counted among the probes, as long as fewer probes are dropped
\* than there are slots.  (A dropped probe keeps its slot; with all of them lost no call
\* is admitted any more and the circuit stays half open.)
Recovers == <>[]healthy => <>[](circuit = "closed")
==============================================================================
