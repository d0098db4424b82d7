---------------------------- MODULE CircuitBreaker ---------------------------
(***************************************************************************)
(* The three-state circuit breaker the two gateways share: one record per   *)
(* guarded backend, every operation atomic under the breaker's mutex.       *)
(*                                                                          *)
(* Source: services/inference-gateway/internal/domain/circuit_breaker.go    *)
(* (services/ai-gateway/internal/domain/circuit_breaker.go is the same      *)
(* machine).  lastTransition is kept as the ticks since, up to              *)
(* ResetTimeout: nothing tells a longer time apart.                         *)
(***************************************************************************)
EXTENDS Naturals

CONSTANTS
    FailureThreshold,   \* consecutive failures that trip a closed breaker
    SuccessThreshold,   \* consecutive probe successes that close it
    MaxProbes,          \* calls admitted at once in HALF_OPEN
    ResetTimeout        \* ticks an open breaker refuses

ASSUME BreakerAssumption ==
    /\ FailureThreshold \in Nat \ {0} /\ SuccessThreshold \in Nat \ {0}
    /\ MaxProbes \in Nat \ {0} /\ ResetTimeout \in Nat \ {0}

Breakers ==
    [state : {"closed", "open", "half"}, fails : 0..FailureThreshold - 1, succ : 0..SuccessThreshold - 1,
     inFlight : 0..MaxProbes, age : 0..ResetTimeout]

newCircuitBreaker == [state |-> "closed", fails |-> 0, succ |-> 0, inFlight |-> 0, age |-> 0]

\* Every transition restarts the clock and zeroes the counters.
TransitionTo(b, s) == [newCircuitBreaker EXCEPT !.state = s]

MaybeHalfOpen(b) == IF b.state = "open" /\ b.age >= ResetTimeout THEN TransitionTo(b, "half") ELSE b

\* Allow on a breaker whose due half-opening has been realised: whether the call may
\* proceed, and the breaker with its probe slot taken.
Allowed(b) == b.state = "closed" \/ (b.state = "half" /\ b.inFlight < MaxProbes)
Reserve(b) == IF b.state = "half" /\ b.inFlight < MaxProbes THEN [b EXCEPT !.inFlight = @ + 1] ELSE b

Release(b) == [b EXCEPT !.inFlight = IF @ > 0 THEN @ - 1 ELSE 0]

RecordSuccess(b) ==
    CASE b.state = "closed" -> [b EXCEPT !.fails = 0]
      [] b.state = "half"   -> IF b.succ + 1 >= SuccessThreshold THEN TransitionTo(b, "closed")
                               ELSE [Release(b) EXCEPT !.succ = @ + 1]
      [] OTHER              -> b

RecordFailure(b) ==
    CASE b.state = "closed" -> IF b.fails + 1 >= FailureThreshold THEN TransitionTo(b, "open")
                               ELSE [b EXCEPT !.fails = @ + 1]
      [] b.state = "half"   -> TransitionTo(b, "open")
      [] OTHER              -> b

\* The clock moves on.
Aged(b) == [b EXCEPT !.age = IF @ < ResetTimeout THEN @ + 1 ELSE @]
=============================================================================
