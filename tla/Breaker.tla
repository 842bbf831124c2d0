------------------------------- MODULE Breaker -------------------------------
(***************************************************************************)
(* The bookkeeping of CircuitBreaker                                       *)
(* (src/src/mousedroid/resilience/circuit_breaker.py) as operators on its  *)
(* fields.  Its lock is never held across an await, so each of them is one *)
(* step of the event loop.                                                 *)
(***************************************************************************)
EXTENDS Naturals

CONSTANTS
    Threshold,  \* failure_threshold
    MaxProbes   \* half_open_max_calls

ASSUME BreakerNumbers == Threshold \in Nat \ {0} /\ MaxProbes \in Nat \ {0}

BreakerState ==
    [state : {"closed", "open", "half_open"}, failures : 0..Threshold,
     successes : 0..MaxProbes, probes : 0..MaxProbes]

Closed == [state |-> "closed", failures |-> 0, successes |-> 0, probes |-> 0]

(* What _maybe_transition_to_half_open clears on its way. *)
SlotsKept(cb) == [cb EXCEPT !.successes = 0]   \* mutant: keeps _half_open_calls
FreshPeriod(cb) == [cb EXCEPT !.successes = 0, !.probes = 0]

Polled(cb, cooled) ==
    IF cb.state = "open" /\ cooled
    THEN [FreshPeriod(cb) EXCEPT !.state = "half_open"]
    ELSE cb

(* The two tests of call() that raise CircuitOpenError. *)
AdmitsTooFew(cb) ==   \* mutant: the last slot is never given out
    \/ cb.state = "closed"
    \/ cb.state = "half_open" /\ cb.probes + 1 < MaxProbes
Admits(cb) ==
    \/ cb.state = "closed"
    \/ cb.state = "half_open" /\ cb.probes < MaxProbes

Admitted(cb) ==
    IF cb.state = "half_open" THEN [cb EXCEPT !.probes = @ + 1] ELSE cb

(* _record_success *)
Succeeded(cb) ==
    CASE cb.state = "closed" -> [cb EXCEPT !.failures = 0]
      [] cb.state = "half_open" ->
            IF cb.successes + 1 >= MaxProbes THEN Closed
            ELSE [cb EXCEPT !.successes = @ + 1]
      [] OTHER -> cb

(* _record_failure *)
Trips(cb) == cb.failures + 1 >= Threshold

Failed(cb) ==
    CASE cb.state = "closed" ->
            [cb EXCEPT !.failures = @ + 1, !.state = IF Trips(cb) THEN "open" ELSE @]
      [] cb.state = "half_open" -> [cb EXCEPT !.state = "open"]
      [] OTHER -> cb
=============================================================================
