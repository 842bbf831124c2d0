--------------------------- MODULE CircuitBreaker ---------------------------
(***************************************************************************)
(* A CircuitBreaker shared by concurrent calls to one dependency (ESP32    *)
(* commands or queries, LiDAR, camera, MCP tools, cloud exports).  A call  *)
(* is admitted or rejected, runs outside the lock, and reports its result; *)
(* a cancelled call reports nothing.                                       *)
(***************************************************************************)
EXTENDS Breaker, FiniteSets

CONSTANT Caller   \* tasks that may have a call in flight

ASSUME CallerFinite == IsFiniteSet(Caller)

VARIABLES
    cb,       \* _state and the three counters
    cooled,   \* recovery_timeout_s has elapsed since _last_failure_time
    flight,   \* history: whether c's call was admitted in the present period
              \* of the circuit ("fresh"), in an earlier one ("old"), or "none"
    proven,   \* history: fresh calls that succeeded in this half-open period
    lost,     \* history: fresh calls cancelled in this half-open period
    healthy   \* the dependency answers

breakerVars == <<cb, cooled, flight, proven, lost>>
vars == <<breakerVars, healthy>>

BreakerTypeOK ==
    /\ cb \in BreakerState
    /\ cb.state = "closed" => cb.failures < Threshold
    /\ cb.successes < MaxProbes
    /\ cooled \in {"yes", "no"}
    /\ flight \in [Caller -> {"none", "fresh", "old"}]
    /\ proven \in Nat /\ proven <= cb.successes
    /\ lost \in Nat

TypeOK == BreakerTypeOK /\ healthy \in {"yes", "no"}

BreakerInit ==
    /\ cb = Closed
    /\ cooled = "yes"
    /\ flight = [c \in Caller |-> "none"]
    /\ proven = 0 /\ lost = 0

(* A change of state begins a new period. *)
Aged == [c \in Caller |-> IF flight[c] = "none" THEN "none" ELSE "old"]

Track(c, to, n) ==
    IF cb'.state = cb.state
    THEN flight' = [flight EXCEPT ![c] = to] /\ proven' = n /\ UNCHANGED lost
    ELSE flight' = [Aged EXCEPT ![c] = to] /\ proven' = 0 /\ lost' = 0

(* call(), up to the await; a rejected call changes nothing. *)
Begin(c) ==
    /\ flight[c] = "none"
    /\ LET now == Polled(cb, cooled = "yes") IN
        Admits(now) /\ cb' = Admitted(now)
    /\ Track(c, "fresh", proven)
    /\ UNCHANGED cooled

(* call(), when its function has returned. *)
Succeed(c) ==
    /\ flight[c] # "none"
    /\ cb' = Succeeded(cb)
    /\ Track(c, "none", IF cb.state = "half_open" /\ flight[c] = "fresh"
                        THEN proven + 1 ELSE proven)
    /\ UNCHANGED cooled

(* Any failure, a late one too, restarts the recovery timeout. *)
Fail(c) ==
    /\ flight[c] # "none"
    /\ cb' = Failed(cb)
    /\ cooled' = "no"
    /\ Track(c, "none", proven)

(* A call is cancelled (tick_timeout_s, wait_for, shutdown). *)
Cancel(c) ==
    /\ flight[c] # "none"
    /\ flight' = [flight EXCEPT ![c] = "none"]
    /\ lost' = IF cb.state = "half_open" /\ flight[c] = "fresh" THEN lost + 1 ELSE lost
    /\ UNCHANGED <<cb, cooled, proven>>

Cool ==
    /\ cooled = "no"
    /\ cooled' = "yes"
    /\ UNCHANGED <<cb, flight, proven, lost>>

(* reset() *)
Reset ==
    /\ cb # Closed
    /\ cb' = Closed
    /\ flight' = Aged /\ proven' = 0 /\ lost' = 0
    /\ UNCHANGED cooled

BreakerNext ==
    \/ \E c \in Caller : Begin(c) \/ Succeed(c) \/ Fail(c) \/ Cancel(c)
    \/ Cool \/ Reset

(* The breaker, whatever becomes of the calls. *)
BreakerSpec == BreakerInit /\ [][BreakerNext]_breakerVars
-----------------------------------------------------------------------------
(* The breaker of a dependency that answers every call, or none. *)

Init == BreakerInit /\ healthy = "yes"

Weather ==
    /\ healthy' \in {"yes", "no"} \ {healthy}
    /\ UNCHANGED breakerVars

Steady(A) == A /\ UNCHANGED healthy

Finish(c) ==
    \/ healthy = "yes" /\ Succeed(c)
    \/ healthy = "no" /\ Fail(c)

Next ==
    \/ \E c \in Caller : Steady(Begin(c)) \/ Steady(Finish(c)) \/ Steady(Cancel(c))
    \/ Steady(Cool) \/ Steady(Reset) \/ Weather

Spec == Init /\ [][Next]_vars

(* The callers keep calling, calls end, the clock runs; nobody is obliged  *)
(* to cancel, and nobody resets.                                           *)
Fairness ==
    /\ WF_vars(Steady(Cool))
    /\ \A c \in Caller : WF_vars(Steady(Begin(c))) /\ WF_vars(Steady(Finish(c)))

FairSpec == Spec /\ Fairness
-----------------------------------------------------------------------------
(***************************************************************************)
(* While the circuit is half-open every slot taken is a call of the period *)
(* still running, a success of one, or was lost with a cancelled one: none *)
(* is left over from an earlier period, none is taken by the calls of an   *)
(* earlier period that end late.                                           *)
(***************************************************************************)
SlotsAccounted ==
    cb.state = "half_open" =>
        cb.probes = Cardinality({c \in Caller : flight[c] = "fresh"}) + proven + lost

(***************************************************************************)
(* Once the dependency stays healthy the circuit closes for good ("CLOSED  *)
(* -> OPEN -> HALF_OPEN -> CLOSED", circuit_breaker.py:3), whatever calls  *)
(* were in flight when it opened, unless a cancelled probe took its slot   *)
(* along: with all slots lost it stays half-open until reset().            *)
(***************************************************************************)
RecoversUnlessLost ==
    <>[](healthy = "yes") => <>[](cb.state = "closed" \/ lost > 0)
=============================================================================
