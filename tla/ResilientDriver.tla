--------------------------- MODULE ResilientDriver ---------------------------
(***************************************************************************)
(* The command side of ResilientESP32Driver                                *)
(* (src/src/mousedroid/resilience/resilient_driver.py): send_velocity is   *)
(* retry_async inside a circuit breaker, under a caller that gives up at a *)
(* deadline of its own (tick_timeout_s, the MCP request timeout), while    *)
(* emergency_stop goes straight to the port.                               *)
(*                                                                         *)
(* Nothing is awaited between a call, or the end of a backoff, and the     *)
(* driver's queue for the port, and SerialDriver's StopIsLast is that the  *)
(* port serves the queue in order: an attempt takes effect as it is made.  *)
(***************************************************************************)
EXTENDS CircuitBreaker   \* of _cb_command; "healthy" is the serial port

CONSTANTS
    \* Caller: the control tick and the MCP motor tools
    MaxAttempts, \* bound on retry.max_attempts
    Patience     \* Patience[c]: the backoffs that fit in c's deadline

ASSUME AttemptsPositive == MaxAttempts \in Nat \ {0}
ASSUME PatienceTyped == Patience \in [Caller -> Nat]

VARIABLES
    attempts, \* retry.max_attempts, fixed by the configuration
    at,      \* at[c]: "idle", or where c's call is: "sent", "failed", "backoff"
    tries,   \* tries[c]: attempts the call has made
    before,  \* history: callers whose call is older than the latest stop
    wheels   \* "still", "moving", or "resumed": moved by a call older than a stop

callVars == <<attempts, at, tries, before, wheels>>
driverVars == <<vars, callVars>>

DriverTypeOK ==
    /\ TypeOK
    /\ attempts \in 1..MaxAttempts
    /\ at \in [Caller -> {"idle", "sent", "failed", "backoff"}]
    /\ tries \in [Caller -> Nat]
    /\ before \subseteq Caller
    /\ wheels \in {"still", "moving", "resumed"}

DriverInit ==
    /\ Init
    /\ attempts \in 1..MaxAttempts
    /\ at = [c \in Caller |-> "idle"]
    /\ tries = [c \in Caller |-> 0]
    /\ before = {}
    /\ wheels = "still"

(* One attempt of the inner driver's send_velocity. *)
Attempt(c, n, old) ==
    /\ tries' = [tries EXCEPT ![c] = n]
    /\ at' = [at EXCEPT ![c] = IF healthy = "yes" THEN "sent" ELSE "failed"]
    /\ wheels' = CASE healthy = "no" -> wheels
                   [] healthy = "yes" /\ old -> "resumed"
                   [] OTHER -> "moving"

SendVelocity(c) ==
    /\ at[c] = "idle"
    /\ Begin(c)
    /\ Attempt(c, 1, FALSE)
    /\ before' = before \ {c}
    /\ UNCHANGED <<attempts, healthy>>

Return(c) ==
    /\ at[c] = "sent"
    /\ at' = [at EXCEPT ![c] = "idle"]
    /\ Succeed(c)
    /\ UNCHANGED <<attempts, healthy, tries, before, wheels>>

OnceMore(c) == tries[c] <= attempts   \* mutant: range(max_attempts + 1)
Retries(c) == tries[c] < attempts

BackOff(c) ==
    /\ at[c] = "failed" /\ Retries(c)
    /\ at' = [at EXCEPT ![c] = "backoff"]
    /\ UNCHANGED <<vars, attempts, tries, before, wheels>>

(* RetryExhaustedError, like any exception, reaches the breaker. *)
RetryErrorSpared(c) ==   \* mutant: the breaker counts only port errors
    /\ cooled' = "no" /\ cb' = cb
    /\ Track(c, "none", proven)
Reported(c) == Fail(c)

Exhaust(c) ==
    /\ at[c] = "failed" /\ ~Retries(c)
    /\ at' = [at EXCEPT ![c] = "idle"]
    /\ Reported(c)
    /\ UNCHANGED <<attempts, healthy, tries, before, wheels>>

Resend(c) ==
    /\ at[c] = "backoff" /\ tries[c] <= Patience[c]
    /\ Attempt(c, tries[c] + 1, c \in before)
    /\ UNCHANGED <<vars, attempts, before>>

(* The caller's deadline cancels a backoff that outlasts it, or an attempt *)
(* that has been sent and not yet returned: the breaker records nothing.   *)
Deadline(c) ==
    /\ at[c] = "sent" \/ (at[c] = "backoff" /\ tries[c] > Patience[c])
    /\ at' = [at EXCEPT ![c] = "idle"]
    /\ Cancel(c)
    /\ UNCHANGED <<attempts, healthy, tries, before, wheels>>

EmergencyStop ==
    /\ healthy = "yes"
    /\ wheels' = "still"
    /\ before' = Caller
    /\ UNCHANGED <<vars, attempts, at, tries>>

RecoveryElapses == Steady(Cool) /\ UNCHANGED callVars

PortChanges == Weather /\ UNCHANGED callVars

Proceed(c) == Return(c) \/ BackOff(c) \/ Exhaust(c) \/ Resend(c) \/ Deadline(c)

DriverNext ==
    \/ \E c \in Caller : SendVelocity(c) \/ Proceed(c)
    \/ EmergencyStop \/ RecoveryElapses \/ PortChanges

DriverSpec == DriverInit /\ [][DriverNext]_driverVars

(* The tick sends a velocity again and again, calls proceed, time passes. *)
DriverFairness ==
    /\ WF_driverVars(RecoveryElapses)
    /\ \A c \in Caller : WF_driverVars(SendVelocity(c)) /\ WF_driverVars(Proceed(c))

DriverFairSpec == DriverSpec /\ DriverFairness
-----------------------------------------------------------------------------
(***************************************************************************)
(* While calls are not retried (config/jetson_production.yaml), no         *)
(* velocity asked for before an emergency_stop moves the wheels after it.  *)
(* With retries a backoff outlives the stop and resends.                   *)
(***************************************************************************)
StopIsLast == attempts = 1 => wheels # "resumed"

(***************************************************************************)
(* A port that stays dead opens the command circuit ("cumulative failures  *)
(* exceeded cfg.circuit_breaker.failure_threshold",                        *)
(* docs/playbooks/esp32-fail.md:65).  It takes a caller whose deadline     *)
(* outlasts the retries: a cancelled call counts as no failure.            *)
(***************************************************************************)
DeadPortOpens == <>[](healthy = "no") => <>[](cb.state # "closed")
=============================================================================
