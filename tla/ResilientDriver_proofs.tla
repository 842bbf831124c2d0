----------------------- MODULE ResilientDriver_proofs -----------------------
(***************************************************************************)
(* The circuit breaker, for every threshold, number of probes and finite   *)
(* set of callers: its counters stay within their bounds, and every slot   *)
(* of a half-open circuit is accounted for.  The command path, for every   *)
(* deadline and number of attempts: it uses its circuit as a breaker, and  *)
(* without retries a stop is the last word.                                *)
(***************************************************************************)
EXTENDS ResilientDriver, FiniteSetTheorems, TLAPS
-----------------------------------------------------------------------------
(* The operators of Breaker, for every threshold and number of probes.     *)

(* What a consistent breaker looks like. *)
Consistent(b) ==
    /\ b \in BreakerState
    /\ b.state = "closed" => b.failures < Threshold
    /\ b.successes < MaxProbes

(* Every operation on the breaker's fields keeps it consistent. *)
LEMMA ClosedConsistent == Consistent(Closed)
BY BreakerNumbers DEF Consistent, BreakerState, Closed

LEMMA PolledConsistent ==
    ASSUME NEW b, Consistent(b), NEW over
    PROVE  Consistent(Polled(b, over))
<1>1. CASE b.state = "open" /\ over
  <2>1. Polled(b, over) = [FreshPeriod(b) EXCEPT !.state = "half_open"]
    BY <1>1, Zenon DEF Polled
  <2>2. Polled(b, over) = [state |-> "half_open", failures |-> b.failures,
                           successes |-> 0, probes |-> 0]
    BY <2>1 DEF FreshPeriod, Consistent, BreakerState
  <2> QED
    BY <2>2, BreakerNumbers DEF Consistent, BreakerState
<1>2. CASE ~(b.state = "open" /\ over)
  BY <1>2 DEF Polled
<1> QED
  BY <1>1, <1>2

LEMMA AdmittedConsistent ==
    ASSUME NEW b, Consistent(b), Admits(b)
    PROVE  Consistent(Admitted(b))
BY BreakerNumbers DEF Consistent, BreakerState, Admitted, Admits

LEMMA SucceededConsistent ==
    ASSUME NEW b, Consistent(b)
    PROVE  Consistent(Succeeded(b))
BY BreakerNumbers, ClosedConsistent DEF Consistent, BreakerState, Succeeded

LEMMA FailedConsistent ==
    ASSUME NEW b, Consistent(b)
    PROVE  Consistent(Failed(b))
<1>1. CASE b.state = "closed"
  <2>1. Failed(b) = [b EXCEPT !.failures = @ + 1, !.state = IF Trips(b) THEN "open" ELSE @]
    BY <1>1 DEF Failed
  <2>2. b.failures + 1 \in 0..Threshold
    BY <1>1, BreakerNumbers DEF Consistent, BreakerState
  <2>3. CASE Trips(b)
    BY <1>1, <2>1, <2>2, <2>3 DEF Consistent, BreakerState
  <2>4. CASE ~Trips(b)
    <3>1. b.failures + 1 < Threshold
      BY <2>4, BreakerNumbers DEF Trips, Consistent, BreakerState
    <3> QED
      BY <1>1, <2>1, <2>2, <2>4, <3>1 DEF Consistent, BreakerState
  <2> QED
    BY <2>3, <2>4
<1>2. CASE b.state # "closed"
  BY <1>2 DEF Consistent, BreakerState, Failed
<1> QED
  BY <1>1, <1>2
-----------------------------------------------------------------------------
(* The circuit breaker, whatever becomes of its calls.                     *)

(* BreakerTypeOK, with the breaker's fields folded. *)
Typed ==
    /\ Consistent(cb)
    /\ cooled \in {"yes", "no"}
    /\ flight \in [Caller -> {"none", "fresh", "old"}]
    /\ proven \in Nat /\ proven <= cb.successes
    /\ lost \in Nat

LEMMA TypedIsTypeOK == Typed <=> BreakerTypeOK
BY DEF Typed, BreakerTypeOK, Consistent

(* Tracking a call keeps the history well-formed. *)
LEMMA TrackTyped ==
    ASSUME Typed, NEW c \in Caller, NEW to \in {"none", "fresh"},
           NEW n \in Nat, Track(c, to, n),
           Consistent(cb'), cb'.state = cb.state => n <= cb'.successes
    PROVE  /\ flight' \in [Caller -> {"none", "fresh", "old"}]
           /\ proven' \in Nat /\ proven' <= cb'.successes
           /\ lost' \in Nat
<1>1. cb'.successes \in Nat
  BY DEF Consistent, BreakerState
<1>2. Aged \in [Caller -> {"none", "fresh", "old"}]
  BY DEF Aged
<1> QED
  BY <1>1, <1>2 DEF Track, Typed

(* Every step keeps the types. *)
LEMMA TypedStep ==
    ASSUME Typed, [BreakerNext]_breakerVars
    PROVE  Typed'
<1> USE DEF Typed
<1>a. proven \in Nat /\ proven <= cb.successes /\ cb.successes \in Nat
  BY DEF Consistent, BreakerState
<1>1. ASSUME NEW c \in Caller, Begin(c) PROVE Typed'
  <2> DEFINE now == Polled(cb, cooled = "yes")
  <2>1. Consistent(now)
    BY PolledConsistent
  <2>2. Consistent(cb')
    BY <1>1, <2>1, AdmittedConsistent DEF Begin
  <2>3. cb'.state = cb.state => cb'.successes = cb.successes
    BY <1>1 DEF Begin, Polled, FreshPeriod, Admitted, Consistent, BreakerState
  <2> QED
    BY <1>1, <1>a, <2>2, <2>3, TrackTyped DEF Begin
<1>2. ASSUME NEW c \in Caller, Succeed(c) PROVE Typed'
  <2> DEFINE n == IF cb.state = "half_open" /\ flight[c] = "fresh"
                  THEN proven + 1 ELSE proven
  <2>1. Consistent(cb')
    BY <1>2, SucceededConsistent DEF Succeed
  <2>2. n \in Nat
    BY <1>a
  <2>3. cb'.state = cb.state => n <= cb'.successes
    BY <1>2, <1>a DEF Succeed, Succeeded, Closed, Consistent, BreakerState
  <2> QED
    BY <1>2, <2>1, <2>2, <2>3, TrackTyped DEF Succeed
<1>3. ASSUME NEW c \in Caller, Fail(c) PROVE Typed'
  <2>1. Consistent(cb')
    BY <1>3, FailedConsistent DEF Fail
  <2>2. cb'.successes = cb.successes
    BY <1>3 DEF Fail, Failed, Consistent, BreakerState
  <2> QED
    BY <1>3, <1>a, <2>1, <2>2, TrackTyped DEF Fail
<1>4. ASSUME NEW c \in Caller, Cancel(c) PROVE Typed'
  BY <1>4 DEF Cancel
<1>5. CASE Cool
  BY <1>5 DEF Cool
<1>6. CASE Reset
  BY <1>6, ClosedConsistent DEF Reset, Aged, Closed
<1>7. CASE UNCHANGED breakerVars
  BY <1>7 DEF breakerVars
<1> QED
  BY <1>1, <1>2, <1>3, <1>4, <1>5, <1>6, <1>7 DEF BreakerNext

LEMMA TypedAlways == BreakerSpec => []Typed
<1>1. BreakerInit => Typed
  BY ClosedConsistent DEF BreakerInit, Typed, Closed
<1> QED
  BY <1>1, TypedStep, PTL DEF BreakerSpec

-----------------------------------------------------------------------------
(* The calls admitted in the present period. *)
Fresh == {c \in Caller : flight[c] = "fresh"}

LEMMA FreshFinite == IsFiniteSet(Fresh) /\ Cardinality(Fresh) \in Nat
BY CallerFinite, FS_Subset, FS_CardinalityType DEF Fresh

(* A call admitted into the period adds one, a fresh call ending takes one. *)
LEMMA FreshGrows ==
    ASSUME Typed, NEW c \in Caller, flight[c] = "none",
           flight' = [flight EXCEPT ![c] = "fresh"]
    PROVE  Cardinality(Fresh') = Cardinality(Fresh) + 1
<1>1. Fresh' = Fresh \cup {c} /\ c \notin Fresh
  BY DEF Fresh, Typed
<1> QED
  BY <1>1, FreshFinite, FS_AddElement

LEMMA FreshShrinks ==
    ASSUME Typed, NEW c \in Caller, flight[c] = "fresh",
           flight' = [flight EXCEPT ![c] = "none"]
    PROVE  Cardinality(Fresh') = Cardinality(Fresh) - 1
<1>1. Fresh' = Fresh \ {c} /\ c \in Fresh
  BY DEF Fresh, Typed
<1> QED
  BY <1>1, FreshFinite, FS_RemoveElement

LEMMA FreshSame ==
    ASSUME Typed, NEW c \in Caller, flight[c] # "fresh",
           flight' = [flight EXCEPT ![c] = "none"]
    PROVE  Fresh' = Fresh
BY DEF Fresh, Typed

(* The first call of a period is alone in it. *)
LEMMA FreshFirst ==
    ASSUME Typed, NEW c \in Caller, flight' = [Aged EXCEPT ![c] = "fresh"]
    PROVE  Cardinality(Fresh') = 1
<1>1. Fresh' = {c}
  BY DEF Fresh, Aged, Typed
<1> QED
  BY <1>1, FS_Singleton

Accounted ==
    cb.state = "half_open" => cb.probes = Cardinality(Fresh) + proven + lost

(* Every step of a call settles its slot. *)
LEMMA AccountedStep ==
    ASSUME Typed, Accounted, [BreakerNext]_breakerVars
    PROVE  Accounted'
<1> USE DEF Typed, Accounted
<1>a. proven \in Nat /\ cb.probes \in Nat /\ Cardinality(Fresh) \in Nat /\ lost \in Nat
  BY FreshFinite DEF Consistent, BreakerState
<1>1. ASSUME NEW c \in Caller, Begin(c) PROVE Accounted'
  <2>1. CASE cb.state = "half_open"
    <3>1. cb' = [cb EXCEPT !.probes = @ + 1]
      BY <1>1, <2>1 DEF Begin, Polled, Admitted
    <3>2. cb'.state = cb.state /\ cb'.probes = cb.probes + 1
      BY <3>1 DEF Consistent, BreakerState
    <3>3. flight' = [flight EXCEPT ![c] = "fresh"] /\ proven' = proven /\ lost' = lost
      BY <1>1, <3>2 DEF Begin, Track
    <3>4. Cardinality(Fresh') = Cardinality(Fresh) + 1
      BY <1>1, <3>3, FreshGrows DEF Begin
    <3> QED
      BY <1>a, <2>1, <3>2, <3>3, <3>4
  <2>2. CASE cb.state # "half_open" /\ cb'.state = "half_open"
    <3>1. cb.state = "open" /\ cooled = "yes"
      BY <1>1, <2>2 DEF Begin, Polled, Admitted
    <3>2. cb'.probes = 1
      BY <1>1, <3>1 DEF Begin, Polled, FreshPeriod, Admitted, Consistent, BreakerState
    <3>3. flight' = [Aged EXCEPT ![c] = "fresh"] /\ proven' = 0 /\ lost' = 0
      BY <1>1, <2>2 DEF Begin, Track
    <3>4. Cardinality(Fresh') = 1
      BY <3>3, FreshFirst
    <3> QED
      BY <3>2, <3>3, <3>4
  <2>3. CASE cb'.state # "half_open"
    BY <2>3
  <2> QED
    BY <2>1, <2>2, <2>3
<1>2. ASSUME NEW c \in Caller, Succeed(c) PROVE Accounted'
  <2> SUFFICES ASSUME cb'.state = "half_open" PROVE Accounted'
    OBVIOUS
  <2>1. cb.state = "half_open" /\ cb'.probes = cb.probes
    BY <1>2 DEF Succeed, Succeeded, Closed, Consistent, BreakerState
  <2>2. flight' = [flight EXCEPT ![c] = "none"] /\ lost' = lost
    BY <1>2, <2>1 DEF Succeed, Track
  <2>3. CASE flight[c] = "fresh"
    <3>1. proven' = proven + 1
      BY <1>2, <2>1, <2>3 DEF Succeed, Track
    <3>2. Cardinality(Fresh') = Cardinality(Fresh) - 1
      BY <2>2, <2>3, FreshShrinks
    <3> QED
      BY <1>a, <2>1, <2>2, <3>1, <3>2
  <2>4. CASE flight[c] # "fresh"
    <3>1. proven' = proven
      BY <1>2, <2>1, <2>4 DEF Succeed, Track
    <3>2. Fresh' = Fresh
      BY <2>2, <2>4, FreshSame
    <3> QED
      BY <2>1, <2>2, <3>1, <3>2
  <2> QED
    BY <2>3, <2>4
<1>3. ASSUME NEW c \in Caller, Fail(c) PROVE Accounted'
  BY <1>3 DEF Fail, Failed, Consistent, BreakerState
<1>4. ASSUME NEW c \in Caller, Cancel(c) PROVE Accounted'
  <2>1. cb' = cb /\ proven' = proven /\ flight' = [flight EXCEPT ![c] = "none"]
    BY <1>4 DEF Cancel
  <2>2. CASE cb.state = "half_open" /\ flight[c] = "fresh"
    <3>1. lost' = lost + 1
      BY <1>4, <2>2 DEF Cancel
    <3>2. Cardinality(Fresh') = Cardinality(Fresh) - 1
      BY <2>1, <2>2, FreshShrinks
    <3> QED
      BY <1>a, <2>1, <2>2, <3>1, <3>2
  <2>3. CASE cb.state = "half_open" /\ flight[c] # "fresh"
    <3>1. lost' = lost
      BY <1>4, <2>3 DEF Cancel
    <3>2. Fresh' = Fresh
      BY <2>1, <2>3, FreshSame
    <3> QED
      BY <2>1, <2>3, <3>1, <3>2
  <2>4. CASE cb.state # "half_open"
    BY <2>1, <2>4
  <2> QED
    BY <2>2, <2>3, <2>4
<1>5. CASE Cool
  BY <1>5 DEF Cool, Fresh
<1>6. CASE Reset
  BY <1>6 DEF Reset, Closed
<1>7. CASE UNCHANGED breakerVars
  BY <1>7 DEF breakerVars, Fresh
<1> QED
  BY <1>1, <1>2, <1>3, <1>4, <1>5, <1>6, <1>7 DEF BreakerNext

(***************************************************************************)
(* A half-open circuit's slots are exactly its running probes, its counted *)
(* successes and the cancelled probes, under any interleaving of calls of  *)
(* this and of earlier periods, whichever of them succeed, fail or are     *)
(* cancelled: only cancellation can lose a slot.                           *)
(***************************************************************************)
THEOREM SlotsHeld == BreakerSpec => []SlotsAccounted
<1>1. BreakerInit => Accounted
  BY DEF BreakerInit, Accounted, Closed
<1>2. Accounted /\ Typed /\ [BreakerNext]_breakerVars => Accounted'
  BY AccountedStep
<1>3. Accounted => SlotsAccounted
  BY DEF Accounted, SlotsAccounted, Fresh
<1> QED
  BY <1>1, <1>2, <1>3, TypedAlways, PTL DEF BreakerSpec

(* A half-open circuit that runs no probe and lost none has one to give.   *)
NeverWedged ==
    cb.state = "half_open" /\ lost = 0 /\ (\A c \in Caller : flight[c] # "fresh")
        => Admits(cb)

(***************************************************************************)
(* Late results and failures of earlier periods never use a half-open      *)
(* circuit up: while no probe was cancelled and none is running, the next  *)
(* call is admitted.  It is what RecoversUnlessLost owes to the code, the  *)
(* rest being fairness of the callers and the clock.                       *)
(***************************************************************************)
THEOREM ProbeAdmitted == BreakerSpec => []NeverWedged
<1>1. Typed /\ SlotsAccounted => NeverWedged
  <2> SUFFICES ASSUME Typed, SlotsAccounted, cb.state = "half_open", lost = 0,
                      \A c \in Caller : flight[c] # "fresh"
               PROVE  Admits(cb)
    BY DEF NeverWedged
  <2>1. Cardinality({c \in Caller : flight[c] = "fresh"}) = 0
    <3>1. {c \in Caller : flight[c] = "fresh"} = {}
      OBVIOUS
    <3> QED
      BY <3>1, FS_EmptySet
  <2>2. cb.probes = 0 + proven + 0
    BY <2>1 DEF SlotsAccounted
  <2>3. proven <= cb.successes /\ cb.successes < MaxProbes /\ proven \in Nat /\ cb.successes \in Nat
    BY TypedIsTypeOK, BreakerNumbers DEF BreakerTypeOK, BreakerState
  <2> QED
    BY <2>2, <2>3, BreakerNumbers DEF Admits
<1> QED
  BY <1>1, TypedAlways, SlotsHeld, PTL
-----------------------------------------------------------------------------
(***************************************************************************)
(* With a dependency that answers every call or none, the circuit is a     *)
(* breaker whose calls end as the dependency decides.                      *)
(***************************************************************************)
THEOREM CircuitImplements == Spec => BreakerSpec
<1>1. Init => BreakerInit
  BY DEF Init
<1>2. [Next]_vars => [BreakerNext]_breakerVars
  BY DEF Next, Steady, Finish, Weather, BreakerNext, vars
<1> QED
  BY <1>1, <1>2, PTL DEF Spec, BreakerSpec

(***************************************************************************)
(* The breaker's counters stay consistent with its state under any         *)
(* interleaving of calls, failures, cancellations and resets.              *)
(***************************************************************************)
THEOREM TypeCorrect == Spec => []TypeOK
<1> DEFINE Weathered == healthy \in {"yes", "no"}
<1>1. Init => Weathered
  BY DEF Init
<1>2. Weathered /\ [Next]_vars => Weathered'
  BY DEF Next, Steady, Weather, vars
<1>3. Typed /\ Weathered => TypeOK
  BY TypedIsTypeOK DEF TypeOK
<1> HIDE DEF Weathered
<1> QED
  BY <1>1, <1>2, <1>3, CircuitImplements, TypedAlways, PTL DEF Spec
-----------------------------------------------------------------------------
(***************************************************************************)
(* The command path uses its circuit as a breaker is used: a call is       *)
(* admitted once, however often it is retried, and ends once, with the     *)
(* result of its last attempt or cancelled.                                *)
(***************************************************************************)
THEOREM DriverImplements == DriverSpec => BreakerSpec
<1>1. DriverInit => BreakerInit
  BY DEF DriverInit, Init
<1>2. [DriverNext]_driverVars => [BreakerNext]_breakerVars
  <2>1. ASSUME NEW c \in Caller, SendVelocity(c) PROVE BreakerNext
    BY <2>1 DEF SendVelocity, BreakerNext
  <2>2. ASSUME NEW c \in Caller, Return(c) PROVE BreakerNext
    BY <2>2 DEF Return, BreakerNext
  <2>3. ASSUME NEW c \in Caller, Exhaust(c) PROVE BreakerNext
    BY <2>3 DEF Exhaust, Reported, BreakerNext
  <2>4. ASSUME NEW c \in Caller, Deadline(c) PROVE BreakerNext
    BY <2>4 DEF Deadline, BreakerNext
  <2>5. ASSUME NEW c \in Caller, BackOff(c) \/ Resend(c) PROVE UNCHANGED breakerVars
    BY <2>5 DEF BackOff, Resend, vars
  <2>6. ASSUME RecoveryElapses PROVE BreakerNext
    BY <2>6 DEF RecoveryElapses, Steady, BreakerNext
  <2>7. ASSUME EmergencyStop \/ PortChanges \/ UNCHANGED driverVars PROVE UNCHANGED breakerVars
    BY <2>7 DEF EmergencyStop, PortChanges, Weather, driverVars, vars
  <2> QED
    BY <2>1, <2>2, <2>3, <2>4, <2>5, <2>6, <2>7 DEF DriverNext, Proceed
<1> QED
  BY <1>1, <1>2, PTL DEF DriverSpec, BreakerSpec

(***************************************************************************)
(* So a half-open command circuit loses a slot to a deadline that cancels  *)
(* a call, and to nothing else: not to a retry, not to a late failure.     *)
(***************************************************************************)
THEOREM DriverSlotsHeld == DriverSpec => []SlotsAccounted
BY DriverImplements, SlotsHeld, PTL

(***************************************************************************)
(* Nor do retries and deadlines shut a half-open command circuit for good  *)
(* unless a call was cancelled in it.                                      *)
(***************************************************************************)
THEOREM DriverProbeAdmitted == DriverSpec => []NeverWedged
BY DriverImplements, ProbeAdmitted, PTL

(* The callers' half. *)
CallsInv ==
    /\ attempts \in 1..MaxAttempts
    /\ healthy \in {"yes", "no"}
    /\ at \in [Caller -> {"idle", "sent", "failed", "backoff"}]
    /\ tries \in [Caller -> Nat]
    /\ before \subseteq Caller
    /\ wheels \in {"still", "moving", "resumed"}

LEMMA AttemptTyped ==
    ASSUME CallsInv, NEW c \in Caller, NEW n \in Nat, NEW old \in BOOLEAN,
           Attempt(c, n, old)
    PROVE  /\ at' \in [Caller -> {"idle", "sent", "failed", "backoff"}]
           /\ tries' \in [Caller -> Nat]
           /\ wheels' \in {"still", "moving", "resumed"}
BY DEF Attempt, CallsInv

LEMMA CallsStep == CallsInv /\ [DriverNext]_driverVars => CallsInv'
<1> SUFFICES ASSUME CallsInv, [DriverNext]_driverVars PROVE CallsInv'
  OBVIOUS
<1>1. ASSUME NEW c \in Caller, SendVelocity(c) PROVE CallsInv'
  <2>1. Attempt(c, 1, FALSE)
    BY <1>1 DEF SendVelocity
  <2> QED
    BY <1>1, <2>1, AttemptTyped DEF SendVelocity, CallsInv
<1>2. ASSUME NEW c \in Caller, Resend(c) PROVE CallsInv'
  <2>1. Attempt(c, tries[c] + 1, c \in before)
    BY <1>2 DEF Resend
  <2>2. tries[c] + 1 \in Nat /\ (c \in before) \in BOOLEAN
    BY DEF CallsInv
  <2>3. /\ at' \in [Caller -> {"idle", "sent", "failed", "backoff"}]
        /\ tries' \in [Caller -> Nat]
        /\ wheels' \in {"still", "moving", "resumed"}
    BY <2>1, <2>2, AttemptTyped
  <2> QED
    BY <1>2, <2>3 DEF Resend, vars, CallsInv
<1>3. ASSUME NEW c \in Caller, Return(c) \/ BackOff(c) \/ Exhaust(c) \/ Deadline(c)
      PROVE  CallsInv'
  BY <1>3 DEF Return, BackOff, Exhaust, Deadline, vars, CallsInv
<1>4. CASE EmergencyStop \/ RecoveryElapses \/ PortChanges
  BY <1>4 DEF EmergencyStop, RecoveryElapses, PortChanges, Steady, Weather, callVars, vars, CallsInv
<1>5. CASE UNCHANGED driverVars
  BY <1>5 DEF driverVars, vars, callVars, CallsInv
<1> QED
  BY <1>1, <1>2, <1>3, <1>4, <1>5 DEF DriverNext, Proceed

LEMMA CallsAlways == DriverSpec => []CallsInv
<1>1. DriverInit => CallsInv
  BY DEF DriverInit, Init, CallsInv
<1> QED
  BY <1>1, CallsStep, PTL DEF DriverSpec

(***************************************************************************)
(* The breaker's counters, the calls and the wheels keep their types under *)
(* any interleaving of calls, retries, deadlines, stops and port failures. *)
(***************************************************************************)
THEOREM DriverTypeCorrect == DriverSpec => []DriverTypeOK
<1>1. Typed /\ CallsInv => DriverTypeOK
  BY TypedIsTypeOK DEF CallsInv, DriverTypeOK, TypeOK
<1> QED
  BY <1>1, DriverImplements, TypedAlways, CallsAlways, PTL
-----------------------------------------------------------------------------
(* Without retries nobody is ever asleep in a backoff, for a call that has *)
(* failed has had its attempt.                                             *)
NoBackoff ==
    /\ \A c \in Caller : at[c] = "failed" => tries[c] >= 1
    /\ attempts = 1 => \A c \in Caller : at[c] # "backoff"
    /\ StopIsLast

LEMMA NoBackoffStep == CallsInv /\ NoBackoff /\ [DriverNext]_driverVars => NoBackoff'
<1> SUFFICES ASSUME CallsInv, NoBackoff, [DriverNext]_driverVars PROVE NoBackoff'
  OBVIOUS
<1> USE DEF CallsInv, NoBackoff, StopIsLast
<1>1. ASSUME NEW c \in Caller, SendVelocity(c) PROVE NoBackoff'
  BY <1>1 DEF SendVelocity, Attempt
<1>2. ASSUME NEW c \in Caller, Resend(c) PROVE NoBackoff'
  <2>1. attempts # 1 /\ attempts' = attempts
    BY <1>2 DEF Resend
  <2>2. tries' = [tries EXCEPT ![c] = tries[c] + 1]
        /\ at' = [at EXCEPT ![c] = IF healthy = "yes" THEN "sent" ELSE "failed"]
    BY <1>2 DEF Resend, Attempt
  <2>3. \A d \in Caller : at'[d] = "failed" => tries'[d] >= 1
    BY <2>2
  <2> QED
    BY <2>1, <2>3
<1>3. ASSUME NEW c \in Caller, BackOff(c) PROVE NoBackoff'
  <2>1. tries[c] >= 1 /\ tries[c] < attempts
    BY <1>3 DEF BackOff, Retries
  <2>2. attempts # 1
    BY <2>1
  <2> QED
    BY <1>3, <2>2 DEF BackOff
<1>4. ASSUME NEW c \in Caller, Return(c) \/ Exhaust(c) \/ Deadline(c) PROVE NoBackoff'
  BY <1>4 DEF Return, Exhaust, Deadline
<1>5. CASE EmergencyStop \/ RecoveryElapses \/ PortChanges
  BY <1>5 DEF EmergencyStop, RecoveryElapses, PortChanges, Steady, Weather, callVars, vars
<1>6. CASE UNCHANGED driverVars
  BY <1>6 DEF driverVars, vars, callVars
<1> QED
  BY <1>1, <1>2, <1>3, <1>4, <1>5, <1>6 DEF DriverNext, Proceed

(***************************************************************************)
(* With one attempt per call no velocity asked for before an               *)
(* emergency_stop moves the wheels after it, whatever the breaker, the     *)
(* deadlines and the port do.                                              *)
(***************************************************************************)
THEOREM StopHolds == DriverSpec => []StopIsLast
<1>1. DriverInit => NoBackoff
  BY DEF DriverInit, Init, NoBackoff, StopIsLast
<1>2. NoBackoff => StopIsLast
  BY DEF NoBackoff
<1> QED
  BY <1>1, <1>2, NoBackoffStep, CallsAlways, PTL DEF DriverSpec
=============================================================================
