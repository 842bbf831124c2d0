---------------------------- MODULE SafetyMonitor ----------------------------
(***************************************************************************)
(* MouseDroidSafetyMonitor.evaluate (src/src/mousedroid/safety/monitor.py) *)
(* and its three callers: the control tick, the tick's second evaluation   *)
(* after a sensor recovery (orchestrator.py), and the MCP actuation gate,  *)
(* which shares the monitor object and judges a made-up healthy snapshot   *)
(* because MCPServer wires no observation_provider (mcp/tool_bridge.py).   *)
(*                                                                         *)
(* Time is counted in control periods; an observation says which mask      *)
(* slots are valid, whether LiDAR features came, and whether anything is   *)
(* wrong here and now (clearance, battery, human): "hazard".               *)
(***************************************************************************)
EXTENDS Naturals, FiniteSets

CONSTANTS
    Slot,         \* mask slots every bundle has (vision, ultrasonic, ...)
    MinValid,     \* min_valid_sensors
    StaleAfter,   \* sensor_stale_s, in periods
    StreakLimit,  \* loop_overrun_consecutive_ticks
    Warmup,       \* loop_overrun_warmup_ticks
    LidarPolicy,  \* lidar_unavailable_policy
    LidarGrace,   \* lidar_unavailable_grace_s, in periods
    Recovery,     \* sensor_recovery_attempts > 0
    None

ASSUME SlotsFinite == IsFiniteSet(Slot)
ASSUME Numbers ==
    /\ MinValid \in Nat /\ StaleAfter \in Nat /\ Warmup \in Nat
    /\ LidarGrace \in Nat /\ StreakLimit \in Nat \ {0}
ASSUME Policies == LidarPolicy \in {"ignore", "degrade", "emergency"}
ASSUME Wiring == Recovery \in BOOLEAN
ASSUME NoneNotNat == None \notin Nat

VARIABLES
    mon,        \* the monitor's fields
    phase,      \* the tick: "idle", "judged", or "rejudged" after recovery
    verdict,    \* what the tick's latest evaluate() found
    lastSlow,   \* _last_tick_ms > max_loop_time_ms
    wheels,     \* "still" or "moving"
    granted,    \* an MCP actuation call passed the gate, not yet dispatched
    sustained,  \* history: ticks in a row that were judged slow
    judged,     \* history: ticks judged so far
    realAge,    \* history: periods since each slot was valid in a real read
    lidarGap,   \* history: periods since a real scan or the first judgement
    tripped,    \* history: some evaluation found a live emergency
    misled      \* history: what disturbed the monitor, "gate" or "cut" ticks

history == <<sustained, judged, realAge, lidarGap, tripped, misled>>
vars == <<mon, phase, verdict, lastSlow, wheels, granted, history>>

Least(a, b) == IF a < b THEN a ELSE b
AgeCap == StaleAfter + 1       \* bound: older readings are all equally stale
Age == 0..AgeCap
Gap == 0..LidarGrace           \* bound: longer gaps are all long enough

Older(age, cap) == IF age = None THEN None ELSE Least(age + 1, cap)
OlderAll(ages) == [i \in Slot |-> Older(ages[i], AgeCap)]

Observation == [valid : SUBSET Slot, lidar : BOOLEAN, hazard : BOOLEAN]

(* MouseDroidObservationBundle(): every slot valid, maximum range. *)
MadeUp == [valid |-> Slot, lidar |-> FALSE, hazard |-> FALSE]

Verdict == [overrun : BOOLEAN, stale : SUBSET Slot, few : BOOLEAN,
            live : BOOLEAN, emergency : BOOLEAN]
AllClear == [overrun |-> FALSE, stale |-> {}, few |-> FALSE,
             live |-> FALSE, emergency |-> FALSE]

TypeOK ==
    /\ mon \in [streak : 0..StreakLimit, seen : 0..(Warmup + 1), counted : BOOLEAN,
                lastValid : [Slot -> Age \cup {None}], lidarAge : Gap \cup {None},
                wired : BOOLEAN, latched : BOOLEAN]
    /\ mon.latched => mon.wired
    /\ phase \in {"idle", "judged", "rejudged"}
    /\ verdict \in Verdict
    /\ lastSlow \in BOOLEAN
    /\ wheels \in {"still", "moving"}
    /\ granted \in BOOLEAN
    /\ sustained \in 0..StreakLimit /\ judged \in 0..(Warmup + 1)
    /\ realAge \in [Slot -> Age \cup {None}]
    /\ lidarGap \in Gap \cup {None}
    /\ tripped \in BOOLEAN
    /\ misled \subseteq {"gate", "cut"}

(* The latch is wired when safety.emergency_latch.enabled. *)
Init ==
    /\ \E wired \in BOOLEAN :
          mon = [streak |-> 0, seen |-> 0, counted |-> FALSE,
                 lastValid |-> [i \in Slot |-> None], lidarAge |-> None,
                 wired |-> wired, latched |-> FALSE]
    /\ phase = "idle" /\ verdict = AllClear
    /\ lastSlow = FALSE
    /\ wheels = "still" /\ granted = FALSE
    /\ sustained = 0 /\ judged = 0
    /\ realAge = [i \in Slot |-> None] /\ lidarGap = None
    /\ tripped = FALSE /\ misled = {}
-----------------------------------------------------------------------------
(* evaluate() *)

(* The first evaluation of a tick index; a caller without one always is.   *)
EveryCall(m, indexed) == TRUE   \* mutant: the re-evaluation counts again
FirstCall(m, indexed) == ~indexed \/ ~m.counted

(* _evaluate_loop_timing *)
Timed(m, slow, indexed) ==
    IF FirstCall(m, indexed)
    THEN [m EXCEPT !.counted = indexed,
                   !.seen = Least(@ + 1, Warmup + 1),
                   !.streak = IF slow THEN Least(@ + 1, StreakLimit) ELSE 0]
    ELSE m

Overrun(m, slow) == slow /\ m.seen > Warmup /\ m.streak >= StreakLimit

(* Staleness counts for the slots that were valid at least once. *)
Stamped(ages, obs) == [i \in Slot |-> IF i \in obs.valid THEN 0 ELSE ages[i]]

OneTooLate(ages, obs) ==   \* mutant
    {i \in Slot \ obs.valid : ages[i] # None /\ ages[i] > StaleAfter + 1}
StaleSlots(ages, obs) ==
    {i \in Slot \ obs.valid : ages[i] # None /\ ages[i] > StaleAfter}

(* _evaluate_lidar_clearance: a missing scan starts the grace clock. *)
UnseededClock(age, obs) == IF obs.lidar THEN 0 ELSE age   \* mutant
LidarClock(age, obs) ==
    IF obs.lidar \/ (age = None /\ LidarPolicy # "ignore") THEN 0 ELSE age

LidarEmergency(age, obs) ==
    /\ ~obs.lidar
    /\ LidarPolicy = "emergency"
    /\ age # None /\ age >= LidarGrace

(* _apply_emergency_latch *)
LatchFollows(m, live) == m.wired /\ live   \* mutant: recomputed each time
NotWired(m, live) == m.latched \/ live   \* mutant: `latch is None` ignored
Latches(m, live) == m.wired /\ (m.latched \/ live)

Evaluate(obs, slow, indexed) ==
    LET m == Timed(mon, slow, indexed)
        overrun == Overrun(m, slow)
        stale == StaleSlots(mon.lastValid, obs)
        few == Cardinality(obs.valid) < MinValid
        clock == LidarClock(mon.lidarAge, obs)
        live == obs.hazard \/ overrun \/ stale # {} \/ few \/ LidarEmergency(clock, obs)
        latched == Latches(mon, live)
    IN [mon |-> [m EXCEPT !.lastValid = Stamped(@, obs),
                          !.lidarAge = clock,
                          !.latched = latched],
        verdict |-> [overrun |-> overrun, stale |-> stale, few |-> few,
                     live |-> live, emergency |-> live \/ latched]]
-----------------------------------------------------------------------------
(* The control tick *)

JudgeTick(obs) ==
    LET e == Evaluate(obs, lastSlow, TRUE)
    IN /\ mon' = e.mon
       /\ verdict' = e.verdict
       /\ realAge' = Stamped(realAge, obs)
       /\ lidarGap' = IF obs.lidar \/ lidarGap = None THEN 0 ELSE lidarGap
       /\ tripped' = (tripped \/ e.verdict.live)

(* read_all() and the first evaluation, of the previous tick's duration. *)
StartTick(obs) ==
    /\ phase = "idle"
    /\ phase' = "judged"
    /\ JudgeTick(obs)
    /\ sustained' = IF lastSlow THEN Least(sustained + 1, StreakLimit) ELSE 0
    /\ judged' = Least(judged + 1, Warmup + 1)
    /\ UNCHANGED <<lastSlow, wheels, granted, misled>>

(* _try_sensor_recovery brought a sensor back: read and judge once more. *)
Recover(obs) ==
    /\ phase = "judged"
    /\ Recovery /\ verdict.emergency /\ verdict.few
    /\ phase' = "rejudged"
    /\ JudgeTick(obs)
    /\ UNCHANGED <<lastSlow, wheels, granted, sustained, judged, misled>>

(* The tick is over: its own duration is latched, a period goes by. *)
EndTick(counted) ==
    /\ phase' = "idle"
    /\ lastSlow' \in BOOLEAN
    /\ mon' = [mon EXCEPT !.counted = counted,
                          !.lastValid = OlderAll(@),
                          !.lidarAge = Older(@, LidarGrace)]
    /\ realAge' = OlderAll(realAge)
    /\ lidarGap' = Older(lidarGap, LidarGrace)
    /\ UNCHANGED <<verdict, granted, sustained, judged, tripped>>

(* _tick_count moves on to an index the monitor has not counted. *)
StopTick ==
    /\ phase # "idle" /\ verdict.emergency
    /\ wheels' = "still"
    /\ EndTick(FALSE)
    /\ UNCHANGED misled

DriveTick ==
    /\ phase # "idle" /\ ~verdict.emergency
    /\ wheels' \in {"still", "moving"}
    /\ EndTick(FALSE)
    /\ UNCHANGED misled

(* The tick raises or times out before _tick_count += 1; run() e-stops. *)
FailTick ==
    /\ wheels' = "still"
    /\ misled' = misled \cup {"cut"}
    /\ EndTick(mon.counted)
-----------------------------------------------------------------------------
(* The MCP bridge *)

(* Gate 6 of call_tool, whose awaits follow. *)
GateCall ==
    /\ ~granted
    /\ LET e == Evaluate(MadeUp, FALSE, FALSE)
       IN /\ mon' = e.mon
          /\ granted' = ~e.verdict.emergency
          /\ tripped' = (tripped \/ e.verdict.live)
    /\ misled' = misled \cup {"gate"}
    /\ UNCHANGED <<phase, verdict, lastSlow, wheels, sustained, judged, realAge, lidarGap>>

(* The handler's set_velocity reaches the chassis, or the call failed. *)
Dispatch ==
    /\ granted
    /\ granted' = FALSE
    /\ wheels' \in {wheels, "moving"}
    /\ UNCHANGED <<mon, phase, verdict, lastSlow, history>>

Next ==
    \/ \E obs \in Observation : StartTick(obs) \/ Recover(obs)
    \/ StopTick \/ DriveTick \/ FailTick
    \/ GateCall \/ Dispatch

Spec == Init /\ [][Next]_vars
-----------------------------------------------------------------------------
(***************************************************************************)
(* The overrun interlock fires exactly when loop_overrun_consecutive_ticks *)
(* ticks in a row were judged slow and the warm-up is over: "3 still trips *)
(* in ~100 ms of sustained overrun" (reward_safety.py:251) and "a tick     *)
(* that is chronically slow because it keeps failing must not stay         *)
(* invisible to the next tick's interlock" (orchestrator.py:695); as long  *)
(* as neither a gate call nor a failed tick has misled the streak.         *)
(***************************************************************************)
OverrunIsSustained ==
    phase # "idle" /\ misled = {} =>
        (verdict.overrun <=> sustained >= StreakLimit /\ judged > Warmup)

(***************************************************************************)
(* A sensor that went silent for longer than sensor_stale_s stops the      *)
(* rover in the tick that sees it, whatever ticks failed before, unless a  *)
(* gate call showed the monitor its made-up snapshot.                      *)
(***************************************************************************)
SilentSensorStops ==
    phase # "idle" /\ "gate" \notin misled =>
        \A i \in Slot : realAge[i] # None /\ realAge[i] > StaleAfter => verdict.emergency

(***************************************************************************)
(* Staleness "only fires for a mask slot that was valid at least once"     *)
(* (monitor.py:265): a sensor the rover never had cannot stop it, unless a *)
(* gate call stamped it.                                                   *)
(***************************************************************************)
StaleNeedsReading ==
    "gate" \notin misled => \A i \in verdict.stale : realAge[i] # None

(***************************************************************************)
(* Under the "emergency" policy a LiDAR that delivered nothing for the     *)
(* grace window stops the rover, dead from boot or not (reward_safety.py:  *)
(* 364), whatever else calls the monitor.                                  *)
(***************************************************************************)
DeadLidarStops ==
    phase # "idle" /\ LidarPolicy = "emergency" /\ lidarGap \notin {None, 0}
    /\ lidarGap >= LidarGrace => verdict.emergency

(***************************************************************************)
(* With the latch wired, nothing but a tool call that passed its gate      *)
(* before sets a stopped rover in motion once an evaluation has found an   *)
(* emergency, not even the tick whose sensors recovered.                   *)
(***************************************************************************)
LatchedNeverStarts ==
    [][mon.wired /\ tripped /\ ~granted /\ wheels = "still" => wheels' = "still"]_vars

(***************************************************************************)
(* "Safety gating (refusing actuation when the safety monitor is in        *)
(* emergency state) is enforced upstream in MCPToolBridge"                 *)
(* (motor_tools.py:15): no tool call sets the wheels in motion while the   *)
(* latest judgement of the rover is an emergency.                          *)
(***************************************************************************)
GateRefusesInEmergency ==
    [][granted /\ verdict.emergency /\ wheels = "still" => wheels' = "still"]_vars
=============================================================================
