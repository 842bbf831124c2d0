------------------------ MODULE SafetyMonitor_proofs ------------------------
(***************************************************************************)
(* Theorems about SafetyMonitor for every set of slots, every threshold    *)
(* and every wiring of the monitor.                                        *)
(***************************************************************************)
EXTENDS SafetyMonitor, FiniteSetTheorems, TLAPS

(* A reading's age, or a LiDAR gap, stays one as it grows. *)
LEMMA OlderTyped ==
    /\ \A ages \in [Slot -> Age \cup {None}] : OlderAll(ages) \in [Slot -> Age \cup {None}]
    /\ \A gap \in Gap \cup {None} : Older(gap, LidarGrace) \in Gap \cup {None}
<1>1. \A age \in Age \cup {None} : Older(age, AgeCap) \in Age \cup {None}
    BY Numbers, NoneNotNat DEF Older, Age, AgeCap, Least
<1>2. \A gap \in Gap \cup {None} : Older(gap, LidarGrace) \in Gap \cup {None}
    BY Numbers, NoneNotNat DEF Older, Gap, Least
<1> QED BY <1>1, <1>2 DEF OlderAll

(* An age stays an age as a reading is stamped, a gap as a scan comes.     *)
LEMMA StampedTyped ==
    ASSUME NEW obs \in Observation
    PROVE  /\ \A ages \in [Slot -> Age \cup {None}] :
                  Stamped(ages, obs) \in [Slot -> Age \cup {None}]
           /\ \A gap \in Gap \cup {None} : LidarClock(gap, obs) \in Gap \cup {None}
<1>1. 0 \in Age /\ 0 \in Gap
    BY Numbers DEF Age, AgeCap, Gap
<1> QED BY <1>1 DEF Stamped, LidarClock

MonType ==
    [streak : 0..StreakLimit, seen : 0..(Warmup + 1), counted : BOOLEAN,
     lastValid : [Slot -> Age \cup {None}], lidarAge : Gap \cup {None},
     wired : BOOLEAN, latched : BOOLEAN]

(* evaluate() leaves the monitor's fields well-formed and its verdict is   *)
(* an emergency whenever it found one or the latch holds one.              *)
LEMMA EvaluateTyped ==
    ASSUME NEW obs \in Observation, NEW slow \in BOOLEAN, NEW indexed \in BOOLEAN,
           mon \in MonType, mon.latched => mon.wired
    PROVE  LET e == Evaluate(obs, slow, indexed)
           IN /\ e.mon \in MonType
              /\ e.mon.latched => e.mon.wired
              /\ e.verdict \in Verdict
              /\ e.verdict.emergency <=> e.verdict.live \/ e.mon.latched
<1> DEFINE m == Timed(mon, slow, indexed)
<1>1. m \in MonType /\ m.latched = mon.latched
      /\ m.lastValid = mon.lastValid /\ m.lidarAge = mon.lidarAge
      /\ m.wired = mon.wired
    <2>1. Least(mon.seen + 1, Warmup + 1) \in 0..(Warmup + 1)
        BY Numbers DEF Least, MonType
    <2>2. (IF slow THEN Least(mon.streak + 1, StreakLimit) ELSE 0) \in 0..StreakLimit
        BY Numbers DEF Least, MonType
    <2> QED BY <2>1, <2>2 DEF Timed, MonType
<1>2. Stamped(m.lastValid, obs) \in [Slot -> Age \cup {None}]
    BY <1>1, StampedTyped DEF MonType
<1>3. LidarClock(mon.lidarAge, obs) \in Gap \cup {None}
    BY <1>1, StampedTyped DEF MonType
<1> DEFINE stale == StaleSlots(mon.lastValid, obs)
<1>4. stale \in SUBSET Slot
    BY DEF StaleSlots
<1>5. Overrun(m, slow) \in BOOLEAN
    BY DEF Overrun
<1> DEFINE live == \/ obs.hazard \/ Overrun(m, slow) \/ stale # {}
                   \/ Cardinality(obs.valid) < MinValid
                   \/ LidarEmergency(LidarClock(mon.lidarAge, obs), obs)
           latched == Latches(mon, live)
<1>6. live \in BOOLEAN /\ latched \in BOOLEAN
    BY DEF LidarEmergency, Latches, Observation, MonType, Overrun
<1>7. latched => mon.wired
    BY DEF Latches
<1>8. Evaluate(obs, slow, indexed) =
        [mon |-> [m EXCEPT !.lastValid = Stamped(@, obs),
                           !.lidarAge = LidarClock(mon.lidarAge, obs),
                           !.latched = latched],
         verdict |-> [overrun |-> Overrun(m, slow), stale |-> stale,
                      few |-> Cardinality(obs.valid) < MinValid,
                      live |-> live, emergency |-> live \/ latched]]
    BY DEF Evaluate
<1> DEFINE e == Evaluate(obs, slow, indexed)
<1> HIDE DEF m, stale, live, latched
<1>9. e.mon = [m EXCEPT !.lastValid = Stamped(@, obs),
                        !.lidarAge = LidarClock(mon.lidarAge, obs),
                        !.latched = latched]
    BY <1>8
<1>10. e.mon \in MonType /\ e.mon.latched = latched /\ e.mon.wired = mon.wired
    BY <1>1, <1>2, <1>3, <1>6, <1>9 DEF MonType
<1>11. e.verdict \in Verdict
    BY <1>4, <1>5, <1>6, <1>8 DEF Verdict
<1>12. e.verdict.live = live /\ e.verdict.emergency = (live \/ latched)
    BY <1>8
<1> QED BY <1>6, <1>7, <1>10, <1>11, <1>12

(* What evaluate() makes of the overrun streak, the LiDAR clock and the    *)
(* latch, field by field.                                                  *)
LEMMA EvaluateFields ==
    ASSUME NEW obs \in Observation, NEW slow \in BOOLEAN, NEW indexed \in BOOLEAN,
           mon \in MonType
    PROVE  LET e == Evaluate(obs, slow, indexed)
               m == Timed(mon, slow, indexed)
               clock == LidarClock(mon.lidarAge, obs)
           IN /\ e.mon.streak = m.streak
              /\ e.mon.seen = m.seen
              /\ e.mon.counted = m.counted
              /\ e.mon.lidarAge = clock
              /\ e.mon.wired = mon.wired
              /\ e.mon.latched <=> mon.wired /\ (mon.latched \/ e.verdict.live)
              /\ e.verdict.overrun <=> Overrun(m, slow)
              /\ LidarEmergency(clock, obs) => e.verdict.emergency
<1> DEFINE m == Timed(mon, slow, indexed)
           clock == LidarClock(mon.lidarAge, obs)
           e == Evaluate(obs, slow, indexed)
<1>1. m \in MonType
    <2>1. Least(mon.seen + 1, Warmup + 1) \in 0..(Warmup + 1)
        BY Numbers DEF Least, MonType
    <2>2. (IF slow THEN Least(mon.streak + 1, StreakLimit) ELSE 0) \in 0..StreakLimit
        BY Numbers DEF Least, MonType
    <2> QED BY <2>1, <2>2 DEF Timed, MonType
<1>2. DOMAIN m = {"streak", "seen", "counted", "lastValid", "lidarAge", "wired", "latched"}
    BY <1>1 DEF MonType
<1> HIDE DEF m, clock
<1>3. /\ e.mon.streak = m.streak
      /\ e.mon.seen = m.seen
      /\ e.mon.counted = m.counted
      /\ e.mon.lidarAge = clock
      /\ e.mon.wired = m.wired
    BY <1>2 DEF Evaluate, m, clock
<1>4. m.wired = mon.wired
    BY DEF m, Timed, MonType
<1>5. e.mon.latched <=> mon.wired /\ (mon.latched \/ e.verdict.live)
    BY <1>2 DEF Evaluate, Latches, m
<1>6. e.verdict.overrun <=> Overrun(m, slow)
    BY DEF Evaluate, m
<1>7. LidarEmergency(clock, obs) => e.verdict.emergency
    BY DEF Evaluate, clock
<1> QED BY <1>3, <1>4, <1>5, <1>6, <1>7 DEF m, clock

-----------------------------------------------------------------------------
(* Type correctness *)

LEMMA InitTyped == Init => TypeOK
<1> SUFFICES ASSUME Init PROVE TypeOK
    OBVIOUS
<1>1. mon \in MonType
    BY Numbers DEF Init, MonType
<1>2. AllClear \in Verdict
    BY DEF AllClear, Verdict
<1>3. ~mon.latched
    BY DEF Init
<1>4. realAge \in [Slot -> Age \cup {None}] /\ lidarGap \in Gap \cup {None}
    BY DEF Init
<1>5. sustained \in 0..StreakLimit /\ judged \in 0..(Warmup + 1)
    BY Numbers DEF Init
<1>6. /\ phase \in {"idle", "judged", "rejudged"} /\ wheels \in {"still", "moving"}
      /\ lastSlow \in BOOLEAN /\ granted \in BOOLEAN /\ tripped \in BOOLEAN
      /\ misled \subseteq {"gate", "cut"} /\ verdict = AllClear
    BY DEF Init
<1> QED BY <1>1, <1>2, <1>3, <1>4, <1>5, <1>6 DEF TypeOK, MonType

LEMMA JudgeTyped ==
    ASSUME TypeOK, NEW obs \in Observation, JudgeTick(obs)
    PROVE  /\ mon' \in MonType /\ (mon'.latched => mon'.wired)
           /\ verdict' \in Verdict
           /\ realAge' \in [Slot -> Age \cup {None}]
           /\ lidarGap' \in Gap \cup {None}
           /\ tripped' \in BOOLEAN
<1>1. mon \in MonType /\ (mon.latched => mon.wired) /\ lastSlow \in BOOLEAN
    BY DEF TypeOK, MonType
<1>2. mon' \in MonType /\ (mon'.latched => mon'.wired) /\ verdict' \in Verdict
    BY <1>1, EvaluateTyped DEF JudgeTick
<1>3. realAge' \in [Slot -> Age \cup {None}]
    BY StampedTyped DEF JudgeTick, TypeOK
<1>4. lidarGap' \in Gap \cup {None}
    BY Numbers DEF JudgeTick, TypeOK, Gap
<1>5. tripped' \in BOOLEAN
    BY DEF JudgeTick, TypeOK
<1> QED BY <1>2, <1>3, <1>4, <1>5

LEMMA EndTyped ==
    ASSUME TypeOK, NEW counted \in BOOLEAN, EndTick(counted),
           wheels' \in {"still", "moving"}, misled' \subseteq {"gate", "cut"}
    PROVE  TypeOK'
<1>1. OlderAll(mon.lastValid) \in [Slot -> Age \cup {None}]
      /\ OlderAll(realAge) \in [Slot -> Age \cup {None}]
      /\ Older(mon.lidarAge, LidarGrace) \in Gap \cup {None}
      /\ Older(lidarGap, LidarGrace) \in Gap \cup {None}
    BY OlderTyped DEF TypeOK
<1>2. mon' \in MonType /\ mon'.latched = mon.latched /\ mon'.wired = mon.wired
    BY <1>1 DEF EndTick, TypeOK, MonType
<1> QED BY <1>1, <1>2 DEF EndTick, TypeOK, MonType

LEMMA NextTyped == TypeOK /\ [Next]_vars => TypeOK'
<1> SUFFICES ASSUME TypeOK, [Next]_vars PROVE TypeOK'
    OBVIOUS
<1>1. ASSUME NEW obs \in Observation, StartTick(obs) PROVE TypeOK'
    <2>1. JudgeTick(obs)
        BY <1>1 DEF StartTick
    <2>2. Least(judged + 1, Warmup + 1) \in 0..(Warmup + 1)
          /\ Least(sustained + 1, StreakLimit) \in 0..StreakLimit
        BY Numbers DEF TypeOK, Least
    <2>3. sustained' \in 0..StreakLimit /\ judged' \in 0..(Warmup + 1)
        BY <1>1, <2>2, Numbers DEF StartTick
    <2> QED BY <1>1, <2>1, <2>3, JudgeTyped DEF StartTick, TypeOK, MonType
<1>2. ASSUME NEW obs \in Observation, Recover(obs) PROVE TypeOK'
    <2>1. JudgeTick(obs)
        BY <1>2 DEF Recover
    <2> QED BY <1>2, <2>1, JudgeTyped DEF Recover, TypeOK, MonType
<1>3. CASE StopTick
    BY <1>3, EndTyped DEF StopTick, TypeOK
<1>4. CASE DriveTick
    BY <1>4, EndTyped DEF DriveTick, TypeOK
<1>5. CASE FailTick
    <2>1. mon.counted \in BOOLEAN
        BY DEF TypeOK
    <2> QED BY <1>5, <2>1, EndTyped DEF FailTick, TypeOK
<1>6. CASE GateCall
    <2>1. MadeUp \in Observation
        BY DEF MadeUp, Observation
    <2>2. mon \in MonType /\ (mon.latched => mon.wired)
        BY DEF TypeOK, MonType
    <2> DEFINE e == Evaluate(MadeUp, FALSE, FALSE)
    <2>3. e.mon \in MonType /\ (e.mon.latched => e.mon.wired) /\ e.verdict \in Verdict
        BY <2>1, <2>2, EvaluateTyped
    <2>4. e.verdict.emergency \in BOOLEAN
        BY <2>3 DEF Verdict
    <2>5. mon' = e.mon /\ granted' = ~e.verdict.emergency /\ tripped' = (tripped \/ e.verdict.live)
        BY <1>6 DEF GateCall
    <2> HIDE DEF e
    <2> QED BY <1>6, <2>3, <2>4, <2>5 DEF GateCall, TypeOK, MonType
<1>7. CASE Dispatch
    BY <1>7 DEF Dispatch, TypeOK, history
<1>8. CASE UNCHANGED vars
    BY <1>8 DEF vars, history, TypeOK
<1> QED BY <1>1, <1>2, <1>3, <1>4, <1>5, <1>6, <1>7, <1>8 DEF Next

(* The monitor's fields, the verdicts and the histories keep their types.  *)
THEOREM TypeCorrect == Spec => []TypeOK
<1>1. Init => TypeOK
    BY InitTyped
<1>2. TypeOK /\ [Next]_vars => TypeOK'
    BY NextTyped
<1> QED BY <1>1, <1>2, PTL DEF Spec

-----------------------------------------------------------------------------
(* The dead LiDAR *)

(* The monitor's LiDAR clock is never behind the real gap; gate calls can  *)
(* only have started it earlier.                                           *)
ClockAhead ==
    LidarPolicy = "emergency" /\ lidarGap # None =>
        mon.lidarAge # None /\ mon.lidarAge >= lidarGap

LidarInv == TypeOK /\ ClockAhead /\ DeadLidarStops

LEMMA JudgeLidar ==
    ASSUME LidarInv, NEW obs \in Observation, JudgeTick(obs)
    PROVE  ClockAhead' /\ DeadLidarStops'
<1> DEFINE clock == LidarClock(mon.lidarAge, obs)
<1>1. mon'.lidarAge = clock /\ (LidarEmergency(clock, obs) => verdict'.emergency)
    <2>1. mon \in MonType /\ lastSlow \in BOOLEAN
        BY DEF LidarInv, TypeOK, MonType
    <2> QED BY <2>1, EvaluateFields DEF JudgeTick
<1>2. lidarGap' = IF obs.lidar \/ lidarGap = None THEN 0 ELSE lidarGap
    BY DEF JudgeTick
<1>3. mon.lidarAge \in Gap \cup {None} /\ lidarGap \in Gap \cup {None}
    BY DEF LidarInv, TypeOK
<1>4. ClockAhead'
    BY <1>1, <1>2, <1>3, Numbers, NoneNotNat DEF ClockAhead, LidarInv, LidarClock, Gap
<1>5. DeadLidarStops'
    BY <1>1, <1>2, <1>3, Numbers, NoneNotNat
       DEF DeadLidarStops, ClockAhead, LidarInv, LidarClock, LidarEmergency, Gap
<1> QED BY <1>4, <1>5

LEMMA EndLidar ==
    ASSUME LidarInv, NEW counted \in BOOLEAN, EndTick(counted)
    PROVE  ClockAhead' /\ DeadLidarStops'
<1>1. mon'.lidarAge = Older(mon.lidarAge, LidarGrace)
    BY DEF EndTick, LidarInv, TypeOK
<1>2. lidarGap' = Older(lidarGap, LidarGrace) /\ phase' = "idle"
    BY DEF EndTick
<1>3. mon.lidarAge \in Gap \cup {None} /\ lidarGap \in Gap \cup {None}
    BY DEF LidarInv, TypeOK
<1>4. ClockAhead'
    BY <1>1, <1>2, <1>3, Numbers, NoneNotNat DEF ClockAhead, LidarInv, Older, Least, Gap
<1> QED BY <1>2, <1>4 DEF DeadLidarStops

LEMMA NextLidar == LidarInv /\ [Next]_vars => LidarInv'
<1> SUFFICES ASSUME LidarInv, [Next]_vars PROVE ClockAhead' /\ DeadLidarStops'
    BY NextTyped DEF LidarInv
<1>1. ASSUME NEW obs \in Observation, StartTick(obs) \/ Recover(obs)
      PROVE ClockAhead' /\ DeadLidarStops'
    BY <1>1, JudgeLidar DEF StartTick, Recover
<1>2. CASE StopTick \/ DriveTick
    BY <1>2, EndLidar DEF StopTick, DriveTick
<1>3. CASE FailTick
    <2>1. mon.counted \in BOOLEAN
        BY DEF LidarInv, TypeOK
    <2> QED BY <1>3, <2>1, EndLidar DEF FailTick
<1>4. CASE GateCall
    <2>1. mon \in MonType /\ MadeUp \in Observation
        BY DEF LidarInv, TypeOK, MonType, MadeUp, Observation
    <2>2. mon'.lidarAge = LidarClock(mon.lidarAge, MadeUp)
        BY <1>4, <2>1, EvaluateFields DEF GateCall
    <2>3. mon.lidarAge \in Gap \cup {None} /\ lidarGap \in Gap \cup {None}
        BY DEF LidarInv, TypeOK
    <2>4. ClockAhead'
        BY <1>4, <2>2, <2>3, Numbers, NoneNotNat
           DEF GateCall, ClockAhead, LidarInv, LidarClock, MadeUp, Gap
    <2>5. DeadLidarStops'
        BY <1>4 DEF GateCall, DeadLidarStops, LidarInv
    <2> QED BY <2>4, <2>5
<1>5. CASE Dispatch
    BY <1>5 DEF Dispatch, history, ClockAhead, DeadLidarStops, LidarInv
<1>6. CASE UNCHANGED vars
    BY <1>6 DEF vars, history, ClockAhead, DeadLidarStops, LidarInv
<1> QED BY <1>1, <1>2, <1>3, <1>4, <1>5, <1>6 DEF Next

(* Whatever the MCP gate and failing ticks do in between, a LiDAR that is  *)
(* dead for the grace window stops the rover.                              *)
THEOREM DeadLidar == Spec => []DeadLidarStops
<1>1. Init => LidarInv
    BY InitTyped DEF Init, LidarInv, ClockAhead, DeadLidarStops
<1>2. LidarInv /\ [Next]_vars => LidarInv'
    BY NextLidar
<1>3. LidarInv => DeadLidarStops
    BY DEF LidarInv
<1> QED BY <1>1, <1>2, <1>3, PTL DEF Spec

-----------------------------------------------------------------------------
(* The overrun interlock *)

(* Until a failed tick or a gate call the monitor's counters are those of  *)
(* the loop, and a tick index is counted from its first judgement on.      *)
Counters ==
    /\ mon.streak = sustained /\ mon.seen = judged
    /\ mon.counted <=> phase # "idle"
    /\ phase # "idle" /\ ~lastSlow => sustained = 0

OverrunInv == TypeOK /\ (misled = {} => Counters) /\ OverrunIsSustained

LEMMA NextOverrun == OverrunInv /\ [Next]_vars => OverrunInv'
<1> SUFFICES ASSUME OverrunInv, [Next]_vars PROVE OverrunInv'
    OBVIOUS
<1>1. TypeOK'
    BY NextTyped DEF OverrunInv
<1>0. ASSUME misled' # {} PROVE OverrunInv'
    BY <1>0, <1>1 DEF OverrunInv, OverrunIsSustained
<1>a. SUFFICES ASSUME misled' = {} PROVE OverrunInv'
    BY <1>0
<1>b. ~FailTick /\ ~GateCall /\ misled = {}
    BY <1>a DEF Next, StartTick, Recover, StopTick, DriveTick, FailTick, GateCall,
                Dispatch, vars, history
<1>2. mon \in MonType /\ lastSlow \in BOOLEAN
      /\ sustained \in 0..StreakLimit /\ judged \in 0..(Warmup + 1)
    BY DEF OverrunInv, TypeOK, MonType
<1>3. ASSUME NEW obs \in Observation, StartTick(obs) PROVE OverrunInv'
    <2> DEFINE m == Timed(mon, lastSlow, TRUE)
    <2>1. /\ mon'.streak = m.streak /\ mon'.seen = m.seen /\ mon'.counted = m.counted
          /\ verdict'.overrun <=> Overrun(m, lastSlow)
        BY <1>2, <1>3, EvaluateFields DEF StartTick, JudgeTick
    <2>2. ~mon.counted
        BY <1>3, <1>b DEF StartTick, OverrunInv, Counters
    <2>3. /\ m.streak = IF lastSlow THEN Least(mon.streak + 1, StreakLimit) ELSE 0
          /\ m.seen = Least(mon.seen + 1, Warmup + 1)
          /\ m.counted = TRUE
        BY <1>2, <2>2 DEF Timed, FirstCall, MonType
    <2> HIDE DEF m
    <2>4. Counters'
        BY <1>3, <1>b, <2>1, <2>3 DEF StartTick, OverrunInv, Counters
    <2>5. m.streak = sustained' /\ m.seen = judged' /\ (~lastSlow => sustained' = 0)
        BY <1>3, <1>b, <2>3 DEF StartTick, OverrunInv, Counters
    <2>6. sustained' \in Nat /\ judged' \in Nat
        BY <1>1, Numbers DEF TypeOK
    <2>7. OverrunIsSustained'
        BY <2>1, <2>5, <2>6, Numbers DEF OverrunIsSustained, Overrun
    <2> QED BY <1>1, <1>3, <2>4, <2>7 DEF StartTick, OverrunInv
<1>4. ASSUME NEW obs \in Observation, Recover(obs) PROVE OverrunInv'
    <2> DEFINE m == Timed(mon, lastSlow, TRUE)
    <2>1. /\ mon'.streak = m.streak /\ mon'.seen = m.seen /\ mon'.counted = m.counted
          /\ verdict'.overrun <=> Overrun(m, lastSlow)
        BY <1>2, <1>4, EvaluateFields DEF Recover, JudgeTick
    <2>2. m = mon
        BY <1>4, <1>b DEF Recover, OverrunInv, Counters, Timed, FirstCall
    <2> HIDE DEF m
    <2>3. Counters'
        BY <1>4, <1>b, <2>1, <2>2 DEF Recover, OverrunInv, Counters
    <2>4. OverrunIsSustained'
        BY <1>2, <1>4, <1>b, <2>1, <2>2, Numbers
           DEF Recover, OverrunInv, Counters, OverrunIsSustained, Overrun
    <2> QED BY <1>1, <1>4, <2>3, <2>4 DEF Recover, OverrunInv
<1>5. CASE StopTick \/ DriveTick
    <2>1. EndTick(FALSE)
        BY <1>5 DEF StopTick, DriveTick
    <2>2. /\ mon'.streak = mon.streak /\ mon'.seen = mon.seen
          /\ mon'.counted = FALSE
        BY <1>2, <2>1 DEF EndTick, MonType
    <2>3. phase' = "idle"
        BY <2>1 DEF EndTick
    <2> QED BY <1>1, <1>b, <2>1, <2>2, <2>3
            DEF EndTick, OverrunInv, Counters, OverrunIsSustained
<1>6. CASE Dispatch
    BY <1>1, <1>6 DEF Dispatch, history, OverrunInv, Counters, OverrunIsSustained
<1>7. CASE UNCHANGED vars
    BY <1>1, <1>7 DEF vars, history, OverrunInv, Counters, OverrunIsSustained
<1> QED BY <1>b, <1>3, <1>4, <1>5, <1>6, <1>7 DEF Next

(* As long as no gate call and no failed tick came between, the overrun    *)
(* interlock fires exactly as configured, for every threshold.             *)
THEOREM OverrunExact == Spec => []OverrunIsSustained
<1>1. Init => OverrunInv
    <2> SUFFICES ASSUME Init PROVE OverrunInv
        OBVIOUS
    <2>1. mon.streak = 0 /\ mon.seen = 0 /\ mon.counted = FALSE
        BY DEF Init
    <2> QED BY <2>1, InitTyped DEF Init, OverrunInv, Counters, OverrunIsSustained
<1>2. OverrunInv /\ [Next]_vars => OverrunInv'
    BY NextOverrun
<1>3. OverrunInv => OverrunIsSustained
    BY DEF OverrunInv
<1> QED BY <1>1, <1>2, <1>3, PTL DEF Spec

-----------------------------------------------------------------------------
(* The latch *)

(* A wired latch remembers every trip and colours every later verdict; the *)
(* gate's healthy snapshot finds only what the tick's reading found too.   *)
LatchInv ==
    /\ TypeOK
    /\ mon.wired /\ tripped => mon.latched
    /\ mon.wired /\ tripped /\ phase # "idle" => verdict.emergency
    /\ phase # "idle" /\ (\E obs \in Observation : LidarEmergency(mon.lidarAge, obs))
          => verdict.emergency
    /\ phase # "idle" /\ Cardinality(Slot) < MinValid => verdict.emergency

LEMMA JudgeLatch ==
    ASSUME LatchInv, LidarGrace # 0, NEW obs \in Observation, JudgeTick(obs)
    PROVE  /\ mon'.wired /\ tripped' => mon'.latched /\ verdict'.emergency
           /\ (\E o \in Observation : LidarEmergency(mon'.lidarAge, o)) => verdict'.emergency
           /\ Cardinality(Slot) < MinValid => verdict'.emergency
<1> DEFINE e == Evaluate(obs, lastSlow, TRUE)
           clock == LidarClock(mon.lidarAge, obs)
<1>1. mon \in MonType /\ (mon.latched => mon.wired) /\ lastSlow \in BOOLEAN
    BY DEF LatchInv, TypeOK, MonType
<1>2. /\ mon' = e.mon /\ verdict' = e.verdict
      /\ tripped' = (tripped \/ e.verdict.live)
    BY DEF JudgeTick
<1>3. /\ e.mon.wired = mon.wired
      /\ e.mon.latched <=> mon.wired /\ (mon.latched \/ e.verdict.live)
      /\ e.mon.lidarAge = clock
      /\ LidarEmergency(clock, obs) => e.verdict.emergency
    BY <1>1, EvaluateFields
<1>4. e.verdict.emergency <=> e.verdict.live \/ e.mon.latched
    BY <1>1, EvaluateTyped
<1>5. Cardinality(Slot) < MinValid => e.verdict.emergency
    <2>1. obs.valid \in SUBSET Slot
        BY DEF Observation
    <2>2. Cardinality(obs.valid) <= Cardinality(Slot)
          /\ Cardinality(obs.valid) \in Nat /\ Cardinality(Slot) \in Nat
        BY <2>1, SlotsFinite, FS_Subset, FS_CardinalityType
    <2>3. Cardinality(obs.valid) < MinValid => e.verdict.emergency
        BY DEF Evaluate
    <2> HIDE DEF e
    <2> QED BY <2>2, <2>3, Numbers
<1>6. ASSUME NEW o \in Observation, LidarEmergency(clock, o) PROVE e.verdict.emergency
    <2>1. CASE obs.lidar
        <3>1. clock = 0
            BY <2>1 DEF LidarClock
        <3>2. LidarGrace > 0
            BY Numbers
        <3> QED BY <1>6, <3>1, <3>2, Numbers DEF LidarEmergency
    <2>2. CASE ~obs.lidar
        BY <1>3, <1>6, <2>2 DEF LidarEmergency
    <2> QED BY <2>1, <2>2
<1> HIDE DEF e, clock
<1>7. ASSUME mon'.wired, tripped' PROVE mon'.latched /\ verdict'.emergency
    <2>1. mon.wired
        BY <1>2, <1>3, <1>7
    <2>2. mon.latched \/ e.verdict.live
        BY <1>2, <1>7, <2>1 DEF LatchInv
    <2> QED BY <1>2, <1>3, <1>4, <2>1, <2>2
<1> QED BY <1>2, <1>3, <1>5, <1>6, <1>7

(* What the gate's snapshot can be judged an emergency for.                *)
LEMMA GateFinds ==
    ASSUME LidarGrace # 0, mon \in MonType
    PROVE  LET e == Evaluate(MadeUp, FALSE, FALSE)
           IN e.verdict.live =>
                \/ Cardinality(Slot) < MinValid
                \/ LidarEmergency(mon.lidarAge, MadeUp)
<1> DEFINE e == Evaluate(MadeUp, FALSE, FALSE)
           clock == LidarClock(mon.lidarAge, MadeUp)
<1>1. StaleSlots(mon.lastValid, MadeUp) = {}
    BY DEF StaleSlots, MadeUp
<1>2. e.verdict.live => \/ Cardinality(Slot) < MinValid
                        \/ LidarEmergency(clock, MadeUp)
    BY <1>1 DEF Evaluate, MadeUp, Overrun
<1>3. LidarEmergency(clock, MadeUp) => LidarEmergency(mon.lidarAge, MadeUp)
    <2>1. LidarGrace > 0 /\ LidarGrace \in Nat
        BY Numbers
    <2> QED BY <2>1 DEF LidarEmergency, LidarClock, MadeUp
<1> QED BY <1>2, <1>3

LEMMA GateLatch == ASSUME LidarGrace # 0, LatchInv, GateCall PROVE LatchInv'
<1> DEFINE e == Evaluate(MadeUp, FALSE, FALSE)
<1>1. TypeOK'
    <2>1. Next
        BY DEF Next
    <2> QED BY <2>1, NextTyped DEF LatchInv
<1>2. mon \in MonType /\ (mon.latched => mon.wired) /\ MadeUp \in Observation
    BY DEF LatchInv, TypeOK, MonType, MadeUp, Observation
<1>3. mon' = e.mon /\ tripped' = (tripped \/ e.verdict.live)
      /\ phase' = phase /\ verdict' = verdict
    BY DEF GateCall
<1>4. /\ e.mon.wired = mon.wired
      /\ e.mon.latched <=> mon.wired /\ (mon.latched \/ e.verdict.live)
      /\ e.mon.lidarAge = LidarClock(mon.lidarAge, MadeUp)
    BY <1>2, EvaluateFields
<1>5. ASSUME e.verdict.live, phase # "idle" PROVE verdict.emergency
    BY <1>2, <1>5, GateFinds DEF LatchInv
<1> HIDE DEF e
<1>6. ASSUME phase # "idle", NEW o \in Observation, LidarEmergency(e.mon.lidarAge, o)
      PROVE  verdict.emergency
    <2>1. LidarGrace > 0
        BY Numbers
    <2>2. LidarEmergency(mon.lidarAge, o)
        BY <1>4, <1>6, <2>1, Numbers DEF LidarEmergency, LidarClock, MadeUp
    <2> QED BY <1>6, <2>2 DEF LatchInv
<1>7. ASSUME mon'.wired, tripped'
      PROVE  mon'.latched /\ (phase' # "idle" => verdict'.emergency)
    <2>1. mon.wired /\ (tripped \/ e.verdict.live)
        BY <1>3, <1>4, <1>7
    <2>2. mon'.latched
        BY <1>3, <1>4, <2>1 DEF LatchInv
    <2>3. phase # "idle" => verdict.emergency
        BY <1>5, <2>1 DEF LatchInv
    <2> QED BY <1>3, <2>2, <2>3
<1>8. phase' # "idle" /\ (\E o \in Observation : LidarEmergency(mon'.lidarAge, o))
        => verdict'.emergency
    BY <1>3, <1>6
<1>9. phase' # "idle" /\ Cardinality(Slot) < MinValid => verdict'.emergency
    BY <1>3 DEF LatchInv
<1> QED BY <1>1, <1>7, <1>8, <1>9 DEF LatchInv

LEMMA NextLatch == ASSUME LidarGrace # 0, LatchInv, [Next]_vars PROVE LatchInv'
<1>1. TypeOK'
    BY NextTyped DEF LatchInv
<1>2. ASSUME NEW obs \in Observation, StartTick(obs) \/ Recover(obs) PROVE LatchInv'
    <2>1. JudgeTick(obs)
        BY <1>2 DEF StartTick, Recover
    <2> QED BY <1>1, <2>1, JudgeLatch DEF LatchInv
<1>3. CASE StopTick \/ DriveTick \/ FailTick
    <2>1. PICK counted : EndTick(counted)
        BY <1>3 DEF StopTick, DriveTick, FailTick
    <2>2. mon \in MonType
        BY DEF LatchInv, TypeOK, MonType
    <2>3. mon'.latched = mon.latched /\ mon'.wired = mon.wired /\ phase' = "idle"
          /\ tripped' = tripped
        BY <2>1, <2>2 DEF EndTick, MonType
    <2> QED BY <1>1, <2>3 DEF LatchInv
<1>4. CASE GateCall
    BY <1>4, GateLatch
<1>5. CASE Dispatch
    BY <1>1, <1>5 DEF Dispatch, history, LatchInv
<1>6. CASE UNCHANGED vars
    BY <1>1, <1>6 DEF vars, history, LatchInv
<1> QED BY <1>2, <1>3, <1>4, <1>5, <1>6 DEF Next

(* With the latch wired, a rover that has been stopped once does not start *)
(* again but by a tool call that passed its gate before. A grace window of *)
(* 0 s is excluded: then the gate's snapshot, which has no scan, trips the *)
(* latch in the middle of a healthy tick that still drives.                *)
THEOREM LatchHolds == ASSUME LidarGrace # 0 PROVE Spec => LatchedNeverStarts
<1>1. Init => LatchInv
    BY InitTyped DEF Init, LatchInv
<1>2. LatchInv /\ [Next]_vars => LatchInv'
    BY NextLatch
<1>3. LatchInv /\ [Next]_vars
        => [mon.wired /\ tripped /\ ~granted /\ wheels = "still" => wheels' = "still"]_vars
    <2> SUFFICES ASSUME LatchInv, Next, mon.wired, tripped, ~granted, wheels = "still"
                 PROVE wheels' = "still"
        OBVIOUS
    <2>1. CASE \E obs \in Observation : StartTick(obs) \/ Recover(obs)
        BY <2>1 DEF StartTick, Recover
    <2>2. CASE StopTick \/ FailTick
        BY <2>2 DEF StopTick, FailTick
    <2>3. CASE DriveTick \/ Dispatch
        BY <2>3 DEF LatchInv, DriveTick, Dispatch
    <2>4. CASE GateCall
        BY <2>4 DEF GateCall
    <2> QED BY <2>1, <2>2, <2>3, <2>4 DEF Next
<1> QED BY <1>1, <1>2, <1>3, PTL DEF Spec, LatchedNeverStarts

-----------------------------------------------------------------------------
(* The stale sensor *)

(* The judgement of a snapshot: which slots it calls stale, what it stamps *)
(* and that a stale slot is an emergency.                                  *)
LEMMA EvaluateStale ==
    ASSUME NEW obs \in Observation, NEW slow \in BOOLEAN, NEW indexed \in BOOLEAN,
           mon \in MonType
    PROVE  LET e == Evaluate(obs, slow, indexed)
           IN /\ e.mon.lastValid = Stamped(mon.lastValid, obs)
              /\ e.verdict.stale = StaleSlots(mon.lastValid, obs)
              /\ e.verdict.stale # {} => e.verdict.emergency
<1> DEFINE m == Timed(mon, slow, indexed)
           e == Evaluate(obs, slow, indexed)
<1>1. m.lastValid = mon.lastValid
    BY DEF Timed, MonType
<1>2. DOMAIN m = {"streak", "seen", "counted", "lastValid", "lidarAge", "wired", "latched"}
    BY DEF Timed, MonType
<1> HIDE DEF m
<1>3. e.mon.lastValid = Stamped(mon.lastValid, obs)
    BY <1>1, <1>2 DEF Evaluate, m
<1>4. e.verdict.stale = StaleSlots(mon.lastValid, obs)
    BY DEF Evaluate
<1>5. e.verdict.stale # {} => e.verdict.emergency
    BY DEF Evaluate
<1> QED BY <1>3, <1>4, <1>5

(* Until a gate call the monitor's stamps are the real readings.           *)
StampInv ==
    /\ TypeOK
    /\ "gate" \notin misled => mon.lastValid = realAge
    /\ SilentSensorStops
    /\ StaleNeedsReading

LEMMA JudgeStamps ==
    ASSUME StampInv, "gate" \notin misled, NEW obs \in Observation, JudgeTick(obs)
    PROVE  mon'.lastValid = realAge' /\ SilentSensorStops' /\ StaleNeedsReading'
<1>1. mon \in MonType /\ lastSlow \in BOOLEAN
    BY DEF StampInv, TypeOK, MonType
<1>2. /\ mon'.lastValid = Stamped(mon.lastValid, obs)
      /\ verdict'.stale = StaleSlots(mon.lastValid, obs)
      /\ verdict'.stale # {} => verdict'.emergency
    BY <1>1, EvaluateStale DEF JudgeTick
<1>3. realAge' = Stamped(realAge, obs)
    BY DEF JudgeTick
<1>4. realAge \in [Slot -> Age \cup {None}]
    BY DEF StampInv, TypeOK
<1>5. mon'.lastValid = realAge'
    BY <1>2, <1>3 DEF StampInv
<1>6. ASSUME NEW i \in Slot, realAge'[i] # None, realAge'[i] > StaleAfter
      PROVE  i \in verdict'.stale
    <2>1. i \notin obs.valid
        BY <1>3, <1>6, Numbers DEF Stamped
    <2>2. realAge'[i] = realAge[i]
        BY <1>3, <2>1 DEF Stamped
    <2> QED BY <1>2, <1>6, <2>1, <2>2 DEF StaleSlots, StampInv
<1>7. ASSUME NEW i \in verdict'.stale PROVE realAge'[i] # None
    BY <1>2, <1>3, <1>7 DEF StaleSlots, StampInv, Stamped
<1>8. SilentSensorStops'
    BY <1>2, <1>6 DEF SilentSensorStops
<1>9. StaleNeedsReading'
    BY <1>7 DEF StaleNeedsReading
<1> QED BY <1>5, <1>8, <1>9

LEMMA NextStamps == StampInv /\ [Next]_vars => StampInv'
<1> SUFFICES ASSUME StampInv, [Next]_vars PROVE StampInv'
    OBVIOUS
<1>1. TypeOK'
    BY NextTyped DEF StampInv
<1>0. ASSUME "gate" \in misled' PROVE StampInv'
    BY <1>0, <1>1 DEF StampInv, SilentSensorStops, StaleNeedsReading
<1>a. SUFFICES ASSUME "gate" \notin misled' PROVE StampInv'
    BY <1>0
<1>b. ~GateCall /\ "gate" \notin misled
    BY <1>a DEF Next, StartTick, Recover, StopTick, DriveTick, FailTick, GateCall,
                Dispatch, vars, history
<1>2. ASSUME NEW obs \in Observation, StartTick(obs) \/ Recover(obs) PROVE StampInv'
    <2>1. JudgeTick(obs)
        BY <1>2 DEF StartTick, Recover
    <2> QED BY <1>1, <1>b, <2>1, JudgeStamps DEF StampInv
<1>3. CASE StopTick \/ DriveTick \/ FailTick
    <2>1. PICK counted : EndTick(counted)
        BY <1>3 DEF StopTick, DriveTick, FailTick
    <2>2. mon \in MonType /\ realAge \in [Slot -> Age \cup {None}] /\ verdict \in Verdict
        BY DEF StampInv, TypeOK, MonType
    <2>3. mon'.lastValid = OlderAll(mon.lastValid) /\ realAge' = OlderAll(realAge)
        BY <2>1, <2>2 DEF EndTick, MonType
    <2>4. mon'.lastValid = realAge'
        BY <1>b, <2>3 DEF StampInv
    <2>5. phase' = "idle" /\ verdict' = verdict
        BY <2>1 DEF EndTick
    <2>6. ASSUME NEW i \in verdict.stale PROVE realAge'[i] # None
        <3>1. i \in Slot /\ realAge[i] # None /\ realAge[i] \in Age
            BY <1>b, <2>2, <2>6 DEF StampInv, StaleNeedsReading, Verdict
        <3>2. Older(realAge[i], AgeCap) \in Nat
            BY <3>1, Numbers DEF Older, Least, Age, AgeCap
        <3> QED BY <2>3, <3>1, <3>2, NoneNotNat DEF OlderAll
    <2>7. SilentSensorStops' /\ StaleNeedsReading'
        BY <2>5, <2>6 DEF SilentSensorStops, StaleNeedsReading
    <2> QED BY <1>1, <2>4, <2>5, <2>7 DEF StampInv
<1>4. CASE Dispatch
    BY <1>1, <1>4 DEF Dispatch, history, StampInv, SilentSensorStops, StaleNeedsReading
<1>5. CASE UNCHANGED vars
    BY <1>1, <1>5 DEF vars, history, StampInv, SilentSensorStops, StaleNeedsReading
<1> QED BY <1>b, <1>2, <1>3, <1>4, <1>5 DEF Next

LEMMA StampsAlways == Spec => []StampInv
<1>1. Init => StampInv
    <2> SUFFICES ASSUME Init PROVE StampInv
        OBVIOUS
    <2>1. mon.lastValid = realAge /\ verdict.stale = {}
        BY DEF Init, AllClear
    <2> QED BY <2>1, InitTyped DEF Init, StampInv, SilentSensorStops, StaleNeedsReading
<1>2. StampInv /\ [Next]_vars => StampInv'
    BY NextStamps
<1> QED BY <1>1, <1>2, PTL DEF Spec

(* Until a gate call misleads the monitor, a sensor that went silent for   *)
(* longer than sensor_stale_s stops the rover, failing ticks or not.       *)
THEOREM SilentStops == Spec => []SilentSensorStops
<1>1. StampInv => SilentSensorStops
    BY DEF StampInv
<1> QED BY <1>1, StampsAlways, PTL

(* Until a gate call stamps them all, only a sensor that was valid once    *)
(* can be found stale.                                                     *)
THEOREM StaleWasValid == Spec => []StaleNeedsReading
<1>1. StampInv => StaleNeedsReading
    BY DEF StampInv
<1> QED BY <1>1, StampsAlways, PTL
=============================================================================
