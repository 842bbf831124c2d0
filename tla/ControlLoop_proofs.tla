------------------------- MODULE ControlLoop_proofs -------------------------
(***************************************************************************)
(* Proofs about ControlLoop, for every setting of its switches: its types  *)
(* and the shutdown flag, that the loop keeps a recorded stop, that a      *)
(* process that ends by itself has halted what it drove, and that it       *)
(* implements the promise of EStopPromise.                                 *)
(***************************************************************************)
EXTENDS ControlLoop, TLAPS

(* The next-state relation, action by action. *)
LEMMA NextCases ==
    ASSUME Next
    PROVE  \/ Boot \/ LoadLatch \/ Connect \/ HaltOnConnect \/ StartFails
           \/ Started \/ LoopCheck \/ Sense \/ Brake \/ Persist \/ Drive
           \/ TickFails \/ HandlerStops \/ HandlerRaises \/ Teardown
           \/ Halt \/ Close \/ TickHangs \/ Signal \/ Escalate \/ Kill
           \/ WatchdogKills \/ SignalInTeardown \/ Rearm \/ ToolPasses
           \/ ToolRefused \/ ToolSends \/ ToolFails
BY Zenon DEF Next, ProcessStep, AgentStep
-----------------------------------------------------------------------------
(* Every step keeps the types. *)
LEMMA TypeStep ==
    ASSUME TypeOK, [Next]_vars
    PROVE  TypeOK'
<1> USE Switches, KillsBound
<1>a. ProcessOK /\ ChassisOK /\ LatchOK /\ tool \in BOOLEAN /\ kills \in
   0..MaxKills
  BY DEF TypeOK
<1> USE <1>a
<1>1. CASE Boot
  <2>1. ProcessOK'
    BY <1>1 DEF ProcessOK, Boot, process, chassis, latch, Starting, InRun,
       Ticking, Stopping
  <2>2. ChassisOK'
    BY <1>1 DEF ChassisOK, Boot, process, chassis, latch
  <2>3. LatchOK'
    BY <1>1 DEF LatchOK, Boot, process, chassis, latch
  <2>4. tool' \in BOOLEAN /\ kills' \in 0..MaxKills
    BY <1>1 DEF Boot
  <2> QED
    BY <2>1, <2>2, <2>3, <2>4 DEF TypeOK
<1>2. CASE LoadLatch
  <2>1. ProcessOK'
    BY <1>2 DEF ProcessOK, LoadLatch, RecordAtBoot, process, chassis, latch,
       Starting, InRun, Ticking, Stopping
  <2>2. ChassisOK'
    BY <1>2 DEF ChassisOK, LoadLatch, RecordAtBoot, process, chassis, latch
  <2>3. LatchOK'
    BY <1>2 DEF LatchOK, LoadLatch, RecordAtBoot, process, chassis, latch
  <2>4. tool' \in BOOLEAN /\ kills' \in 0..MaxKills
    BY <1>2 DEF LoadLatch, RecordAtBoot
  <2> QED
    BY <2>1, <2>2, <2>3, <2>4 DEF TypeOK
<1>3. CASE Connect
  <2>1. ProcessOK'
    BY <1>3 DEF ProcessOK, Connect, process, chassis, latch, Starting, InRun,
       Ticking, Stopping
  <2>2. ChassisOK'
    BY <1>3 DEF ChassisOK, Connect, process, chassis, latch
  <2>3. LatchOK'
    BY <1>3 DEF LatchOK, Connect, process, chassis, latch
  <2>4. tool' \in BOOLEAN /\ kills' \in 0..MaxKills
    BY <1>3 DEF Connect
  <2> QED
    BY <2>1, <2>2, <2>3, <2>4 DEF TypeOK
<1>4. CASE HaltOnConnect
  <2>1. ProcessOK'
    BY <1>4 DEF ProcessOK, HaltOnConnect, OpeningHalt, process, chassis, latch,
       Starting, InRun, Ticking, Stopping
  <2>2. ChassisOK'
    BY <1>4 DEF ChassisOK, HaltOnConnect, OpeningHalt, process, chassis, latch
  <2>3. LatchOK'
    BY <1>4 DEF LatchOK, HaltOnConnect, OpeningHalt, process, chassis, latch
  <2>4. tool' \in BOOLEAN /\ kills' \in 0..MaxKills
    BY <1>4 DEF HaltOnConnect, OpeningHalt
  <2> QED
    BY <2>1, <2>2, <2>3, <2>4 DEF TypeOK
<1>5. CASE StartFails
  <2>1. ProcessOK'
    BY <1>5 DEF ProcessOK, StartFails, process, chassis, latch, Starting,
       InRun, Ticking, Stopping
  <2>2. ChassisOK'
    BY <1>5 DEF ChassisOK, StartFails, process, chassis, latch
  <2>3. LatchOK'
    BY <1>5 DEF LatchOK, StartFails, process, chassis, latch
  <2>4. tool' \in BOOLEAN /\ kills' \in 0..MaxKills
    BY <1>5 DEF StartFails
  <2> QED
    BY <2>1, <2>2, <2>3, <2>4 DEF TypeOK
<1>6. CASE Started
  <2>1. ProcessOK'
    BY <1>6 DEF ProcessOK, Started, RunsAfterStart, process, chassis, latch,
       Starting, InRun, Ticking, Stopping
  <2>2. ChassisOK'
    BY <1>6 DEF ChassisOK, Started, RunsAfterStart, process, chassis, latch
  <2>3. LatchOK'
    BY <1>6 DEF LatchOK, Started, RunsAfterStart, process, chassis, latch
  <2>4. tool' \in BOOLEAN /\ kills' \in 0..MaxKills
    BY <1>6 DEF Started, RunsAfterStart
  <2> QED
    BY <2>1, <2>2, <2>3, <2>4 DEF TypeOK
<1>7. CASE LoopCheck
  <2>1. ProcessOK'
    BY <1>7 DEF ProcessOK, LoopCheck, process, chassis, latch, Starting, InRun,
       Ticking, Stopping
  <2>2. ChassisOK'
    BY <1>7 DEF ChassisOK, LoopCheck, process, chassis, latch
  <2>3. LatchOK'
    BY <1>7 DEF LatchOK, LoopCheck, process, chassis, latch
  <2>4. tool' \in BOOLEAN /\ kills' \in 0..MaxKills
    BY <1>7 DEF LoopCheck
  <2> QED
    BY <2>1, <2>2, <2>3, <2>4 DEF TypeOK
<1>8. CASE Sense
  <2>1. ProcessOK'
    BY <1>8 DEF ProcessOK, Sense, Trip, process, chassis, latch, Starting,
       InRun, Ticking, Stopping
  <2>2. ChassisOK'
    BY <1>8 DEF ChassisOK, Sense, Trip, process, chassis, latch
  <2>3. LatchOK'
    BY <1>8 DEF LatchOK, Sense, Trip, process, chassis, latch
  <2>4. tool' \in BOOLEAN /\ kills' \in 0..MaxKills
    BY <1>8 DEF Sense, Trip
  <2> QED
    BY <2>1, <2>2, <2>3, <2>4 DEF TypeOK
<1>9. CASE Brake
  <2>1. ProcessOK'
    BY <1>9 DEF ProcessOK, Brake, process, chassis, latch, Starting, InRun,
       Ticking, Stopping
  <2>2. ChassisOK'
    BY <1>9 DEF ChassisOK, Brake, process, chassis, latch
  <2>3. LatchOK'
    BY <1>9 DEF LatchOK, Brake, process, chassis, latch
  <2>4. tool' \in BOOLEAN /\ kills' \in 0..MaxKills
    BY <1>9 DEF Brake
  <2> QED
    BY <2>1, <2>2, <2>3, <2>4 DEF TypeOK
<1>10. CASE Persist
  <2>1. ProcessOK'
    BY <1>10 DEF ProcessOK, Persist, process, chassis, latch, Starting, InRun,
       Ticking, Stopping
  <2>2. ChassisOK'
    BY <1>10 DEF ChassisOK, Persist, process, chassis, latch
  <2>3. LatchOK'
    <3>1. CASE recorded' = TRUE /\ dirty' = FALSE
      BY <1>10, <3>1 DEF LatchOK, Persist
    <3>2. CASE UNCHANGED <<recorded, dirty>>
      BY <1>10, <3>2 DEF LatchOK, Persist
    <3> QED
      BY <1>10, <3>1, <3>2 DEF Persist
  <2>4. tool' \in BOOLEAN /\ kills' \in 0..MaxKills
    BY <1>10 DEF Persist
  <2> QED
    BY <2>1, <2>2, <2>3, <2>4 DEF TypeOK
<1>11. CASE Drive
  <2>1. ProcessOK'
    BY <1>11 DEF ProcessOK, Drive, process, chassis, latch, Starting, InRun,
       Ticking, Stopping
  <2>2. ChassisOK'
    BY <1>11 DEF ChassisOK, Drive, process, chassis, latch
  <2>3. LatchOK'
    BY <1>11 DEF LatchOK, Drive, process, chassis, latch
  <2>4. tool' \in BOOLEAN /\ kills' \in 0..MaxKills
    BY <1>11 DEF Drive
  <2> QED
    BY <2>1, <2>2, <2>3, <2>4 DEF TypeOK
<1>12. CASE TickFails
  <2>1. ProcessOK'
    BY <1>12 DEF ProcessOK, TickFails, CutShort, Trip, process, chassis, latch,
       Starting, InRun, Ticking, Stopping
  <2>2. ChassisOK'
    BY <1>12 DEF ChassisOK, TickFails, CutShort, Trip, process, chassis, latch
  <2>3. LatchOK'
    BY <1>12 DEF LatchOK, TickFails, CutShort, Trip, process, chassis, latch
  <2>4. tool' \in BOOLEAN /\ kills' \in 0..MaxKills
    BY <1>12 DEF TickFails, CutShort, Trip
  <2> QED
    BY <2>1, <2>2, <2>3, <2>4 DEF TypeOK
<1>13. CASE HandlerStops
  <2>1. ProcessOK'
    BY <1>13 DEF ProcessOK, HandlerStops, process, chassis, latch, Starting,
       InRun, Ticking, Stopping
  <2>2. ChassisOK'
    BY <1>13 DEF ChassisOK, HandlerStops, process, chassis, latch
  <2>3. LatchOK'
    BY <1>13 DEF LatchOK, HandlerStops, process, chassis, latch
  <2>4. tool' \in BOOLEAN /\ kills' \in 0..MaxKills
    BY <1>13 DEF HandlerStops
  <2> QED
    BY <2>1, <2>2, <2>3, <2>4 DEF TypeOK
<1>14. CASE HandlerRaises
  <2>1. ProcessOK'
    BY <1>14 DEF ProcessOK, HandlerRaises, RunningInStop, process, chassis,
       latch, Starting, InRun, Ticking, Stopping
  <2>2. ChassisOK'
    BY <1>14 DEF ChassisOK, HandlerRaises, RunningInStop, process, chassis,
       latch
  <2>3. LatchOK'
    BY <1>14 DEF LatchOK, HandlerRaises, RunningInStop, process, chassis, latch
  <2>4. tool' \in BOOLEAN /\ kills' \in 0..MaxKills
    BY <1>14 DEF HandlerRaises, RunningInStop
  <2> QED
    BY <2>1, <2>2, <2>3, <2>4 DEF TypeOK
<1>15. CASE Teardown
  <2>1. ProcessOK'
    BY <1>15 DEF ProcessOK, Teardown, AfterSoftware, process, chassis, latch,
       Starting, InRun, Ticking, Stopping
  <2>2. ChassisOK'
    BY <1>15 DEF ChassisOK, Teardown, AfterSoftware, process, chassis, latch
  <2>3. LatchOK'
    BY <1>15 DEF LatchOK, Teardown, AfterSoftware, process, chassis, latch
  <2>4. tool' \in BOOLEAN /\ kills' \in 0..MaxKills
    BY <1>15 DEF Teardown, AfterSoftware
  <2> QED
    BY <2>1, <2>2, <2>3, <2>4 DEF TypeOK
<1>16. CASE Halt
  <2>1. ProcessOK'
    BY <1>16 DEF ProcessOK, Halt, process, chassis, latch, Starting, InRun,
       Ticking, Stopping
  <2>2. ChassisOK'
    BY <1>16 DEF ChassisOK, Halt, process, chassis, latch
  <2>3. LatchOK'
    BY <1>16 DEF LatchOK, Halt, process, chassis, latch
  <2>4. tool' \in BOOLEAN /\ kills' \in 0..MaxKills
    BY <1>16 DEF Halt
  <2> QED
    BY <2>1, <2>2, <2>3, <2>4 DEF TypeOK
<1>17. CASE Close
  <2>1. ProcessOK'
    BY <1>17 DEF ProcessOK, Close, process, chassis, latch, Starting, InRun,
       Ticking, Stopping
  <2>2. ChassisOK'
    BY <1>17 DEF ChassisOK, Close, process, chassis, latch
  <2>3. LatchOK'
    BY <1>17 DEF LatchOK, Close, process, chassis, latch
  <2>4. tool' \in BOOLEAN /\ kills' \in 0..MaxKills
    BY <1>17 DEF Close
  <2> QED
    BY <2>1, <2>2, <2>3, <2>4 DEF TypeOK
<1>18. CASE TickHangs
  <2>1. ProcessOK'
    BY <1>18 DEF ProcessOK, TickHangs, CutShort, Trip, process, chassis, latch,
       Starting, InRun, Ticking, Stopping
  <2>2. ChassisOK'
    BY <1>18 DEF ChassisOK, TickHangs, CutShort, Trip, process, chassis, latch
  <2>3. LatchOK'
    BY <1>18 DEF LatchOK, TickHangs, CutShort, Trip, process, chassis, latch
  <2>4. tool' \in BOOLEAN /\ kills' \in 0..MaxKills
    BY <1>18 DEF TickHangs, CutShort, Trip
  <2> QED
    BY <2>1, <2>2, <2>3, <2>4 DEF TypeOK
<1>19. CASE Signal
  <2>1. ProcessOK'
    BY <1>19 DEF ProcessOK, Signal, process, chassis, latch, Starting, InRun,
       Ticking, Stopping
  <2>2. ChassisOK'
    BY <1>19 DEF ChassisOK, Signal, process, chassis, latch
  <2>3. LatchOK'
    BY <1>19 DEF LatchOK, Signal, process, chassis, latch
  <2>4. tool' \in BOOLEAN /\ kills' \in 0..MaxKills
    BY <1>19 DEF Signal
  <2> QED
    BY <2>1, <2>2, <2>3, <2>4 DEF TypeOK
<1>20. CASE Escalate
  <2>1. ProcessOK'
    <3>1. CASE pc \in InRun
      BY <1>20, <3>1 DEF ProcessOK, Escalate, AfterGrace, RunningInStop,
         Starting, InRun, Ticking, Stopping
    <3>2. CASE pc \notin InRun
      BY <1>20, <3>2 DEF ProcessOK, Escalate, AfterGrace
    <3> QED
      BY <3>1, <3>2
  <2>2. ChassisOK'
    BY <1>20 DEF ChassisOK, Escalate, AfterGrace, RunningInStop, CutShort,
       Trip, process, chassis, latch
  <2>3. LatchOK'
    BY <1>20 DEF LatchOK, Escalate, AfterGrace, RunningInStop, CutShort, Trip,
       process, chassis, latch
  <2>4. tool' \in BOOLEAN /\ kills' \in 0..MaxKills
    BY <1>20 DEF Escalate, AfterGrace, RunningInStop, CutShort, Trip
  <2> QED
    BY <2>1, <2>2, <2>3, <2>4 DEF TypeOK
<1>21. CASE Kill
  <2>1. ProcessOK'
    BY <1>21 DEF ProcessOK, Kill, Dies, process, chassis, latch, Starting,
       InRun, Ticking, Stopping
  <2>2. ChassisOK'
    BY <1>21 DEF ChassisOK, Kill, Dies, process, chassis, latch
  <2>3. LatchOK'
    BY <1>21 DEF LatchOK, Kill, Dies, process, chassis, latch
  <2>4. tool' \in BOOLEAN /\ kills' \in 0..MaxKills
    <3>1. tool' = FALSE
      BY <1>21 DEF Kill, Dies
    <3>2. kills' \in 0..MaxKills
      BY <1>21 DEF Kill
    <3> QED
      BY <3>1, <3>2
  <2> QED
    BY <2>1, <2>2, <2>3, <2>4 DEF TypeOK
<1>22. CASE WatchdogKills
  <2>1. ProcessOK'
    BY <1>22 DEF ProcessOK, WatchdogKills, Dies, process, chassis, latch,
       Starting, InRun, Ticking, Stopping
  <2>2. ChassisOK'
    BY <1>22 DEF ChassisOK, WatchdogKills, Dies, process, chassis, latch
  <2>3. LatchOK'
    BY <1>22 DEF LatchOK, WatchdogKills, Dies, process, chassis, latch
  <2>4. tool' \in BOOLEAN /\ kills' \in 0..MaxKills
    BY <1>22 DEF WatchdogKills, Dies
  <2> QED
    BY <2>1, <2>2, <2>3, <2>4 DEF TypeOK
<1>23. CASE SignalInTeardown
  <2>1. ProcessOK'
    BY <1>23 DEF ProcessOK, SignalInTeardown, Dies, process, chassis, latch,
       Starting, InRun, Ticking, Stopping
  <2>2. ChassisOK'
    BY <1>23 DEF ChassisOK, SignalInTeardown, Dies, process, chassis, latch
  <2>3. LatchOK'
    BY <1>23 DEF LatchOK, SignalInTeardown, Dies, process, chassis, latch
  <2>4. tool' \in BOOLEAN /\ kills' \in 0..MaxKills
    BY <1>23 DEF SignalInTeardown, Dies
  <2> QED
    BY <2>1, <2>2, <2>3, <2>4 DEF TypeOK
<1>24. CASE Rearm
  <2>1. ProcessOK'
    BY <1>24 DEF ProcessOK, Rearm, process, chassis, latch, Starting, InRun,
       Ticking, Stopping
  <2>2. ChassisOK'
    BY <1>24 DEF ChassisOK, Rearm, process, chassis, latch
  <2>3. LatchOK'
    BY <1>24 DEF LatchOK, Rearm, process, chassis, latch
  <2>4. tool' \in BOOLEAN /\ kills' \in 0..MaxKills
    BY <1>24 DEF Rearm
  <2> QED
    BY <2>1, <2>2, <2>3, <2>4 DEF TypeOK
<1>25. CASE ToolPasses
  <2>1. ProcessOK'
    BY <1>25 DEF ProcessOK, ToolPasses, process, chassis, latch, Starting,
       InRun, Ticking, Stopping
  <2>2. ChassisOK'
    BY <1>25 DEF ChassisOK, ToolPasses, process, chassis, latch
  <2>3. LatchOK'
    BY <1>25 DEF LatchOK, ToolPasses, process, chassis, latch
  <2>4. tool' \in BOOLEAN /\ kills' \in 0..MaxKills
    BY <1>25 DEF ToolPasses
  <2> QED
    BY <2>1, <2>2, <2>3, <2>4 DEF TypeOK
<1>26. CASE ToolRefused
  <2>1. ProcessOK'
    BY <1>26 DEF ProcessOK, ToolRefused, Trip, process, chassis, latch,
       Starting, InRun, Ticking, Stopping
  <2>2. ChassisOK'
    BY <1>26 DEF ChassisOK, ToolRefused, Trip, process, chassis, latch
  <2>3. LatchOK'
    BY <1>26 DEF LatchOK, ToolRefused, Trip, process, chassis, latch
  <2>4. tool' \in BOOLEAN /\ kills' \in 0..MaxKills
    BY <1>26 DEF ToolRefused, Trip
  <2> QED
    BY <2>1, <2>2, <2>3, <2>4 DEF TypeOK
<1>27. CASE ToolSends
  <2>1. ProcessOK'
    BY <1>27 DEF ProcessOK, ToolSends, process, chassis, latch, Starting,
       InRun, Ticking, Stopping
  <2>2. ChassisOK'
    BY <1>27 DEF ChassisOK, ToolSends, process, chassis, latch
  <2>3. LatchOK'
    BY <1>27 DEF LatchOK, ToolSends, process, chassis, latch
  <2>4. tool' \in BOOLEAN /\ kills' \in 0..MaxKills
    BY <1>27 DEF ToolSends
  <2> QED
    BY <2>1, <2>2, <2>3, <2>4 DEF TypeOK
<1>28. CASE ToolFails
  <2>1. ProcessOK'
    BY <1>28 DEF ProcessOK, ToolFails, process, chassis, latch, Starting,
       InRun, Ticking, Stopping
  <2>2. ChassisOK'
    BY <1>28 DEF ChassisOK, ToolFails, process, chassis, latch
  <2>3. LatchOK'
    BY <1>28 DEF LatchOK, ToolFails, process, chassis, latch
  <2>4. tool' \in BOOLEAN /\ kills' \in 0..MaxKills
    BY <1>28 DEF ToolFails
  <2> QED
    BY <2>1, <2>2, <2>3, <2>4 DEF TypeOK
<1>29. CASE UNCHANGED vars
  BY <1>29 DEF TypeOK, ProcessOK, ChassisOK, LatchOK, vars, process, chassis,
     latch, Starting, InRun, Ticking, Stopping
<1>30. QED
  BY [Next]_vars, NextCases, <1>1, <1>2, <1>3, <1>4, <1>5, <1>6, <1>7, <1>8,
     <1>9, <1>10, <1>11, <1>12, <1>13, <1>14, <1>15, <1>16, <1>17, <1>18,
     <1>19, <1>20, <1>21, <1>22, <1>23, <1>24, <1>25, <1>26, <1>27, <1>28,
     <1>29

(***************************************************************************)
(* TypeOK holds in every behaviour: among its conjuncts, the loop runs     *)
(* only inside run(), an escalation follows a request, and only a tripped  *)
(* latch is unsaved.                                                       *)
(***************************************************************************)
THEOREM TypeCorrect == Spec => []TypeOK
<1>1. Init => TypeOK
  <2>1. Init => ProcessOK /\ ChassisOK /\ LatchOK
    BY DEF Init, ProcessOK, ChassisOK, LatchOK, Starting, InRun, Ticking,
       Stopping
  <2>2. Init => tool \in BOOLEAN
    BY DEF Init
  <2>3. Init => kills \in 0..MaxKills
    BY KillsBound DEF Init
  <2> QED
    BY <2>1, <2>2, <2>3 DEF TypeOK
<1>2. TypeOK /\ [Next]_vars => TypeOK'
  BY TypeStep
<1>3. QED
  BY <1>1, <1>2, PTL DEF Spec
-----------------------------------------------------------------------------
(* request_shutdown clears _running, and start() does not set it again. *)
RequestStops == requested => ~running

LEMMA RequestStep ==
    ASSUME RequestStops, [Next]_vars
    PROVE  RequestStops'
<1>1. CASE Boot
  BY <1>1, RequestStops
  DEF RequestStops, process, chassis, latch, Boot
<1>2. CASE Started
  BY <1>2, RequestStops
  DEF RequestStops, process, chassis, latch, Started, RunsAfterStart
<1>3. CASE HandlerRaises
  BY <1>3, RequestStops
  DEF RequestStops, process, chassis, latch, HandlerRaises, RunningInStop
<1>4. CASE Escalate
  BY <1>4, RequestStops
  DEF RequestStops, process, chassis, latch, Escalate, AfterGrace,
     RunningInStop, CutShort, Trip
<1>5. CASE Signal
  BY <1>5, RequestStops
  DEF RequestStops, process, chassis, latch, Signal
<1>6. CASE Kill
  BY <1>6, RequestStops
  DEF RequestStops, process, chassis, latch, Kill, Dies
<1>7. CASE WatchdogKills
  BY <1>7, RequestStops
  DEF RequestStops, process, chassis, latch, WatchdogKills, Dies
<1>8. CASE SignalInTeardown
  BY <1>8, RequestStops
  DEF RequestStops, process, chassis, latch, SignalInTeardown, Dies
<1>9. CASE UNCHANGED <<running, requested>>
  BY <1>9, RequestStops DEF RequestStops
<1>10. QED
  <2>1. ASSUME Next PROVE UNCHANGED <<running, requested>> \/ Boot \/ Started
     \/ HandlerRaises \/ Escalate \/ Signal \/ Kill \/ WatchdogKills \/
     SignalInTeardown
    BY <2>1, NextCases DEF process, chassis, latch, LoadLatch, Connect,
       HaltOnConnect, StartFails, LoopCheck, Sense, Brake, Persist, Drive,
       TickFails, HandlerStops, Teardown, Halt, Close, TickHangs, Rearm,
       ToolPasses, ToolRefused, ToolSends, ToolFails
  <2>2. QED
    BY [Next]_vars, <2>1, <1>1, <1>2, <1>3, <1>4, <1>5, <1>6, <1>7, <1>8, <1>9
       DEF vars, process

(***************************************************************************)
(* No tick begins after a shutdown request, whenever the signal came.      *)
(***************************************************************************)
THEOREM ShutdownHolds == Spec => NoTickAfterRequest
<1>1. Init => RequestStops
  BY DEF Init, RequestStops
<1>2. RequestStops /\ [Next]_vars => RequestStops'
  BY RequestStep
<1>3. RequestStops /\ [Next]_vars
        => [requested => ~(pc = "loop" /\ pc' = "sense")]_vars
  <2>1. ASSUME RequestStops, Next, requested, pc = "loop", pc' = "sense" PROVE
     FALSE
    <3>1. LoopCheck
      BY <2>1, NextCases DEF process, Starting, InRun, Ticking, Stopping, Dies,
         AfterGrace, AfterSoftware, Boot, LoadLatch, Connect, HaltOnConnect,
         StartFails, Started, LoopCheck, Sense, Brake, Persist, Drive,
         TickFails, HandlerStops, HandlerRaises, Teardown, Halt, Close,
         TickHangs, Signal, Escalate, Kill, WatchdogKills, SignalInTeardown,
         Rearm, ToolPasses, ToolRefused, ToolSends, ToolFails
    <3>2. QED
      BY <2>1, <3>1 DEF LoopCheck, RequestStops
  <2>2. QED
    BY <2>1
<1>4. QED
  BY <1>1, <1>2, <1>3, PTL DEF Spec, NoTickAfterRequest

(* A request stands behind a loop that still runs: the grace timer. *)
Escalating == requested /\ pc \in InRun => grace = "armed"

LEMMA EscalatingStep ==
    ASSUME TypeOK, RequestStops, Escalating, [Next]_vars
    PROVE  Escalating'
<1> USE DEF Escalating, InRun, Ticking, Starting, Stopping
<1>1. CASE Boot
  BY <1>1 DEF Boot
<1>2. CASE Started
  BY <1>2 DEF Started, RunsAfterStart
<1>3. CASE Signal
  BY <1>3 DEF Signal
<1>4. CASE Escalate
  BY <1>4 DEF Escalate, AfterGrace
<1>5. CASE LoadLatch \/ Connect \/ HaltOnConnect \/ StartFails
  BY <1>5 DEF LoadLatch, Connect, HaltOnConnect, StartFails
<1>6. CASE \/ LoopCheck \/ Sense \/ Brake \/ Persist \/ Drive
           \/ TickFails \/ TickHangs \/ HandlerStops \/ HandlerRaises
  BY <1>6 DEF LoopCheck, Sense, Brake, Persist, Drive, TickFails, TickHangs,
     HandlerStops, HandlerRaises
<1>7. CASE Teardown \/ Halt \/ Close \/ Kill \/ WatchdogKills \/ SignalInTeardown
  BY <1>7 DEF Teardown, AfterSoftware, Halt, Close, Kill, WatchdogKills,
     SignalInTeardown, Dies
<1>8. CASE Rearm \/ ToolPasses \/ ToolRefused \/ ToolSends \/ ToolFails
  BY <1>8 DEF Rearm, ToolPasses, ToolRefused, ToolSends, ToolFails, process
<1>9. CASE UNCHANGED vars
  BY <1>9 DEF vars, process
<1> QED
  BY NextCases, <1>1, <1>2, <1>3, <1>4, <1>5, <1>6, <1>7, <1>8, <1>9

(***************************************************************************)
(* Whatever the loop does after a shutdown request, a tick that hangs      *)
(* included, the escalation is still there to end it: what ShutdownEnds    *)
(* owes to the code, the rest being fairness of the timer.                 *)
(***************************************************************************)
THEOREM AlwaysEscalates == Spec => []Escalating
<1>1. Init => RequestStops /\ Escalating
  BY DEF Init, RequestStops, Escalating
<1>2. TypeOK /\ RequestStops /\ Escalating /\ [Next]_vars => (RequestStops /\ Escalating)'
  BY RequestStep, EscalatingStep
<1> QED
  BY <1>1, <1>2, TypeCorrect, PTL DEF Spec
-----------------------------------------------------------------------------
(* What keeps a recorded stop: whoever may drive has no record, a          *)
(* process past its boot has read the record, and the tick that saves a    *)
(* record has stopped the wheels.  What keeps the halt at exit: a port is  *)
(* closed only behind it.                                                  *)
Held ==
    /\ dirty => LatchWired
    /\ recorded => wheels # "driven" /\ LatchWired
    /\ recorded => pc \in {"down", "load"} \/ latched
    /\ pc = "drive" => ~recorded
    /\ pc = "persist" => wheels # "driven"
    /\ pc = "closing" => wheels # "driven" \/ haltFailed
    /\ HaltedAtExit

(* A tick cut short neither loses a trip nor saves one it had not stopped for. *)
LEMMA CutHolds ==
    ASSUME TypeOK, Held, CutShort
    PROVE  /\ dirty' => LatchWired
           /\ recorded' => wheels' # "driven" /\ LatchWired
           /\ recorded' => pc \in {"down", "load"} \/ latched'
<1>1. dirty' => LatchWired
  BY Switches DEF TypeOK, LatchOK, Held, CutShort, Trip
<1>2. recorded' => recorded \/ (pc = "persist" /\ dirty)
  BY DEF CutShort
<1>3. latched => latched'
  BY DEF CutShort, Trip
<1>4. recorded' => LatchWired
  BY <1>2 DEF Held
<1>5. recorded' => pc \in {"down", "load"} \/ latched'
  BY <1>2, <1>3 DEF Held, TypeOK, LatchOK
<1>6. recorded' => wheels' # "driven"
  BY <1>2, <1>3 DEF Held, TypeOK, LatchOK, CutShort
<1> QED
  BY <1>1, <1>4, <1>5, <1>6

LEMMA HeldStep ==
    ASSUME TypeOK, Held, [Next]_vars
    PROVE  Held'
<1> USE Switches
<1>1. CASE Boot
  BY <1>1, TypeOK, Held
  DEF TypeOK, Held, HaltedAtExit, process, chassis, latch, Starting, InRun,
     Ticking, Stopping, Boot
<1>2. CASE LoadLatch
  BY <1>2, TypeOK, Held
  DEF TypeOK, Held, HaltedAtExit, process, chassis, latch, Starting, InRun,
     Ticking, Stopping, LoadLatch, RecordAtBoot
<1>3. CASE Connect
  BY <1>3, TypeOK, Held
  DEF TypeOK, Held, HaltedAtExit, process, chassis, latch, Starting, InRun,
     Ticking, Stopping, Connect
<1>4. CASE HaltOnConnect
  BY <1>4, TypeOK, Held
  DEF TypeOK, Held, HaltedAtExit, process, chassis, latch, Starting, InRun,
     Ticking, Stopping, HaltOnConnect, OpeningHalt
<1>5. CASE StartFails
  BY <1>5, TypeOK, Held
  DEF TypeOK, Held, HaltedAtExit, process, chassis, latch, Starting, InRun,
     Ticking, Stopping, StartFails
<1>6. CASE Started
  BY <1>6, TypeOK, Held
  DEF TypeOK, Held, HaltedAtExit, process, chassis, latch, Starting, InRun,
     Ticking, Stopping, Started, RunsAfterStart
<1>7. CASE LoopCheck
  BY <1>7, TypeOK, Held
  DEF TypeOK, Held, HaltedAtExit, process, chassis, latch, Starting, InRun,
     Ticking, Stopping, LoopCheck
<1>8. CASE Sense
  BY <1>8, TypeOK, Held
  DEF TypeOK, Held, HaltedAtExit, process, chassis, latch, Starting, InRun,
     Ticking, Stopping, Sense, Trip
<1>9. CASE Brake
  BY <1>9, TypeOK, Held
  DEF TypeOK, Held, HaltedAtExit, process, chassis, latch, Starting, InRun,
     Ticking, Stopping, Brake
<1>10. CASE Persist
  <2>1. CASE dirty /\ recorded' = TRUE /\ dirty' = FALSE
    BY <1>10, <2>1, TypeOK, Held DEF TypeOK, LatchOK, Held,
       HaltedAtExit, Persist, chassis
  <2>2. CASE UNCHANGED <<recorded, dirty>>
    BY <1>10, <2>2, TypeOK, Held DEF TypeOK, Held, HaltedAtExit,
       Persist, chassis
  <2> QED
    BY <1>10, <2>1, <2>2 DEF Persist
<1>11. CASE Drive
  BY <1>11, TypeOK, Held
  DEF TypeOK, Held, HaltedAtExit, process, chassis, latch, Starting, InRun,
     Ticking, Stopping, Drive
<1>12. CASE TickFails
  <2>1. CutShort /\ pc' = "handler" /\ pc \in Ticking /\ tool' = tool
    BY <1>12 DEF TickFails
  <2> QED
    BY <2>1, TypeOK, Held, CutHolds DEF Held, HaltedAtExit, Ticking
<1>13. CASE HandlerStops
  BY <1>13, TypeOK, Held
  DEF TypeOK, Held, HaltedAtExit, process, chassis, latch, Starting, InRun,
     Ticking, Stopping, HandlerStops
<1>14. CASE HandlerRaises
  BY <1>14, TypeOK, Held
  DEF TypeOK, Held, HaltedAtExit, process, chassis, latch, Starting, InRun,
     Ticking, Stopping, HandlerRaises, RunningInStop
<1>15. CASE Teardown
  BY <1>15, TypeOK, Held
  DEF TypeOK, Held, HaltedAtExit, process, chassis, latch, Starting, InRun,
     Ticking, Stopping, Teardown, AfterSoftware
<1>16. CASE Halt
  BY <1>16, TypeOK, Held
  DEF TypeOK, Held, HaltedAtExit, process, chassis, latch, Starting, InRun,
     Ticking, Stopping, Halt
<1>17. CASE Close
  BY <1>17, TypeOK, Held
  DEF TypeOK, Held, HaltedAtExit, process, chassis, latch, Starting, InRun,
     Ticking, Stopping, Close
<1>18. CASE TickHangs
  <2>1. CutShort /\ pc' = "wedged" /\ pc \in Ticking /\ tool' = tool
    BY <1>18 DEF TickHangs, Ticking
  <2> QED
    BY <2>1, TypeOK, Held, CutHolds DEF Held, HaltedAtExit, Ticking
<1>19. CASE Signal
  BY <1>19, TypeOK, Held
  DEF TypeOK, Held, HaltedAtExit, process, chassis, latch, Starting, InRun,
     Ticking, Stopping, Signal
<1>20. CASE Escalate
  <2>1. CutShort /\ tool' = tool /\ pc \in Starting \cup InRun
    BY <1>20 DEF Escalate
  <2>2. CASE pc \in InRun
    <3>1. pc' = "teardown"
      BY <1>20, <2>2 DEF Escalate, AfterGrace
    <3> QED
      BY <2>1, <2>2, <3>1, TypeOK, Held, CutHolds DEF Held, HaltedAtExit,
         InRun, Ticking
  <2>3. CASE pc \in Starting
    <3>1. pc' = pc
      BY <1>20, <2>3 DEF Escalate, AfterGrace, InRun, Ticking, Starting
    <3> QED
      BY <2>1, <2>3, <3>1, TypeOK, Held, CutHolds DEF Held, HaltedAtExit,
         Starting
  <2> QED
    BY <2>1, <2>2, <2>3
<1>21. CASE Kill
  BY <1>21, TypeOK, Held
  DEF TypeOK, Held, HaltedAtExit, process, chassis, latch, Starting, InRun,
     Ticking, Stopping, Kill, Dies
<1>22. CASE WatchdogKills
  BY <1>22, TypeOK, Held
  DEF TypeOK, Held, HaltedAtExit, process, chassis, latch, Starting, InRun,
     Ticking, Stopping, WatchdogKills, Dies
<1>23. CASE SignalInTeardown
  BY <1>23, TypeOK, Held
  DEF TypeOK, Held, HaltedAtExit, process, chassis, latch, Starting, InRun,
     Ticking, Stopping, SignalInTeardown, Dies
<1>24. CASE Rearm
  BY <1>24, TypeOK, Held
  DEF TypeOK, Held, HaltedAtExit, process, chassis, latch, Starting, InRun,
     Ticking, Stopping, Rearm
<1>25. CASE ToolPasses
  BY <1>25, TypeOK, Held
  DEF TypeOK, Held, HaltedAtExit, process, chassis, latch, Starting, InRun,
     Ticking, Stopping, ToolPasses
<1>26. CASE ToolRefused
  BY <1>26, TypeOK, Held
  DEF TypeOK, Held, HaltedAtExit, process, chassis, latch, Starting, InRun,
     Ticking, Stopping, ToolRefused, Trip
<1>27. CASE ToolSends
  BY <1>27, TypeOK, Held
  DEF TypeOK, Held, HaltedAtExit, process, chassis, latch, Starting, InRun,
     Ticking, Stopping, ToolSends
<1>28. CASE ToolFails
  BY <1>28, TypeOK, Held
  DEF TypeOK, Held, HaltedAtExit, process, chassis, latch, Starting, InRun,
     Ticking, Stopping, ToolFails
<1>29. CASE UNCHANGED vars
  BY <1>29, Held DEF Held, HaltedAtExit, vars, process, chassis, latch
<1>30. QED
  BY [Next]_vars, NextCases, <1>1, <1>2, <1>3, <1>4, <1>5, <1>6, <1>7, <1>8,
     <1>9, <1>10, <1>11, <1>12, <1>13, <1>14, <1>15, <1>16, <1>17, <1>18,
     <1>19, <1>20, <1>21, <1>22, <1>23, <1>24, <1>25, <1>26, <1>27, <1>28,
     <1>29

LEMMA HeldAlways == Spec => []Held
<1>1. Init => Held
  BY DEF Init, Held, HaltedAtExit
<1>2. TypeOK /\ Held /\ [Next]_vars => Held'
  BY HeldStep
<1>3. QED
  BY <1>1, <1>2, TypeCorrect, PTL DEF Spec

(***************************************************************************)
(* The loop does not drive a rover whose latch record is on disk, across   *)
(* any number of kills, restarts, failed writes and failing ticks.         *)
(***************************************************************************)
THEOREM RecordHolds == Spec => []RecordedMeansStill
<1>1. Held => RecordedMeansStill
  BY DEF Held, RecordedMeansStill
<1>2. QED
  BY <1>1, HeldAlways, PTL

(***************************************************************************)
(* A process that ends by itself has halted what it drove or was refused   *)
(* by the port.                                                            *)
(***************************************************************************)
THEOREM ExitHalts == Spec => []HaltedAtExit
<1>1. Held => HaltedAtExit
  BY DEF Held
<1>2. QED
  BY <1>1, HeldAlways, PTL
-----------------------------------------------------------------------------
(* The record is written by a tick that has a trip to save, whole or cut   *)
(* short, and cleared by the operator; nothing else touches it.            *)
LEMMA RecordChanges ==
    ASSUME TypeOK, [Next]_vars, recorded' # recorded
    PROVE  Rearm \/ (dirty /\ recorded' = TRUE)
<1>1. CASE Persist
  BY <1>1 DEF Persist
<1>2. CASE TickFails \/ TickHangs \/ Escalate
  BY <1>2 DEF TickFails, TickHangs, Escalate, CutShort
<1>3. CASE \/ Boot \/ LoadLatch \/ Connect \/ HaltOnConnect \/ StartFails \/ Started
           \/ LoopCheck \/ Sense \/ Brake \/ Drive \/ HandlerStops \/ HandlerRaises
  BY <1>3 DEF Boot, LoadLatch, Connect, HaltOnConnect, StartFails, Started,
     LoopCheck, Sense, Brake, Drive, HandlerStops, HandlerRaises, latch
<1>4. CASE Teardown \/ Halt \/ Close \/ Signal \/ Kill \/ WatchdogKills \/ SignalInTeardown
  BY <1>4 DEF Teardown, Halt, Close, Signal, Kill, WatchdogKills,
     SignalInTeardown, Dies, latch
<1>5. CASE ToolPasses \/ ToolRefused \/ ToolSends \/ ToolFails
  BY <1>5 DEF ToolPasses, ToolRefused, ToolSends, ToolFails, latch
<1>6. CASE UNCHANGED vars
  BY <1>6 DEF vars, latch
<1> QED
  BY NextCases, <1>1, <1>2, <1>3, <1>4, <1>5, <1>6

(* Every step of the process is a step of the promise: one that frees it   *)
(* to drive finds no record, for then it would be latched (Held).          *)
LEMMA StepRefines ==
    ASSUME TypeOK, TypeOK', Held, Held', [Next]_vars
    PROVE  [Promise!PromiseNext]_(Promise!promiseVars)
<1> DEFINE armed == pc \notin {"down", "load"} /\ ~latched
<1>1. recorded \in BOOLEAN /\ recorded' \in BOOLEAN /\ (dirty => latched)
  BY DEF TypeOK, LatchOK
<1>2. armed' => ~recorded'
  BY DEF Held
<1>3. CASE recorded' = recorded
  <2>1. CASE armed' = armed
    BY <1>3, <2>1 DEF Promise!promiseVars
  <2>2. CASE armed' = FALSE
    BY <1>3, <2>2 DEF Promise!PromiseNext, Promise!Disarm
  <2>3. CASE armed' = TRUE
    BY <1>1, <1>2, <1>3, <2>3 DEF Promise!PromiseNext, Promise!Arm
  <2> QED
    BY <2>1, <2>2, <2>3
<1>4. CASE Rearm
  BY <1>4 DEF Rearm, process, Promise!PromiseNext, Promise!Release
<1>5. CASE dirty /\ recorded' = TRUE
  BY <1>1, <1>2, <1>5 DEF Promise!PromiseNext, Promise!Hold
<1> QED
  BY <1>3, <1>4, <1>5, RecordChanges

(***************************************************************************)
(* The control process implements EStopPromise: across kills, restarts,    *)
(* failing ticks and escalations, beside an agent, a stop on record is     *)
(* cleared by the operator only, and no process gets past its start free   *)
(* to drive while there is one.                                            *)
(***************************************************************************)
THEOREM Refines == Spec => KeepsPromise
<1>1. Init => Promise!PromiseInit
  BY DEF Init, Promise!PromiseInit
<1>2. TypeOK /\ TypeOK' /\ Held /\ Held' /\ [Next]_vars
        => [Promise!PromiseNext]_(Promise!promiseVars)
  BY StepRefines
<1> QED
  BY <1>1, <1>2, TypeCorrect, HeldAlways, PTL
     DEF Spec, KeepsPromise, Promise!PromiseSpec
=============================================================================
