----------------------- MODULE OnDeviceLearning_proofs -----------------------
(***************************************************************************)
(* What no sequence of refinements, gates, loads, swaps, rotten slots and  *)
(* restarts can break, for every set of candidates and every setting.      *)
(***************************************************************************)
EXTENDS OnDeviceLearning, TLAPS

(* Whatever is on its way to the tick was promoted: the pointer, the       *)
(* digest in the thread, and the engines, which are what they are named.   *)
OnTheWay ==
    /\ {active, loading} \subseteq promoted \cup {None}
    /\ \A d \in DOMAIN engines : d \in promoted /\ engines[d] = d

Inv ==
    /\ TypeOK
    /\ OnTheWay
    /\ EngineOfPending
    /\ LiveIsBlessed
    /\ CarriedIsOwn
    /\ ConsumedIsReal

LEMMA InitInv == Init => Inv
  <1> SUFFICES ASSUME Init PROVE Inv
    OBVIOUS
  <1> USE Settings DEF Init
  <1>1. TypeOK
    BY DEF TypeOK, Model, Store, Zeros, NoEngines, HeldOut, Cap
  <1>2. OnTheWay /\ EngineOfPending
    BY DEF OnTheWay, EngineOfPending, NoEngines
  <1>3. LiveIsBlessed /\ CarriedIsOwn
    BY DEF LiveIsBlessed, CarriedIsOwn, Zeros, Store
  <1>4. ConsumedIsReal
    BY DEF ConsumedIsReal
  <1> QED
    BY <1>1, <1>2, <1>3, <1>4 DEF Inv

(* A step of the coordinator leaves the source and the tick alone.         *)
LEMMA CycleInv == Inv /\ Cycle => Inv'
  <1> SUFFICES ASSUME Inv, Cycle PROVE Inv'
    OBVIOUS
  <1> USE Settings DEF Inv, disk, cycle, source, tick
  <1>1. CASE Count
    <2>1. NewRecords \in 0..Cap /\ consumed + NewRecords <= records
      BY DEF NewRecords, Cap, TypeOK, ConsumedIsReal
    <2>2. TypeOK'
      BY <1>1, <2>1 DEF Count, TypeOK, Cap, Model, Store
    <2>3. ConsumedIsReal'
      BY <1>1, <2>1 DEF Count, ConsumedIsReal
    <2> QED
      BY <1>1, <2>2, <2>3 DEF Count, OnTheWay, EngineOfPending, LiveIsBlessed, CarriedIsOwn
  <1>2. CASE Load
    <2>1. TypeOK'
      BY <1>2 DEF Load, TypeOK, Cap, Model, Store
    <2>2. ConsumedIsReal'
      BY <1>2 DEF Load, ConsumedIsReal, TypeOK, Cap
    <2> QED
      BY <1>2, <2>1, <2>2 DEF Load, OnTheWay, EngineOfPending, LiveIsBlessed, CarriedIsOwn
  <1>3. CASE Refine
    <2>1. TypeOK'
      BY <1>3 DEF Refine, TypeOK, Cap, Model, Store
    <2>2. ConsumedIsReal'
      BY <1>3 DEF Refine, ConsumedIsReal
    <2> QED
      BY <1>3, <2>1, <2>2 DEF Refine, OnTheWay, EngineOfPending, LiveIsBlessed, CarriedIsOwn
  <1>4. CASE Persist
    <2>1. candidate \in Digests
      BY <1>4 DEF Persist, TypeOK
    <2>2. TypeOK'
      BY <1>4, <2>1 DEF Persist, TypeOK, Cap, Model, Store
    <2>3. ConsumedIsReal'
      BY <1>4 DEF Persist, ConsumedIsReal
    <2> QED
      BY <1>4, <2>2, <2>3 DEF Persist, OnTheWay, EngineOfPending, LiveIsBlessed, CarriedIsOwn
  <1>5. CASE Gate
    <2>1. candidate \in Digests
      BY <1>5 DEF Gate, TypeOK
    <2>2. /\ active' \in {active, candidate} /\ promoted' \subseteq promoted \cup {candidate}
          /\ promoted \subseteq promoted' /\ active' \in {active} \cup promoted'
          /\ promoted' \subseteq Better
      BY <1>5 DEF Gate, Judged, Promotes, LiveIsBlessed
    <2>3. TypeOK'
      BY <1>5, <2>1, <2>2 DEF Gate, TypeOK, Cap, Model, Store
    <2>4. ConsumedIsReal'
      BY <1>5 DEF Gate, ConsumedIsReal
    <2> QED
      BY <1>5, <2>2, <2>3, <2>4
      DEF Gate, OnTheWay, EngineOfPending, LiveIsBlessed, CarriedIsOwn
  <1>6. CASE CycleFails
    <2>1. TypeOK'
      BY <1>6 DEF CycleFails, TypeOK, Cap, Model, Store
    <2>2. ConsumedIsReal'
      BY <1>6 DEF CycleFails, ConsumedIsReal, TypeOK, Cap
    <2> QED
      BY <1>6, <2>1, <2>2
      DEF CycleFails, OnTheWay, EngineOfPending, LiveIsBlessed, CarriedIsOwn
  <1> QED
    BY <1>1, <1>2, <1>3, <1>4, <1>5, <1>6 DEF Cycle

(* The source publishes what it verified, and that was promoted.           *)
LEMMA SourceInv == Inv /\ Source => Inv'
  <1> SUFFICES ASSUME Inv, Source PROVE Inv'
    OBVIOUS
  <1> USE Settings DEF Inv, disk, cycle, source, tick
  <1>1. CASE Probe
    <2>1. TypeOK'
      BY <1>1 DEF Probe, Noted, TypeOK, Cap, Model, Store
    <2> QED
      BY <1>1, <2>1
      DEF Probe, Noted, OnTheWay, EngineOfPending, LiveIsBlessed, CarriedIsOwn, ConsumedIsReal
  <1>2. CASE Materialised
    <2>1. loading \in Digests /\ loading \in promoted
      BY <1>2 DEF Materialised, TypeOK, OnTheWay
    <2>2. CASE Verifies(loading)
      <3>1. engines' = [e \in {loading} |-> loading] /\ pending' = loading
        BY <1>2, <2>2 DEF Materialised, Cached, Content, Verifies
      <3>2. TypeOK'
        BY <1>2, <2>1, <2>2, <3>1 DEF Materialised, TypeOK, Cap, Model, Store
      <3>3. OnTheWay' /\ EngineOfPending'
        BY <1>2, <2>1, <3>1 DEF Materialised, OnTheWay, EngineOfPending
      <3> QED
        BY <1>2, <3>2, <3>3 DEF Materialised, LiveIsBlessed, CarriedIsOwn, ConsumedIsReal
    <2>3. CASE ~Verifies(loading)
      <3>1. DOMAIN engines' = {} /\ pending' = None
        BY <1>2, <2>3 DEF Materialised, NoEngines
      <3>2. TypeOK'
        BY <1>2, <2>1, <2>3, <3>1 DEF Materialised, TypeOK, Cap, Model, Store
      <3> QED
        BY <1>2, <3>1, <3>2 DEF Materialised, OnTheWay, EngineOfPending, LiveIsBlessed,
           CarriedIsOwn, ConsumedIsReal
    <2> QED
      BY <2>2, <2>3
  <1>3. CASE LoadFails
    <2>1. TypeOK'
      BY <1>3 DEF LoadFails, TypeOK, Cap, Model, Store
    <2> QED
      BY <1>3, <2>1
      DEF LoadFails, OnTheWay, EngineOfPending, LiveIsBlessed, CarriedIsOwn, ConsumedIsReal
  <1> QED
    BY <1>1, <1>2, <1>3 DEF Source

(* The tick swaps in the engine of the pending update and zeroes what the  *)
(* old one made.                                                           *)
LEMMA TickInv == Inv /\ Tick => Inv'
  <1> SUFFICES ASSUME Inv, Tick PROVE Inv'
    OBVIOUS
  <1> USE Settings DEF Inv, disk, cycle, source, tick
  <1>1. CASE Observe
    <2>1. /\ \A s \in Store : carried'[s] \in {Zero, live}
          /\ carried' \in [Store -> Model \cup {Zero}]
      BY <1>1 DEF Observe, TypeOK, CarriedIsOwn, Store
    <2>2. TypeOK'
      BY <1>1, <2>1 DEF Observe, TypeOK, Cap, Model
    <2> QED
      BY <1>1, <2>1, <2>2
      DEF Observe, OnTheWay, EngineOfPending, LiveIsBlessed, CarriedIsOwn, ConsumedIsReal
  <1>2. CASE EmergencyTick
    <2>1. TypeOK'
      BY <1>2 DEF EmergencyTick, TypeOK, Cap, Model, Store
    <2> QED
      BY <1>2, <2>1
      DEF EmergencyTick, OnTheWay, EngineOfPending, LiveIsBlessed, CarriedIsOwn, ConsumedIsReal
  <1>3. CASE PlanAndSwap
    <2>0. records' \in 0..MaxRecords /\ records' >= records
      BY <1>3 DEF PlanAndSwap, TypeOK
    <2>1. CASE pending = None
      <3>1. /\ \A s \in Store : carried'[s] \in {Zero, live}
            /\ carried' \in [Store -> Model \cup {Zero}]
        BY <1>3, <2>1 DEF PlanAndSwap, Remembered, TypeOK, CarriedIsOwn, Store
      <3>2. TypeOK'
        BY <1>3, <2>0, <2>1, <3>1 DEF PlanAndSwap, TypeOK, Cap, Model
      <3>3. ConsumedIsReal'
        BY <1>3, <2>0 DEF PlanAndSwap, ConsumedIsReal, TypeOK, Cap
      <3> QED
        BY <1>3, <2>1, <3>1, <3>2, <3>3
        DEF PlanAndSwap, OnTheWay, EngineOfPending, LiveIsBlessed, CarriedIsOwn
    <2>2. CASE pending # None
      <3>1. pending \in promoted /\ pending \in Digests /\ engines[pending] = pending
        BY <2>2 DEF TypeOK, EngineOfPending, OnTheWay
      <3>2. /\ live' = pending /\ pending' = None /\ DOMAIN engines' = {}
            /\ carried' = Zeros
        BY <1>3, <2>2, <3>1 DEF PlanAndSwap, EngineOfPending, Reset
      <3>3. TypeOK'
        BY <1>3, <2>0, <3>1, <3>2 DEF PlanAndSwap, TypeOK, Cap, Model, Zeros
      <3>4. ConsumedIsReal'
        BY <1>3, <2>0 DEF PlanAndSwap, ConsumedIsReal, TypeOK, Cap
      <3>5. OnTheWay' /\ EngineOfPending'
        BY <1>3, <3>2 DEF PlanAndSwap, OnTheWay, EngineOfPending
      <3>6. LiveIsBlessed' /\ CarriedIsOwn'
        BY <1>3, <3>1, <3>2 DEF PlanAndSwap, LiveIsBlessed, CarriedIsOwn, Zeros
      <3> QED
        BY <3>3, <3>4, <3>5, <3>6
    <2> QED
      BY <2>1, <2>2
  <1> QED
    BY <1>1, <1>2, <1>3 DEF Tick

(* Rot takes slots and the pointer away; a restart starts from the disk.   *)
LEMMA WorldInv == Inv /\ (Rot \/ Restart) => Inv'
  <1> SUFFICES ASSUME Inv, Rot \/ Restart PROVE Inv'
    OBVIOUS
  <1> USE Settings DEF Inv, disk, cycle, source, tick
  <1>1. CASE Rot
    <2>1. TypeOK'
      BY <1>1 DEF Rot, TypeOK, Cap, Model, Store
    <2>2. active' \in {active, None}
      BY <1>1 DEF Rot
    <2> QED
      BY <1>1, <2>1, <2>2
      DEF Rot, OnTheWay, EngineOfPending, LiveIsBlessed, CarriedIsOwn, ConsumedIsReal
  <1>2. CASE Restart
    <2>1. TypeOK'
      BY <1>2 DEF Restart, TypeOK, Cap, Model, Store, Zeros, NoEngines, HeldOut
    <2>2. OnTheWay' /\ EngineOfPending'
      BY <1>2 DEF Restart, OnTheWay, EngineOfPending, NoEngines
    <2>3. LiveIsBlessed' /\ CarriedIsOwn' /\ ConsumedIsReal'
      BY <1>2 DEF Restart, LiveIsBlessed, CarriedIsOwn, ConsumedIsReal, Zeros, TypeOK
    <2> QED
      BY <2>1, <2>2, <2>3
  <1> QED
    BY <1>1, <1>2

LEMMA Inductive == Spec => []Inv
  <1>1. Inv /\ UNCHANGED vars => Inv'
    <2> SUFFICES ASSUME Inv, UNCHANGED vars PROVE Inv'
      OBVIOUS
    <2> QED
      BY DEF vars, disk, cycle, source, tick, Inv, TypeOK, OnTheWay, EngineOfPending,
             LiveIsBlessed, CarriedIsOwn, ConsumedIsReal, Cap
  <1>2. Inv /\ [Next]_vars => Inv'
    BY <1>1, CycleInv, SourceInv, TickInv, WorldInv DEF Next
  <1> QED
    BY InitInv, <1>2, PTL DEF Spec

(***************************************************************************)
(* The state is of its type in every reachable state.                      *)
(***************************************************************************)
THEOREM TypeCorrect == Spec => []TypeOK
  <1>1. Inv => TypeOK
    BY DEF Inv
  <1> QED
    BY Inductive, <1>1, PTL

(***************************************************************************)
(* The rover drives with its boot model or with one the gate promoted.     *)
(***************************************************************************)
THEOREM Blessed == Spec => []LiveIsBlessed
  <1>1. Inv => LiveIsBlessed
    BY DEF Inv
  <1> QED
    BY Inductive, <1>1, PTL

(***************************************************************************)
(* No state one model made is fed to another.                              *)
(***************************************************************************)
THEOREM NoContamination == Spec => []CarriedIsOwn
  <1>1. Inv => CarriedIsOwn
    BY DEF Inv
  <1> QED
    BY Inductive, <1>1, PTL

(***************************************************************************)
(* The tick's loader finds the engine of every pending update, and no      *)
(* other engine is kept.                                                   *)
(***************************************************************************)
THEOREM EngineReady == Spec => []EngineOfPending
  <1>1. Inv => EngineOfPending
    BY DEF Inv
  <1> QED
    BY Inductive, <1>1, PTL

(***************************************************************************)
(* No record is counted for two cycles of one process.                     *)
(***************************************************************************)
THEOREM TriggerDisarms == Spec => []ConsumedIsReal
  <1>1. Inv => ConsumedIsReal
    BY DEF Inv
  <1> QED
    BY Inductive, <1>1, PTL
-----------------------------------------------------------------------------
(* What the source has looked at was rotten, or waits for the tick, or is  *)
(* what drives.                                                            *)
SeenIsSettled == seen \in rejected \cup {None} \/ pending = seen
                                               \/ (pending = None /\ live = seen)

LEMMA SettledStep == Inv /\ SeenIsSettled /\ [Next]_vars => SeenIsSettled'
  <1> SUFFICES ASSUME Inv, SeenIsSettled, [Next]_vars PROVE SeenIsSettled'
    OBVIOUS
  <1> USE Settings DEF disk, cycle, source, tick
  <1>1. ASSUME UNCHANGED <<seen, rejected, pending, live>> PROVE SeenIsSettled'
    BY <1>1 DEF SeenIsSettled
  <1>2. CASE Cycle
    BY <1>1, <1>2 DEF Cycle, Count, Load, Refine, Persist, Gate, CycleFails
  <1>3. CASE Probe \/ LoadFails
    BY <1>1, <1>3 DEF Probe, Noted, LoadFails
  <1>4. CASE Materialised
    BY <1>4 DEF Materialised, SeenIsSettled
  <1>5. CASE Observe \/ EmergencyTick
    BY <1>1, <1>5 DEF Observe, EmergencyTick
  <1>6. CASE PlanAndSwap
    <2>1. CASE pending = None
      BY <1>6, <2>1 DEF PlanAndSwap, SeenIsSettled
    <2>2. CASE pending # None
      <3>1. engines[pending] = pending
        BY <2>2 DEF Inv, EngineOfPending, OnTheWay
      <3> QED
        BY <1>6, <2>2, <3>1 DEF PlanAndSwap, SeenIsSettled
    <2> QED
      BY <2>1, <2>2
  <1>7. CASE Rot
    BY <1>1, <1>7 DEF Rot
  <1>8. CASE Restart
    BY <1>8 DEF Restart, SeenIsSettled
  <1>9. CASE UNCHANGED vars
    BY <1>1, <1>9 DEF vars
  <1> QED
    BY <1>2, <1>3, <1>4, <1>5, <1>6, <1>7, <1>8, <1>9 DEF Next, Source, Tick

(***************************************************************************)
(* No promoted slot is passed over: unless this process found it rotten,   *)
(* the slot the pointer rests on is still to be probed, is pending, or     *)
(* drives already, whichever errors, emergencies and newer promotions came *)
(* in between. It is what ActiveGoesLive owes to the code, the rest being  *)
(* probes and ticks.                                                       *)
(***************************************************************************)
ActiveNotPassedOver ==
    active \notin rejected \cup {None} => active # seen \/ pending = active \/ live = active

THEOREM NoSlotPassedOver == Spec => []ActiveNotPassedOver
  <1>1. Init => SeenIsSettled
    BY DEF Init, SeenIsSettled
  <1>2. SeenIsSettled => ActiveNotPassedOver
    BY DEF SeenIsSettled, ActiveNotPassedOver
  <1> QED
    BY <1>1, <1>2, SettledStep, Inductive, PTL DEF Spec
=============================================================================
