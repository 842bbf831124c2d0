-------------------------- MODULE OnDeviceLearning --------------------------
(***************************************************************************)
(* Learning on the rover: the coordinator that refines a candidate world   *)
(* model from replayed experience (learning/on_device/replay_trigger.py),  *)
(* the slots and the active pointer on disk (slot_store.py), the           *)
(* regression gate (regression_gate.py), the source that turns the active  *)
(* slot into an engine (hot_swap.py), and the tick that observes, plans    *)
(* and swaps (orchestrator/_world_model_state_mixin.py), as                *)
(* factory/on_device_learning.py wires them.                               *)
(*                                                                         *)
(* The coordinator and the source are tasks of their own that await a      *)
(* worker thread at every step; records, slots and the pointer outlive the *)
(* process, everything else starts anew. A model is named by the digest of *)
(* its slot; what training computes is left open.                          *)
(***************************************************************************)
EXTENDS Naturals, FiniteSets

CONSTANTS
    Digests,      \* the candidates training may come to
    Better,       \* those within the tolerance of the boot model
    Boot,         \* the model build_world_model() builds
    Garbage,      \* a model read from a rotten slot
    Zero,         \* the zero state: of no model
    None,
    Needed,       \* records of a batch: episodes * sequence length
    MinNew,       \* trigger_min_new_records
    MaxRecords,   \* bound: records in the store
    MaxRestarts   \* bound: restarts of the process

ASSUME Settings ==
    /\ Better \subseteq Digests
    /\ {Needed, MinNew} \subseteq Nat \ {0} /\ {MaxRecords, MaxRestarts} \subseteq Nat
    /\ None \notin Digests /\ Zero \notin Digests \cup {Boot, Garbage}

VARIABLES
    records,    \* disk: the store, which only grows
    slots,      \* disk: each slot is missing, good or rotten
    active,     \* disk: what active.json points to, or None
    consumed,   \* consumed_offset: records earlier cycles consumed
    heldOut,    \* the gate was built with a held-out batch
    stage,      \* what maybe_update() has done
    claim,      \* new_records of the cycle
    candidate,  \* the slot of the cycle, or None
    seen,       \* _seen_digest
    loading,    \* the digest in the materialiser's thread, or None
    pending,    \* _pending_update, or None
    engines,    \* _engine_by_update
    live,       \* the orchestrator's _world_model
    planner,    \* the world model of the agent's MCTSPlanner
    carried,    \* the model that made _h and _z, the recovery buffer, _prev_action
    phase,      \* the tick: before "observe" or before "plan"
    restarts,
    promoted,   \* history: digests the gate passed
    rejected    \* history: digests this process saw rotten

disk == <<records, slots, active, promoted>>
cycle == <<consumed, stage, claim, candidate>>
source == <<seen, loading, pending, engines, rejected>>
tick == <<live, carried, phase>>
vars == <<disk, cycle, source, tick, heldOut, planner, restarts>>

Model == Digests \cup {Boot, Garbage}
Store == {"latent", "buffer", "action"}
Cap == IF MinNew > Needed THEN MinNew ELSE Needed

TypeOK ==
    /\ records \in 0..MaxRecords /\ consumed \in Nat
    /\ slots \in [Digests -> {"missing", "good", "rotten"}]
    /\ {active, candidate, seen, loading, pending} \subseteq Digests \cup {None}
    /\ {promoted, rejected} \subseteq SUBSET Digests
    /\ heldOut \in BOOLEAN
    /\ stage \in {"idle", "counted", "loaded", "refined", "persisted"}
    /\ stage \in {"refined", "persisted"} <=> candidate # None
    /\ claim \in 0..Cap
    /\ DOMAIN engines \subseteq Digests /\ \A d \in DOMAIN engines : engines[d] \in Model
    /\ {live, planner} \subseteq Model
    /\ carried \in [Store -> Model \cup {Zero}]
    /\ phase \in {"observe", "plan"}
    /\ restarts \in 0..MaxRestarts

NoEngines == [d \in {} |-> Boot]
Zeros == [s \in Store |-> Zero]

(* The held-out batch is read when the gate is built. *)
HeldOut(n) == n >= 2 * Needed

Init ==
    /\ records \in 0..MaxRecords
    /\ slots = [d \in Digests |-> "missing"] /\ active = None /\ promoted = {}
    /\ consumed = 0 /\ stage = "idle" /\ claim = 0 /\ candidate = None
    /\ heldOut = HeldOut(records)
    /\ seen = None /\ loading = None /\ pending = None /\ engines = NoEngines
    /\ rejected = {}
    /\ live = Boot /\ planner = Boot /\ carried = Zeros /\ phase = "observe"
    /\ restarts = 0
-----------------------------------------------------------------------------
(* The coordinator *)

TotalRecords == IF records > Cap THEN Cap ELSE records   \* mutant: nothing skipped
Uncapped == IF consumed >= records THEN 0 ELSE records - consumed   \* mutant
NewRecords ==
    IF consumed >= records THEN 0
    ELSE IF records - consumed > Cap THEN Cap ELSE records - consumed

Count ==
    /\ stage = "idle" /\ NewRecords >= MinNew
    /\ stage' = "counted" /\ claim' = NewRecords
    /\ UNCHANGED <<consumed, candidate, disk, source, tick, heldOut, planner, restarts>>

(* The batch is the oldest Needed records; a sparse store skips the cycle. *)
Load ==
    /\ stage = "counted"
    /\ stage' = IF records < Needed THEN "idle" ELSE "loaded"
    /\ UNCHANGED <<consumed, claim, candidate, disk, source, tick, heldOut, planner, restarts>>

Refine ==
    /\ stage = "loaded"
    /\ stage' = "refined" /\ candidate' \in Digests
    /\ UNCHANGED <<consumed, claim, disk, source, tick, heldOut, planner, restarts>>

(* persist(), then on_consumed().                                          *)
Persist ==
    /\ stage = "refined"
    /\ slots' = [slots EXCEPT ![candidate] = "good"]
    /\ consumed' = consumed + claim
    /\ stage' = "persisted"
    /\ UNCHANGED <<records, active, promoted, claim, candidate, source, tick, heldOut,
                   planner, restarts>>

(* Any step may raise instead: the cycle is over. *)
CycleFails ==
    /\ stage # "idle"
    /\ stage' = "idle" /\ candidate' = None
    /\ UNCHANGED <<consumed, claim, disk, source, tick, heldOut, planner, restarts>>

Promotes(d) == heldOut /\ slots[d] = "good" /\ d \in Better

Judged(d) ==
    IF Promotes(d) THEN active' = d /\ promoted' = promoted \cup {d}
    ELSE UNCHANGED <<active, promoted>>

(* No held-out batch, a rotten slot, a regression, or mark_active().       *)
Gate ==
    /\ stage = "persisted"
    /\ Judged(candidate)
    /\ stage' = "idle" /\ candidate' = None
    /\ UNCHANGED <<records, slots, consumed, claim, source, tick, heldOut, planner, restarts>>
-----------------------------------------------------------------------------
(* The hot-swap source *)

Early(d) == d   \* mutant: seen before it is loaded
Noted(d) == seen

Probe ==
    /\ loading = None /\ active \notin {None, seen}
    /\ loading' = active /\ seen' = Noted(active)
    /\ UNCHANGED <<pending, engines, rejected, disk, cycle, tick, heldOut, planner, restarts>>

Believed(d) == TRUE   \* mutant: the digest is not checked
Verifies(d) == slots[d] = "good"

Content(d) == IF slots[d] = "good" THEN d ELSE Garbage

(* _evict_pending_engine(), then the update is published with its engine.  *)
Kept(d, m) == [e \in DOMAIN engines \cup {d} |-> IF e = d THEN m ELSE engines[e]]   \* mutant
Cached(d, m) == [e \in {d} |-> m]

Materialised ==
    /\ loading # None
    /\ loading' = None /\ seen' = loading
    /\ IF Verifies(loading)
       THEN /\ pending' = loading
            /\ engines' = Cached(loading, Content(loading))
            /\ rejected' = rejected
       ELSE /\ pending' = None
            /\ engines' = NoEngines
            /\ rejected' = rejected \cup {loading}
    /\ UNCHANGED <<disk, cycle, tick, heldOut, planner, restarts>>

(* Any other error: the next cadence tries again. *)
LoadFails ==
    /\ loading # None
    /\ loading' = None
    /\ UNCHANGED <<seen, pending, engines, rejected, disk, cycle, tick, heldOut, planner,
                   restarts>>
-----------------------------------------------------------------------------
(* The tick *)

(* _update_world_model(): on NaN the buffer's last state is restored.      *)
Observe ==
    /\ phase = "observe" /\ phase' = "plan"
    /\ carried' \in
         {[carried EXCEPT !["latent"] = live, !["buffer"] = live],
          [carried EXCEPT !["latent"] = IF carried["buffer"] = Zero THEN live
                                        ELSE carried["buffer"]]}
    /\ UNCHANGED <<live, disk, cycle, source, heldOut, planner, restarts>>

(* An emergency tick returns, and a timeout cancels, before it swaps. *)
EmergencyTick ==
    /\ phase = "plan" /\ phase' = "observe"
    /\ UNCHANGED <<live, carried, disk, cycle, source, heldOut, planner, restarts>>

(* A swap zeroes what the old weights made; otherwise the tick's action is *)
(* remembered.                                                             *)
Remembered == [carried EXCEPT !["action"] = carried["latent"]]
HalfReset == [carried EXCEPT !["latent"] = Zero, !["action"] = Zero]   \* mutant
Reset == Zeros

(* The pending update, if there is one, is swapped in and acknowledged,    *)
(* and the tick logs a record unless it is cut short.                      *)
PlanAndSwap ==
    /\ phase = "plan" /\ phase' = "observe"
    /\ IF pending = None
       THEN carried' = Remembered /\ UNCHANGED <<live, pending, engines>>
       ELSE /\ live' = engines[pending]
            /\ carried' = Reset
            /\ pending' = None
            /\ engines' = [d \in DOMAIN engines \ {pending} |-> engines[d]]
    /\ records' \in {records, records + 1} /\ records' <= MaxRecords
    /\ UNCHANGED <<slots, active, promoted, cycle, seen, loading, rejected, heldOut,
                   planner, restarts>>
-----------------------------------------------------------------------------
(* The world around it *)

(* A slot's file rots, or the pointer does: load_active() is None. *)
Rot ==
    /\ \/ \E d \in Digests : slots[d] = "good" /\ slots' = [slots EXCEPT ![d] = "rotten"]
                             /\ UNCHANGED active
       \/ active # None /\ active' = None /\ UNCHANGED slots
    /\ UNCHANGED <<records, promoted, cycle, source, tick, heldOut, planner, restarts>>

Restart ==
    /\ restarts < MaxRestarts /\ restarts' = restarts + 1
    /\ consumed' = 0 /\ stage' = "idle" /\ claim' = 0 /\ candidate' = None
    /\ heldOut' = HeldOut(records)
    /\ seen' = None /\ loading' = None /\ pending' = None /\ engines' = NoEngines
    /\ rejected' = {}
    /\ live' = Boot /\ planner' = Boot /\ carried' = Zeros /\ phase' = "observe"
    /\ UNCHANGED disk

Cycle == Count \/ Load \/ Refine \/ Persist \/ Gate \/ CycleFails
Source == Probe \/ Materialised \/ LoadFails
Tick == Observe \/ EmergencyTick \/ PlanAndSwap

Next == Cycle \/ Source \/ Tick \/ Rot \/ Restart

Spec == Init /\ [][Next]_vars

(* The loop ticks and emergencies pass; the source probes at its cadence   *)
(* and its thread comes to an end, not for ever in an error.               *)
Fairness ==
    /\ WF_vars(Observe) /\ WF_vars(EmergencyTick \/ PlanAndSwap) /\ SF_vars(PlanAndSwap)
    /\ WF_vars(Probe) /\ SF_vars(Materialised)

FairSpec == Spec /\ Fairness
-----------------------------------------------------------------------------
(***************************************************************************)
(* The model that drives the rover is the one it booted with or one the    *)
(* gate promoted in this or an earlier life, read from a slot that         *)
(* verified: never a candidate that regressed, never a rotten file.        *)
(***************************************************************************)
LiveIsBlessed == live \in promoted \cup {Boot} /\ promoted \subseteq Better

(***************************************************************************)
(* "one-tick cross-model contamination" (_world_model_state_mixin.py:204)  *)
(* does not happen: the latent state, the recovery buffer and the previous *)
(* action that the live model is fed were made by it, or are zero.         *)
(***************************************************************************)
CarriedIsOwn == \A s \in Store : carried[s] \in {Zero, live}

(***************************************************************************)
(* The cache holds the engine of the pending update and no other: the      *)
(* tick's loader finds it, and superseded engines do not pile up.          *)
(***************************************************************************)
EngineOfPending == DOMAIN engines = IF pending = None THEN {} ELSE {pending}

(***************************************************************************)
(* The trigger disarms: no record is counted for two cycles, whatever is   *)
(* recorded while a cycle awaits.                                          *)
(***************************************************************************)
ConsumedIsReal == consumed + (IF stage \in {"idle", "persisted"} THEN 0 ELSE claim) <= records

(***************************************************************************)
(* A promoted slot is activated: once the pointer rests on a slot that     *)
(* stays intact, the rover comes to drive with it, through emergencies,    *)
(* failed loads and restarts; a digest once rejected waits for a restart.  *)
(***************************************************************************)
ActiveGoesLive ==
    \A d \in Digests :
        <>[](active = d /\ slots[d] = "good" /\ d \notin rejected) => <>[](live = d)

(***************************************************************************)
(* "the current tick saw one consistent weight set for both                *)
(* _update_world_model and _select_action"                                 *)
(* (_world_model_state_mixin.py:143): the planner imagines with the model  *)
(* that observed.                                                          *)
(***************************************************************************)
OneWeightSet == phase = "plan" => planner = live
=============================================================================
