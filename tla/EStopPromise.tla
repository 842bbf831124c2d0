---------------------------- MODULE EStopPromise ----------------------------
(***************************************************************************)
(* What the persistent emergency-stop latch promises its operator          *)
(* (docs/runbooks/emergency-stop-rearm.md, src/src/mousedroid/safety/      *)
(* latch.py): a stop that has been recorded is reset only by a deliberate  *)
(* re-arm, and the re-arm does not by itself let the rover move.           *)
(***************************************************************************)

CONSTANT Fsync   \* the record is fsynced: the promise extends to power cuts

VARIABLES
    armed,  \* a control process is up and nothing stops it from driving
    held    \* a stop is on record and no operator has cleared it

promiseVars == <<armed, held>>

PromiseTypeOK == armed \in BOOLEAN /\ held \in BOOLEAN

PromiseInit == armed = FALSE /\ held = FALSE

(* A trip, or the end of the process. *)
Disarm == armed' = FALSE /\ held' = held

(* The record of a stop reaches the disk; only a stopped rover records. *)
Hold == ~armed /\ ~armed' /\ held' = TRUE

(* The operator clears the record; the rover stays as stopped as it was. *)
Release == held' = FALSE /\ armed' = armed

(* A process comes up and finds nothing on record. *)
Arm == ~held /\ armed' = TRUE /\ held' = held

(* Without fsync a power cut may take the record and stops the process. *)
Forget == ~Fsync /\ armed' = FALSE /\ held' = FALSE

PromiseNext == Disarm \/ Hold \/ Release \/ Arm \/ Forget

PromiseSpec == PromiseInit /\ [][PromiseNext]_promiseVars

(***************************************************************************)
(* A rover with a stop on record is never free to drive.                   *)
(***************************************************************************)
NeverArmedWhileHeld == ~(armed /\ held)
=============================================================================
