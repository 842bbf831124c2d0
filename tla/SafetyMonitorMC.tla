--------------------------- MODULE SafetyMonitorMC ---------------------------
(* SafetyMonitor for TLC. *)
EXTENDS SafetyMonitor, TLC

SlotSymmetry == Permutations(Slot)
=============================================================================
