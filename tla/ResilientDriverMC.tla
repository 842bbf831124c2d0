-------------------------- MODULE ResilientDriverMC --------------------------
(* ResilientDriver for TLC: a control tick and an agent, each with its own *)
(* deadline, counted in backoffs.                                          *)
EXTENDS ResilientDriver, TLC

CONSTANTS tick, agent

Both == {tick, agent}

(* A tick whose deadline outlasts its retries, an agent whose does not. *)
PatientTick == (tick :> 2) @@ (agent :> 0)
=============================================================================
