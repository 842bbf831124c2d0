----------------------------- MODULE ControlLoop -----------------------------
(***************************************************************************)
(* The life of the control process: serve(), start(), run(), tick() and    *)
(* stop() of the orchestrator (src/src/mousedroid/orchestrator/), with the *)
(* signals, kills and restarts around it, the chassis that keeps the last  *)
(* velocity it was sent (no heartbeat failsafe armed), the record of the   *)
(* emergency-stop latch on disk, and an MCP agent whose motor tool runs    *)
(* between the awaits of the tick.                                         *)
(*                                                                         *)
(* A step of the model is a stretch of the code between two awaits that    *)
(* matter; what fails or is cancelled inside a stretch may have taken      *)
(* effect or not.                                                          *)
(***************************************************************************)
EXTENDS Naturals

CONSTANTS
    LatchWired,     \* safety.emergency_latch.enabled
    StopOnConnect,  \* esp32.stop_on_connect
    DiskFails,      \* writes of the latch record may fail
    MaxKills        \* bound: SIGKILLs and power losses in a behaviour

ASSUME Switches == LatchWired \in BOOLEAN /\ StopOnConnect \in BOOLEAN
                /\ DiskFails \in BOOLEAN
ASSUME KillsBound == MaxKills \in Nat

VARIABLES
    pc,          \* where serve() is
    running,     \* _running
    requested,   \* _shutdown_requested
    grace,       \* the escalation task: "off", "armed" or "over"
    ended,       \* how the last process ended
    wheels,      \* "still", "driven" by the loop or "pushed" by the agent
    connected,   \* the port is open
    haltFailed,  \* history: the port refused the last halt of bring-up or exit
    latched,     \* the latch in memory
    dirty,       \* it was tripped and not saved since
    recorded,    \* a latched record is on disk
    tool,        \* a set_velocity call passed the safety gate, not yet sent
    kills        \* number of kills so far

process == <<pc, running, requested, grace, ended>>
chassis == <<wheels, connected, haltFailed>>
latch   == <<latched, dirty, recorded>>
vars    == <<process, chassis, latch, tool, kills>>

Starting == {"load", "connect", "halt", "bringup"}
Ticking  == {"sense", "brake", "persist", "drive"}
InRun    == Ticking \cup {"loop", "handler", "wedged"}
Stopping == {"teardown", "halting", "closing"}

ProcessOK ==
    /\ pc \in Starting \cup InRun \cup Stopping \cup {"down"}
    /\ running \in BOOLEAN /\ (running => pc \in InRun)
    /\ requested \in BOOLEAN
    /\ grace \in {"off", "armed", "over"} /\ (grace # "off" => requested)
    /\ ended \in {"none", "clean", "error", "signal", "killed"}

ChassisOK ==
    wheels \in {"still", "driven", "pushed"} /\ connected \in BOOLEAN /\ haltFailed \in BOOLEAN

LatchOK ==
    /\ latched \in BOOLEAN /\ dirty \in BOOLEAN /\ recorded \in BOOLEAN
    /\ dirty => latched

TypeOK == ProcessOK /\ ChassisOK /\ LatchOK /\ tool \in BOOLEAN /\ kills \in 0..MaxKills

Init ==
    /\ pc = "down" /\ running = FALSE /\ requested = FALSE
    /\ grace = "off" /\ ended = "none"
    /\ wheels = "still" /\ connected = FALSE /\ haltFailed = FALSE
    /\ latched = FALSE /\ dirty = FALSE /\ recorded = FALSE
    /\ tool = FALSE /\ kills = 0
-----------------------------------------------------------------------------
(* start() *)

(* The service manager or the operator starts the process. *)
Boot ==
    /\ pc = "down"
    /\ pc' = "load" /\ running' = FALSE /\ requested' = FALSE
    /\ grace' = "off" /\ ended' = "none"
    /\ haltFailed' = FALSE
    /\ latched' = FALSE /\ dirty' = FALSE
    /\ UNCHANGED <<wheels, connected, recorded, tool, kills>>

(* _load_emergency_latch runs before anything can move. *)
ForgottenRecord == FALSE   \* mutant: the latch is not loaded at boot
RecordAtBoot == LatchWired /\ recorded

LoadLatch ==
    /\ pc = "load"
    /\ latched' = RecordAtBoot /\ dirty' = FALSE
    /\ pc' = "connect"
    /\ UNCHANGED <<running, requested, grace, ended, chassis, recorded, tool, kills>>

(* A start() that raises goes straight to serve()'s finally. *)
StartFails ==
    /\ pc \in {"connect", "bringup"}
    /\ pc' = "teardown" /\ ended' = "error"
    /\ UNCHANGED <<running, requested, grace, chassis, latch, tool, kills>>

Connect ==
    /\ pc = "connect"
    /\ connected' = TRUE
    /\ pc' = "halt"
    /\ UNCHANGED <<running, requested, grace, ended, wheels, haltFailed, latch, tool, kills>>

(* _halt_on_connect: failure is logged and swallowed. *)
NoOpeningHalt == FALSE   \* mutant: bring-up sends no halt
OpeningHalt == StopOnConnect

HaltOnConnect ==
    /\ pc = "halt"
    /\ \/ ~OpeningHalt /\ UNCHANGED <<wheels, haltFailed>>
       \/ OpeningHalt /\ wheels' = "still" /\ UNCHANGED haltFailed
       \/ OpeningHalt /\ haltFailed' = TRUE /\ UNCHANGED wheels
    /\ pc' = "bringup"
    /\ UNCHANGED <<running, requested, grace, ended, connected, latch, tool, kills>>

(* The end of start(), and serve()'s test of _shutdown_requested: nothing  *)
(* is awaited between the two.                                             *)
RunsAnyway == TRUE   \* mutant: start() sets _running = True
RunsAfterStart == ~requested

Started ==
    /\ pc = "bringup"
    /\ running' = RunsAfterStart
    /\ pc' = IF RunsAfterStart THEN "loop" ELSE "teardown"
    /\ ended' = IF RunsAfterStart THEN ended ELSE "clean"
    /\ UNCHANGED <<requested, grace, chassis, latch, tool, kills>>
-----------------------------------------------------------------------------
(* run() and tick() *)

LoopCheck ==
    /\ pc = "loop"
    /\ pc' = IF running THEN "sense" ELSE "teardown"
    /\ ended' = IF running THEN ended ELSE "clean"
    /\ UNCHANGED <<running, requested, grace, chassis, latch, tool, kills>>

(* evaluate() trips the wired latch on an emergency, once. *)
Trip(danger) ==
    /\ latched' = (latched \/ (LatchWired /\ danger))
    /\ dirty' = (dirty \/ (LatchWired /\ danger /\ ~latched))

(* read_all, evaluate, and the sensor recovery that may clear an emergency *)
(* no latch holds.                                                         *)
Sense ==
    /\ pc = "sense"
    /\ \E danger, recovered \in BOOLEAN :
          /\ Trip(danger)
          /\ pc' = IF latched' \/ (danger /\ ~recovered) THEN "brake" ELSE "drive"
    /\ UNCHANGED <<running, requested, grace, ended, chassis, recorded, tool, kills>>

(* Motors first, disk second. *)
Brake ==
    /\ pc = "brake"
    /\ wheels' = "still"
    /\ pc' = "persist"
    /\ UNCHANGED <<running, requested, grace, ended, connected, haltFailed, latch, tool, kills>>

(* _persist_emergency_latch never raises; a failed write leaves it dirty.  *)
Persist ==
    /\ pc = "persist"
    /\ \/ dirty /\ recorded' = TRUE /\ dirty' = FALSE
       \/ (~dirty \/ DiskFails) /\ UNCHANGED <<recorded, dirty>>
    /\ pc' = "loop"
    /\ UNCHANGED <<running, requested, grace, ended, chassis, latched, tool, kills>>

(* The selected action is sent and the rest of the tick runs. *)
Drive ==
    /\ pc = "drive"
    /\ wheels' \in {"still", "driven"}
    /\ pc' = "loop"
    /\ UNCHANGED <<running, requested, grace, ended, connected, haltFailed, latch, tool, kills>>

(* What a tick cut short by an error or a cancellation leaves behind. *)
CutShort ==
    /\ \/ wheels' = wheels
       \/ pc = "drive" /\ wheels' \in {"still", "driven"}
       \/ pc \in {"brake", "handler"} /\ wheels' = "still"
    /\ IF pc = "sense" THEN \E danger \in BOOLEAN : Trip(danger)
                       ELSE UNCHANGED <<latched, dirty>>
    /\ \/ recorded' = recorded
       \/ pc = "persist" /\ dirty /\ recorded' = TRUE

(* wait_for times out, or the tick raises. *)
TickFails ==
    /\ pc \in Ticking
    /\ CutShort
    /\ pc' = "handler"
    /\ UNCHANGED <<running, requested, grace, ended, connected, haltFailed, tool, kills>>

(* The tick swallows the cancellation of tick_timeout_s and hangs. *)
TickHangs ==
    /\ pc \in {"sense", "drive"}
    /\ CutShort
    /\ pc' = "wedged"
    /\ UNCHANGED <<running, requested, grace, ended, connected, haltFailed, tool, kills>>

(* run()'s except branches: the stop succeeds, or its error ends run(). *)
HandlerStops ==
    /\ pc = "handler"
    /\ wheels' = "still"
    /\ pc' = "loop"
    /\ UNCHANGED <<running, requested, grace, ended, connected, haltFailed, latch, tool, kills>>

RunningKept == running   \* mutant: stop() leaves _running alone
RunningInStop == FALSE

HandlerRaises ==
    /\ pc = "handler"
    /\ pc' = "teardown" /\ ended' = "error"
    /\ running' = RunningInStop
    /\ UNCHANGED <<requested, grace, chassis, latch, tool, kills>>
-----------------------------------------------------------------------------
(* Shutdown *)

(* SIGTERM or SIGINT while serve() has its handlers installed. *)
Signal ==
    /\ pc \in Starting \cup InRun
    /\ ~requested
    /\ requested' = TRUE /\ running' = FALSE /\ grace' = "armed"
    /\ UNCHANGED <<pc, ended, chassis, latch, tool, kills>>

(* shutdown_grace_s is over: the run task, if there is one, is cancelled.  *)
LeftAlone == pc   \* mutant: the escalation only logs
AfterGrace == IF pc \in InRun THEN "teardown" ELSE pc

Escalate ==
    /\ grace = "armed" /\ pc \in Starting \cup InRun
    /\ grace' = "over"
    /\ pc' = AfterGrace
    /\ ended' = IF pc \in InRun THEN "clean" ELSE ended
    /\ running' = IF pc \in InRun THEN RunningInStop ELSE running
    /\ CutShort
    /\ UNCHANGED <<requested, connected, haltFailed, tool, kills>>

(* stop(): software teardown first; whether it raises or not, the finally  *)
(* halts the actuators.  It cancels the agent's calls only if it gets as   *)
(* far as the MCP server.                                                  *)
HaltIfClean(failed) ==   \* mutant: the halt is not in a finally
    IF failed THEN "closing" ELSE "halting"
AfterSoftware(failed) == "halting"

Teardown ==
    /\ pc = "teardown"
    /\ \E failed \in BOOLEAN :
          /\ pc' = AfterSoftware(failed)
          /\ ended' = IF failed THEN "error" ELSE ended
          /\ tool' \in IF failed THEN {tool, FALSE} ELSE {FALSE}
    /\ UNCHANGED <<running, requested, grace, chassis, latch, kills>>

(* _halt_actuators sends the stop, then closes the port, best effort. *)
Halt ==
    /\ pc = "halting"
    /\ \/ connected /\ wheels' = "still" /\ haltFailed' = FALSE
       \/ haltFailed' = TRUE /\ UNCHANGED wheels
    /\ pc' = "closing"
    /\ UNCHANGED <<running, requested, grace, ended, connected, latch, tool, kills>>

Close ==
    /\ pc = "closing"
    /\ connected' = FALSE /\ tool' = FALSE
    /\ pc' = "down"
    /\ UNCHANGED <<running, requested, grace, ended, wheels, haltFailed, latch, kills>>
-----------------------------------------------------------------------------
(* The rest of the world *)

Dies(how) ==
    /\ pc' = "down" /\ ended' = how
    /\ running' = FALSE /\ connected' = FALSE /\ tool' = FALSE
    /\ UNCHANGED <<requested, grace, wheels, haltFailed, latch>>

(* SIGKILL, or a crash of the interpreter. *)
Kill ==
    /\ pc # "down" /\ kills < MaxKills
    /\ kills' = kills + 1
    /\ Dies("killed")

(* A loop that hangs stops notifying systemd (WatchdogSec=30), which kills *)
(* the process if loop.watchdog_enabled.                                   *)
WatchdogKills ==
    /\ pc = "wedged"
    /\ Dies("killed")
    /\ UNCHANGED kills

(* serve() removed its handlers before stop(): a SIGTERM in the teardown   *)
(* takes the default disposition.                                          *)
SignalInTeardown ==
    /\ pc \in Stopping
    /\ Dies("signal")
    /\ UNCHANGED kills

(* The operator clears the record with the re-arm CLI. *)
Rearm ==
    /\ recorded
    /\ recorded' = FALSE
    /\ UNCHANGED <<process, chassis, latched, dirty, tool, kills>>

(* The safety gate of MCPToolBridge.call_tool lets a set_velocity through; *)
(* the MCP server is up from bring-up on.                                  *)
ToolPasses ==
    /\ pc \in InRun \cup {"bringup"}
    /\ ~tool /\ ~latched
    /\ tool' = TRUE
    /\ UNCHANGED <<process, chassis, latch, kills>>

(* The gate's own evaluate() finds an emergency and trips the latch. *)
ToolRefused ==
    /\ pc \in InRun \cup {"bringup"}
    /\ LatchWired /\ ~latched
    /\ Trip(TRUE)
    /\ UNCHANGED <<process, chassis, recorded, tool, kills>>

(* Its velocity reaches the port: at once, after waiting for _io_lock, or  *)
(* after a retry's backoff.                                                *)
ToolSends ==
    /\ tool /\ connected
    /\ wheels' = "pushed" /\ tool' = FALSE
    /\ UNCHANGED <<process, connected, haltFailed, latch, kills>>

(* It fails or times out. *)
ToolFails ==
    /\ tool
    /\ tool' = FALSE
    /\ UNCHANGED <<process, chassis, latch, kills>>

ProcessStep ==
    \/ LoadLatch \/ Connect \/ HaltOnConnect \/ StartFails \/ Started
    \/ LoopCheck \/ Sense \/ Brake \/ Persist \/ Drive
    \/ TickFails \/ HandlerStops \/ HandlerRaises
    \/ Teardown \/ Halt \/ Close

AgentStep == ToolPasses \/ ToolRefused \/ ToolSends \/ ToolFails

Next ==
    \/ Boot \/ ProcessStep \/ TickHangs
    \/ Signal \/ Escalate
    \/ Kill \/ WatchdogKills \/ SignalInTeardown
    \/ Rearm \/ AgentStep

Spec == Init /\ [][Next]_vars

(* The event loop runs the process, the grace timer expires, and systemd   *)
(* restarts a process that failed (Restart=on-failure); the watchdog,      *)
(* which may be off, is not relied on.                                     *)
Restart == ended \in {"error", "killed"} /\ Boot

Fairness == WF_vars(ProcessStep) /\ WF_vars(Escalate) /\ WF_vars(Restart)

FairSpec == Spec /\ Fairness
-----------------------------------------------------------------------------
(***************************************************************************)
(* Across crashes, kills, restarts and failing ticks, the loop does not    *)
(* drive a rover whose latch record is on disk: the record is written only *)
(* behind a stop, and every process finds it before it can drive.          *)
(***************************************************************************)
RecordedMeansStill == recorded => wheels # "driven"

(***************************************************************************)
(* The process keeps the promise made to the operator of the latch: once   *)
(* a stop is on record no process gets past its start free to drive, until *)
(* the record is cleared, and only a stopped one writes the record.        *)
(***************************************************************************)
Promise == INSTANCE EStopPromise WITH
    Fsync <- TRUE,   \* what a power cut does to the record is EmergencyLatch's
    armed <- pc \notin {"down", "load"} /\ ~latched,
    held <- recorded

KeepsPromise == Promise!PromiseSpec

(***************************************************************************)
(* A process that ends by itself, however startup, loop and teardown went, *)
(* leaves no motion of its own unless the port refused the stop it sent    *)
(* (stop(): "a failure anywhere in software shutdown cannot leave the      *)
(* motors running").                                                       *)
(***************************************************************************)
HaltedAtExit ==
    pc = "down" /\ ended \in {"clean", "error"} => wheels # "driven" \/ haltFailed

(***************************************************************************)
(* No tick begins after a shutdown request, wherever the signal lands:     *)
(* start() must not overwrite the flag request_shutdown cleared.           *)
(***************************************************************************)
NoTickAfterRequest == [][requested => ~(pc = "loop" /\ pc' = "sense")]_vars

(***************************************************************************)
(* A shutdown request ends the process, also when a tick hangs.            *)
(***************************************************************************)
ShutdownEnds == requested ~> pc = "down"

(***************************************************************************)
(* Wheels a killed process left turning are halted by its successor,       *)
(* unless the port refuses the halt or a signal kills the successor in its *)
(* own teardown.                                                           *)
(***************************************************************************)
OrphanedWheelsStop ==
    (pc = "down" /\ ended = "killed" /\ wheels # "still")
        ~> (wheels = "still" \/ haltFailed \/ ended = "signal")

(***************************************************************************)
(* An agent's velocity that slips through while a stop is on record does   *)
(* not last: unless a tick hangs, the loop or the next process stops the   *)
(* wheels.                                                                 *)
(***************************************************************************)
LatchedWheelsStop ==
    (recorded /\ wheels = "pushed")
        ~> (wheels = "still" \/ haltFailed \/ ended = "signal" \/ pc = "wedged")

(***************************************************************************)
(* "The latch holds the stop across ticks and across restarts"             *)
(* (docs/runbooks/emergency-stop-rearm.md:16): a process that ends by      *)
(* itself has saved the latch it tripped.                                  *)
(***************************************************************************)
TripIsSavedAtExit == pc = "down" /\ ended \in {"clean", "error"} => ~dirty
=============================================================================
