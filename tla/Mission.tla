------------------------------- MODULE Mission -------------------------------
(***************************************************************************)
(* The mission of the rover: MissionLifecycle and its replanner            *)
(* (src/src/mousedroid/orchestrator/mission_lifecycle.py and               *)
(* llm_replanner.py), the task tracker it reports to                       *)
(* (harness/task_tracker.py), and the boundary flag of the dispatcher      *)
(* (mission_dispatcher.py), as the control tick and the REST handler drive *)
(* them on one event loop.                                                 *)
(*                                                                         *)
(* A tick awaits twice: in the replanner, an LLM call that can take        *)
(* seconds, and in the memory export; a command that is accepted meanwhile *)
(* replaces the mission, and tick_timeout_s may cancel the tick.           *)
(***************************************************************************)
EXTENDS Naturals, FiniteSets

CONSTANTS
    MaxMissions,  \* bound: missions started in a behaviour
    StallWindow,  \* stall_window_ticks
    MaxReplans,   \* max_replans_per_mission
    MaxActive,    \* the tracker's max_active
    None

ASSUME Settings ==
    /\ MaxMissions \in Nat /\ MaxReplans \in Nat
    /\ StallWindow \in Nat \ {0} /\ MaxActive \in Nat \ {0}

VARIABLES
    mission,    \* _mission, or None
    seq,        \* _mission_seq
    tracker,    \* what the tracker knows of each mission
    phase,      \* the tick: "idle", "scoring", "asking" or in the "export"
    full,       \* the tick is not cut short by an emergency stop
    asked,      \* the mission _handle_stall holds in its await, or None
    completed,  \* the dispatcher's _mission_completed
    score,      \* history: the latest progress score
    requests,   \* history: replans asked for this mission
    outcome,    \* history: what each mission came to
    owed,       \* history: a dispatch whose boundary was not handled yet
    lost        \* history: a tick was cancelled while it handled one

vars == <<mission, seq, tracker, phase, full, asked, completed, score,
          requests, outcome, owed, lost>>

Id == 1..MaxMissions
Terminal == {"SUCCEEDED", "FAILED"}
Task == {"unknown", "active", "completed", "failed", "timed_out"}
Score == {"low", "mid", "high"}   \* below, between and above the thresholds

Mission == [id : Id, state : {"RUNNING", "REPLANNING"} \cup Terminal,
            stalls : 0..StallWindow, replans : 0..MaxReplans]

ASSUME NoMission == None \notin Nat /\ None \notin Mission

TypeOK ==
    /\ mission \in Mission \cup {None}
    /\ seq \in 0..MaxMissions
    /\ mission = None <=> seq = 0
    /\ mission # None => mission.id = seq
    /\ tracker \in [Id -> Task]
    /\ phase \in {"idle", "scoring", "asking", "export"} /\ full \in BOOLEAN
    /\ asked \in Id \cup {None}
    /\ phase = "asking" <=> asked # None
    /\ completed \in BOOLEAN /\ owed \in BOOLEAN /\ lost \in BOOLEAN
    /\ score \in Score
    /\ requests \in 0..MaxReplans + 1
    /\ outcome \in [Id -> {"open"} \cup Terminal]

Init ==
    /\ mission = None /\ seq = 0
    /\ tracker = [i \in Id |-> "unknown"]
    /\ phase = "idle" /\ full = FALSE /\ asked = None
    /\ completed = FALSE
    /\ score = "mid" /\ requests = 0
    /\ outcome = [i \in Id |-> "open"]
    /\ owed = FALSE /\ lost = FALSE
-----------------------------------------------------------------------------
(* The task tracker *)

Active == {i \in Id : tracker[i] = "active"}

(* submit(): refused at the cap, which the lifecycle swallows. *)
Submitted(i) ==
    IF Cardinality(Active) < MaxActive THEN [tracker EXCEPT ![i] = "active"] ELSE tracker

(* update(): a task that is settled or unknown is left as it is. *)
Updated(i, status) ==
    IF tracker[i] = "active" THEN [tracker EXCEPT ![i] = status] ELSE tracker

(* evaluate_active(): the oldest missions may have timed out; their        *)
(* predicate never accepts.                                                *)
Evaluated ==
    {[i \in Id |-> IF tracker[i] = "active" /\ i <= n THEN "timed_out" ELSE tracker[i]] :
        n \in 0..MaxMissions}
-----------------------------------------------------------------------------
(* Commands *)

(* start_mission(): whatever mission there is, it is replaced.             *)
StartMission ==
    /\ seq < MaxMissions
    /\ seq' = seq + 1
    /\ mission' = [id |-> seq', state |-> "RUNNING", stalls |-> 0, replans |-> 0]
    /\ tracker' = Submitted(seq')
    /\ requests' = 0

(* The end of dispatch(): process_mission has started a mission, or        *)
(* understood nothing and returned the neutral goal. Handlers run while    *)
(* the tick awaits.                                                        *)
Dispatch ==
    /\ phase # "scoring"
    /\ \/ StartMission
       \/ UNCHANGED <<seq, mission, tracker, requests>>
    /\ completed' = TRUE
    /\ owed' = TRUE /\ lost' = FALSE
    /\ UNCHANGED <<phase, full, asked, score, outcome>>
-----------------------------------------------------------------------------
(* Verdicts *)

Open(m) == m # None /\ m.state \notin Terminal

(* _transition() to a terminal state, and what the tracker is told of it.  *)
Unforwarded(state) == [i \in Id |-> tracker[i]]   \* mutant: nothing
Forwarded(state) ==
    Updated(mission.id, IF state = "SUCCEEDED" THEN "completed" ELSE "failed")

Ends(state) ==
    /\ mission' = [mission EXCEPT !.state = state]
    /\ tracker' = IF mission.state = state THEN tracker ELSE Forwarded(state)
    /\ outcome' = [outcome EXCEPT ![mission.id] = state]

(* fail(), the explicit verdict. *)
MayFail(m) == Open(m)

Fail ==
    /\ phase # "scoring" /\ MayFail(mission)
    /\ Ends("FAILED")
    /\ UNCHANGED <<seq, phase, full, asked, completed, score, requests, owed, lost>>
-----------------------------------------------------------------------------
(* The tick *)

(* The sensing half of the tick is over; only a full tick evaluates the    *)
(* tracker before it comes to the lifecycle.                               *)
FullTick ==
    /\ phase = "idle"
    /\ phase' = "scoring" /\ full' = TRUE
    /\ tracker' \in Evaluated
    /\ UNCHANGED <<mission, seq, asked, completed, score, requests, outcome, owed, lost>>

EmergencyTick ==
    /\ phase = "idle"
    /\ phase' = "scoring" /\ full' = FALSE
    /\ UNCHANGED <<mission, seq, tracker, asked, completed, score, requests, outcome,
                   owed, lost>>

(* What is left of the tick: a full one takes the flag and clears it       *)
(* before the export's await.                                              *)
Rest ==
    /\ phase' = IF full /\ completed THEN "export" ELSE "idle"
    /\ completed' = (completed /\ ~full)
    /\ asked' = None
    /\ UNCHANGED <<seq, full, owed, lost>>

(* No pair of frames, or no open mission. *)
Skip ==
    /\ phase = "scoring"
    /\ Rest
    /\ UNCHANGED <<mission, tracker, score, requests, outcome>>

Scored(s) == phase = "scoring" /\ Open(mission) /\ score' = s

(* High progress wins over the stall. *)
Succeed ==
    /\ Scored("high")
    /\ Ends("SUCCEEDED")
    /\ Rest
    /\ UNCHANGED requests

StallsAfter(s) ==
    CASE s # "low" -> 0
      [] mission.stalls < StallWindow -> mission.stalls + 1
      [] OTHER -> StallWindow   \* bound: more stalls are all enough

Stalled(s) == mission.state = "RUNNING" /\ StallsAfter(s) >= StallWindow

Continue(s) ==
    /\ Scored(s) /\ s # "high" /\ ~Stalled(s)
    /\ mission' = [mission EXCEPT !.stalls = StallsAfter(s)]
    /\ Rest
    /\ UNCHANGED <<tracker, requests, outcome>>

(* _handle_stall(): the budget is spent, or an LLM is asked.               *)
OneTooMany(m) == m.replans > MaxReplans   \* mutant
Spent(m) == m.replans >= MaxReplans

GiveUp ==
    /\ Scored("low") /\ Stalled("low") /\ Spent(mission)
    /\ mission' = [mission EXCEPT !.state = "FAILED", !.stalls = 0]
    /\ tracker' = Forwarded("FAILED")
    /\ outcome' = [outcome EXCEPT ![mission.id] = "FAILED"]
    /\ Rest
    /\ UNCHANGED requests

Ask ==
    /\ Scored("low") /\ Stalled("low") /\ ~Spent(mission)
    /\ mission' = [mission EXCEPT !.state = "REPLANNING", !.stalls = 0]
    /\ phase' = "asking" /\ asked' = mission.id
    /\ requests' = IF requests > MaxReplans THEN requests ELSE requests + 1   \* bound
    /\ UNCHANGED <<seq, full, tracker, completed, outcome, owed, lost>>

(* The await returns: "Without this check a mission that arrived           *)
(* mid-replan would be transitioned ... by a replan nobody requested for   *)
(* it" (mission_lifecycle.py:494).                                         *)
AnyMission == TRUE   \* mutant: the identity check is dropped
StillAsked == mission.id = asked

Uncounted(n) == n   \* mutant
Counted(n) == n + 1

ReplanSucceeds ==
    /\ phase = "asking" /\ StillAsked
    /\ mission' = [mission EXCEPT !.state = "RUNNING", !.replans = Counted(@)]
    /\ outcome' = [outcome EXCEPT ![mission.id] = "open"]
    /\ Rest
    /\ UNCHANGED <<tracker, score, requests>>

(* No goal, a degraded gateway or an error. *)
ReplanFails ==
    /\ phase = "asking" /\ StillAsked
    /\ Ends("FAILED")
    /\ Rest
    /\ UNCHANGED <<score, requests>>

ReplanAbandoned ==
    /\ phase = "asking" /\ ~StillAsked
    /\ Rest
    /\ UNCHANGED <<mission, tracker, score, requests, outcome>>

(* The export is over: curiosity and the latent sink are reset.            *)
FlagCleared(flag) == FALSE   \* mutant: cleared behind the export
FlagAfter(flag) == flag

ExportEnds ==
    /\ phase = "export"
    /\ phase' = "idle"
    /\ completed' = FlagAfter(completed) /\ owed' = completed
    /\ UNCHANGED <<mission, seq, tracker, full, asked, score, requests, outcome, lost>>

(* tick_timeout_s cancels the tick: no except branch sees it.              *)
CutShort ==
    /\ phase \in {"asking", "export"}
    /\ phase' = "idle" /\ asked' = None
    /\ lost' = (lost \/ phase = "export")
    /\ UNCHANGED <<mission, seq, tracker, full, completed, score, requests, outcome, owed>>

Lifecycle ==
    \/ Succeed \/ Continue("mid") \/ Continue("low") \/ GiveUp \/ Ask

Replan == ReplanSucceeds \/ ReplanFails \/ ReplanAbandoned

Next ==
    \/ Dispatch \/ Fail
    \/ FullTick \/ EmergencyTick \/ Skip \/ Lifecycle
    \/ Replan \/ ExportEnds \/ CutShort

Spec == Init /\ [][Next]_vars

(* The loop ticks, the camera delivers frames again and again, and an LLM  *)
(* call or an export comes to its end.                                     *)
Fairness ==
    /\ WF_vars(FullTick \/ EmergencyTick) /\ WF_vars(Skip \/ Lifecycle)
    /\ SF_vars(Lifecycle)
    /\ WF_vars(Replan) /\ WF_vars(ExportEnds)

FairSpec == Spec /\ Fairness
-----------------------------------------------------------------------------
Replanning == mission # None /\ mission.state = "REPLANNING"

(***************************************************************************)
(* A mission's verdict is final, whatever ticks and answers come later;    *)
(* only a fail() in the middle of a replan can be undone by the replan.    *)
(***************************************************************************)
OutcomeFinal ==
    [][\A i \in Id : outcome[i] # "open" /\ asked # i => outcome'[i] = outcome[i]]_vars

(***************************************************************************)
(* No mission asks the LLM more often than max_replans_per_mission, across *)
(* stalls, failed requests and cancelled ticks.                            *)
(***************************************************************************)
ReplanBudget == mission # None => requests <= MaxReplans

(***************************************************************************)
(* The unified task list "reflects the mission outcome"                    *)
(* (mission_lifecycle.py:574): a mission with a verdict is not active any  *)
(* more, and only one that succeeded is completed. A failed one may have   *)
(* timed out, or a revived one succeed later.                              *)
(***************************************************************************)
TrackerAgrees ==
    \A i \in Id :
        /\ tracker[i] = "completed" => outcome[i] = "SUCCEEDED"
        /\ outcome[i] # "open" => tracker[i] # "active"

(***************************************************************************)
(* "any completion that lands during export remains latched for the next   *)
(* tick" (orchestrator.py:667): a mission boundary waits in the flag or is *)
(* being handled, unless the tick that handled it was cancelled.           *)
(***************************************************************************)
BoundaryKept == owed => completed \/ phase = "export" \/ lost

(***************************************************************************)
(* A mission whose progress never rises again is not replanned for ever:   *)
(* it comes to a verdict, unless a cancelled tick left it replanning: the  *)
(* diagram of the states (mission_lifecycle.py:15) knows no way out of     *)
(* REPLANNING but the answer, and the code none but a high score.          *)
(***************************************************************************)
StallEnds ==
    <>[](score = "low") => <>[](~Open(mission) \/ (Replanning /\ asked = None))
=============================================================================
