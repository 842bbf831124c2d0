---------------------------- MODULE Mission_proofs ----------------------------
(***************************************************************************)
(* What Mission keeps for any number of missions, any stall window, replan *)
(* budget and tracker capacity.                                            *)
(***************************************************************************)
EXTENDS Mission, TLAPS

\* What the lifecycle came to and what its history says of it agree.
Verdict ==
    /\ \A i \in Id : i > seq => outcome[i] = "open" /\ tracker[i] = "unknown"
    /\ mission # None =>
         outcome[mission.id] = IF mission.state \in Terminal THEN mission.state ELSE "open"

\* A replan that is asked for is paid for by one the budget still holds.
Budget ==
    mission # None =>
      /\ requests <= mission.replans + 1 /\ requests <= MaxReplans
      /\ mission.state = "RUNNING" => requests <= mission.replans
      /\ mission.state = "REPLANNING" \/ asked = mission.id =>
            mission.replans < MaxReplans

\* The mission a replan was asked for waits for it, unless fail() ended it.
Waits ==
    asked # None => /\ mission # None /\ asked <= seq
                    /\ mission.id = asked => mission.state \in {"REPLANNING", "FAILED"}

IInv == TypeOK /\ Verdict /\ Budget /\ Waits /\ TrackerAgrees /\ BoundaryKept

LEMMA InitEstablishes == Init => IInv
<1> SUFFICES ASSUME Init PROVE IInv
  OBVIOUS
<1>1. TypeOK
  <2>1. tracker \in [Id -> Task] /\ outcome \in [Id -> {"open"} \cup Terminal]
    BY DEF Init, Task
  <2>2. mission = None /\ seq = 0 /\ asked = None /\ requests = 0
    BY DEF Init
  <2>3. seq \in 0..MaxMissions /\ requests \in 0..MaxReplans + 1
    BY <2>2, Settings
  <2> QED
    BY <2>1, <2>2, <2>3, Settings DEF Init, TypeOK, Score
<1>2. Verdict
  BY DEF Init, Verdict
<1>2a. Budget /\ Waits
  BY DEF Init, Budget, Waits
<1>3. TrackerAgrees /\ BoundaryKept
  BY DEF Init, TrackerAgrees, BoundaryKept
<1> QED
  BY <1>1, <1>2, <1>2a, <1>3 DEF IInv

\* What is known of the state before a step.
LEMMA Facts ==
    ASSUME IInv
    PROVE  /\ MaxMissions \in Nat /\ MaxReplans \in Nat /\ StallWindow \in Nat \ {0}
           /\ seq \in 0..MaxMissions /\ requests \in Nat
           /\ None \notin Nat /\ None \notin Mission
           /\ tracker \in [Id -> Task] /\ outcome \in [Id -> {"open"} \cup Terminal]
           /\ mission # None =>
                /\ mission \in Mission /\ mission.id = seq /\ seq \in Id /\ mission.id \in Id
                /\ mission.state \in {"RUNNING", "REPLANNING", "SUCCEEDED", "FAILED"}
                /\ mission.replans \in 0..MaxReplans /\ mission.stalls \in 0..StallWindow
<1>1. MaxMissions \in Nat /\ MaxReplans \in Nat /\ StallWindow \in Nat \ {0}
      /\ None \notin Nat /\ None \notin Mission
  BY Settings, NoMission
<1>2. seq \in 0..MaxMissions /\ requests \in Nat
      /\ tracker \in [Id -> Task] /\ outcome \in [Id -> {"open"} \cup Terminal]
  BY <1>1 DEF IInv, TypeOK
<1>3. ASSUME mission # None
      PROVE  /\ mission \in Mission /\ mission.id = seq /\ seq \in Id /\ mission.id \in Id
             /\ mission.state \in {"RUNNING", "REPLANNING", "SUCCEEDED", "FAILED"}
             /\ mission.replans \in 0..MaxReplans /\ mission.stalls \in 0..StallWindow
  BY <1>1, <1>2, <1>3 DEF IInv, TypeOK, Mission, Id, Terminal
<1> QED
  BY <1>1, <1>2, <1>3

\* The type of the parts of the state that are only switches.
Switches ==
    /\ phase \in {"idle", "scoring", "asking", "export"} /\ full \in BOOLEAN
    /\ asked \in Id \cup {None}
    /\ phase = "asking" <=> asked # None
    /\ completed \in BOOLEAN /\ owed \in BOOLEAN /\ lost \in BOOLEAN
    /\ score \in Score

\* A step that leaves the mission and its history alone.
LEMMA Untouched ==
    ASSUME IInv, UNCHANGED <<mission, seq, requests, outcome>>,
           tracker' \in [Id -> Task],
           \A i \in Id : tracker'[i] = tracker[i]
                         \/ (tracker[i] = "active" /\ tracker'[i] = "timed_out"),
           asked' = asked \/ asked' = None, Switches'
    PROVE  TypeOK' /\ Verdict' /\ Budget' /\ Waits' /\ TrackerAgrees'
<1>1. TypeOK'
  BY DEF IInv, TypeOK, Switches
<1>2. Verdict'
  BY DEF IInv, Verdict
<1>3. Budget'
  BY Facts DEF IInv, Budget
<1>4. Waits'
  BY DEF IInv, Waits
<1>5. TrackerAgrees'
  BY DEF IInv, TrackerAgrees
<1> QED
  BY <1>1, <1>2, <1>3, <1>4, <1>5

\* A mission that comes to the verdict `state', or came to it before.
LEMMA Settles ==
    ASSUME IInv, NEW state \in Terminal, mission # None,
           mission.state \notin Terminal \/ mission.state = state,
           NEW m \in Mission, mission' = m, m.id = mission.id, m.state = state,
           m.replans = mission.replans,
           tracker' = IF mission.state = state THEN tracker ELSE Forwarded(state),
           outcome' = [outcome EXCEPT ![mission.id] = state],
           UNCHANGED <<seq, requests>>, Switches',
           \/ asked' = None
           \/ asked' = asked /\ state = "FAILED"
    PROVE  TypeOK' /\ Verdict' /\ Budget' /\ Waits' /\ TrackerAgrees'
<1> DEFINE i == mission.id
<1>1. /\ i = seq /\ i \in Id /\ i \in Nat /\ state \in {"SUCCEEDED", "FAILED"}
      /\ tracker \in [Id -> Task] /\ outcome \in [Id -> {"open"} \cup Terminal]
      /\ MaxReplans \in Nat /\ mission.replans \in 0..MaxReplans /\ requests \in Nat
      /\ None \notin Mission
  BY Facts DEF Id, Terminal
<1>2. outcome[i] = IF mission.state \in Terminal THEN mission.state ELSE "open"
  BY DEF IInv, Verdict
<1>3. /\ outcome' \in [Id -> {"open"} \cup Terminal] /\ outcome'[i] = state
      /\ \A j \in Id \ {i} : outcome'[j] = outcome[j]
  BY <1>1
<1>4. /\ tracker' \in [Id -> Task]
      /\ \A j \in Id \ {i} : tracker'[j] = tracker[j]
      /\ tracker'[i] = "completed" => tracker[i] = "completed" \/ state = "SUCCEEDED"
      /\ tracker'[i] # "active"
  <2>1. CASE mission.state = state
    <3>1. tracker' = tracker /\ outcome[i] # "open"
      BY <1>1, <1>2, <2>1 DEF Terminal
    <3> QED
      BY <3>1, <1>1 DEF IInv, TrackerAgrees
  <2>2. CASE mission.state # state /\ tracker[i] # "active"
    BY <2>2, <1>1 DEF Forwarded, Updated
  <2>3. CASE mission.state # state /\ tracker[i] = "active"
    <3>1. tracker' = [tracker EXCEPT ![i] =
                        IF state = "SUCCEEDED" THEN "completed" ELSE "failed"]
      BY <2>3 DEF Forwarded, Updated
    <3> QED
      BY <3>1, <1>1 DEF Task
  <2> QED
    BY <2>1, <2>2, <2>3
<1>5. TypeOK'
  BY <1>1, <1>3, <1>4 DEF IInv, TypeOK, Switches
<1>6. Verdict'
  BY <1>1, <1>3, <1>4 DEF IInv, Verdict, Terminal, Id
<1>7. Budget'
  BY <1>1, <1>5, NoMission DEF IInv, Budget, Terminal
<1>8. Waits'
  BY <1>1 DEF IInv, Waits
<1>9. TrackerAgrees'
  <2> SUFFICES ASSUME NEW j \in Id
               PROVE  /\ tracker'[j] = "completed" => outcome'[j] = "SUCCEEDED"
                      /\ outcome'[j] # "open" => tracker'[j] # "active"
    BY DEF TrackerAgrees
  <2>1. CASE j # i
    BY <2>1, <1>3, <1>4 DEF IInv, TrackerAgrees
  <2>2. CASE j = i
    <3>1. tracker[i] = "completed" => state = "SUCCEEDED"
      BY <1>1, <1>2 DEF IInv, TrackerAgrees, Terminal
    <3> QED
      BY <2>2, <3>1, <1>3, <1>4
  <2> QED
    BY <2>1, <2>2
<1> QED
  BY <1>5, <1>6, <1>7, <1>8, <1>9

\* The rest of a tick that comes from the lifecycle.
LEMMA RestKeeps ==
    ASSUME IInv, Rest, phase # "export", score' \in Score
    PROVE  Switches' /\ BoundaryKept' /\ asked' = None /\ seq' = seq
<1>1. full \in BOOLEAN /\ completed \in BOOLEAN /\ owed \in BOOLEAN /\ lost \in BOOLEAN
      /\ None \notin Id
  BY NoMission DEF IInv, TypeOK, Id
<1>2. phase' \in {"idle", "export"} /\ completed' \in BOOLEAN /\ asked' = None
      /\ UNCHANGED <<seq, full, owed, lost>>
  BY <1>1 DEF Rest
<1>3. Switches'
  BY <1>1, <1>2 DEF Switches
<1>4. BoundaryKept'
  BY <1>1 DEF Rest, IInv, BoundaryKept
<1> QED
  BY <1>2, <1>3, <1>4

-----------------------------------------------------------------------------
(* The actions.                                                            *)

LEMMA IsSwitches == ASSUME IInv PROVE Switches /\ None \notin Id
BY NoMission DEF IInv, TypeOK, Switches, Id

LEMMA DispatchKeeps == ASSUME IInv, Dispatch PROVE IInv'
<1>1. Switches' /\ BoundaryKept' /\ asked' = asked
  BY IsSwitches DEF Dispatch, Switches, BoundaryKept
<1>2. CASE StartMission
  <2> DEFINE m == [id |-> seq + 1, state |-> "RUNNING", stalls |-> 0, replans |-> 0]
  <2>1. /\ seq \in 0..MaxMissions /\ seq < MaxMissions /\ MaxMissions \in Nat
        /\ MaxReplans \in Nat /\ StallWindow \in Nat \ {0} /\ None \notin Mission
        /\ tracker \in [Id -> Task] /\ outcome \in [Id -> {"open"} \cup Terminal]
    BY <1>2, Facts DEF StartMission
  <2>2. seq' = seq + 1 /\ mission' = m /\ requests' = 0 /\ tracker' = Submitted(seq + 1)
        /\ outcome' = outcome
    BY <1>2 DEF StartMission, Dispatch
  <2>3. seq + 1 \in Id /\ m \in Mission
    BY <2>1 DEF Id, Mission
  <2>4. m.id = seq + 1 /\ m.state = "RUNNING" /\ m.replans = 0 /\ m # None
    BY <2>1, <2>3
  <2>5. /\ tracker' \in [Id -> Task]
        /\ \A i \in Id \ {seq + 1} : tracker'[i] = tracker[i]
        /\ tracker'[seq + 1] \in {tracker[seq + 1], "active"}
    BY <2>1, <2>2, <2>3 DEF Submitted, Task
  <2>6. \A i \in Id : i > seq => outcome[i] = "open" /\ tracker[i] = "unknown"
    BY DEF IInv, Verdict
  <2>7. outcome[seq + 1] = "open" /\ tracker[seq + 1] = "unknown"
    BY <2>1, <2>3, <2>6
  <2> HIDE DEF m
  <2>8. TypeOK'
    BY <1>1, <2>1, <2>2, <2>3, <2>4, <2>5 DEF IInv, TypeOK, Switches
  <2>9. Verdict'
    <3>1. ASSUME NEW i \in Id, i > seq + 1
          PROVE  outcome[i] = "open" /\ tracker'[i] = "unknown"
      BY <3>1, <2>1, <2>5, <2>6 DEF Id
    <3>2. m.state \notin Terminal
      BY <2>4 DEF Terminal
    <3> QED
      BY <3>1, <3>2, <2>2, <2>4, <2>7 DEF Verdict
  <2>10. asked # seq + 1 /\ (asked # None => asked <= seq)
    BY <2>1, <2>3, NoMission DEF IInv, Waits
  <2>11. Budget'
    BY <1>1, <2>1, <2>2, <2>4, <2>10 DEF Budget
  <2>12. Waits'
    BY <1>1, <2>1, <2>2, <2>4, <2>10, IsSwitches DEF Waits, Switches, Id
  <2>13. TrackerAgrees'
    BY <2>2, <2>5, <2>7 DEF IInv, TrackerAgrees
  <2> QED
    BY <1>1, <2>8, <2>9, <2>11, <2>12, <2>13 DEF IInv
<1>3. CASE UNCHANGED <<seq, mission, tracker, requests>>
  BY <1>1, <1>3, Facts, Untouched DEF Dispatch, IInv
<1> QED
  BY <1>2, <1>3 DEF Dispatch

LEMMA FailKeeps == ASSUME IInv, Fail PROVE IInv'
<1> DEFINE m == [mission EXCEPT !.state = "FAILED"]
<1>1. mission # None /\ mission.state \notin Terminal
  BY DEF Fail, MayFail, Open
<1>2. mission \in Mission
  BY <1>1, Facts
<1>3. m \in Mission /\ m.id = mission.id /\ m.state = "FAILED" /\ m.replans = mission.replans
  BY <1>2 DEF Mission, Terminal
<1>4a. Ends("FAILED") /\ UNCHANGED <<seq, requests>> /\ asked' = asked
  BY DEF Fail
<1>4. mission' = m /\ outcome' = [outcome EXCEPT ![mission.id] = "FAILED"]
      /\ tracker' = IF mission.state = "FAILED" THEN tracker ELSE Forwarded("FAILED")
  BY <1>4a, Zenon DEF Ends
<1>5. Switches' /\ BoundaryKept'
  BY IsSwitches DEF Fail, Switches, IInv, BoundaryKept
<1>6. "FAILED" \in Terminal
  BY DEF Terminal
<1> HIDE DEF m
<1>7. TypeOK' /\ Verdict' /\ Budget' /\ Waits' /\ TrackerAgrees'
  BY <1>1, <1>3, <1>4, <1>4a, <1>5, <1>6, Settles
<1> QED
  BY <1>5, <1>7 DEF IInv

LEMMA TicksKeep == ASSUME IInv, FullTick \/ EmergencyTick PROVE IInv'
<1>1a. UNCHANGED <<mission, seq, requests, outcome, asked, completed, owed, lost, score>>
       /\ phase = "idle" /\ phase' = "scoring" /\ full' \in BOOLEAN
  BY DEF FullTick, EmergencyTick
<1>1. UNCHANGED <<mission, seq, requests, outcome, asked>>
      /\ Switches' /\ BoundaryKept'
  BY <1>1a, IsSwitches DEF Switches, IInv, BoundaryKept
<1>2. /\ tracker' \in [Id -> Task]
      /\ \A i \in Id : tracker'[i] = tracker[i]
                       \/ (tracker[i] = "active" /\ tracker'[i] = "timed_out")
  <2>1. CASE FullTick
    <3>1. PICK n \in 0..MaxMissions :
             tracker' = [i \in Id |-> IF tracker[i] = "active" /\ i <= n
                                      THEN "timed_out" ELSE tracker[i]]
      BY <2>1 DEF FullTick, Evaluated
    <3> QED
      BY <3>1, Facts DEF Task
  <2>2. CASE EmergencyTick
    BY <2>2, Facts DEF EmergencyTick
  <2> QED
    BY <2>1, <2>2
<1> QED
  BY <1>1, <1>2, Untouched DEF IInv

LEMMA IdlersKeep ==
    ASSUME IInv, Skip \/ ReplanAbandoned \/ ExportEnds \/ CutShort PROVE IInv'
<1>1. UNCHANGED <<mission, seq, tracker, requests, outcome>> /\ (asked' = asked \/ asked' = None)
  BY DEF Skip, ReplanAbandoned, ExportEnds, CutShort, Rest
<1>2. Switches' /\ BoundaryKept'
  <2>1. CASE Skip \/ ReplanAbandoned
    BY <2>1, RestKeeps, IsSwitches DEF Skip, ReplanAbandoned, Switches
  <2>2. CASE ExportEnds
    BY <2>2, IsSwitches DEF ExportEnds, FlagAfter, Switches, BoundaryKept
  <2>3. CASE CutShort
    BY <2>3, IsSwitches DEF CutShort, Switches, IInv, BoundaryKept
  <2> QED
    BY <2>1, <2>2, <2>3
<1>3. tracker \in [Id -> Task]
  BY Facts
<1> QED
  BY <1>1, <1>2, <1>3, Untouched DEF IInv

LEMMA SucceedKeeps == ASSUME IInv, Succeed PROVE IInv'
<1> DEFINE m == [mission EXCEPT !.state = "SUCCEEDED"]
<1>1. mission # None /\ mission.state \notin Terminal /\ phase = "scoring" /\ score' = "high"
  BY DEF Succeed, Scored, Open
<1>2. mission \in Mission
  BY <1>1, Facts
<1>3. m \in Mission /\ m.id = mission.id /\ m.state = "SUCCEEDED" /\ m.replans = mission.replans
  BY <1>2 DEF Mission, Terminal
<1>4. Ends("SUCCEEDED") /\ Rest /\ UNCHANGED requests
  BY DEF Succeed
<1>5. mission' = m /\ outcome' = [outcome EXCEPT ![mission.id] = "SUCCEEDED"]
      /\ tracker' = IF mission.state = "SUCCEEDED" THEN tracker ELSE Forwarded("SUCCEEDED")
  BY <1>4, Zenon DEF Ends
<1>6. Switches' /\ BoundaryKept' /\ asked' = None /\ seq' = seq
  BY <1>1, <1>4, RestKeeps DEF Score
<1>7. "SUCCEEDED" \in Terminal
  BY DEF Terminal
<1> HIDE DEF m
<1>8. TypeOK' /\ Verdict' /\ Budget' /\ Waits' /\ TrackerAgrees'
  BY <1>1, <1>3, <1>4, <1>5, <1>6, <1>7, Settles
<1> QED
  BY <1>6, <1>8 DEF IInv

LEMMA GiveUpKeeps == ASSUME IInv, GiveUp PROVE IInv'
<1> DEFINE m == [mission EXCEPT !.state = "FAILED", !.stalls = 0]
<1>1. mission # None /\ mission.state = "RUNNING" /\ phase = "scoring" /\ score' = "low"
  BY DEF GiveUp, Scored, Open, Stalled
<1>2. mission \in Mission /\ StallWindow \in Nat \ {0}
  BY <1>1, Facts
<1>2a. 0 \in 0..StallWindow
  BY <1>2
<1>3. m \in Mission /\ m.id = mission.id /\ m.state = "FAILED" /\ m.replans = mission.replans
  BY <1>2, <1>2a, Zenon DEF Mission, Terminal
<1>4. Rest /\ UNCHANGED requests
  BY DEF GiveUp
<1>5. mission' = m /\ outcome' = [outcome EXCEPT ![mission.id] = "FAILED"]
      /\ tracker' = Forwarded("FAILED")
  BY Zenon DEF GiveUp
<1>6. Switches' /\ BoundaryKept' /\ asked' = None /\ seq' = seq
  BY <1>1, <1>4, RestKeeps DEF Score
<1>7. "FAILED" \in Terminal /\ "RUNNING" \notin Terminal
  BY DEF Terminal
<1> HIDE DEF m
<1>8. TypeOK' /\ Verdict' /\ Budget' /\ Waits' /\ TrackerAgrees'
  BY <1>1, <1>3, <1>4, <1>5, <1>6, <1>7, Settles
<1> QED
  BY <1>6, <1>8 DEF IInv

LEMMA ReplanFailsKeeps == ASSUME IInv, ReplanFails PROVE IInv'
<1> DEFINE m == [mission EXCEPT !.state = "FAILED"]
<1>1. /\ phase = "asking" /\ mission # None /\ asked = mission.id
      /\ mission.state \in {"REPLANNING", "FAILED"} /\ score' \in Score
  BY DEF ReplanFails, StillAsked, IInv, Waits, TypeOK
<1>2. mission \in Mission
  BY <1>1, Facts
<1>3. m \in Mission /\ m.id = mission.id /\ m.state = "FAILED" /\ m.replans = mission.replans
  BY <1>2 DEF Mission, Terminal
<1>4. Ends("FAILED") /\ Rest /\ UNCHANGED requests
  BY DEF ReplanFails
<1>5. mission' = m /\ outcome' = [outcome EXCEPT ![mission.id] = "FAILED"]
      /\ tracker' = IF mission.state = "FAILED" THEN tracker ELSE Forwarded("FAILED")
  BY <1>4, Zenon DEF Ends
<1>6. Switches' /\ BoundaryKept' /\ asked' = None /\ seq' = seq
  BY <1>1, <1>4, RestKeeps
<1>7. "FAILED" \in Terminal /\ "REPLANNING" \notin Terminal
  BY DEF Terminal
<1> HIDE DEF m
<1>8. TypeOK' /\ Verdict' /\ Budget' /\ Waits' /\ TrackerAgrees'
  BY <1>1, <1>3, <1>4, <1>5, <1>6, <1>7, Settles
<1> QED
  BY <1>6, <1>8 DEF IInv

\* A step that changes the mission short of a verdict, or takes one back that
\* fail() gave while the replan was asked for.
LEMMA Continues ==
    ASSUME IInv, mission # None, NEW m \in Mission, mission' = m, m.id = mission.id,
           m.state \in {"RUNNING", "REPLANNING"},
           UNCHANGED <<seq, tracker>>, Switches', mission.state # "SUCCEEDED",
           outcome' = [outcome EXCEPT ![mission.id] = "open"],
           asked' = None \/ (asked' = mission.id /\ m.state = "REPLANNING"),
           requests' \in Nat, requests' <= m.replans + 1, requests' <= MaxReplans,
           m.state = "RUNNING" => requests' <= m.replans,
           m.state = "REPLANNING" => m.replans < MaxReplans
    PROVE  TypeOK' /\ Verdict' /\ Budget' /\ Waits' /\ TrackerAgrees'
<1> DEFINE i == mission.id
<1>1. /\ i = seq /\ i \in Id /\ i \in Nat
      /\ tracker \in [Id -> Task] /\ outcome \in [Id -> {"open"} \cup Terminal]
      /\ MaxReplans \in Nat /\ None \notin Mission /\ None \notin Nat
  BY Facts DEF Id
<1>2. /\ outcome' \in [Id -> {"open"} \cup Terminal] /\ outcome'[i] = "open"
      /\ \A j \in Id \ {i} : outcome'[j] = outcome[j]
  BY <1>1
<1>3. m.state \notin Terminal /\ m # None
  BY <1>1 DEF Terminal
<1>4. requests' \in 0..MaxReplans + 1
  BY <1>1
<1>5. TypeOK'
  BY <1>1, <1>2, <1>3, <1>4 DEF IInv, TypeOK, Switches
<1>6. Verdict'
  BY <1>1, <1>2, <1>3 DEF IInv, Verdict, Id
<1>7. Budget'
  BY <1>1, <1>3 DEF Budget
<1>8. Waits'
  BY <1>1, <1>3 DEF Waits
<1>9. tracker[i] # "completed"
  <2>1. outcome[i] # "SUCCEEDED"
    BY DEF IInv, Verdict
  <2> QED
    BY <1>1, <2>1 DEF IInv, TrackerAgrees
<1>10. TrackerAgrees'
  BY <1>1, <1>2, <1>9 DEF IInv, TrackerAgrees
<1> QED
  BY <1>5, <1>6, <1>7, <1>8, <1>10

LEMMA ContinueKeeps == ASSUME IInv, NEW s \in {"low", "mid"}, Continue(s) PROVE IInv'
<1> DEFINE n == StallsAfter(s)
           m == [mission EXCEPT !.stalls = n]
<1>1. /\ mission # None /\ mission.state \notin Terminal /\ phase = "scoring"
      /\ score' = s
  BY DEF Continue, Scored, Open
<1>2. /\ mission \in Mission /\ mission.id \in Id
      /\ mission.state \in {"RUNNING", "REPLANNING", "SUCCEEDED", "FAILED"}
      /\ mission.stalls \in 0..StallWindow /\ StallWindow \in Nat \ {0}
      /\ outcome \in [Id -> {"open"} \cup Terminal] /\ requests \in Nat
      /\ mission.replans \in 0..MaxReplans /\ MaxReplans \in Nat
  BY <1>1, Facts
<1>3. n \in 0..StallWindow
  BY <1>2 DEF StallsAfter
<1> HIDE DEF n
<1>4. m \in Mission /\ m.id = mission.id /\ m.state = mission.state
      /\ m.replans = mission.replans
  BY <1>2, <1>3 DEF Mission
<1>5. mission' = m /\ Rest /\ UNCHANGED <<tracker, requests, outcome>>
  BY DEF Continue, n
<1>6. Switches' /\ BoundaryKept' /\ asked' = None /\ seq' = seq
  BY <1>1, <1>5, RestKeeps DEF Score
<1>7. outcome' = [outcome EXCEPT ![mission.id] = "open"]
  BY <1>1, <1>2, <1>5 DEF IInv, Verdict
<1>8. mission.state \in {"RUNNING", "REPLANNING"}
  BY <1>1, <1>2 DEF Terminal
<1>9. /\ requests <= mission.replans + 1 /\ requests <= MaxReplans
      /\ mission.state = "RUNNING" => requests <= mission.replans
      /\ mission.state = "REPLANNING" => mission.replans < MaxReplans
  BY <1>1 DEF IInv, Budget
<1> HIDE DEF m
<1>10. TypeOK' /\ Verdict' /\ Budget' /\ Waits' /\ TrackerAgrees'
  BY <1>1, <1>2, <1>4, <1>5, <1>6, <1>7, <1>8, <1>9, Continues
<1> QED
  BY <1>6, <1>10 DEF IInv

LEMMA AskKeeps == ASSUME IInv, Ask PROVE IInv'
<1> DEFINE m == [mission EXCEPT !.state = "REPLANNING", !.stalls = 0]
<1>1. /\ mission # None /\ mission.state = "RUNNING" /\ phase = "scoring"
      /\ score' = "low" /\ ~(mission.replans >= MaxReplans)
  BY DEF Ask, Scored, Open, Stalled, Spent
<1>2. /\ mission \in Mission /\ mission.id \in Id /\ StallWindow \in Nat \ {0}
      /\ outcome \in [Id -> {"open"} \cup Terminal] /\ requests \in Nat
      /\ mission.replans \in 0..MaxReplans /\ MaxReplans \in Nat
  BY <1>1, Facts
<1>2a. 0 \in 0..StallWindow
  BY <1>2
<1>3. m \in Mission /\ m.id = mission.id /\ m.state = "REPLANNING"
      /\ m.replans = mission.replans
  BY <1>2, <1>2a, Zenon DEF Mission
<1>4. mission' = m /\ phase' = "asking" /\ asked' = mission.id
      /\ UNCHANGED <<seq, full, tracker, completed, outcome, owed, lost>>
  BY Zenon DEF Ask
<1>5. requests <= mission.replans
  BY <1>1 DEF IInv, Budget
<1>6. requests' = requests + 1
  BY <1>2, <1>5 DEF Ask
<1>7. Switches' /\ BoundaryKept'
  BY <1>1, <1>2, <1>4, IsSwitches DEF Switches, IInv, BoundaryKept, Score
<1>8. outcome' = [outcome EXCEPT ![mission.id] = "open"]
  BY <1>1, <1>2, <1>4 DEF IInv, Verdict, Terminal
<1> HIDE DEF m
<1>9. requests' \in Nat /\ requests' <= m.replans + 1 /\ requests' <= MaxReplans
      /\ m.replans < MaxReplans
  BY <1>1, <1>2, <1>3, <1>5, <1>6
<1>10. TypeOK' /\ Verdict' /\ Budget' /\ Waits' /\ TrackerAgrees'
  BY <1>1, <1>3, <1>4, <1>7, <1>8, <1>9, Continues
<1> QED
  BY <1>7, <1>10 DEF IInv

LEMMA ReplanSucceedsKeeps == ASSUME IInv, ReplanSucceeds PROVE IInv'
<1> DEFINE m == [mission EXCEPT !.state = "RUNNING", !.replans = mission.replans + 1]
<1>1. /\ phase = "asking" /\ mission # None /\ asked = mission.id
      /\ mission.state \in {"REPLANNING", "FAILED"} /\ score' \in Score
  BY DEF ReplanSucceeds, StillAsked, IInv, Waits, TypeOK
<1>2. /\ mission \in Mission /\ requests \in Nat
      /\ mission.replans \in 0..MaxReplans /\ MaxReplans \in Nat
  BY <1>1, Facts
<1>3. /\ requests <= mission.replans + 1 /\ requests <= MaxReplans
      /\ mission.replans < MaxReplans
  BY <1>1 DEF IInv, Budget
<1>4. mission.replans + 1 \in 0..MaxReplans
  BY <1>2, <1>3
<1>5. m \in Mission /\ m.id = mission.id /\ m.state = "RUNNING"
      /\ m.replans = mission.replans + 1
  BY <1>2, <1>4 DEF Mission
<1>6. mission' = m /\ Rest /\ UNCHANGED <<tracker, requests>>
      /\ outcome' = [outcome EXCEPT ![mission.id] = "open"]
  BY DEF ReplanSucceeds, Counted
<1>7. Switches' /\ BoundaryKept' /\ asked' = None /\ seq' = seq
  BY <1>1, <1>6, RestKeeps
<1> HIDE DEF m
<1>8. requests' \in Nat /\ requests' <= m.replans + 1 /\ requests' <= MaxReplans
      /\ requests' <= m.replans
  BY <1>2, <1>3, <1>5, <1>6
<1>9. TypeOK' /\ Verdict' /\ Budget' /\ Waits' /\ TrackerAgrees'
  BY <1>1, <1>5, <1>6, <1>7, <1>8, Continues
<1> QED
  BY <1>7, <1>9 DEF IInv

LEMMA StepKeeps == IInv /\ [Next]_vars => IInv'
<1> SUFFICES ASSUME IInv, [Next]_vars PROVE IInv'
  OBVIOUS
<1>1. CASE UNCHANGED vars
  BY <1>1 DEF vars, IInv, TypeOK, Verdict, Budget, Waits, TrackerAgrees, BoundaryKept
<1>2. CASE Lifecycle
  BY <1>2, SucceedKeeps, ContinueKeeps, GiveUpKeeps, AskKeeps DEF Lifecycle
<1>3. CASE Replan
  BY <1>3, ReplanSucceedsKeeps, ReplanFailsKeeps, IdlersKeep DEF Replan
<1>4. CASE Dispatch \/ Fail \/ FullTick \/ EmergencyTick \/ Skip \/ ExportEnds \/ CutShort
  BY <1>4, DispatchKeeps, FailKeeps, TicksKeep, IdlersKeep
<1> QED
  BY <1>1, <1>2, <1>3, <1>4 DEF Next

-----------------------------------------------------------------------------
(* The theorems.                                                           *)

THEOREM Inductive == Spec => []IInv
BY InitEstablishes, StepKeeps, PTL DEF Spec

\* Every mission, tracker entry and flag has its type, for any bounds.
THEOREM TypeCorrect == Spec => []TypeOK
<1>1. IInv => TypeOK
  BY DEF IInv
<1> QED
  BY <1>1, Inductive, PTL

\* However replans fail, are revived, cancelled or overtaken by a new mission,
\* none of them asks the language model more often than its budget allows.
THEOREM BudgetHolds == Spec => []ReplanBudget
<1>1. IInv => ReplanBudget
  BY DEF IInv, Budget, ReplanBudget
<1> QED
  BY <1>1, Inductive, PTL

\* The tracker never contradicts the lifecycle, with any cap and any timeouts.
THEOREM TrackerFollows == Spec => []TrackerAgrees
<1>1. IInv => TrackerAgrees
  BY DEF IInv
<1> QED
  BY <1>1, Inductive, PTL

\* A mission boundary is not forgotten between a dispatch and the tick for it.
THEOREM BoundaryHeld == Spec => []BoundaryKept
<1>1. IInv => BoundaryKept
  BY DEF IInv
<1> QED
  BY <1>1, Inductive, PTL

\* A verdict is final, but for the mission whose replan is being asked for.
LEMMA VerdictStays ==
    ASSUME IInv, [Next]_vars, NEW i \in Id, outcome[i] # "open", asked # i
    PROVE  outcome'[i] = outcome[i]
<1>1. outcome \in [Id -> {"open"} \cup Terminal]
  BY Facts
<1>2. Open(mission) => mission.id # i
  BY DEF Open, IInv, Verdict
<1>3. ASSUME NEW state, outcome' = [outcome EXCEPT ![mission.id] = state], Open(mission)
      PROVE  outcome'[i] = outcome[i]
  BY <1>1, <1>2, <1>3
<1>4. CASE Fail
  BY <1>3, <1>4 DEF Fail, Ends, MayFail
<1>5. CASE Lifecycle
  BY <1>3, <1>5 DEF Lifecycle, Succeed, Ends, Continue, GiveUp, Ask, Scored
<1>6. CASE Replan
  BY <1>1, <1>6 DEF Replan, ReplanSucceeds, ReplanFails, ReplanAbandoned, Ends, StillAsked
<1>7. CASE Dispatch \/ FullTick \/ EmergencyTick \/ Skip \/ ExportEnds \/ CutShort
           \/ UNCHANGED vars
  BY <1>7 DEF Dispatch, FullTick, EmergencyTick, Skip, ExportEnds, CutShort, vars
<1> QED
  BY <1>4, <1>5, <1>6, <1>7 DEF Next

\* No late tick, answer or timeout changes what a mission came to.
THEOREM VerdictFinal == Spec => OutcomeFinal
<1>1. IInv /\ [Next]_vars
        => [\A i \in Id : outcome[i] # "open" /\ asked # i => outcome'[i] = outcome[i]]_vars
  BY VerdictStays
<1> QED
  BY <1>1, Inductive, PTL DEF Spec, OutcomeFinal

-----------------------------------------------------------------------------
(* What runs has not stalled for the whole window, and what is asked about *)
(* has started to count anew.                                              *)
InTime ==
    mission # None =>
        /\ mission.state = "RUNNING" => mission.stalls < StallWindow
        /\ asked = mission.id => mission.stalls = 0

LEMMA InTimeStep == IInv /\ InTime /\ [Next]_vars => InTime'
<1> SUFFICES ASSUME IInv, InTime, [Next]_vars PROVE InTime'
  OBVIOUS
<1>1. /\ MaxMissions \in Nat /\ StallWindow \in Nat \ {0} /\ seq \in 0..MaxMissions
      /\ None \notin Nat /\ mission \in Mission \cup {None}
  BY Settings, NoMission DEF IInv, TypeOK
<1>2. CASE UNCHANGED <<mission, asked>>
  BY <1>2 DEF InTime
<1>3. CASE UNCHANGED mission /\ asked' = None
  BY <1>1, <1>3 DEF InTime, Mission, Id
<1>4. CASE Dispatch
  <2>1. CASE StartMission
    <3>1. asked # seq + 1
      BY <1>1 DEF IInv, Waits, TypeOK
    <3> QED
      BY <1>1, <1>4, <2>1, <3>1 DEF Dispatch, StartMission, InTime
  <2> QED
    BY <1>2, <1>4, <2>1 DEF Dispatch
<1>5. CASE Fail
  BY <1>1, <1>5 DEF Fail, MayFail, Open, Ends, InTime, Mission
<1>6. CASE Succeed \/ GiveUp
  <2>1. /\ mission \in Mission /\ mission'.id = mission.id
        /\ mission'.state # "RUNNING" /\ asked' = None
    <3>1. CASE Succeed
      BY <1>1, <3>1 DEF Succeed, Scored, Open, Ends, Rest, Mission, Terminal
    <3>2. CASE GiveUp
      <4>1. /\ mission \in Mission /\ asked' = None
            /\ mission' = [mission EXCEPT !.state = "FAILED", !.stalls = 0]
        BY <1>1, <3>2 DEF GiveUp, Scored, Open, Rest
      <4> QED
        BY <1>1, <4>1 DEF Mission, Terminal
    <3> QED
      BY <1>6, <3>1, <3>2
  <2> QED
    BY <1>1, <2>1 DEF InTime, Mission, Id
<1>7. ASSUME NEW s \in {"low", "mid"}, Continue(s) PROVE InTime'
  <2>1. /\ mission # None /\ asked' = None
        /\ mission' = [mission EXCEPT !.stalls = StallsAfter(s)]
        /\ mission.state = "RUNNING" => ~(StallsAfter(s) >= StallWindow)
    BY <1>7 DEF Continue, Scored, Open, Stalled, Rest
  <2>2. StallsAfter(s) \in Nat
    BY <1>1, <2>1 DEF StallsAfter, Mission
  <2> QED
    BY <1>1, <2>1, <2>2 DEF InTime, Mission, Id
<1>8. CASE Ask
  BY <1>1, <1>8 DEF Ask, Scored, Open, InTime, Mission
<1>9. CASE ReplanSucceeds
  <2>1. mission # None /\ asked = mission.id
    BY <1>9 DEF ReplanSucceeds, StillAsked, IInv, Waits, TypeOK
  <2> QED
    BY <1>1, <1>9, <2>1 DEF ReplanSucceeds, Rest, InTime, Mission, Id
<1>10. CASE ReplanFails
  <2>1. mission # None
    BY <1>10 DEF ReplanFails, IInv, Waits, TypeOK
  <2> QED
    BY <1>1, <1>10, <2>1 DEF ReplanFails, Ends, Rest, InTime, Mission, Id
<1>11. CASE FullTick \/ EmergencyTick \/ Skip \/ ReplanAbandoned \/ ExportEnds
            \/ CutShort \/ UNCHANGED vars
  BY <1>2, <1>3, <1>11 DEF FullTick, EmergencyTick, Skip, ReplanAbandoned,
     ExportEnds, CutShort, Rest, vars
<1> QED
  BY <1>4, <1>5, <1>6, <1>7, <1>8, <1>9, <1>10, <1>11 DEF Next, Lifecycle, Replan

(* The stall that fills the window is acted upon in the tick that counts   *)
(* it, by a request or a verdict, and neither an answered replan nor a     *)
(* cancelled tick lets a running mission carry an old stall on: what       *)
(* StallEnds owes to the code, the rest being ticks and frames.            *)
StallActedOn ==
    mission # None /\ mission.state = "RUNNING" => mission.stalls < StallWindow

THEOREM StallNeverOverdue == Spec => []StallActedOn
<1>1. Init => InTime
  BY DEF Init, InTime
<1>2. InTime => StallActedOn
  BY DEF InTime, StallActedOn
<1> QED
  BY <1>1, <1>2, InTimeStep, Inductive, PTL DEF Spec
=============================================================================
