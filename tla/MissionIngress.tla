--------------------------- MODULE MissionIngress ---------------------------
(***************************************************************************)
(* The REST door of the mission dispatcher (telemetry/server, POST         *)
(* /api/v1/mission): a client that got no answer sends its command again   *)
(* with the same idempotency key, and the server keeps two tables so that  *)
(* the robot is not sent twice: the answers of accepted commands, for      *)
(* `command_dedup_window_s', and a future per key whose dispatch is still  *)
(* running, on which a repeated request waits.                             *)
(*                                                                         *)
(* A request is its position in `requests', the order in which handlers    *)
(* reach the tables; everything from the reading of the clock to the first *)
(* await of the handler is one action.  The rate limiter and the schema    *)
(* check come before it and touch neither table.                           *)
(***************************************************************************)
EXTENDS Naturals, Sequences, FiniteSets

CONSTANTS Key,          \* idempotency keys
          None,         \* a request without a key
          Window,       \* command_dedup_window_s, in clock steps
          MaxTime,      \* bound: clock steps
          MaxRequests   \* bound: requests

ASSUME IngressAssumption ==
    /\ None \notin Key
    /\ Window \in Nat \ {0} /\ MaxTime \in Nat /\ MaxRequests \in Nat

VARIABLES now,        \* time.monotonic()
          dedup,      \* _mission_dedup: the request whose body is kept, or 0
          inflight,   \* _mission_inflight: the request leading on a key, or 0
          requests,   \* the requests, in order
          stopping    \* the server is shutting down and cancels its handlers

vars == <<now, dedup, inflight, requests, stopping>>

Phase  == {"leading", "following", "done"}
Future == {"none", "pending", "set", "failed", "cancelled"}
Answer == {"none", "accepted", "refused", "failed", "cancelled"}

\* `leader' is the request whose dispatch answers this one (itself, when it
\* leads), `future' the future a leader resolves, `sent' that the dispatcher
\* accepted the command and the robot has the mission, `waited' that it
\* followed a dispatch that was running when it came.
Request == [key : Key \cup {None}, at : Nat, phase : Phase, leader : Nat,
            future : Future, answer : Answer, sent : BOOLEAN, waited : BOOLEAN]

TypeOK == /\ now \in 0 .. MaxTime
          /\ requests \in Seq(Request) /\ Len(requests) <= MaxRequests
          /\ \A r \in DOMAIN requests : requests[r].leader \in DOMAIN requests
          /\ dedup \in [Key -> {0} \cup DOMAIN requests]
          /\ inflight \in [Key -> {0} \cup DOMAIN requests]
          /\ stopping \in BOOLEAN

Init == /\ now = 0 /\ requests = <<>> /\ stopping = FALSE
        /\ dedup = [k \in Key |-> 0] /\ inflight = [k \in Key |-> 0]

-----------------------------------------------------------------------------
(* The handler up to its first await.                                      *)

\* `v[0] > now': the expiry counts from the arrival of the leader.
Alive(r) == requests[r].at + Window > now

Pruned == [k \in Key |-> IF dedup[k] # 0 /\ Alive(dedup[k]) THEN dedup[k] ELSE 0]

\* Mutant: the in-flight table is not consulted.
JoinsNever(k) == FALSE
Joins(k) == k \in Key /\ inflight[k] # 0

Entry(k, phase, leader, future, answer) ==
    [key |-> k, at |-> now, phase |-> phase, leader |-> leader,
     future |-> future, answer |-> answer, sent |-> FALSE,
     waited |-> phase = "following"]

Arrives(k) == ~stopping /\ Len(requests) < MaxRequests /\ dedup' = Pruned

Replay(k) == /\ Arrives(k) /\ k \in Key /\ Pruned[k] # 0
             /\ requests' = Append(requests,
                                   Entry(k, "done", Pruned[k], "none", "accepted"))
             /\ UNCHANGED <<now, inflight, stopping>>

Follow(k) == /\ Arrives(k) /\ (k \in Key => Pruned[k] = 0) /\ Joins(k)
             /\ requests' = Append(requests,
                                   Entry(k, "following", inflight[k], "none", "none"))
             /\ UNCHANGED <<now, inflight, stopping>>

Lead(k) ==
    /\ Arrives(k) /\ (k \in Key => Pruned[k] = 0) /\ ~Joins(k)
    /\ LET r == Len(requests) + 1
       IN /\ requests' = Append(requests,
                    Entry(k, "leading", r, IF k \in Key THEN "pending" ELSE "none",
                          "none"))
          /\ inflight' = IF k \in Key THEN [inflight EXCEPT ![k] = r] ELSE inflight
    /\ UNCHANGED <<now, stopping>>

-----------------------------------------------------------------------------
(* The leader's return from the dispatcher, and the followers' wake.       *)

\* _mission_inflight.pop in the leader's finally.
Popped(k) == IF k \in Key THEN [inflight EXCEPT ![k] = 0] ELSE inflight

\* Mutant: every answer is kept, a refusal too.
KeptAlways(status) == status \in Answer
\* Only an accepted command is remembered: a refusal may be tried again.
Kept(status) == status = "accepted"

Dispatched(r, status) ==
    LET req == requests[r]
        \* A follower cancelled while it waits has cancelled the shared
        \* future: set_result then raises out of the handler.
        lost == req.future = "cancelled"
    IN /\ req.phase = "leading"
       /\ dedup' = IF req.key \in Key /\ Kept(status)
                   THEN [dedup EXCEPT ![req.key] = r] ELSE dedup
       /\ inflight' = Popped(req.key)
       /\ requests' = [requests EXCEPT ![r] =
              [req EXCEPT !.phase = "done", !.sent = (status = "accepted"),
                          !.answer = IF lost THEN "failed" ELSE status,
                          !.future = IF req.future = "pending" THEN "set" ELSE req.future]]
       /\ UNCHANGED <<now, stopping>>

Finish(r) == \E status \in {"accepted", "refused"} : Dispatched(r, status)

\* Mutant: the defensive set_exception is missing.
LeftPending(future) == future
\* What the finally makes of the future of a leader that was cancelled.
Signalled(future) == IF future = "pending" THEN "failed" ELSE future

CancelLeader(r) ==
    LET req == requests[r]
    IN /\ stopping /\ req.phase = "leading"
       /\ inflight' = Popped(req.key)
       /\ requests' = [requests EXCEPT ![r] =
              [req EXCEPT !.phase = "done", !.answer = "cancelled",
                          !.future = Signalled(req.future)]]
       /\ UNCHANGED <<now, dedup, stopping>>

Cancelled(future) == IF future = "pending" THEN "cancelled" ELSE future

\* A follower awaits the leader's own future, unshielded: its cancellation
\* cancels that future for everyone.
CancelFollower(r) ==
    LET req == requests[r]  leader == requests[req.leader]
    IN /\ stopping /\ req.phase = "following"
       /\ requests' = [requests EXCEPT
              ![r] = [req EXCEPT !.phase = "done", !.answer = "cancelled"],
              ![req.leader] = [leader EXCEPT !.future = Cancelled(leader.future)]]
       /\ UNCHANGED <<now, dedup, inflight, stopping>>

FollowersAnswer(l) ==
    CASE requests[l].future = "set"       -> requests[l].answer
      [] requests[l].future = "failed"    -> "failed"
      [] requests[l].future = "cancelled" -> "cancelled"

Wake(r) ==
    LET req == requests[r]
    IN /\ req.phase = "following" /\ requests[req.leader].future # "pending"
       /\ requests' = [requests EXCEPT ![r] =
              [req EXCEPT !.phase = "done", !.answer = FollowersAnswer(req.leader)]]
       /\ UNCHANGED <<now, dedup, inflight, stopping>>

-----------------------------------------------------------------------------

Tick == now < MaxTime /\ now' = now + 1 /\ UNCHANGED <<dedup, inflight, requests, stopping>>

Stop == ~stopping /\ stopping' = TRUE /\ UNCHANGED <<now, dedup, inflight, requests>>

Step(r) == Finish(r) \/ Wake(r) \/ CancelLeader(r) \/ CancelFollower(r)

Next == \/ \E k \in Key \cup {None} : Replay(k) \/ Follow(k) \/ Lead(k)
        \/ \E r \in DOMAIN requests : Step(r)
        \/ Tick \/ Stop

\* The dispatcher's calls are bounded by the language model's own time limit,
\* and a resolved future wakes its waiters.
Fairness == \A r \in 1 .. MaxRequests :
               WF_vars(r \in DOMAIN requests /\ (Finish(r) \/ Wake(r)))

Spec == Init /\ [][Next]_vars /\ Fairness

-----------------------------------------------------------------------------

\* At most one dispatch per key per window, the contract written beside the
\* two tables: a second request leads on a key only when the first is over,
\* and, if the robot got the first, when the window since it came has passed.
OncePerKey ==
    \A a, b \in DOMAIN requests :
        /\ a < b /\ requests[a].key = requests[b].key /\ requests[a].key \in Key
        /\ requests[a].leader = a /\ requests[b].leader = b
        => /\ requests[a].phase = "done"
           /\ requests[a].sent => requests[b].at >= requests[a].at + Window

\* A client told "accepted" can rely on it: the dispatcher accepted a command
\* of that key, and unless the client waited for it, one that came less than a
\* window before.  A client told otherwise by a server that stays up may send
\* the command again without sending the robot twice.
AnswerIsTrue ==
    \A r \in DOMAIN requests :
        LET req == requests[r]  l == req.leader
        IN req.phase = "done" =>
             /\ req.answer = "accepted" =>
                  /\ requests[l].sent /\ requests[l].key = req.key
                  /\ ~req.waited => req.at < requests[l].at + Window
             /\ req.answer # "accepted" /\ ~stopping => ~requests[l].sent

\* Every request is answered, also when its leader is cancelled under it.
FollowersEnd ==
    \A r \in 1 .. MaxRequests :
        r \in DOMAIN requests ~> r \in DOMAIN requests /\ requests[r].phase = "done"

=============================================================================
