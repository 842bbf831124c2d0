---------------------------- MODULE SerialDriver ----------------------------
(***************************************************************************)
(* SerialESP32Driver (src/src/mousedroid/comms/serial_driver.py) under its *)
(* concurrent callers: the control tick, SensorManager's gathered reads,   *)
(* MCP motor tools and run()'s emergency-stop handler.  Every operation on *)
(* the port takes _io_lock and is a job of a single-worker executor; a     *)
(* caller may be cancelled at any await.  The chassis latches the last     *)
(* velocity it was sent and answers each query with one line: the          *)
(* `waveshare_stock` command set, in which both queries poll the chassis   *)
(* (the legacy encoder query sends nothing and only reads) and connect()   *)
(* arms a heartbeat.                                                       *)
(*                                                                         *)
(* start() connects, with retries, before there is any other caller, and   *)
(* stop() disconnects: a process connects once.                            *)
(***************************************************************************)
EXTENDS Naturals, Sequences, SequencesExt

CONSTANTS
    Task,       \* coroutines that call the driver
    None,
    MaxCalls,   \* bound: calls made in a behaviour
    MaxMisses,  \* cfg.max_consecutive_timeouts
    MaxAttempts,  \* retry.max_attempts of ResilientESP32Driver.connect
    Cancels,    \* callers may be cancelled (tick_timeout_s, MCP timeouts)
    Silence     \* the port may fail, the chassis may miss the read timeout

ASSUME CallsBound == MaxCalls \in Nat
ASSUME MissesBound == MaxMisses \in Nat \ {0}
ASSUME AttemptsBound == MaxAttempts \in Nat \ {0}
ASSUME NoneNotTask == None \notin Task
ASSUME Switches == Cancels \in BOOLEAN /\ Silence \in BOOLEAN

VARIABLES
    link,      \* where connect() or disconnect() is
    attempts,  \* how often connect() was tried
    serial,    \* _serial is a handle
    handles,   \* handles of the port that the process holds open
    connected, \* _connected
    pc,        \* where each coroutine is in its call
    kind,      \* "velocity", "stop" or "query": the operation it called
    no,        \* the number of that call, in calling order
    result,    \* the reply a query was given: the call it answers, or None
    lock,      \* owner of _io_lock
    waiters,   \* coroutines queued on _io_lock, first come first served
    jobs,      \* work items of the executor, oldest first
    asked,     \* queries the chassis has received and not answered yet
    buffer,    \* answers that arrived and nobody has read
    wheels,    \* the velocity the chassis latched: "still" or "moving"
    moveNo,    \* history: the velocity call that set the wheels in motion
    stopped,   \* history: the latest emergency_stop that has returned
    misses,    \* _consecutive_timeouts
    degraded,  \* _is_degraded
    calls,     \* number of calls so far
    abandoned  \* history: some query ended without its reply

callVars == <<pc, kind, no, result, calls>>
lockVars == <<lock, waiters>>
lineVars == <<asked, buffer, wheels, moveNo>>
modeVars == <<misses, degraded>>
portVars == <<serial, handles, connected>>
linkVars == <<link, attempts, portVars>>
vars == <<linkVars, callVars, lockVars, jobs, lineVars, stopped, modeVars, abandoned>>

Kind == {"velocity", "stop", "query"}
CallNo == 0..MaxCalls
LineJob == [op : {"write", "read"}, kind : Kind, no : CallNo, owner : Task, started : BOOLEAN]
PortJob == [op : {"open", "arm", "close"}, kind : {"link"}, no : {0}, owner : {None},
            started : BOOLEAN]
LinkJob(o) == [op |-> o, kind |-> "link", no |-> 0, owner |-> None, started |-> FALSE]
Starting == {"down", "opening", "arming", "rollback", "giving up"}

TypeOK ==
    /\ link \in Starting \cup {"up", "closing", "closed"}
    /\ attempts \in 0..MaxAttempts
    /\ serial \in BOOLEAN /\ connected \in BOOLEAN
    /\ handles \in 0..1
    /\ abandoned \in BOOLEAN
    /\ pc \in [Task -> {"idle", "waiting", "writing", "written", "reading", "answered"}]
    /\ kind \in [Task -> Kind]
    /\ no \in [Task -> CallNo]
    /\ result \in [Task -> CallNo \cup {None}]
    /\ calls \in CallNo
    /\ lock \in Task \cup {None}
    /\ waiters \in Seq(Task)
    /\ jobs \in Seq(LineJob \cup PortJob)
    /\ asked \in Seq(CallNo) /\ buffer \in Seq(CallNo)
    /\ wheels \in {"still", "moving"}
    /\ moveNo \in CallNo /\ stopped \in CallNo
    /\ misses \in 0..MaxMisses /\ degraded = (misses = MaxMisses)

Init ==
    /\ link = "down" /\ attempts = 0
    /\ serial = FALSE /\ handles = 0 /\ connected = FALSE
    /\ abandoned = FALSE
    /\ pc = [t \in Task |-> "idle"]
    /\ kind = [t \in Task |-> "query"]
    /\ no = [t \in Task |-> 0]
    /\ result = [t \in Task |-> None]
    /\ calls = 0
    /\ lock = None /\ waiters = <<>>
    /\ jobs = <<>>
    /\ asked = <<>> /\ buffer = <<>>
    /\ wheels = "still" /\ moveNo = 0 /\ stopped = 0
    /\ misses = 0 /\ degraded = FALSE
-----------------------------------------------------------------------------
(* Callers *)

Call(t, k) ==
    /\ link \notin Starting
    /\ pc[t] = "idle" /\ calls < MaxCalls
    /\ calls' = calls + 1
    /\ pc' = [pc EXCEPT ![t] = "waiting"]
    /\ kind' = [kind EXCEPT ![t] = k]
    /\ no' = [no EXCEPT ![t] = calls + 1]
    /\ result' = [result EXCEPT ![t] = None]
    /\ waiters' = Append(waiters, t)
    /\ UNCHANGED <<linkVars, lock, jobs, lineVars, stopped, modeVars, abandoned>>

(* _io_lock is exclusive and fair. *)
Unlocked(t) == Head(waiters) = t   \* mutant: no _io_lock
MayAcquire(t) == lock = None /\ Head(waiters) = t

NewJob(op, t) ==
    [op |-> op, kind |-> kind[t], no |-> no[t], owner |-> t, started |-> FALSE]

(* The coroutine gets the lock and submits its write to the worker. *)
Acquire(t) ==
    /\ waiters # <<>> /\ MayAcquire(t)
    /\ lock' = t
    /\ waiters' = Tail(waiters)
    /\ pc' = [pc EXCEPT ![t] = "writing"]
    /\ jobs' = Append(jobs, NewJob("write", t))
    /\ UNCHANGED <<linkVars, kind, no, result, calls, lineVars, stopped, modeVars, abandoned>>

(* A degraded driver skips a query until degraded_poll_interval_s is over. *)
SkipQuery(t) ==
    /\ waiters # <<>> /\ MayAcquire(t)
    /\ kind[t] = "query" /\ degraded
    /\ waiters' = Tail(waiters)
    /\ pc' = [pc EXCEPT ![t] = "idle"]
    /\ UNCHANGED <<linkVars, kind, no, result, calls, lock, jobs, lineVars, stopped, modeVars, abandoned>>

(* The write is done: a command returns, a query submits its read. *)
Return(t) ==
    /\ pc[t] = "written" /\ kind[t] # "query"
    /\ pc' = [pc EXCEPT ![t] = "idle"]
    /\ lock' = None
    /\ stopped' = IF kind[t] = "stop" THEN no[t] ELSE stopped
    /\ UNCHANGED <<linkVars, kind, no, result, calls, waiters, jobs, lineVars, modeVars, abandoned>>

AwaitReply(t) ==
    /\ pc[t] = "written" /\ kind[t] = "query"
    /\ pc' = [pc EXCEPT ![t] = "reading"]
    /\ jobs' = Append(jobs, NewJob("read", t))
    /\ UNCHANGED <<linkVars, kind, no, result, calls, lockVars, lineVars, stopped, modeVars, abandoned>>

(* _record_timeout and _record_success; the count stops mattering at the   *)
(* threshold, and any reply ends degraded mode.                            *)
DegradedSticks(t, m) == degraded \/ m >= MaxMisses   \* mutant: no _exit_degraded
DegradedAfter(t, m) == result[t] = None /\ m >= MaxMisses

ReturnReply(t) ==
    /\ pc[t] = "answered"
    /\ pc' = [pc EXCEPT ![t] = "idle"]
    /\ lock' = None
    /\ misses' = IF result[t] # None THEN 0
                 ELSE IF misses < MaxMisses THEN misses + 1 ELSE misses
    /\ degraded' = DegradedAfter(t, misses')
    /\ UNCHANGED <<linkVars, kind, no, result, calls, waiters, jobs, lineVars, stopped, abandoned>>

CancelWaiting(t) ==
    /\ Cancels /\ pc[t] = "waiting"
    /\ pc' = [pc EXCEPT ![t] = "idle"]
    /\ \E i \in DOMAIN waiters :
          waiters[i] = t /\ waiters' = RemoveAt(waiters, i)
    /\ UNCHANGED <<linkVars, kind, no, result, calls, lock, jobs, lineVars, stopped, modeVars, abandoned>>

(* Cancelling an executor future removes its job while the job is queued,  *)
(* and leaves the job to the worker once it runs.                          *)
Droppable(t, j) == j.owner = t /\ j.no = no[t] /\ ~j.started

(* `async with` releases the lock at once, the thread done or not. *)
LockLeaked == lock   \* mutant: acquire and release without `async with`
LockAfterCancel == None

CancelHolding(t) ==
    /\ Cancels /\ lock = t
    /\ pc' = [pc EXCEPT ![t] = "idle"]
    /\ lock' = LockAfterCancel
    /\ \/ \E i \in DOMAIN jobs :
             /\ Droppable(t, jobs[i])
             /\ jobs' = RemoveAt(jobs, i)
             /\ abandoned' = (abandoned \/ jobs[i].op = "read")
       \/ /\ \A i \in DOMAIN jobs : ~Droppable(t, jobs[i])
          /\ jobs' = jobs
          /\ abandoned' = (abandoned \/ kind[t] = "query")
    /\ UNCHANGED <<linkVars, kind, no, result, calls, waiters, lineVars, stopped, modeVars>>
-----------------------------------------------------------------------------
(* connect() and disconnect(), which take no part in _io_lock: no caller   *)
(* is there while connect() arms.                                          *)

callerVars == <<callVars, lockVars, lineVars, stopped, abandoned>>

Connect ==
    /\ link = "down" /\ attempts < MaxAttempts
    /\ link' = "opening" /\ attempts' = attempts + 1
    /\ jobs' = Append(jobs, LinkJob("open"))
    /\ UNCHANGED <<callerVars, portVars, modeVars>>

(* The port opens; a cancelled connect() never gets the handle, which is   *)
(* collected.  Then the heartbeat is armed.                                *)
FinishOpen(i) ==
    /\ jobs[i].started /\ jobs[i].op = "open"
    /\ IF link = "opening"
       THEN /\ link' = "arming"
            /\ serial' = TRUE /\ handles' = handles + 1 /\ connected' = TRUE
            /\ misses' = 0 /\ degraded' = FALSE
            /\ jobs' = Append(RemoveAt(jobs, i), LinkJob("arm"))
       ELSE /\ jobs' = RemoveAt(jobs, i)
            /\ UNCHANGED <<link, portVars, modeVars>>
    /\ UNCHANGED <<attempts, callerVars>>

FinishArm(i) ==
    /\ jobs[i].started /\ jobs[i].op = "arm"
    /\ link' = IF link = "arming" THEN "up" ELSE link
    /\ jobs' = RemoveAt(jobs, i)
    /\ UNCHANGED <<attempts, portVars, modeVars, callerVars>>

(* The driver is reset before it awaits the close, which is shielded from  *)
(* cancellation.                                                           *)
ErrorsOnly(cancelled, rest) ==   \* mutant: except Exception
    /\ jobs' = IF cancelled THEN rest ELSE Append(rest, LinkJob("close"))
    /\ serial' = cancelled /\ connected' = cancelled
Released(cancelled, rest) ==
    /\ jobs' = Append(rest, LinkJob("close"))
    /\ serial' = FALSE /\ connected' = FALSE

RollBack(cancelled, rest) ==
    /\ link' = IF cancelled THEN "giving up" ELSE "rollback"
    /\ Released(cancelled, rest)
    /\ UNCHANGED handles

(* Opening or arming raises. *)
LinkFails(i) ==
    /\ Silence
    /\ jobs[i].started /\ jobs[i].op \in {"open", "arm"}
    /\ IF jobs[i].op = "arm" /\ link = "arming"
       THEN RollBack(FALSE, RemoveAt(jobs, i))
       ELSE /\ link' = IF jobs[i].op = "open" /\ link = "opening" THEN "down" ELSE link
            /\ jobs' = RemoveAt(jobs, i)
            /\ UNCHANGED portVars
    /\ UNCHANGED <<attempts, modeVars, callerVars>>

(* start() is cancelled at one of the awaits of connect(); a job that runs *)
(* is left to the worker, and nothing is retried.                          *)
Undropped ==
    LET dropped == {i \in DOMAIN jobs : ~jobs[i].started /\ jobs[i].op # "close"}
    IN IF dropped = {} THEN jobs ELSE RemoveAt(jobs, CHOOSE i \in dropped : TRUE)

CancelConnect ==
    /\ Cancels /\ link \in Starting
    /\ IF link = "arming" THEN RollBack(TRUE, Undropped)
       ELSE /\ link' = "closed" /\ jobs' = Undropped
            /\ UNCHANGED portVars
    /\ UNCHANGED <<attempts, modeVars, callerVars>>

(* The retries are exhausted: start() raises, and stop() has no handle to  *)
(* close.                                                                  *)
GiveUp ==
    /\ link = "down" /\ attempts = MaxAttempts
    /\ link' = "closed"
    /\ UNCHANGED <<attempts, portVars, jobs, modeVars, callerVars>>

(* stop() queues the close behind whatever the port is doing. *)
Disconnect ==
    /\ link = "up"
    /\ link' = "closing"
    /\ jobs' = Append(jobs, LinkJob("close"))
    /\ UNCHANGED <<attempts, portVars, modeVars, callerVars>>

FinishClose(i) ==
    /\ jobs[i].started /\ jobs[i].op = "close"
    /\ handles' = handles - 1
    /\ link' = IF link = "rollback" THEN "down" ELSE "closed"
    /\ serial' = FALSE /\ connected' = FALSE
    /\ jobs' = RemoveAt(jobs, i)
    /\ UNCHANGED <<attempts, modeVars, callerVars>>
-----------------------------------------------------------------------------
(* The worker thread *)

(* A single worker: a job starts when every job before it is over. *)
ManyWorkers(i) == \A k \in 1..(i - 1) : jobs[k].started   \* mutant: to_thread
WorkerFreeFor(i) == i = 1

Start(i) ==
    /\ WorkerFreeFor(i) /\ ~jobs[i].started
    /\ jobs' = [jobs EXCEPT ![i].started = TRUE]
    /\ UNCHANGED <<linkVars, callVars, lockVars, lineVars, stopped, modeVars, abandoned>>

(* The future of the finished job resolves if its coroutine still waits. *)
Resolve(j, from, to, r) ==
    IF pc[j.owner] = from /\ no[j.owner] = j.no
    THEN /\ pc' = [pc EXCEPT ![j.owner] = to]
         /\ result' = [result EXCEPT ![j.owner] = r]
    ELSE UNCHANGED <<pc, result>>

FinishWrite(i) ==
    /\ jobs[i].started /\ jobs[i].op = "write" /\ serial
    /\ LET j == jobs[i] IN
        /\ wheels' = CASE j.kind = "velocity" -> "moving"
                       [] j.kind = "stop"     -> "still"
                       [] OTHER               -> wheels
        /\ moveNo' = IF j.kind = "velocity" THEN j.no ELSE moveNo
        /\ asked' = IF j.kind = "query" THEN Append(asked, j.no) ELSE asked
        /\ Resolve(j, "writing", "written", None)
    /\ jobs' = RemoveAt(jobs, i)
    /\ UNCHANGED <<linkVars, kind, no, calls, lockVars, buffer, stopped, modeVars, abandoned>>

(* readline() returns the oldest line there is, whatever it answers. *)
FinishRead(i) ==
    /\ jobs[i].started /\ jobs[i].op = "read" /\ serial /\ buffer # <<>>
    /\ Resolve(jobs[i], "reading", "answered", Head(buffer))
    /\ buffer' = Tail(buffer)
    /\ jobs' = RemoveAt(jobs, i)
    /\ UNCHANGED <<linkVars, kind, no, calls, lockVars, asked, wheels, moveNo, stopped, modeVars, abandoned>>

ReadTimeout(i) ==
    /\ Silence
    /\ jobs[i].started /\ jobs[i].op = "read" /\ serial /\ buffer = <<>>
    /\ Resolve(jobs[i], "reading", "answered", None)
    /\ abandoned' = TRUE
    /\ jobs' = RemoveAt(jobs, i)
    /\ UNCHANGED <<linkVars, kind, no, calls, lockVars, lineVars, stopped, modeVars>>

(* serial.write or readline raises, or _serial is None: the error reaches  *)
(* the caller.                                                             *)
PortFails(i) ==
    /\ Silence \/ ~serial
    /\ jobs[i].started /\ jobs[i].op \in {"write", "read"}
    /\ LET t == jobs[i].owner
           waits == pc[t] \in {"writing", "reading"} /\ no[t] = jobs[i].no
       IN /\ pc' = IF waits THEN [pc EXCEPT ![t] = "idle"] ELSE pc
          /\ lock' = IF waits THEN None ELSE lock
    /\ abandoned' = (abandoned \/ jobs[i].kind = "query")
    /\ jobs' = RemoveAt(jobs, i)
    /\ UNCHANGED <<linkVars, kind, no, result, calls, waiters, lineVars, stopped, modeVars>>

(* The chassis answers queries in order. *)
Answer ==
    /\ asked # <<>>
    /\ asked' = Tail(asked)
    /\ buffer' = Append(buffer, Head(asked))
    /\ UNCHANGED <<linkVars, callVars, lockVars, jobs, wheels, moveNo, stopped, modeVars, abandoned>>

(* Every call made is over, the port is closed and the line is quiet. *)
Finished ==
    /\ link = "closed"
    /\ calls = MaxCalls /\ \A t \in Task : pc[t] = "idle"
    /\ jobs = <<>> /\ asked = <<>>
    /\ UNCHANGED vars

Work ==
    \E i \in DOMAIN jobs :
        \/ Start(i) \/ FinishWrite(i) \/ FinishRead(i) \/ ReadTimeout(i) \/ PortFails(i)
        \/ FinishOpen(i) \/ FinishArm(i) \/ LinkFails(i) \/ FinishClose(i)

Proceed(t) == Acquire(t) \/ SkipQuery(t) \/ Return(t) \/ AwaitReply(t) \/ ReturnReply(t)

Next ==
    \/ \E t \in Task, k \in Kind : Call(t, k)
    \/ \E t \in Task : Proceed(t) \/ CancelWaiting(t) \/ CancelHolding(t)
    \/ Connect \/ CancelConnect \/ GiveUp \/ Disconnect
    \/ Work \/ Answer
    \/ Finished

Spec == Init /\ [][Next]_vars

(* The event loop runs what is ready, the worker thread and the chassis    *)
(* work; nobody is obliged to call or to cancel.                           *)
Fairness == WF_vars(Work) /\ WF_vars(Answer) /\ \A t \in Task : WF_vars(Proceed(t))

FairSpec == Spec /\ Fairness
-----------------------------------------------------------------------------
(***************************************************************************)
(* Once an emergency_stop has returned, the wheels turn only for a         *)
(* velocity that was called after that stop: no cancelled or queued        *)
(* velocity write reaches the port behind the stop.                        *)
(***************************************************************************)
StopIsLast == wheels = "moving" => moveNo > stopped

(***************************************************************************)
(* A query is given the reply to its own request ("the send-then-read pair *)
(* MUST be atomic", serial_driver.py:287), however callers, failing writes *)
(* and skipped queries interleave.  Once a query ends without its reply,   *)
(* by a cancellation, a timeout or an error, nothing drains the input      *)
(* buffer: the reply is given to the next query and all that follow shift. *)
(***************************************************************************)
RepliesMatch ==
    \A t \in Task :
        pc[t] = "answered" => result[t] \in {no[t], None} \/ abandoned

(***************************************************************************)
(* A connect() that fails or is cancelled, wherever it is, leaves the      *)
(* driver reset, and every handle the process holds is the driver's or has *)
(* its close queued: "we would leak one fd per attempt AND advertise       *)
(* _connected=True with the failsafe unarmed" (serial_driver.py:176).      *)
(***************************************************************************)
ConnectRollsBack ==
    /\ link \in {"down", "opening", "rollback", "giving up", "closed"} =>
          ~connected /\ ~serial
    /\ handles = 1 => serial \/ \E i \in DOMAIN jobs : jobs[i].op = "close"

(***************************************************************************)
(* Whoever waits for the port gets through or gives up: no cancellation,   *)
(* timeout or failure leaves _io_lock taken.                               *)
(***************************************************************************)
CallsEnd == \A t \in Task : pc[t] # "idle" ~> pc[t] = "idle"
=============================================================================
