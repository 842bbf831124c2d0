------------------------- MODULE SerialDriver_proofs -------------------------
(***************************************************************************)
(* The serial driver for any callers, any number of calls and any retries: *)
(* its types, that an emergency stop that returned is the last word on the *)
(* wheels, that replies are not mixed up, and that no connect() leaves a   *)
(* handle behind.                                                          *)
(***************************************************************************)
EXTENDS SerialDriver, SequenceTheorems, TLAPS

JobSet == LineJob \cup PortJob

(* Whoever waits called before whoever waits behind, and after every stop  *)
(* that has returned.                                                      *)
Queue ==
    /\ \A t \in Task : no[t] <= calls
    /\ stopped <= calls
    /\ \A i \in DOMAIN waiters :
          pc[waiters[i]] = "waiting" /\ stopped < no[waiters[i]]
    /\ \A i, k \in DOMAIN waiters : i < k => no[waiters[i]] < no[waiters[k]]

(* Only the owner of the lock is inside an operation, and it called before *)
(* whoever waits.                                                          *)
Inside == {"writing", "written", "reading", "answered"}

Holder ==
    /\ \A t \in Task : pc[t] \in Inside <=> t = lock
    /\ lock # None =>
         /\ stopped < no[lock]
         /\ \A i \in DOMAIN waiters : no[lock] < no[waiters[i]]
         /\ pc[lock] = "written" /\ kind[lock] = "stop" => wheels = "still"
         /\ pc[lock] \in {"reading", "answered"} => kind[lock] = "query"

(* The job the owner of the lock waits for.                                *)
Mine(j) ==
    /\ lock # None /\ j.owner = lock /\ j.no = no[lock] /\ j.kind = kind[lock]
    /\ \/ j.op = "write" /\ pc[lock] = "writing"
       \/ j.op = "read" /\ pc[lock] = "reading"

OnLine(j) == j.op \in {"write", "read"}

(* A job on the line is the owner's, or it runs and has lost its caller.   *)
Job(j) ==
    /\ j.started \/ Mine(j)
    /\ j.op = "read" => j.kind = "query"
    /\ stopped < j.no /\ j.no <= calls
    /\ \A k \in DOMAIN waiters : j.no < no[waiters[k]]
    /\ lock # None => j.no <= no[lock] /\ (j.no = no[lock] => Mine(j))
                      /\ pc[lock] \notin {"written", "answered"}

Jobs ==
    /\ \A i \in DOMAIN jobs : jobs[i].started => i = 1
    /\ \A i \in DOMAIN jobs : OnLine(jobs[i]) => Job(jobs[i])
    /\ \A i, k \in DOMAIN jobs : Mine(jobs[i]) /\ Mine(jobs[k]) => i = k

(* Nobody calls before connect() is over; what the process holds open is   *)
(* the driver's, or has exactly one close under way.                       *)
OnlyOne(op) == \A k, m \in DOMAIN jobs : jobs[k].op = op /\ jobs[m].op = op => k = m
NoJob(op) == \A k \in DOMAIN jobs : jobs[k].op # op
Held == handles = 1

Port ==
    /\ link \in Starting =>
         (\A t \in Task : pc[t] = "idle") /\ NoJob("write") /\ NoJob("read")
    /\ (serial <=> link \in {"arming", "up", "closing"}) /\ (connected <=> serial)
    /\ OnlyOne("close")
    /\ ~NoJob("close") =>
         Held /\ link \in {"rollback", "giving up", "closing", "closed"}
    /\ link \in {"down", "opening"} => ~Held
    /\ link \in {"arming", "up"} => Held
    /\ link \in {"rollback", "giving up", "closing"} \/ (link = "closed" /\ Held) =>
         ~NoJob("close")

(* Until a query is abandoned, a request or its reply is on the line only  *)
(* while its query waits for it.                                           *)
Expecting == lock # None /\ kind[lock] = "query" /\ pc[lock] \in {"written", "reading"}

Line ==
    ~abandoned =>
      /\ IF Expecting
         THEN \/ asked = <<no[lock]>> /\ buffer = <<>>
              \/ asked = <<>> /\ buffer = <<no[lock]>>
         ELSE asked = <<>> /\ buffer = <<>>
      /\ \A i \in DOMAIN jobs : jobs[i].kind = "query" => Mine(jobs[i])
      /\ \A t \in Task : pc[t] = "answered" => result[t] = no[t]

IInv == TypeOK /\ Queue /\ Holder /\ Jobs /\ Port /\ Line /\ StopIsLast
-----------------------------------------------------------------------------
(* Sequences.                                                              *)

LEMMA Removed ==
    ASSUME NEW S, NEW s \in Seq(S), NEW i \in DOMAIN s
    PROVE  /\ RemoveAt(s, i) \in Seq(S)
           /\ DOMAIN s = 1..Len(s) /\ Len(s) \in Nat
           /\ Len(RemoveAt(s, i)) = Len(s) - 1
           /\ DOMAIN RemoveAt(s, i) = 1..(Len(s) - 1)
           /\ \A k \in 1..(Len(s) - 1) :
                 RemoveAt(s, i)[k] = IF k < i THEN s[k] ELSE s[k + 1]
<1> DEFINE a == SubSeq(s, 1, i - 1)
           b == SubSeq(s, i + 1, Len(s))
<1>1. DOMAIN s = 1..Len(s) /\ Len(s) \in Nat /\ i \in 1..Len(s)
  OBVIOUS
<1>2. a \in Seq(S) /\ Len(a) = i - 1 /\ \A k \in 1..(i - 1) : a[k] = s[k]
  BY <1>1
<1>3. b \in Seq(S) /\ Len(b) = Len(s) - i /\ \A k \in 1..(Len(s) - i) : b[k] = s[k + i]
  BY <1>1
<1>4. RemoveAt(s, i) = a \o b
  BY DEF RemoveAt
<1> HIDE DEF a, b
<1>5. Len(a \o b) = Len(s) - 1 /\ a \o b \in Seq(S) /\ DOMAIN (a \o b) = 1..(Len(s) - 1)
  <2>1. a \o b \in Seq(S) /\ Len(a \o b) = Len(a) + Len(b)
    BY <1>2, <1>3, ConcatProperties
  <2>2. Len(a) + Len(b) = Len(s) - 1
    BY <1>1, <1>2, <1>3
  <2>3. DOMAIN (a \o b) = 1..Len(a \o b)
    BY <2>1
  <2> QED
    BY <2>1, <2>2, <2>3
<1>6. ASSUME NEW k \in 1..(Len(s) - 1)
      PROVE  (a \o b)[k] = IF k < i THEN s[k] ELSE s[k + 1]
  <2>1. CASE k < i
    <3>1. (a \o b)[k] = a[k] /\ k \in 1..(i - 1)
      BY <2>1, <1>1, <1>2, <1>3, <1>6
    <3> QED
      BY <3>1, <2>1, <1>2
  <2>2. CASE k >= i
    <3>1. (a \o b)[k] = b[k - (i - 1)] /\ k - (i - 1) \in 1..(Len(s) - i)
      BY <2>2, <1>1, <1>2, <1>3, <1>6
    <3>2. b[k - (i - 1)] = s[k - (i - 1) + i] /\ k - (i - 1) + i = k + 1
      BY <3>1, <1>1, <1>3
    <3> QED
      BY <3>1, <3>2, <2>2, <1>1
  <2>3. k < i \/ k >= i
    BY <1>1, <1>6
  <2> QED
    BY <2>1, <2>2, <2>3
<1> QED
  BY <1>1, <1>4, <1>5, <1>6

LEMMA Appended ==
    ASSUME NEW S, NEW s \in Seq(S), NEW e \in S
    PROVE  /\ Append(s, e) \in Seq(S)
           /\ DOMAIN s = 1..Len(s) /\ Len(s) \in Nat
           /\ DOMAIN Append(s, e) = 1..(Len(s) + 1)
           /\ \A k \in 1..Len(s) : Append(s, e)[k] = s[k]
           /\ Append(s, e)[Len(s) + 1] = e
OBVIOUS

\* The head leaves.
LEMMA Behead ==
    ASSUME NEW S, NEW s \in Seq(S), s # <<>>
    PROVE  /\ Tail(s) \in Seq(S) /\ Head(s) \in S /\ Head(s) = s[1] /\ 1 \in DOMAIN s
           /\ DOMAIN s = 1..Len(s) /\ Len(s) \in Nat
           /\ DOMAIN Tail(s) = 1..(Len(s) - 1)
           /\ \A k \in 1..(Len(s) - 1) : Tail(s)[k] = s[k + 1]
OBVIOUS

(* What became of the jobs: the one at p is new, the others were there     *)
(* before in the same order, without the one at i.                         *)
Kept(i, p) ==
    \A k \in DOMAIN jobs' :
        /\ k \in Nat \ {0}
        /\ \/ k = p
           \/ k < i /\ k \in DOMAIN jobs /\ jobs'[k] = jobs[k]
           \/ k >= i /\ k + 1 \in DOMAIN jobs /\ jobs'[k] = jobs[k + 1]

LEMMA RemovedKept ==
    ASSUME jobs \in Seq(JobSet), NEW i \in DOMAIN jobs, jobs' = RemoveAt(jobs, i)
    PROVE  /\ jobs' \in Seq(JobSet) /\ Kept(i, 0) /\ i \in Nat \ {0}
           /\ \A k \in DOMAIN jobs \ {i} : \E m \in DOMAIN jobs' : jobs'[m] = jobs[k]
<1>1. /\ jobs' \in Seq(JobSet) /\ DOMAIN jobs = 1..Len(jobs) /\ Len(jobs) \in Nat
      /\ DOMAIN jobs' = 1..(Len(jobs) - 1)
      /\ \A k \in 1..(Len(jobs) - 1) :
            jobs'[k] = IF k < i THEN jobs[k] ELSE jobs[k + 1]
  BY Removed
<1>2. Kept(i, 0)
  BY <1>1 DEF Kept
<1>3. ASSUME NEW k \in DOMAIN jobs \ {i} PROVE \E m \in DOMAIN jobs' : jobs'[m] = jobs[k]
  <2>1. CASE k < i
    <3>1. k \in DOMAIN jobs' /\ jobs'[k] = jobs[k]
      BY <1>1, <2>1
    <3> QED
      BY <3>1
  <2>2. CASE k > i
    <3>1. k - 1 \in DOMAIN jobs' /\ jobs'[k - 1] = jobs[k]
      BY <1>1, <2>2
    <3> QED
      BY <3>1
  <2> QED
    BY <2>1, <2>2, <1>1
<1> QED
  BY <1>1, <1>2, <1>3

LEMMA AppendedKept ==
    ASSUME jobs \in Seq(JobSet), NEW e \in JobSet, jobs' = Append(jobs, e)
    PROVE  \E p \in Nat \ {0} :
             /\ jobs' \in Seq(JobSet) /\ Kept(p, p)
             /\ p \in DOMAIN jobs' /\ p \notin DOMAIN jobs /\ jobs'[p] = e
             /\ \A k \in DOMAIN jobs : k \in DOMAIN jobs' /\ jobs'[k] = jobs[k]
             /\ jobs # <<>> => p # 1
<1>1. /\ jobs' \in Seq(JobSet) /\ DOMAIN jobs = 1..Len(jobs) /\ Len(jobs) \in Nat
      /\ DOMAIN jobs' = 1..(Len(jobs) + 1)
      /\ \A k \in 1..Len(jobs) : jobs'[k] = jobs[k]
      /\ jobs'[Len(jobs) + 1] = e
  BY Appended
<1>2. Kept(Len(jobs) + 1, Len(jobs) + 1)
  BY <1>1 DEF Kept
<1> QED
  BY <1>1, <1>2

LEMMA ReplacedKept ==
    ASSUME jobs \in Seq(JobSet), NEW i \in DOMAIN jobs, NEW e \in JobSet,
           jobs' = Append(RemoveAt(jobs, i), e)
    PROVE  /\ i \in Nat \ {0}
           /\ \E p \in Nat \ {0} :
                jobs' \in Seq(JobSet) /\ Kept(i, p) /\ p \in DOMAIN jobs' /\ jobs'[p] = e
<1> DEFINE rest == RemoveAt(jobs, i)
<1>1. /\ rest \in Seq(JobSet) /\ DOMAIN jobs = 1..Len(jobs) /\ Len(jobs) \in Nat
      /\ Len(rest) = Len(jobs) - 1
      /\ \A k \in 1..(Len(jobs) - 1) : rest[k] = IF k < i THEN jobs[k] ELSE jobs[k + 1]
  BY Removed
<1> HIDE DEF rest
<1>2. jobs' = Append(rest, e)
  BY DEF rest
<1>3. /\ Append(rest, e) \in Seq(JobSet) /\ DOMAIN Append(rest, e) = 1..(Len(rest) + 1)
      /\ \A k \in 1..Len(rest) : Append(rest, e)[k] = rest[k]
      /\ Append(rest, e)[Len(rest) + 1] = e
  <2>1. rest \in Seq(JobSet)
    BY <1>1
  <2> QED
    BY <2>1, Appended
<1>4. /\ jobs' \in Seq(JobSet) /\ DOMAIN jobs' = 1..(Len(rest) + 1)
      /\ \A k \in 1..Len(rest) : jobs'[k] = rest[k]
      /\ jobs'[Len(rest) + 1] = e
  BY <1>2, <1>3, Zenon
<1>5. Len(rest) + 1 = Len(jobs) /\ Len(rest) = Len(jobs) - 1
  BY <1>1
<1>6. /\ jobs' \in Seq(JobSet) /\ DOMAIN jobs' = 1..Len(jobs)
      /\ \A k \in 1..(Len(jobs) - 1) :
            jobs'[k] = IF k < i THEN jobs[k] ELSE jobs[k + 1]
      /\ jobs'[Len(jobs)] = e
  BY <1>1, <1>4, <1>5
<1>7. i \in 1..Len(jobs) /\ Len(jobs) \in Nat \ {0}
  BY <1>1
<1>8. ASSUME NEW k \in DOMAIN jobs'
      PROVE  /\ k \in Nat \ {0}
             /\ \/ k = Len(jobs)
                \/ k < i /\ k \in DOMAIN jobs /\ jobs'[k] = jobs[k]
                \/ k >= i /\ k + 1 \in DOMAIN jobs /\ jobs'[k] = jobs[k + 1]
  <2>1. k \in 1..Len(jobs) /\ DOMAIN jobs = 1..Len(jobs)
    BY <1>1, <1>6
  <2>2. CASE k = Len(jobs)
    BY <2>1, <2>2
  <2>3. CASE k # Len(jobs)
    <3>1. k \in 1..(Len(jobs) - 1) /\ k + 1 \in DOMAIN jobs /\ k \in DOMAIN jobs
      BY <2>1, <2>3, <1>7
    <3>2. jobs'[k] = IF k < i THEN jobs[k] ELSE jobs[k + 1]
      BY <3>1, <1>6
    <3> QED
      BY <3>1, <3>2, <1>7
  <2> QED
    BY <2>2, <2>3
<1>9. Kept(i, Len(jobs))
  BY <1>8, Zenon DEF Kept
<1>10. Len(jobs) \in DOMAIN jobs'
  BY <1>6, <1>7
<1> QED
  BY <1>6, <1>7, <1>9, <1>10
-----------------------------------------------------------------------------
(* The steps.                                                              *)

LEMMA InitInv == Init => IInv
<1> SUFFICES ASSUME Init PROVE IInv
  OBVIOUS
<1> USE DEF Init
<1>1. DOMAIN jobs = {} /\ DOMAIN waiters = {}
  OBVIOUS
<1>2. TypeOK
  <2>1. jobs \in Seq(JobSet) /\ waiters \in Seq(Task) /\ asked \in Seq(CallNo) /\ buffer \in Seq(CallNo)
    BY EmptySeq
  <2>2. 0 \in CallNo /\ MaxMisses # 0 /\ 0 \in 0..MaxMisses /\ 0 \in 0..MaxAttempts
    BY CallsBound, MissesBound, AttemptsBound DEF CallNo
  <2>3. degraded = (misses = MaxMisses)
    BY <2>2, Zenon
  <2>4. degraded \in BOOLEAN /\ serial \in BOOLEAN /\ connected \in BOOLEAN /\ abandoned \in BOOLEAN
    BY Zenon
  <2> QED
    BY <2>1, <2>2, <2>3, <2>4 DEF TypeOK, Kind, Starting, JobSet
<1>3. Queue
  BY <1>1, CallsBound DEF Queue
<1>4. Holder
  BY <1>1, NoneNotTask DEF Holder, Inside
<1>5. Jobs
  BY <1>1 DEF Jobs
<1>6. Port
  <2>1. \A op : NoJob(op) /\ OnlyOne(op)
    BY <1>1 DEF NoJob, OnlyOne
  <2>2. (serial <=> link \in {"arming", "up", "closing"}) /\ (connected <=> serial)
    <3>1. link \notin {"arming", "up", "closing"}
      OBVIOUS
    <3> QED
      BY <3>1, Zenon
  <2>3. ~Held
    BY DEF Held
  <2> QED
    BY <1>1, <2>1, <2>2, <2>3 DEF Port, Starting
<1>7. Line
  BY <1>1 DEF Line, Expecting
<1>8. StopIsLast
  BY DEF StopIsLast
<1> QED
  BY <1>2, <1>3, <1>4, <1>5, <1>6, <1>7, <1>8 DEF IInv

(* connect() and disconnect() leave the callers and the line alone.         *)
(* Then every job was there before or is the one job that they add.        *)
LEMMA OneClose == IInv => OnlyOne("close")
BY DEF IInv, Port

LEMMA LinkJobs ==
    ASSUME NEW o \in {"open", "arm", "close"}
    PROVE  /\ LinkJob(o) \in PortJob /\ LinkJob(o) \in JobSet
           /\ LinkJob(o).op = o /\ ~LinkJob(o).started
BY DEF LinkJob, PortJob, JobSet

LEMMA LinkKeeps ==
    ASSUME IInv, UNCHANGED callerVars, NEW i \in Nat \ {0}, NEW p \in Nat, Kept(i, p),
           NEW o \in {"open", "arm", "close"}, p \in DOMAIN jobs' => jobs'[p] = LinkJob(o)
    PROVE  /\ Queue' /\ Holder' /\ Jobs' /\ Line' /\ StopIsLast'
           /\ \A k \in DOMAIN jobs' :
                 (k = p /\ jobs'[k] = LinkJob(o)) \/ \E m \in DOMAIN jobs : jobs'[k] = jobs[m]
           /\ p = 0 \/ o # "close" \/ NoJob("close") => OnlyOne("close")'
<1> USE DEF callerVars, callVars, lockVars, lineVars
<1>0. p \in DOMAIN jobs' => /\ jobs'[p] \in PortJob /\ ~jobs'[p].started
                            /\ jobs'[p].op = o
  BY LinkJobs
<1>1. ASSUME NEW k \in DOMAIN jobs' PROVE jobs'[k].started => k = 1
  BY <1>0, <1>1 DEF IInv, Jobs, Kept
<1>2. ASSUME NEW k \in DOMAIN jobs', jobs'[k].op \in {"write", "read"} \/ jobs'[k].kind = "query"
                                     \/ Mine(jobs'[k])
      PROVE  k # p /\ \/ k < i /\ k \in DOMAIN jobs /\ jobs'[k] = jobs[k]
                      \/ k >= i /\ k + 1 \in DOMAIN jobs /\ jobs'[k] = jobs[k + 1]
  BY <1>0, <1>2 DEF Kept, PortJob, Mine
<1>3. Jobs'
  <2>1. ASSUME NEW k \in DOMAIN jobs', OnLine(jobs[k])' PROVE Job(jobs[k])'
    BY <1>2, <2>1 DEF IInv, Jobs, Job, OnLine, Mine
  <2>2. ASSUME NEW k \in DOMAIN jobs', NEW m \in DOMAIN jobs', Mine(jobs[k])', Mine(jobs[m])'
        PROVE  k = m
    <3>1. Mine(jobs'[k]) /\ Mine(jobs'[m])
      BY <2>2 DEF Mine
    <3>2. k \in Nat /\ m \in Nat
      BY DEF Kept
    <3> QED
      BY <1>2, <3>1, <3>2 DEF IInv, Jobs
  <2> QED
    BY <1>1, <2>1, <2>2 DEF Jobs
<1>4. Line'
  BY <1>2 DEF IInv, Line, Expecting, Mine
<1>5. Queue' /\ Holder' /\ StopIsLast'
  BY DEF IInv, Queue, Holder, StopIsLast
<1>6. ASSUME NEW k \in DOMAIN jobs'
      PROVE  (k = p /\ jobs'[k] = LinkJob(o)) \/ \E m \in DOMAIN jobs : jobs'[k] = jobs[m]
  BY DEF Kept
<1>7. ASSUME p = 0 \/ o # "close" \/ NoJob("close"), NEW k \in DOMAIN jobs', NEW m \in DOMAIN jobs',
             jobs'[k].op = "close", jobs'[m].op = "close"
      PROVE  k = m
  <2>1. k \in Nat \ {0} /\ m \in Nat \ {0}
    BY DEF Kept
  <2>2. CASE NoJob("close")
    BY <1>7, <2>2 DEF Kept, NoJob
  <2>3. CASE p = 0 \/ o # "close"
    <3>1. k # p /\ m # p
      BY <1>0, <1>7, <2>1, <2>3
    <3> QED
      BY <1>7, <2>1, <3>1, OneClose DEF Kept, OnlyOne
  <2> QED
    BY <1>7, <2>2, <2>3
<1> QED
  BY <1>3, <1>4, <1>5, <1>6, <1>7 DEF OnlyOne

LEMMA LinkAppends ==
    ASSUME IInv, UNCHANGED callerVars,
           NEW o \in {"open", "arm", "close"}, jobs' = Append(jobs, LinkJob(o))
    PROVE  /\ Queue' /\ Holder' /\ Jobs' /\ Line' /\ StopIsLast'
           /\ jobs' \in Seq(JobSet)
           /\ \A k \in DOMAIN jobs' :
                 jobs'[k].op = o \/ \E m \in DOMAIN jobs : jobs'[k] = jobs[m]
           /\ o # "close" \/ NoJob("close") => OnlyOne("close")'
           /\ \E k \in DOMAIN jobs' : jobs'[k].op = o
<1>1. jobs \in Seq(JobSet)
  BY DEF IInv, TypeOK, JobSet
<1>2. PICK p \in Nat \ {0} :
         /\ jobs' \in Seq(JobSet) /\ Kept(p, p)
         /\ p \in DOMAIN jobs' /\ p \notin DOMAIN jobs /\ jobs'[p] = LinkJob(o)
         /\ \A k \in DOMAIN jobs : k \in DOMAIN jobs' /\ jobs'[k] = jobs[k]
         /\ jobs # <<>> => p # 1
  BY <1>1, LinkJobs, AppendedKept
<1> QED
  BY <1>2, LinkJobs, LinkKeeps

LEMMA LinkRemoves ==
    ASSUME IInv, UNCHANGED callerVars, NEW i \in DOMAIN jobs, jobs' = RemoveAt(jobs, i)
    PROVE  /\ Queue' /\ Holder' /\ Jobs' /\ Line' /\ StopIsLast'
           /\ jobs' \in Seq(JobSet)
           /\ \A k \in DOMAIN jobs' : \E m \in DOMAIN jobs : jobs'[k] = jobs[m]
           /\ OnlyOne("close")'
           /\ jobs[i].op = "close" => NoJob("close")'
           /\ \A k \in DOMAIN jobs \ {i} : \E m \in DOMAIN jobs' : jobs'[m] = jobs[k]
<1>1. jobs \in Seq(JobSet)
  BY DEF IInv, TypeOK, JobSet
<1>2. /\ jobs' \in Seq(JobSet) /\ Kept(i, 0) /\ i \in Nat \ {0}
      /\ \A k \in DOMAIN jobs \ {i} : \E m \in DOMAIN jobs' : jobs'[m] = jobs[k]
  BY <1>1, RemovedKept
<1>3. 0 \notin DOMAIN jobs'
  BY <1>2 DEF Kept
<1>4. ASSUME jobs[i].op = "close", NEW k \in DOMAIN jobs' PROVE jobs'[k].op # "close"
  <2>1. i \in Nat \ {0}
    BY <1>2
  <2>2. \/ k < i /\ k \in DOMAIN jobs /\ jobs'[k] = jobs[k]
        \/ k >= i /\ k + 1 \in DOMAIN jobs /\ jobs'[k] = jobs[k + 1]
    BY <1>2, <1>3 DEF Kept
  <2>3. k \in Nat
    BY <1>2 DEF Kept
  <2> QED
    BY <1>4, <2>1, <2>2, <2>3, OneClose DEF OnlyOne
<1>5. /\ Queue' /\ Holder' /\ Jobs' /\ Line' /\ StopIsLast' /\ OnlyOne("close")'
      /\ \A k \in DOMAIN jobs' : k = 0 \/ \E m \in DOMAIN jobs : jobs'[k] = jobs[m]
  BY <1>2, <1>3, LinkKeeps
<1> QED
  BY <1>2, <1>3, <1>4, <1>5 DEF NoJob

LEMMA LinkReplaces ==
    ASSUME IInv, UNCHANGED callerVars, NEW i \in DOMAIN jobs,
           NEW o \in {"open", "arm", "close"}, jobs' = Append(RemoveAt(jobs, i), LinkJob(o))
    PROVE  /\ Queue' /\ Holder' /\ Jobs' /\ Line' /\ StopIsLast'
           /\ jobs' \in Seq(JobSet)
           /\ \A k \in DOMAIN jobs' :
                 jobs'[k].op = o \/ \E m \in DOMAIN jobs : jobs'[k] = jobs[m]
           /\ o # "close" \/ NoJob("close") => OnlyOne("close")'
           /\ \E k \in DOMAIN jobs' : jobs'[k].op = o
<1>1. jobs \in Seq(JobSet)
  BY DEF IInv, TypeOK, JobSet
<1>2. /\ i \in Nat \ {0}
      /\ \E p \in Nat \ {0} :
            jobs' \in Seq(JobSet) /\ Kept(i, p) /\ p \in DOMAIN jobs' /\ jobs'[p] = LinkJob(o)
  BY <1>1, LinkJobs, ReplacedKept
<1>3. PICK p \in Nat \ {0} :
         jobs' \in Seq(JobSet) /\ Kept(i, p) /\ p \in DOMAIN jobs' /\ jobs'[p] = LinkJob(o)
  BY <1>2
<1> QED
  BY <1>2, <1>3, LinkJobs, LinkKeeps

\* A job of connect() that ends and changes nothing else but how far it is.
Moves ==
    \/ link' = link
    \/ link = "arming" /\ link' = "up"
    \/ link = "opening" /\ link' = "down"
    \/ link \in {"down", "opening", "rollback", "giving up"} /\ link' = "closed"

LEMMA PortMoves ==
    ASSUME Port, Moves, Held' <=> Held, serial' = serial, connected' = connected,
           pc' = pc, NoJob("close")' <=> NoJob("close"), OnlyOne("close")',
           NoJob("write") => NoJob("write")', NoJob("read") => NoJob("read")'
    PROVE  Port'
<1>1. link' \in Starting => link \in Starting
  BY DEF Moves, Starting
<1>2. link' \in {"arming", "up", "closing"} <=> link \in {"arming", "up", "closing"}
  BY DEF Moves
<1>3. /\ link' \in {"down", "opening"} => link \in {"down", "opening"}
      /\ link' \in {"arming", "up"} => link \in {"arming", "up"}
  BY DEF Moves
<1>4. link \in {"rollback", "giving up", "closing", "closed"} =>
        link' \in {"rollback", "giving up", "closing", "closed"}
  BY DEF Moves
<1>5. link' \in {"rollback", "giving up", "closing"} => link \in {"rollback", "giving up", "closing"}
  BY DEF Moves
<1>6. link' = "closed" => link \in {"down", "opening", "rollback", "giving up", "closed"}
  BY DEF Moves
<1>7. Held /\ link' = "closed" => ~NoJob("close")
  BY <1>6 DEF Port
<1> QED
  BY <1>1, <1>2, <1>3, <1>4, <1>5, <1>7 DEF Port

LEMMA RemovesOnly ==
    ASSUME IInv, UNCHANGED <<callerVars, attempts, portVars, modeVars>>,
           NEW i \in DOMAIN jobs, jobs[i].op # "close", jobs' = RemoveAt(jobs, i), Moves
    PROVE  IInv'
<1>1. /\ Queue' /\ Holder' /\ Jobs' /\ Line' /\ StopIsLast' /\ OnlyOne("close")'
      /\ jobs' \in Seq(JobSet)
      /\ \A k \in DOMAIN jobs' : \E m \in DOMAIN jobs : jobs'[k] = jobs[m]
      /\ \A k \in DOMAIN jobs \ {i} : \E m \in DOMAIN jobs' : jobs'[m] = jobs[k]
  BY LinkRemoves
<1>2. NoJob("close")' <=> NoJob("close")
  BY <1>1 DEF NoJob
<1>3. (NoJob("write") => NoJob("write")') /\ (NoJob("read") => NoJob("read")')
  BY <1>1 DEF NoJob
<1>4. Port'
  BY <1>1, <1>2, <1>3, PortMoves DEF IInv, callerVars, callVars, portVars, Held
<1>5. TypeOK'
  BY <1>1 DEF IInv, TypeOK, JobSet, Moves, Starting, callerVars, callVars, lockVars, lineVars, portVars,
              modeVars
<1> QED
  BY <1>1, <1>4, <1>5 DEF IInv

LEMMA ConnectKeeps == ASSUME IInv, Connect PROVE IInv'
<1> USE DEF Connect
<1>1. /\ Queue' /\ Holder' /\ Jobs' /\ Line' /\ StopIsLast' /\ OnlyOne("close")'
      /\ jobs' \in Seq(JobSet)
      /\ \A k \in DOMAIN jobs' :
            jobs'[k].op = "open" \/ \E m \in DOMAIN jobs : jobs'[k] = jobs[m]
  BY LinkAppends
<1>2. NoJob("write")' /\ NoJob("read")' /\ NoJob("close")'
  BY <1>1 DEF IInv, Port, Starting, NoJob
<1>3. Port'
  BY <1>1, <1>2 DEF IInv, Port, Starting, Held, callerVars, callVars, portVars
<1>4. TypeOK'
  BY <1>1, AttemptsBound DEF IInv, TypeOK, JobSet, Starting, callerVars, callVars, lockVars, lineVars,
                             portVars, modeVars
<1> QED
  BY <1>1, <1>3, <1>4 DEF IInv

LEMMA DisconnectKeeps == ASSUME IInv, Disconnect PROVE IInv'
<1> USE DEF Disconnect
<1>1. NoJob("close")
  BY DEF IInv, Port
<1>2. /\ Queue' /\ Holder' /\ Jobs' /\ Line' /\ StopIsLast' /\ OnlyOne("close")'
      /\ jobs' \in Seq(JobSet)
      /\ \E k \in DOMAIN jobs' : jobs'[k].op = "close"
  BY <1>1, LinkAppends
<1>3. Port'
  BY <1>2 DEF IInv, Port, Starting, NoJob, Held, portVars
<1>4. TypeOK'
  BY <1>2 DEF IInv, TypeOK, JobSet, Starting, callerVars, callVars, lockVars, lineVars, portVars, modeVars
<1> QED
  BY <1>2, <1>3, <1>4 DEF IInv

LEMMA GiveUpKeeps == ASSUME IInv, GiveUp PROVE IInv'
<1> USE DEF GiveUp, callerVars, callVars, lockVars, lineVars, portVars, modeVars
<1>1. Queue' /\ Holder' /\ StopIsLast'
  BY DEF IInv, Queue, Holder, StopIsLast
<1>2. Jobs'
  BY DEF IInv, Jobs, Job, Mine, OnLine
<1>3. Line'
  BY DEF IInv, Line, Expecting, Mine
<1>4. Port'
  BY DEF IInv, Port, Starting, NoJob, OnlyOne, Held
<1>5. TypeOK'
  BY DEF IInv, TypeOK, Starting
<1> QED
  BY <1>1, <1>2, <1>3, <1>4, <1>5 DEF IInv

\* The one close takes the handle with it.
LEMMA FinishCloseKeeps == ASSUME IInv, NEW i \in DOMAIN jobs, FinishClose(i) PROVE IInv'
<1> USE DEF FinishClose
<1>1. /\ Queue' /\ Holder' /\ Jobs' /\ Line' /\ StopIsLast' /\ OnlyOne("close")' /\ NoJob("close")'
      /\ jobs' \in Seq(JobSet)
      /\ \A k \in DOMAIN jobs' : \E m \in DOMAIN jobs : jobs'[k] = jobs[m]
  BY LinkRemoves
<1>2. link \in {"rollback", "giving up", "closing", "closed"}
  BY DEF IInv, Port, NoJob
<1>2a. handles' = 0 /\ ~Held'
  <2>1. handles' = handles - 1
    OBVIOUS
  <2>2. ~NoJob("close")
    BY DEF NoJob
  <2> HIDE DEF FinishClose
  <2>3. handles = 1
    BY <2>2 DEF IInv, Port, Held
  <2>4. handles' = 0
    BY <2>1, <2>3
  <2> QED
    BY <2>4 DEF Held
<1>3. link' \in Starting => link \in Starting
  BY DEF Starting
<1>4. link \in Starting => NoJob("write")' /\ NoJob("read")'
  BY <1>1 DEF IInv, Port, NoJob
<1>5. Port'
  <2> USE DEF Port, callerVars, callVars
  <2>1. ~(link' \in {"rollback", "giving up", "closing"})
    BY <1>2
  <2>3. ((serial <=> link \in {"arming", "up", "closing"}) /\ (connected <=> serial))'
    OBVIOUS
  <2>4. ~(link' \in {"arming", "up"})
    OBVIOUS
  <2> HIDE DEF FinishClose
  <2>5. (link' \in Starting => (\A t \in Task : pc[t] = "idle")')
    BY <1>3 DEF IInv, FinishClose
  <2> QED
    BY <1>1, <1>3, <1>4, <1>2a, <2>1, <2>3, <2>4, <2>5
<1>6. TypeOK'
  <2> HIDE DEF FinishClose
  <2>1. handles' \in 0..1
    BY <1>2a
  <2> QED
    BY <1>1, <2>1 DEF FinishClose, IInv, TypeOK, JobSet, Starting, callerVars, callVars, lockVars, lineVars, modeVars
<1> QED
  BY <1>1, <1>5, <1>6 DEF IInv

LEMMA FinishOpenKeeps == ASSUME IInv, NEW i \in DOMAIN jobs, FinishOpen(i) PROVE IInv'
<1>1. UNCHANGED callerVars /\ attempts' = attempts
  BY DEF FinishOpen
<1>2. CASE link = "opening"
  <2> USE <1>2 DEF FinishOpen
  <2>1. /\ Queue' /\ Holder' /\ Jobs' /\ Line' /\ StopIsLast' /\ OnlyOne("close")'
        /\ jobs' \in Seq(JobSet)
        /\ \A k \in DOMAIN jobs' :
              jobs'[k].op = "arm" \/ \E m \in DOMAIN jobs : jobs'[k] = jobs[m]
    BY <1>1, LinkReplaces
  <2>2. NoJob("write")' /\ NoJob("read")' /\ NoJob("close")'
    BY <2>1 DEF IInv, Port, Starting, NoJob
  <2>3. handles = 0 /\ Held'
    <3>1. handles = 0
      BY DEF IInv, Port, TypeOK, Held
    <3> QED
      BY <3>1 DEF Held
  <2>4. Port'
    BY <1>1, <2>1, <2>2, <2>3 DEF IInv, Port, Starting, callerVars, callVars
  <2>5. TypeOK'
    <3>1. misses' # MaxMisses /\ misses' \in 0..MaxMisses
      BY MissesBound
    <3>2. degraded' = (misses' = MaxMisses)
      BY <3>1, Zenon
    <3> QED
      BY <1>1, <2>1, <2>3, <3>1, <3>2 DEF IInv, TypeOK, JobSet, Starting, callerVars, callVars, lockVars, lineVars
  <2> QED
    BY <2>1, <2>4, <2>5 DEF IInv
<1>3. CASE link # "opening"
  BY <1>1, <1>3, RemovesOnly DEF FinishOpen, Moves
<1> QED
  BY <1>2, <1>3

LEMMA FinishArmKeeps == ASSUME IInv, NEW i \in DOMAIN jobs, FinishArm(i) PROVE IInv'
<1>1. Moves
  BY DEF FinishArm, Moves
<1>2. UNCHANGED <<callerVars, attempts, portVars, modeVars>> /\ jobs' = RemoveAt(jobs, i)
      /\ jobs[i].op # "close"
  BY DEF FinishArm
<1> QED
  BY <1>1, <1>2, RemovesOnly

\* The roll-back leaves the driver reset and the close of its handle queued.
LEMMA Rolls ==
    ASSUME IInv, UNCHANGED <<attempts, handles, modeVars, callerVars>>,
           link = "arming", link' \in {"rollback", "giving up"}, serial' = FALSE, connected' = FALSE,
           \/ jobs' = Append(jobs, LinkJob("close"))
           \/ \E i \in DOMAIN jobs : jobs' = Append(RemoveAt(jobs, i), LinkJob("close"))
    PROVE  IInv'
<1>1. NoJob("close") /\ NoJob("write") /\ NoJob("read") /\ Held
      /\ \A t \in Task : pc[t] = "idle"
  BY DEF IInv, Port, Starting
<1>2. /\ Queue' /\ Holder' /\ Jobs' /\ Line' /\ StopIsLast' /\ OnlyOne("close")'
      /\ jobs' \in Seq(JobSet)
      /\ \A k \in DOMAIN jobs' :
            jobs'[k].op = "close" \/ \E m \in DOMAIN jobs : jobs'[k] = jobs[m]
      /\ \E k \in DOMAIN jobs' : jobs'[k].op = "close"
  <2>1. UNCHANGED callerVars
    OBVIOUS
  <2>2. CASE jobs' = Append(jobs, LinkJob("close"))
    BY <1>1, <2>1, <2>2, LinkAppends
  <2>3. CASE \E i \in DOMAIN jobs : jobs' = Append(RemoveAt(jobs, i), LinkJob("close"))
    BY <1>1, <2>1, <2>3, LinkReplaces
  <2> QED
    BY <2>2, <2>3
<1>3. ~NoJob("close")' /\ NoJob("write")' /\ NoJob("read")'
  BY <1>1, <1>2 DEF NoJob
<1>4. Held'
  BY <1>1 DEF Held
<1>5. link' \notin {"arming", "up", "closing", "down", "opening", "closed"}
  OBVIOUS
<1>6. (\A t \in Task : pc[t] = "idle")'
  BY <1>1 DEF callerVars, callVars
<1>7. Port'
  BY <1>2, <1>3, <1>4, <1>5, <1>6 DEF Port
<1>8. TypeOK'
  BY <1>2 DEF IInv, TypeOK, JobSet, Starting, callerVars, callVars, lockVars, lineVars, modeVars
<1> QED
  BY <1>2, <1>7, <1>8 DEF IInv

LEMMA LinkFailsKeeps == ASSUME IInv, NEW i \in DOMAIN jobs, LinkFails(i) PROVE IInv'
<1>1. UNCHANGED <<attempts, modeVars, callerVars>>
  BY DEF LinkFails
<1>2. CASE jobs[i].op = "arm" /\ link = "arming"
  BY <1>1, <1>2, Rolls DEF LinkFails, RollBack, Released
<1>3. CASE ~(jobs[i].op = "arm" /\ link = "arming")
  <2>1. Moves
    BY <1>3 DEF LinkFails, Moves
  <2>2. UNCHANGED portVars /\ jobs' = RemoveAt(jobs, i) /\ jobs[i].op # "close"
    BY <1>3 DEF LinkFails
  <2> QED
    BY <1>1, <2>1, <2>2, RemovesOnly
<1> QED
  BY <1>2, <1>3

LEMMA UndroppedIs ==
    \/ Undropped = jobs
    \/ \E i \in DOMAIN jobs : jobs[i].op # "close" /\ Undropped = RemoveAt(jobs, i)
<1> DEFINE dropped == {i \in DOMAIN jobs : ~jobs[i].started /\ jobs[i].op # "close"}
           i == CHOOSE i \in dropped : TRUE
<1>1. CASE dropped = {}
  BY <1>1 DEF Undropped
<1>2. CASE dropped # {}
  <2>1. i \in dropped
    BY <1>2
  <2>2. Undropped = RemoveAt(jobs, i)
    BY <1>2 DEF Undropped
  <2> QED
    BY <2>1, <2>2
<1> QED
  BY <1>1, <1>2

LEMMA CancelConnectKeeps == ASSUME IInv, CancelConnect PROVE IInv'
<1>1. UNCHANGED <<attempts, modeVars, callerVars>>
  BY DEF CancelConnect
<1>2. CASE link = "arming"
  <2>1. /\ link' = "giving up" /\ jobs' = Append(Undropped, LinkJob("close"))
        /\ serial' = FALSE /\ connected' = FALSE /\ handles' = handles
    BY <1>2 DEF CancelConnect, RollBack, Released
  <2>2. \/ jobs' = Append(jobs, LinkJob("close"))
        \/ \E i \in DOMAIN jobs : jobs' = Append(RemoveAt(jobs, i), LinkJob("close"))
    BY <2>1, UndroppedIs
  <2> QED
    BY <1>1, <1>2, <2>1, <2>2, Rolls
<1>3. CASE link # "arming"
  <2>1. jobs' = Undropped /\ UNCHANGED portVars
    BY <1>3 DEF CancelConnect
  <2>2. Moves
    BY <1>3 DEF CancelConnect, Moves, Starting
  <2>3. CASE jobs' = jobs
    <3> USE DEF callerVars, callVars, lockVars, lineVars, portVars, modeVars
    <3>1. Queue' /\ Holder' /\ StopIsLast'
      BY <1>1 DEF IInv, Queue, Holder, StopIsLast
    <3>2. Jobs'
      BY <1>1, <2>3 DEF IInv, Jobs, Job, Mine, OnLine
    <3>3. Line'
      BY <1>1, <2>3 DEF IInv, Line, Expecting, Mine
    <3>4. \A o : (NoJob(o)' <=> NoJob(o)) /\ (OnlyOne(o)' <=> OnlyOne(o))
      BY <2>3 DEF NoJob, OnlyOne
    <3>5. Port'
      BY <1>1, <2>1, <2>2, <3>4, PortMoves DEF IInv, Port, Held
    <3>6. TypeOK'
      BY <1>1, <2>1, <2>2, <2>3 DEF IInv, TypeOK, Moves, Starting
    <3> QED
      BY <3>1, <3>2, <3>3, <3>5, <3>6 DEF IInv
  <2>4. CASE \E i \in DOMAIN jobs : jobs[i].op # "close" /\ jobs' = RemoveAt(jobs, i)
    BY <1>1, <2>1, <2>2, <2>4, RemovesOnly
  <2> QED
    BY <2>1, <2>3, <2>4, UndroppedIs
<1> QED
  BY <1>2, <1>3
-----------------------------------------------------------------------------
(* The callers.                                                            *)

LEMMA PortStays ==
    ASSUME Port, UNCHANGED linkVars, link \notin Starting,
           OnlyOne("close")', NoJob("close")' <=> NoJob("close")
    PROVE  Port'
BY DEF Port, linkVars, portVars, Held

LEMMA JobsStay ==
    ASSUME jobs' = jobs
    PROVE  \A o : (NoJob(o)' <=> NoJob(o)) /\ (OnlyOne(o)' <=> OnlyOne(o))
BY DEF NoJob, OnlyOne

LEMMA Connected ==
    ASSUME IInv
    PROVE  /\ \A t \in Task : pc[t] # "idle" => link \notin Starting
           /\ \A i \in DOMAIN jobs : OnLine(jobs[i]) => link \notin Starting
BY DEF IInv, Port, OnLine, NoJob

LEMMA JobTypes ==
    ASSUME TypeOK, NEW i \in DOMAIN jobs
    PROVE  /\ jobs \in Seq(JobSet) /\ jobs[i] \in JobSet /\ jobs[i].no \in Nat
           /\ jobs[i].started \in BOOLEAN
           /\ OnLine(jobs[i]) => jobs[i] \in LineJob
           /\ jobs[i].owner \in Task => jobs[i] \in LineJob /\ OnLine(jobs[i])
<1>1. jobs \in Seq(JobSet) /\ jobs[i] \in JobSet
  BY DEF TypeOK, JobSet
<1>2. CASE jobs[i] \in LineJob
  BY <1>1, <1>2, CallsBound DEF LineJob, CallNo, OnLine
<1>3. CASE jobs[i] \in PortJob
  BY <1>1, <1>3, NoneNotTask DEF PortJob, OnLine
<1> QED
  BY <1>1, <1>2, <1>3 DEF JobSet

LEMMA AnswerKeeps == ASSUME IInv, Answer PROVE IInv'
<1> USE DEF Answer, linkVars, callVars, lockVars, portVars, modeVars
<1>1. Queue' /\ Holder' /\ StopIsLast'
  BY DEF IInv, Queue, Holder, StopIsLast
<1>2. Jobs'
  BY DEF IInv, Jobs, Job, Mine, OnLine
<1>3. Port'
  BY JobsStay DEF IInv, Port, Held
<1>4. asked \in Seq(CallNo) /\ asked # <<>> /\ buffer \in Seq(CallNo)
  BY DEF IInv, TypeOK
<1>5. TypeOK'
  <2>1. asked' \in Seq(CallNo) /\ buffer' \in Seq(CallNo)
    BY <1>4
  <2> QED
    BY <2>1 DEF IInv, TypeOK
<1>6. Line'
  <2>1. ASSUME ~abandoned
        PROVE  asked' = <<>> /\ buffer' = <<no[lock]>> /\ Expecting
    <3>1. Expecting /\ asked = <<no[lock]>> /\ buffer = <<>>
      BY <1>4, <2>1 DEF IInv, Line
    <3> QED
      BY <3>1
  <2>2. Expecting' <=> Expecting
    BY DEF Expecting
  <2>3. \A j : Mine(j)' <=> Mine(j)
    BY DEF Mine
  <2> QED
    BY <2>1, <2>2, <2>3 DEF IInv, Line
<1> QED
  BY <1>1, <1>2, <1>3, <1>5, <1>6 DEF IInv

LEMMA CallKeeps == ASSUME IInv, NEW t \in Task, NEW k \in Kind, Call(t, k) PROVE IInv'
<1> USE DEF Call
<1>1. /\ waiters \in Seq(Task) /\ calls \in Nat /\ calls' \in CallNo
      /\ no \in [Task -> CallNo] /\ CallNo \subseteq Nat
      /\ pc \in [Task -> {"idle", "waiting", "writing", "written", "reading", "answered"}]
      /\ kind \in [Task -> Kind] /\ lock \in Task \cup {None} /\ result \in [Task -> CallNo \cup {None}]
      /\ stopped \in Nat
  BY CallsBound DEF IInv, TypeOK, CallNo
<1>2. /\ waiters' \in Seq(Task)
      /\ DOMAIN waiters = 1..Len(waiters) /\ Len(waiters) \in Nat
      /\ DOMAIN waiters' = 1..(Len(waiters) + 1)
      /\ \A m \in 1..Len(waiters) : waiters'[m] = waiters[m]
      /\ waiters'[Len(waiters) + 1] = t
  BY <1>1, Appended
<1>3. t # lock /\ \A m \in DOMAIN waiters : waiters[m] # t
  BY DEF IInv, Holder, Inside, Queue
<1>4. /\ no'[t] = calls + 1 /\ pc'[t] = "waiting" /\ kind'[t] = k
      /\ \A u \in Task \ {t} : no'[u] = no[u] /\ pc'[u] = pc[u] /\ kind'[u] = kind[u] /\ result'[u] = result[u]
  BY <1>1
<1>5. \A m \in DOMAIN waiters : waiters[m] \in Task \ {t} /\ no'[waiters[m]] = no[waiters[m]]
                               /\ pc'[waiters[m]] = pc[waiters[m]]
  BY <1>1, <1>3, <1>4
<1>6. /\ lock' = lock
      /\ lock # None => lock \in Task \ {t}
  BY <1>1, <1>3
<1>7. Queue'
  <2>0. \A u \in Task : no[u] <= calls /\ no[u] \in Nat
    BY <1>1 DEF IInv, Queue
  <2>1. (\A u \in Task : no[u] <= calls)'
    BY <1>1, <1>4, <2>0
  <2>2. (stopped <= calls)' /\ stopped < calls + 1
    BY <1>1 DEF IInv, Queue
  <2>3. ASSUME NEW m \in DOMAIN waiters'
        PROVE  pc'[waiters'[m]] = "waiting" /\ stopped' < no'[waiters'[m]]
    <3>1. CASE m \in DOMAIN waiters
      BY <1>2, <1>5, <3>1 DEF IInv, Queue
    <3>2. CASE m = Len(waiters) + 1
      BY <1>2, <1>4, <2>2, <3>2
    <3> QED
      BY <1>2, <3>1, <3>2
  <2>4. ASSUME NEW m \in DOMAIN waiters', NEW n \in DOMAIN waiters', m < n
        PROVE  no'[waiters'[m]] < no'[waiters'[n]]
    <3>1. m \in DOMAIN waiters /\ waiters'[m] = waiters[m]
      BY <1>2, <2>4
    <3>2. CASE n \in DOMAIN waiters
      BY <1>2, <1>5, <2>4, <3>1, <3>2 DEF IInv, Queue
    <3>3. CASE n = Len(waiters) + 1
      BY <1>1, <1>2, <1>4, <1>5, <2>0, <3>1, <3>3
    <3> QED
      BY <1>2, <3>2, <3>3
  <2> QED
    BY <2>1, <2>2, <2>3, <2>4 DEF Queue
<1>8. \A j : Mine(j)' <=> Mine(j)
  BY <1>4, <1>6 DEF Mine
<1>9. Holder'
  <2>1. ASSUME NEW u \in Task PROVE pc'[u] \in Inside <=> u = lock'
    BY <1>3, <1>4, <1>6 DEF IInv, Holder, Inside
  <2>2. ASSUME lock' # None
        PROVE  /\ stopped' < no'[lock']
               /\ (pc[lock] = "written" /\ kind[lock] = "stop" => wheels = "still")'
               /\ (pc[lock] \in {"reading", "answered"} => kind[lock] = "query")'
    BY <1>4, <1>6, <2>2 DEF IInv, Holder, lineVars
  <2>3. ASSUME lock' # None, NEW m \in DOMAIN waiters' PROVE no'[lock'] < no'[waiters'[m]]
    <3>1. CASE m \in DOMAIN waiters
      BY <1>2, <1>4, <1>5, <1>6, <2>3, <3>1 DEF IInv, Holder
    <3>2. CASE m = Len(waiters) + 1
      <4>1. no[lock] <= calls /\ no[lock] \in Nat
        BY <1>1, <1>6, <2>3 DEF IInv, Queue
      <4> QED
        BY <1>1, <1>2, <1>4, <1>6, <2>3, <3>2, <4>1
    <3> QED
      BY <1>2, <3>1, <3>2
  <2> QED
    BY <2>1, <2>2, <2>3 DEF Holder
<1>10. Jobs'
  <2>1. ASSUME NEW m \in DOMAIN jobs, OnLine(jobs[m]) PROVE Job(jobs[m])'
    <3>1. Job(jobs[m]) /\ jobs[m].no \in Nat
      BY <2>1, JobTypes DEF IInv, Jobs
    <3>2. jobs[m].no <= calls'
      BY <1>1, <3>1 DEF Job
    <3>3. ASSUME NEW n \in DOMAIN waiters' PROVE jobs[m].no < no'[waiters'[n]]
      <4>1. CASE n \in DOMAIN waiters
        BY <1>2, <1>5, <3>1, <4>1 DEF Job
      <4>2. CASE n = Len(waiters) + 1
        BY <1>1, <1>2, <1>4, <3>1, <4>2 DEF Job
      <4> QED
        BY <1>2, <4>1, <4>2
    <3> QED
      BY <1>4, <1>6, <1>8, <3>1, <3>2, <3>3 DEF Job
  <2> QED
    BY <1>8, <2>1 DEF IInv, Jobs, OnLine
<1>11. Line'
  BY <1>4, <1>6, <1>8 DEF IInv, Line, Expecting, lineVars
<1>12. Port'
  BY JobsStay, PortStays DEF IInv, Port
<1>13. TypeOK'
  BY <1>1, <1>2 DEF IInv, TypeOK, CallNo, linkVars, portVars, lineVars, modeVars
<1>14. StopIsLast'
  BY DEF IInv, StopIsLast, lineVars
<1> QED
  BY <1>7, <1>9, <1>10, <1>11, <1>12, <1>13, <1>14 DEF IInv

\* Whoever leaves the queue leaves the others in their order.
Leaves(i) == i \in DOMAIN waiters
             /\ (waiters' = RemoveAt(waiters, i) \/ (i = 1 /\ waiters' = Tail(waiters)))

LEMMA LeavesOrdered ==
    ASSUME IInv, NEW i, Leaves(i)
    PROVE  /\ waiters' \in Seq(Task) /\ waiters[i] \in Task /\ pc[waiters[i]] = "waiting"
           /\ \A m \in DOMAIN waiters' : \E n \in DOMAIN waiters :
                 waiters'[m] = waiters[n] /\ waiters[n] # waiters[i]
           /\ \A m, n \in DOMAIN waiters' : m < n => no[waiters'[m]] < no[waiters'[n]]
           /\ i = 1 => \A m \in DOMAIN waiters' : no[waiters[1]] < no[waiters'[m]]
<1>1. waiters \in Seq(Task) /\ i \in DOMAIN waiters /\ no \in [Task -> Nat]
  BY CallsBound DEF IInv, TypeOK, CallNo, Leaves
<1>2. /\ waiters' \in Seq(Task) /\ i \in Nat \ {0}
      /\ \A m \in DOMAIN waiters' :
            /\ m \in Nat \ {0}
            /\ \/ m < i /\ m \in DOMAIN waiters /\ waiters'[m] = waiters[m]
               \/ m >= i /\ m + 1 \in DOMAIN waiters /\ waiters'[m] = waiters[m + 1]
  <2>1. CASE waiters' = RemoveAt(waiters, i)
    <3>1. /\ waiters' \in Seq(Task) /\ DOMAIN waiters = 1..Len(waiters) /\ Len(waiters) \in Nat
          /\ DOMAIN waiters' = 1..(Len(waiters) - 1)
          /\ \A k \in 1..(Len(waiters) - 1) :
                waiters'[k] = IF k < i THEN waiters[k] ELSE waiters[k + 1]
      BY <1>1, <2>1, Removed
    <3>2. i \in 1..Len(waiters)
      BY <1>1, <3>1
    <3>3. ASSUME NEW m \in DOMAIN waiters'
          PROVE  /\ m \in Nat \ {0}
                 /\ \/ m < i /\ m \in DOMAIN waiters /\ waiters'[m] = waiters[m]
                    \/ m >= i /\ m + 1 \in DOMAIN waiters /\ waiters'[m] = waiters[m + 1]
      <4>1. m \in 1..(Len(waiters) - 1)
        BY <3>1
      <4> HIDE <2>1
      <4> QED
        BY <3>1, <3>2, <4>1
    <3> QED
      BY <3>1, <3>2, <3>3
  <2>2. CASE i = 1 /\ waiters' = Tail(waiters)
    <3>1. waiters # <<>>
      BY <1>1
    <3> QED
      BY <1>1, <2>2, <3>1, Behead
  <2> QED
    BY <2>1, <2>2 DEF Leaves
<1>3. \A m, n \in DOMAIN waiters : m < n => no[waiters[m]] < no[waiters[n]]
  BY DEF IInv, Queue
<1>4. \A m \in DOMAIN waiters : waiters[m] \in Task /\ pc[waiters[m]] = "waiting" /\ m \in Nat
                                /\ no[waiters[m]] \in Nat
  BY <1>1 DEF IInv, Queue
<1>5. ASSUME NEW m \in DOMAIN waiters'
      PROVE  \E n \in DOMAIN waiters : waiters'[m] = waiters[n] /\ waiters[n] # waiters[i]
  <2>1. CASE m < i /\ m \in DOMAIN waiters /\ waiters'[m] = waiters[m]
    BY <1>1, <1>3, <1>4, <2>1
  <2>2. CASE m >= i /\ m + 1 \in DOMAIN waiters /\ waiters'[m] = waiters[m + 1]
    <3>1. i < m + 1
      BY <1>2, <2>2
    <3> QED
      BY <1>1, <1>3, <1>4, <2>2, <3>1
  <2> QED
    BY <1>2, <2>1, <2>2
<1>6. ASSUME NEW m \in DOMAIN waiters', NEW n \in DOMAIN waiters', m < n
      PROVE  no[waiters'[m]] < no[waiters'[n]]
  <2>1. m \in Nat /\ n \in Nat /\ i \in Nat
    BY <1>2
  <2>2. PICK a \in DOMAIN waiters :
           waiters'[m] = waiters[a] /\ ((a = m /\ m < i) \/ (a = m + 1 /\ m >= i))
    BY <1>2
  <2>3. PICK b \in DOMAIN waiters :
           waiters'[n] = waiters[b] /\ ((b = n /\ n < i) \/ (b = n + 1 /\ n >= i))
    BY <1>2
  <2>4. a < b
    BY <1>6, <2>1, <2>2, <2>3
  <2> QED
    BY <1>3, <2>2, <2>3, <2>4
<1>7. ASSUME i = 1, NEW m \in DOMAIN waiters' PROVE no[waiters[1]] < no[waiters'[m]]
  <2>1. m + 1 \in DOMAIN waiters /\ waiters'[m] = waiters[m + 1] /\ 1 < m + 1
    BY <1>2, <1>7
  <2> QED
    BY <1>1, <1>3, <1>7, <2>1
<1> QED
  BY <1>1, <1>2, <1>4, <1>5, <1>6, <1>7

LEMMA LeaveKeeps ==
    ASSUME IInv, NEW i, Leaves(i), pc' = [pc EXCEPT ![waiters[i]] = "idle"],
           UNCHANGED <<linkVars, kind, no, result, calls, lock, jobs, lineVars, stopped, modeVars,
                       abandoned>>
    PROVE  IInv'
<1> DEFINE t == waiters[i]
<1>1. /\ waiters' \in Seq(Task) /\ t \in Task /\ pc[t] = "waiting"
      /\ \A m \in DOMAIN waiters' : \E n \in DOMAIN waiters :
            waiters'[m] = waiters[n] /\ waiters[n] # t
      /\ \A m, n \in DOMAIN waiters' : m < n => no[waiters'[m]] < no[waiters'[n]]
  BY LeavesOrdered
<1> HIDE DEF t
<1>2. /\ pc' \in [Task -> {"idle", "waiting", "writing", "written", "reading", "answered"}]
      /\ pc'[t] = "idle" /\ \A u \in Task \ {t} : pc'[u] = pc[u]
  BY <1>1 DEF IInv, TypeOK, t
<1>3. waiters \in Seq(Task) /\ lock \in Task \cup {None}
  BY DEF IInv, TypeOK
<1>4. t # lock
  BY <1>1 DEF IInv, Holder, Inside
<1>5. Queue'
  BY <1>1, <1>2, <1>3 DEF IInv, Queue
<1>6. Holder'
  BY <1>1, <1>2, <1>3, <1>4 DEF IInv, Holder, Inside, lineVars
<1>7. \A j : Mine(j)' <=> Mine(j)
  BY <1>2, <1>3, <1>4 DEF Mine
<1>8. Jobs'
  <2>1. ASSUME NEW m \in DOMAIN jobs, OnLine(jobs[m]) PROVE Job(jobs[m])'
    BY <1>1, <1>2, <1>3, <1>4, <1>7, <2>1 DEF IInv, Jobs, Job
  <2> QED
    BY <1>7, <2>1 DEF IInv, Jobs, OnLine
<1>9. Line'
  BY <1>1, <1>2, <1>3, <1>4, <1>7 DEF IInv, Line, Expecting, lineVars
<1>10. Port'
  BY <1>1, Connected, JobsStay, PortStays DEF IInv, Port
<1>11. TypeOK'
  BY <1>1, <1>2 DEF IInv, TypeOK, linkVars, portVars, lineVars, modeVars
<1>12. StopIsLast'
  BY DEF IInv, StopIsLast, lineVars
<1> QED
  BY <1>5, <1>6, <1>8, <1>9, <1>10, <1>11, <1>12 DEF IInv

LEMMA SkipQueryKeeps == ASSUME IInv, NEW t \in Task, SkipQuery(t) PROVE IInv'
<1>1. Leaves(1) /\ waiters[1] = t
  BY Behead DEF SkipQuery, MayAcquire, Leaves, IInv, TypeOK
<1> QED
  BY <1>1, LeaveKeeps DEF SkipQuery

LEMMA CancelWaitingKeeps == ASSUME IInv, NEW t \in Task, CancelWaiting(t) PROVE IInv'
<1>1. PICK i \in DOMAIN waiters : waiters[i] = t /\ waiters' = RemoveAt(waiters, i)
  BY DEF CancelWaiting
<1>2. Leaves(i)
  BY <1>1 DEF Leaves
<1> QED
  BY <1>1, <1>2, LeaveKeeps DEF CancelWaiting

\* The owner's job joins the executor's queue.
LEMMA NewJobs ==
    ASSUME IInv, NEW t \in Task, NEW op \in {"write", "read"}, jobs' = Append(jobs, NewJob(op, t))
    PROVE  \E p \in DOMAIN jobs' :
             /\ jobs' \in Seq(JobSet) /\ jobs'[p] = NewJob(op, t)
             /\ \A k \in DOMAIN jobs' \ {p} : k \in DOMAIN jobs /\ jobs'[k] = jobs[k]
             /\ \A k \in DOMAIN jobs : k \in DOMAIN jobs' /\ jobs'[k] = jobs[k] /\ k # p
             /\ OnlyOne("close")' /\ (NoJob("close")' <=> NoJob("close"))
<1>1. NewJob(op, t) \in JobSet /\ NewJob(op, t).op = op /\ jobs \in Seq(JobSet)
  BY DEF IInv, TypeOK, NewJob, LineJob, JobSet
<1>2. /\ jobs' \in Seq(JobSet) /\ DOMAIN jobs = 1..Len(jobs) /\ Len(jobs) \in Nat
      /\ DOMAIN jobs' = 1..(Len(jobs) + 1)
      /\ \A k \in 1..Len(jobs) : jobs'[k] = jobs[k]
      /\ jobs'[Len(jobs) + 1] = NewJob(op, t)
  BY <1>1, Appended
<1> DEFINE p == Len(jobs) + 1
<1>3. /\ p \in DOMAIN jobs' /\ p \notin DOMAIN jobs /\ jobs'[p] = NewJob(op, t)
      /\ DOMAIN jobs' = DOMAIN jobs \cup {p}
      /\ \A k \in DOMAIN jobs : jobs'[k] = jobs[k]
  BY <1>2
<1> HIDE DEF p
<1>4. jobs'[p].op # "close"
  BY <1>1, <1>3
<1>5. OnlyOne("close")' /\ (NoJob("close")' <=> NoJob("close"))
  BY <1>3, <1>4, OneClose DEF OnlyOne, NoJob
<1>6. \A k \in DOMAIN jobs' \ {p} : k \in DOMAIN jobs /\ jobs'[k] = jobs[k]
  BY <1>3
<1>7. \A k \in DOMAIN jobs : k \in DOMAIN jobs' /\ jobs'[k] = jobs[k] /\ k # p
  BY <1>3
<1> QED
  BY <1>2, <1>3, <1>5, <1>6, <1>7

LEMMA AcquireKeeps == ASSUME IInv, NEW t \in Task, Acquire(t) PROVE IInv'
<1> USE DEF Acquire
<1>1. Leaves(1) /\ waiters[1] = t /\ lock = None
  BY Behead DEF MayAcquire, Leaves, IInv, TypeOK
<1>2. /\ waiters' \in Seq(Task) /\ pc[t] = "waiting"
      /\ \A m \in DOMAIN waiters' : \E n \in DOMAIN waiters :
            waiters'[m] = waiters[n] /\ waiters[n] # t
      /\ \A m, n \in DOMAIN waiters' : m < n => no[waiters'[m]] < no[waiters'[n]]
      /\ \A m \in DOMAIN waiters' : no[t] < no[waiters'[m]]
  BY <1>1, LeavesOrdered
<1>3. PICK p \in DOMAIN jobs' :
        /\ jobs' \in Seq(JobSet) /\ jobs'[p] = NewJob("write", t)
        /\ \A k \in DOMAIN jobs' \ {p} : k \in DOMAIN jobs /\ jobs'[k] = jobs[k]
        /\ \A k \in DOMAIN jobs : k \in DOMAIN jobs' /\ jobs'[k] = jobs[k] /\ k # p
        /\ OnlyOne("close")' /\ (NoJob("close")' <=> NoJob("close"))
  BY NewJobs
<1>4. /\ pc' \in [Task -> {"idle", "waiting", "writing", "written", "reading", "answered"}]
      /\ pc'[t] = "writing" /\ \A u \in Task \ {t} : pc'[u] = pc[u]
      /\ t # None /\ lock' = t
  BY NoneNotTask DEF IInv, TypeOK
<1>5. /\ stopped < no[t] /\ no[t] <= calls /\ no \in [Task -> Nat] /\ stopped \in Nat /\ calls \in Nat
  BY <1>1, CallsBound DEF IInv, TypeOK, CallNo, Queue, Leaves
<1>6. waiters \in Seq(Task)
  BY DEF IInv, TypeOK
<1>7. Queue'
  BY <1>2, <1>4, <1>6 DEF IInv, Queue
<1>8. \A u \in Task : pc[u] \notin Inside
  BY <1>1, NoneNotTask DEF IInv, Holder
<1>9. Holder'
  BY <1>2, <1>4, <1>5, <1>8 DEF Holder, Inside
<1>10. Jobs'
  <2>1. Mine(jobs[p])' /\ ~jobs'[p].started /\ jobs'[p].op = "write" /\ jobs'[p].no = no[t]
    BY <1>3, <1>4 DEF Mine, NewJob
  <2>2. ASSUME NEW k \in DOMAIN jobs, OnLine(jobs[k])
        PROVE  jobs[k].started /\ jobs[k].no < no[t] /\ Job(jobs[k])'
    <3>1. Job(jobs[k]) /\ ~Mine(jobs[k]) /\ jobs[k].no \in Nat
      BY <1>1, <2>2, JobTypes DEF IInv, Jobs, Mine
    <3>2. jobs[k].started /\ jobs[k].no < no[t]
      BY <1>1, <3>1 DEF Job, Leaves
    <3>3. \A m \in DOMAIN waiters' : jobs[k].no < no[waiters'[m]]
      BY <1>2, <3>1 DEF Job
    <3>4. jobs'[k] = jobs[k]
      BY <1>3
    <3> QED
      BY <1>4, <1>5, <3>1, <3>2, <3>3, <3>4 DEF Job
  <2>3. Job(jobs[p])'
    BY <1>2, <1>4, <1>5, <2>1 DEF Job
  <2>4. ASSUME NEW k \in DOMAIN jobs', jobs'[k].started PROVE k = 1
    BY <1>3, <2>1, <2>4 DEF IInv, Jobs
  <2>5. ASSUME NEW k \in DOMAIN jobs', OnLine(jobs'[k]) PROVE Job(jobs[k])'
    BY <1>3, <2>2, <2>3, <2>5
  <2>6. ASSUME NEW k \in DOMAIN jobs', Mine(jobs[k])' PROVE k = p
    <3>1. OnLine(jobs'[k]) /\ jobs'[k].no = no[t]
      BY <1>4, <2>6 DEF Mine, OnLine
    <3> QED
      BY <1>3, <1>5, <2>2, <3>1
  <2> QED
    BY <2>4, <2>5, <2>6 DEF Jobs, OnLine, Mine
<1>11. Line'
  <2>1. ~Expecting /\ ~Expecting' /\ \A j : ~Mine(j)
    BY <1>1, <1>4 DEF Expecting, Mine
  <2>2. Mine(jobs[p])'
    BY <1>3, <1>4 DEF Mine, NewJob
  <2>3. \A u \in Task : pc'[u] = "answered" => pc[u] = "answered"
    BY <1>4
  <2>4. ASSUME ~abandoned, NEW k \in DOMAIN jobs', jobs'[k].kind = "query" PROVE Mine(jobs[k])'
    BY <1>3, <2>1, <2>2, <2>4 DEF IInv, Line
  <2> QED
    BY <2>1, <2>3, <2>4 DEF IInv, Line, lineVars, Mine
<1>12. Port'
  BY <1>2, <1>3, Connected, PortStays DEF IInv
<1>13. TypeOK'
  BY <1>2, <1>3, <1>4 DEF IInv, TypeOK, JobSet, linkVars, portVars, lineVars, modeVars
<1>14. StopIsLast'
  BY DEF IInv, StopIsLast, lineVars
<1> QED
  BY <1>7, <1>9, <1>10, <1>11, <1>12, <1>13, <1>14 DEF IInv

\* Between its write and its read, and after its read, the owner has no job
\* and neither has anyone else.
LEMMA Idle ==
    ASSUME IInv, NEW t \in Task, pc[t] \in {"written", "answered"}
    PROVE  /\ t = lock /\ lock # None /\ link \notin Starting
           /\ \A k \in DOMAIN jobs : ~OnLine(jobs[k]) /\ ~Mine(jobs[k])
<1>1. t = lock /\ lock # None
  BY NoneNotTask DEF IInv, Holder, Inside
<1>2. \A k \in DOMAIN jobs : ~OnLine(jobs[k])
  BY <1>1 DEF IInv, Jobs, Job
<1> QED
  BY <1>1, <1>2, Connected DEF Mine, OnLine

LEMMA AwaitReplyKeeps == ASSUME IInv, NEW t \in Task, AwaitReply(t) PROVE IInv'
<1> USE DEF AwaitReply
<1>1. t = lock /\ lock # None /\ link \notin Starting
      /\ \A k \in DOMAIN jobs : ~OnLine(jobs[k])
  BY Idle
<1>2. PICK p \in DOMAIN jobs' :
        /\ jobs' \in Seq(JobSet) /\ jobs'[p] = NewJob("read", t)
        /\ \A k \in DOMAIN jobs' \ {p} : k \in DOMAIN jobs /\ jobs'[k] = jobs[k]
        /\ \A k \in DOMAIN jobs : k \in DOMAIN jobs' /\ jobs'[k] = jobs[k] /\ k # p
        /\ OnlyOne("close")' /\ (NoJob("close")' <=> NoJob("close"))
  BY NewJobs
<1>3. /\ pc' \in [Task -> {"idle", "waiting", "writing", "written", "reading", "answered"}]
      /\ pc'[t] = "reading" /\ \A u \in Task \ {t} : pc'[u] = pc[u]
      /\ lock' = t /\ waiters' = waiters
  BY <1>1 DEF IInv, TypeOK, lockVars
<1>4. /\ waiters \in Seq(Task) /\ no \in [Task -> Nat] /\ stopped \in Nat /\ calls \in Nat
      /\ no[t] <= calls /\ stopped < no[t] /\ \A m \in DOMAIN waiters : no[t] < no[waiters[m]]
  BY <1>1, CallsBound DEF IInv, TypeOK, CallNo, Queue, Holder
<1>5. Queue'
  <2>1. \A m \in DOMAIN waiters : waiters[m] # t
    BY DEF IInv, Queue
  <2> QED
    BY <1>3, <1>4, <2>1 DEF IInv, Queue
<1>6. Holder'
  BY <1>1, <1>3, <1>4 DEF IInv, Holder, Inside, lineVars
<1>7. Jobs'
  <2>1. Mine(jobs[p])' /\ ~jobs'[p].started /\ jobs'[p].op = "read" /\ jobs'[p].no = no[t]
        /\ jobs'[p].kind = "query"
    BY <1>1, <1>2, <1>3 DEF Mine, NewJob
  <2>2. Job(jobs[p])'
    BY <1>3, <1>4, <2>1 DEF Job
  <2>3. ASSUME NEW k \in DOMAIN jobs', jobs'[k].started PROVE k = 1
    BY <1>2, <2>1, <2>3 DEF IInv, Jobs
  <2>4. ASSUME NEW k \in DOMAIN jobs', OnLine(jobs'[k]) PROVE k = p
    BY <1>1, <1>2, <2>4
  <2> QED
    BY <2>2, <2>3, <2>4 DEF Jobs, OnLine, Mine
<1>8. Line'
  <2>1. Expecting /\ Expecting' /\ (lock' = lock /\ no' = no)
    BY <1>1, <1>3 DEF Expecting
  <2>2. Mine(jobs[p])'
    BY <1>1, <1>2, <1>3 DEF Mine, NewJob
  <2>3. \A u \in Task : pc'[u] = "answered" => pc[u] = "answered"
    BY <1>3
  <2>4. ASSUME ~abandoned, NEW k \in DOMAIN jobs', jobs'[k].kind = "query" PROVE k = p
    <3>1. \A m \in DOMAIN jobs : jobs[m].kind # "query"
      BY <2>4, Idle DEF IInv, Line
    <3> QED
      BY <1>2, <2>4, <3>1
  <2> QED
    BY <2>1, <2>2, <2>3, <2>4 DEF IInv, Line, lineVars
<1>9. Port'
  BY <1>1, <1>2, PortStays DEF IInv
<1>10. TypeOK'
  BY <1>2, <1>3 DEF IInv, TypeOK, JobSet, linkVars, portVars, lockVars, lineVars, modeVars
<1>11. StopIsLast'
  BY DEF IInv, StopIsLast, lineVars
<1> QED
  BY <1>5, <1>6, <1>7, <1>8, <1>9, <1>10, <1>11 DEF IInv

\* The owner returns: the lock is free and nobody is on the line.
LEMMA ReturnsKeep ==
    ASSUME IInv, NEW t \in Task, pc[t] \in {"written", "answered"},
           pc[t] = "written" => kind[t] # "query",
           pc' = [pc EXCEPT ![t] = "idle"], lock' = None,
           stopped' = stopped \/ (kind[t] = "stop" /\ pc[t] = "written" /\ stopped' = no[t]),
           TypeOK',
           UNCHANGED <<linkVars, kind, no, result, calls, waiters, jobs, lineVars, abandoned>>
    PROVE  IInv'
<1>1. t = lock /\ lock # None /\ link \notin Starting
      /\ \A k \in DOMAIN jobs : ~OnLine(jobs[k]) /\ ~Mine(jobs[k])
  BY Idle
<1>2. /\ pc'[t] = "idle" /\ \A u \in Task \ {t} : pc'[u] = pc[u]
      /\ \A u \in Task : pc'[u] \notin Inside
  BY <1>1 DEF IInv, TypeOK, Holder, Inside
<1>3. /\ waiters \in Seq(Task) /\ no \in [Task -> Nat] /\ stopped \in Nat /\ calls \in Nat
      /\ no[t] <= calls /\ stopped < no[t] /\ \A m \in DOMAIN waiters : no[t] < no[waiters[m]]
  BY <1>1, CallsBound DEF IInv, TypeOK, CallNo, Queue, Holder
<1>4. Queue'
  <2>1. \A m \in DOMAIN waiters : waiters[m] # t
    BY DEF IInv, Queue
  <2> QED
    BY <1>2, <1>3, <2>1 DEF IInv, Queue
<1>5. Holder'
  BY <1>2, NoneNotTask DEF Holder, Inside
<1>6. Jobs'
  BY <1>1 DEF IInv, Jobs, OnLine, Mine
<1>7. Line'
  <2>1. ~Expecting /\ ~Expecting'
    BY <1>1 DEF Expecting
  <2>2. \A u \in Task : pc'[u] # "answered"
    BY <1>2 DEF Inside
  <2> QED
    BY <1>1, <2>1, <2>2 DEF IInv, Line, lineVars
<1>8. Port'
  BY <1>1, JobsStay, PortStays DEF IInv, Port
<1>9. StopIsLast'
  BY <1>1, <1>3 DEF IInv, StopIsLast, Holder, lineVars
<1> QED
  BY <1>4, <1>5, <1>6, <1>7, <1>8, <1>9 DEF IInv

LEMMA ReturnKeeps == ASSUME IInv, NEW t \in Task, Return(t) PROVE IInv'
<1>1. TypeOK'
  BY DEF Return, IInv, TypeOK, linkVars, portVars, lineVars, modeVars
<1> QED
  BY <1>1, ReturnsKeep DEF Return

LEMMA ReturnReplyKeeps == ASSUME IInv, NEW t \in Task, ReturnReply(t) PROVE IInv'
<1>1. TypeOK'
  <2>1. misses' \in 0..MaxMisses
    BY MissesBound DEF ReturnReply, IInv, TypeOK
  <2>2. degraded' = (misses' = MaxMisses)
    BY MissesBound DEF ReturnReply, DegradedAfter, IInv, TypeOK
  <2> QED
    BY <2>1, <2>2 DEF ReturnReply, IInv, TypeOK, linkVars, portVars, lineVars
<1> QED
  BY <1>1, ReturnsKeep DEF ReturnReply
-----------------------------------------------------------------------------
(* A job leaves the line.                                                  *)

LEMMA LineRemoved ==
    ASSUME IInv, NEW i \in DOMAIN jobs, OnLine(jobs[i]), jobs' = RemoveAt(jobs, i)
    PROVE  /\ jobs' \in Seq(JobSet)
           /\ \A k \in DOMAIN jobs' : jobs'[k].started => k = 1
           /\ \A k \in DOMAIN jobs' : \E m \in DOMAIN jobs \ {i} : jobs'[k] = jobs[m]
           /\ \A k, m \in DOMAIN jobs' : k # m =>
                 \E a, b \in DOMAIN jobs : a # b /\ jobs'[k] = jobs[a] /\ jobs'[m] = jobs[b]
           /\ OnlyOne("close")' /\ (NoJob("close")' <=> NoJob("close"))
<1>1. jobs \in Seq(JobSet)
  BY DEF IInv, TypeOK, JobSet
<1>2. /\ jobs' \in Seq(JobSet) /\ Kept(i, 0) /\ i \in Nat \ {0}
      /\ \A k \in DOMAIN jobs \ {i} : \E m \in DOMAIN jobs' : jobs'[m] = jobs[k]
  BY <1>1, RemovedKept
<1>3. ASSUME NEW k \in DOMAIN jobs'
      PROVE  /\ k \in Nat \ {0}
             /\ \/ k < i /\ k \in DOMAIN jobs /\ jobs'[k] = jobs[k]
                \/ k >= i /\ k + 1 \in DOMAIN jobs /\ jobs'[k] = jobs[k + 1]
  BY <1>2 DEF Kept
<1>4. \A k \in DOMAIN jobs' : jobs'[k].started => k = 1
  BY <1>2, <1>3 DEF IInv, Jobs
<1>5. ASSUME NEW k \in DOMAIN jobs' PROVE \E m \in DOMAIN jobs \ {i} : jobs'[k] = jobs[m]
  BY <1>2, <1>3
<1>6. ASSUME NEW k \in DOMAIN jobs', NEW m \in DOMAIN jobs', k # m
      PROVE  \E a, b \in DOMAIN jobs : a # b /\ jobs'[k] = jobs[a] /\ jobs'[m] = jobs[b]
  <2>1. PICK a \in DOMAIN jobs :
           jobs'[k] = jobs[a] /\ ((k < i /\ a = k) \/ (k >= i /\ a = k + 1))
    BY <1>3
  <2>2. PICK b \in DOMAIN jobs :
           jobs'[m] = jobs[b] /\ ((m < i /\ b = m) \/ (m >= i /\ b = m + 1))
    BY <1>3
  <2>3. a # b
    BY <1>2, <1>3, <1>6, <2>1, <2>2
  <2> QED
    BY <2>1, <2>2, <2>3
<1>7. OnlyOne("close")'
  BY <1>6, OneClose DEF OnlyOne
<1>8. NoJob("close")' <=> NoJob("close")
  BY <1>2, <1>5 DEF NoJob, OnLine
<1> QED
  BY <1>2, <1>4, <1>5, <1>6, <1>7, <1>8

\* The owner gives up: the lock is free, and only a job that runs is left.
LEMMA ReleasesKeep ==
    ASSUME IInv, NEW t \in Task, lock = t, pc' = [pc EXCEPT ![t] = "idle"], lock' = None,
           UNCHANGED <<linkVars, kind, no, result, calls, waiters, lineVars, stopped, modeVars>>,
           jobs' \in Seq(JobSet), OnlyOne("close")', NoJob("close")' <=> NoJob("close"),
           \A k \in DOMAIN jobs' : jobs'[k].started => k = 1,
           \A k \in DOMAIN jobs' : \E m \in DOMAIN jobs :
               jobs'[k] = jobs[m] /\ (jobs[m].started \/ ~Mine(jobs[m])),
           abandoned' \in BOOLEAN,
           ~abandoned' => ~abandoned /\ ~Expecting /\ \A k \in DOMAIN jobs' : jobs'[k].kind # "query"
    PROVE  IInv'
<1>1. t # None /\ pc[t] \in Inside /\ link \notin Starting
  BY Connected, NoneNotTask DEF IInv, Holder, Inside
<1>2. /\ pc' \in [Task -> {"idle", "waiting", "writing", "written", "reading", "answered"}]
      /\ pc'[t] = "idle" /\ \A u \in Task \ {t} : pc'[u] = pc[u]
      /\ \A u \in Task : pc'[u] \notin Inside
  BY DEF IInv, TypeOK, Holder, Inside
<1>3. waiters \in Seq(Task)
  BY DEF IInv, TypeOK
<1>4. Queue'
  <2>1. \A m \in DOMAIN waiters : waiters[m] # t
    BY <1>1 DEF IInv, Queue, Inside
  <2> QED
    BY <1>2, <1>3, <2>1 DEF IInv, Queue
<1>5. Holder'
  BY <1>2, NoneNotTask DEF Holder
<1>6. Jobs'
  <2>1. ASSUME NEW k \in DOMAIN jobs', OnLine(jobs'[k]) PROVE Job(jobs[k])'
    <3>1. PICK m \in DOMAIN jobs : jobs'[k] = jobs[m] /\ (jobs[m].started \/ ~Mine(jobs[m]))
      OBVIOUS
    <3>2. Job(jobs[m]) /\ jobs[m].started
      BY <2>1, <3>1 DEF IInv, Jobs, Job
    <3> QED
      BY <3>1, <3>2 DEF Job
  <2> QED
    BY <2>1 DEF Jobs, OnLine, Mine
<1>7. Line'
  <2>1. ~Expecting' /\ \A u \in Task : pc'[u] # "answered"
    BY <1>2 DEF Expecting, Inside
  <2> QED
    BY <2>1 DEF IInv, Line, lineVars
<1>8. Port'
  BY <1>1, PortStays DEF IInv
<1>9. TypeOK'
  BY <1>2 DEF IInv, TypeOK, JobSet, linkVars, portVars, lineVars, modeVars
<1>10. StopIsLast'
  BY DEF IInv, StopIsLast, lineVars
<1> QED
  BY <1>4, <1>5, <1>6, <1>7, <1>8, <1>9, <1>10 DEF IInv

LEMMA CancelHoldingKeeps == ASSUME IInv, NEW t \in Task, CancelHolding(t) PROVE IInv'
<1>1. /\ lock = t /\ pc' = [pc EXCEPT ![t] = "idle"] /\ lock' = None
      /\ UNCHANGED <<linkVars, kind, no, result, calls, waiters, lineVars, stopped, modeVars>>
  BY DEF CancelHolding, LockAfterCancel
<1>2. t # None
  BY NoneNotTask
<1>3. ASSUME NEW m \in DOMAIN jobs
      PROVE  /\ Mine(jobs[m]) /\ ~jobs[m].started => Droppable(t, jobs[m])
             /\ Droppable(t, jobs[m]) => OnLine(jobs[m]) /\ Mine(jobs[m])
  <2>1. Droppable(t, jobs[m]) => OnLine(jobs[m])
    BY JobTypes DEF IInv, Droppable
  <2> QED
    BY <1>1, <2>1 DEF IInv, Jobs, Job, Droppable, Mine
<1>4. CASE /\ \A i \in DOMAIN jobs : ~Droppable(t, jobs[i])
           /\ jobs' = jobs
           /\ abandoned' = (abandoned \/ kind[t] = "query")
  <2>1. \A k \in DOMAIN jobs : jobs[k].started \/ ~Mine(jobs[k])
    BY <1>3, <1>4
  <2>2. ASSUME ~abandoned'
        PROVE  ~abandoned /\ ~Expecting /\ \A k \in DOMAIN jobs' : jobs'[k].kind # "query"
    BY <1>1, <1>4, <2>2 DEF IInv, Line, Expecting, Mine
  <2>3. jobs \in Seq(JobSet) /\ abandoned' \in BOOLEAN
    BY <1>4 DEF IInv, TypeOK, JobSet
  <2> QED
    BY <1>1, <1>4, <2>1, <2>2, <2>3, JobsStay, OneClose, ReleasesKeep DEF IInv, Jobs
<1>5. CASE \E i \in DOMAIN jobs :
             /\ Droppable(t, jobs[i])
             /\ jobs' = RemoveAt(jobs, i)
             /\ abandoned' = (abandoned \/ jobs[i].op = "read")
  <2>1. PICK i \in DOMAIN jobs :
             /\ Droppable(t, jobs[i])
             /\ jobs' = RemoveAt(jobs, i)
             /\ abandoned' = (abandoned \/ jobs[i].op = "read")
    BY <1>5
  <2>2. OnLine(jobs[i]) /\ Mine(jobs[i])
    BY <1>3, <2>1
  <2>3. \A m \in DOMAIN jobs \ {i} : ~Mine(jobs[m])
    BY <2>2 DEF IInv, Jobs
  <2>4. /\ jobs' \in Seq(JobSet)
        /\ \A k \in DOMAIN jobs' : jobs'[k].started => k = 1
        /\ \A k \in DOMAIN jobs' : \E m \in DOMAIN jobs \ {i} : jobs'[k] = jobs[m]
        /\ OnlyOne("close")' /\ (NoJob("close")' <=> NoJob("close"))
    BY <2>1, <2>2, LineRemoved
  <2>5. ASSUME ~abandoned'
        PROVE  ~abandoned /\ ~Expecting /\ \A k \in DOMAIN jobs' : jobs'[k].kind # "query"
    <3>1. ~abandoned /\ jobs[i].op # "read"
      BY <2>1, <2>5
    <3>2. ~Expecting
      BY <2>2, <3>1 DEF Mine, Expecting
    <3>3. \A m \in DOMAIN jobs \ {i} : jobs[m].kind # "query"
      BY <2>3, <3>1 DEF IInv, Line
    <3> QED
      BY <2>4, <3>1, <3>2, <3>3
  <2>6. \A k \in DOMAIN jobs' : \E m \in DOMAIN jobs :
               jobs'[k] = jobs[m] /\ (jobs[m].started \/ ~Mine(jobs[m]))
    BY <2>3, <2>4
  <2>7. abandoned' \in BOOLEAN
    BY <2>1
  <2> QED
    BY <1>1, <2>4, <2>5, <2>6, <2>7, ReleasesKeep
<1> QED
  BY <1>4, <1>5 DEF CancelHolding

LEMMA StartKeeps == ASSUME IInv, NEW i \in DOMAIN jobs, Start(i) PROVE IInv'
<1> USE DEF Start
<1> DEFINE e == [jobs[i] EXCEPT !.started = TRUE]
<1>1. i = 1 /\ jobs \in Seq(JobSet)
  BY DEF WorkerFreeFor, IInv, TypeOK, JobSet
<1>2. /\ e \in JobSet /\ e.started /\ e.op = jobs[i].op /\ e.kind = jobs[i].kind
      /\ e.no = jobs[i].no /\ e.owner = jobs[i].owner
  <2>1. jobs[i] \in JobSet
    BY <1>1
  <2> QED
    BY <2>1 DEF JobSet, LineJob, PortJob
<1>3. /\ DOMAIN jobs' = DOMAIN jobs /\ jobs' \in Seq(JobSet)
      /\ jobs'[i] = e /\ \A k \in DOMAIN jobs \ {i} : jobs'[k] = jobs[k]
  <2>1. jobs' = [jobs EXCEPT ![i] = e]
    OBVIOUS
  <2> HIDE DEF e, Start
  <2>2. DOMAIN jobs' = DOMAIN jobs /\ jobs'[i] = e /\ \A k \in DOMAIN jobs \ {i} : jobs'[k] = jobs[k]
    BY <1>1, <2>1
  <2>3. jobs' \in Seq(JobSet)
    BY <1>1, <1>2, <2>1
  <2> QED
    BY <2>2, <2>3
<1> HIDE DEF e
<1>4. ASSUME NEW k \in DOMAIN jobs
      PROVE  /\ jobs'[k].op = jobs[k].op /\ jobs'[k].kind = jobs[k].kind
             /\ jobs'[k].no = jobs[k].no /\ jobs'[k].owner = jobs[k].owner
             /\ jobs[k].started => jobs'[k].started
             /\ jobs'[k].started => jobs[k].started \/ k = 1
  BY <1>1, <1>2, <1>3
<1>5. UNCHANGED <<linkVars, callVars, lockVars, lineVars, stopped, modeVars, abandoned>>
  OBVIOUS
<1> HIDE DEF Start
<1>6. Queue' /\ Holder' /\ StopIsLast'
  BY <1>5 DEF IInv, Queue, Holder, StopIsLast, callVars, lockVars, lineVars
<1>7. \A k \in DOMAIN jobs : Mine(jobs[k])' <=> Mine(jobs[k])
  BY <1>4, <1>5 DEF Mine, callVars, lockVars
<1>8. Jobs'
  <2>1. ASSUME NEW k \in DOMAIN jobs, OnLine(jobs[k]) PROVE Job(jobs[k])'
    <3>1. Job(jobs[k])
      BY <2>1 DEF IInv, Jobs
    <3> QED
      BY <1>4, <1>5, <1>7, <3>1 DEF Job, callVars, lockVars
  <2>2. \A k \in DOMAIN jobs : OnLine(jobs[k])' <=> OnLine(jobs[k])
    BY <1>4 DEF OnLine
  <2>3. \A k \in DOMAIN jobs' : jobs'[k].started => k = 1
    BY <1>3, <1>4 DEF IInv, Jobs
  <2> QED
    BY <1>3, <1>7, <2>1, <2>2, <2>3 DEF IInv, Jobs
<1>9. Line'
  <2>1. Expecting' <=> Expecting
    BY <1>5 DEF Expecting, callVars, lockVars
  <2> QED
    BY <1>3, <1>4, <1>5, <1>7, <2>1 DEF IInv, Line, callVars, lockVars, lineVars
<1>10. Port'
  <2>1. \A o : (NoJob(o)' <=> NoJob(o)) /\ (OnlyOne(o)' <=> OnlyOne(o))
    BY <1>3, <1>4 DEF NoJob, OnlyOne
  <2> QED
    BY <1>5, <2>1 DEF IInv, Port, Held, linkVars, portVars, callVars
<1>11. TypeOK'
  BY <1>3, <1>5 DEF IInv, TypeOK, JobSet, linkVars, portVars, callVars, lockVars, lineVars, modeVars
<1> QED
  BY <1>6, <1>8, <1>9, <1>10, <1>11 DEF IInv

\* The worker finishes a job: its caller is still there, or has gone.
Ends(op) == IF op = "write" THEN "written" ELSE "answered"

LEMMA Resolved ==
    ASSUME IInv, NEW i \in DOMAIN jobs, OnLine(jobs[i]),
           NEW from, \/ jobs[i].op = "write" /\ from = "writing"
                     \/ jobs[i].op = "read" /\ from = "reading"
    PROVE  /\ (pc[jobs[i].owner] = from /\ no[jobs[i].owner] = jobs[i].no) <=> Mine(jobs[i])
           /\ Mine(jobs[i]) => jobs[i].owner = lock
           /\ jobs[i] \in LineJob /\ Job(jobs[i])
<1>1. jobs[i] \in LineJob /\ Job(jobs[i])
  BY JobTypes DEF IInv, Jobs
<1>2. jobs[i].owner \in Task
  BY <1>1 DEF LineJob
<1>3. ASSUME pc[jobs[i].owner] = from, no[jobs[i].owner] = jobs[i].no PROVE Mine(jobs[i])
  <2>1. jobs[i].owner = lock /\ lock # None
    BY <1>2, <1>3, NoneNotTask DEF IInv, Holder, Inside
  <2> QED
    BY <1>1, <1>3, <2>1 DEF Job
<1> QED
  BY <1>1, <1>3 DEF Mine

LEMMA JobDone ==
    ASSUME IInv, NEW i \in DOMAIN jobs, jobs[i].started, OnLine(jobs[i]), jobs' = RemoveAt(jobs, i),
           UNCHANGED <<linkVars, kind, no, calls, lock, waiters, stopped>>,
           IF Mine(jobs[i]) THEN pc' = [pc EXCEPT ![lock] = Ends(jobs[i].op)] ELSE pc' = pc,
           Mine(jobs[i]) /\ jobs[i].op = "write" /\ kind[lock] = "stop" => wheels' = "still"
    PROVE  /\ Queue' /\ Holder' /\ Jobs' /\ Port' /\ jobs' \in Seq(JobSet)
           /\ pc' \in [Task -> {"idle", "waiting", "writing", "written", "reading", "answered"}]
           /\ \A k \in DOMAIN jobs' : \E m \in DOMAIN jobs \ {i} : jobs'[k] = jobs[m]
           /\ Mine(jobs[i]) => \A k \in DOMAIN jobs' : ~OnLine(jobs'[k])
           /\ ~Mine(jobs[i]) => \A j : Mine(j)' <=> Mine(j)
<1>1. /\ jobs' \in Seq(JobSet)
      /\ \A k \in DOMAIN jobs' : jobs'[k].started => k = 1
      /\ \A k \in DOMAIN jobs' : \E m \in DOMAIN jobs \ {i} : jobs'[k] = jobs[m]
      /\ \A k, m \in DOMAIN jobs' : k # m =>
            \E a, b \in DOMAIN jobs : a # b /\ jobs'[k] = jobs[a] /\ jobs'[m] = jobs[b]
      /\ OnlyOne("close")' /\ (NoJob("close")' <=> NoJob("close"))
  BY LineRemoved
<1>2. Port'
  BY <1>1, Connected, PortStays DEF IInv
<1>3. Job(jobs[i])
  BY DEF IInv, Jobs
<1>4. CASE ~Mine(jobs[i])
  <2>1. UNCHANGED <<pc, kind, no, calls, lock, waiters, stopped>>
    BY <1>4
  <2>2. \A j : Mine(j)' <=> Mine(j)
    BY <2>1 DEF Mine
  <2>3. Queue'
    BY <2>1 DEF IInv, Queue
  <2>4. Holder'
    BY <1>3, <2>1 DEF IInv, Holder, Job
  <2>5. Jobs'
    <3>1. ASSUME NEW k \in DOMAIN jobs', OnLine(jobs'[k]) PROVE Job(jobs[k])'
      <4>1. PICK m \in DOMAIN jobs : jobs'[k] = jobs[m]
        BY <1>1
      <4>2. Job(jobs[m])
        BY <3>1, <4>1 DEF IInv, Jobs
      <4> QED
        BY <2>1, <2>2, <4>1, <4>2 DEF Job
    <3>2. ASSUME NEW k \in DOMAIN jobs', NEW m \in DOMAIN jobs', Mine(jobs[k])', Mine(jobs[m])'
          PROVE  k = m
      <4>1. Mine(jobs'[k]) /\ Mine(jobs'[m])
        BY <2>1, <3>2 DEF Mine
      <4> QED
        BY <1>1, <4>1 DEF IInv, Jobs
    <3> QED
      BY <1>1, <3>1, <3>2 DEF Jobs, OnLine
  <2>6. pc \in [Task -> {"idle", "waiting", "writing", "written", "reading", "answered"}]
    BY DEF IInv, TypeOK
  <2> QED
    BY <1>1, <1>2, <1>4, <2>1, <2>2, <2>3, <2>4, <2>5, <2>6
<1>5. CASE Mine(jobs[i])
  <2> DEFINE to == Ends(jobs[i].op)
  <2>1. lock \in Task /\ lock # None /\ to \in {"written", "answered"}
        /\ (to = "written" => jobs[i].op = "write" /\ pc[lock] = "writing")
        /\ (to = "answered" => kind[lock] = "query")
    BY <1>3, <1>5 DEF IInv, TypeOK, Mine, Ends, Job
  <2>2. pc' = [pc EXCEPT ![lock] = to]
    BY <1>5
  <2> HIDE DEF to
  <2>3. /\ pc' \in [Task -> {"idle", "waiting", "writing", "written", "reading", "answered"}]
        /\ pc'[lock] = to /\ \A u \in Task \ {lock} : pc'[u] = pc[u]
    BY <2>1, <2>2 DEF IInv, TypeOK
  <2>4. ASSUME NEW k \in DOMAIN jobs' PROVE ~OnLine(jobs'[k])
    <3>1. PICK m \in DOMAIN jobs \ {i} : jobs'[k] = jobs[m]
      BY <1>1
    <3>2. ~Mine(jobs[m])
      BY <1>5, <3>1 DEF IInv, Jobs
    <3>3. ~jobs[m].started
      BY <3>1 DEF IInv, Jobs
    <3> QED
      BY <3>1, <3>2, <3>3 DEF IInv, Jobs, Job
  <2>5. Queue'
    <3>1. \A m \in DOMAIN waiters : waiters[m] \in Task /\ waiters[m] # lock
      BY <1>5 DEF IInv, TypeOK, Queue, Mine
    <3> QED
      BY <2>3, <3>1 DEF IInv, Queue
  <2>6. Holder'
    BY <2>1, <2>3 DEF IInv, Holder, Inside
  <2>7. Jobs'
    BY <1>1, <2>4 DEF Jobs, OnLine, Mine
  <2> QED
    BY <1>1, <1>2, <1>5, <2>3, <2>4, <2>5, <2>6, <2>7
<1> QED
  BY <1>4, <1>5

LEMMA FinishWriteKeeps == ASSUME IInv, NEW i \in DOMAIN jobs, FinishWrite(i) PROVE IInv'
<1> DEFINE j == jobs[i]
<1>1. /\ j.started /\ j.op = "write" /\ OnLine(j) /\ jobs' = RemoveAt(jobs, i)
      /\ UNCHANGED <<linkVars, kind, no, calls, lockVars, buffer, stopped, modeVars, abandoned>>
  BY DEF FinishWrite, OnLine
<1>2. /\ (pc[j.owner] = "writing" /\ no[j.owner] = j.no) <=> Mine(j)
      /\ Mine(j) => j.owner = lock
      /\ j \in LineJob /\ Job(j)
  BY <1>1, Resolved
<1>3. /\ Mine(j) => pc' = [pc EXCEPT ![lock] = "written"] /\ result' = [result EXCEPT ![lock] = None]
      /\ ~Mine(j) => pc' = pc /\ result' = result
  BY <1>2 DEF FinishWrite, Resolve
<1>4. /\ wheels' = IF j.kind = "velocity" THEN "moving" ELSE IF j.kind = "stop" THEN "still" ELSE wheels
      /\ moveNo' = IF j.kind = "velocity" THEN j.no ELSE moveNo
      /\ asked' = IF j.kind = "query" THEN Append(asked, j.no) ELSE asked
  BY DEF FinishWrite
<1> HIDE DEF j
<1>5. /\ j.kind \in Kind /\ j.no \in CallNo /\ stopped < j.no
  BY <1>2 DEF LineJob, Job
<1>6. /\ Queue' /\ Holder' /\ Jobs' /\ Port' /\ jobs' \in Seq(JobSet)
      /\ pc' \in [Task -> {"idle", "waiting", "writing", "written", "reading", "answered"}]
      /\ \A k \in DOMAIN jobs' : \E m \in DOMAIN jobs \ {i} : jobs'[k] = jobs[m]
      /\ Mine(j) => \A k \in DOMAIN jobs' : ~OnLine(jobs'[k])
      /\ ~Mine(j) => \A d : Mine(d)' <=> Mine(d)
  <2>1. Mine(j) /\ kind[lock] = "stop" => wheels' = "still"
    BY <1>4 DEF Mine
  <2>2. Ends(j.op) = "written"
    BY <1>1 DEF Ends
  <2> QED
    BY <1>1, <1>3, <2>1, <2>2, JobDone DEF j, lockVars
<1>7. lock \in Task \cup {None} /\ asked \in Seq(CallNo) /\ result \in [Task -> CallNo \cup {None}]
      /\ pc \in [Task -> {"idle", "waiting", "writing", "written", "reading", "answered"}]
  BY DEF IInv, TypeOK
<1>8. asked' \in Seq(CallNo)
  BY <1>4, <1>5, <1>7
<1>9. TypeOK'
  <2>1. result' \in [Task -> CallNo \cup {None}]
    BY <1>3, <1>7
  <2>2. wheels' \in {"still", "moving"} /\ moveNo' \in CallNo
    BY <1>4, <1>5 DEF IInv, TypeOK
  <2> QED
    BY <1>1, <1>6, <1>8, <2>1, <2>2 DEF IInv, TypeOK, JobSet, linkVars, portVars, lockVars, modeVars
<1>10. StopIsLast'
  BY <1>1, <1>4, <1>5 DEF IInv, StopIsLast
<1>11. Line'
  <2> SUFFICES ASSUME ~abandoned' PROVE Line'
    BY DEF Line
  <2>1. ~abandoned
    BY <1>1
  <2>2. CASE ~Mine(j)
    <3>1. j.kind # "query"
      BY <2>1, <2>2 DEF IInv, Line, j
    <3>2. UNCHANGED <<pc, result, asked, buffer, kind, no, lock>>
      BY <1>1, <1>3, <1>4, <2>2, <3>1 DEF lockVars
    <3>3. Expecting' <=> Expecting
      BY <3>2 DEF Expecting
    <3>4. ASSUME NEW k \in DOMAIN jobs', jobs'[k].kind = "query" PROVE Mine(jobs[k])'
      <4>1. PICK m \in DOMAIN jobs : jobs'[k] = jobs[m]
        BY <1>6
      <4>2. Mine(jobs[m])
        BY <2>1, <3>4, <4>1 DEF IInv, Line
      <4> QED
        BY <3>2, <4>1, <4>2 DEF Mine
    <3> QED
      BY <2>1, <3>2, <3>3, <3>4 DEF IInv, Line
  <2>3. CASE Mine(j)
    <3>1. /\ lock \in Task /\ lock # None /\ pc[lock] = "writing" /\ kind[lock] = j.kind /\ no[lock] = j.no
      BY <1>1, <1>7, <2>3 DEF Mine
    <3>2. pc'[lock] = "written" /\ lock' = lock /\ kind' = kind /\ no' = no
          /\ \A u \in Task \ {lock} : pc'[u] = pc[u] /\ result'[u] = result[u]
      BY <1>1, <1>3, <1>7, <2>3, <3>1 DEF lockVars
    <3>3. asked = <<>> /\ buffer = <<>>
      BY <2>1, <3>1 DEF IInv, Line, Expecting
    <3>4. Expecting' <=> j.kind = "query"
      BY <3>1, <3>2 DEF Expecting
    <3>5. /\ buffer' = <<>>
          /\ asked' = IF j.kind = "query" THEN <<no[lock]>> ELSE <<>>
      BY <1>1, <1>4, <3>1, <3>3
    <3>6. ASSUME NEW k \in DOMAIN jobs' PROVE jobs'[k].kind # "query"
      <4>1. PICK m \in DOMAIN jobs \ {i} : jobs'[k] = jobs[m]
        BY <1>6
      <4>2. ~Mine(jobs[m])
        BY <2>3, <4>1 DEF IInv, Jobs, j
      <4> QED
        BY <2>1, <4>1, <4>2 DEF IInv, Line
    <3>7. ASSUME NEW u \in Task, pc'[u] = "answered" PROVE result'[u] = no'[u]
      BY <2>1, <3>2, <3>7 DEF IInv, Line
    <3> QED
      BY <3>2, <3>4, <3>5, <3>6, <3>7 DEF Line
  <2> QED
    BY <2>2, <2>3
<1> QED
  BY <1>6, <1>9, <1>10, <1>11 DEF IInv

\* A read that is over, with an answer or without one.
LEMMA ReadDone ==
    ASSUME IInv, NEW i \in DOMAIN jobs, jobs[i].started, jobs[i].op = "read", NEW r \in CallNo \cup {None},
           jobs' = RemoveAt(jobs, i), Resolve(jobs[i], "reading", "answered", r),
           UNCHANGED <<linkVars, kind, no, calls, lockVars, asked, wheels, moveNo, stopped, modeVars>>,
           buffer' \in Seq(CallNo), abandoned' \in BOOLEAN,
           ~abandoned' => buffer' = <<>> /\ asked = <<>> /\ r = no[lock] /\ ~abandoned
    PROVE  IInv'
<1> DEFINE j == jobs[i]
<1>1. OnLine(j)
  BY DEF OnLine
<1>2. /\ (pc[j.owner] = "reading" /\ no[j.owner] = j.no) <=> Mine(j)
      /\ Mine(j) => j.owner = lock
      /\ j \in LineJob /\ Job(j)
  BY <1>1, Resolved
<1>3. /\ Mine(j) => pc' = [pc EXCEPT ![lock] = "answered"] /\ result' = [result EXCEPT ![lock] = r]
      /\ ~Mine(j) => pc' = pc /\ result' = result
  BY <1>2 DEF Resolve
<1> HIDE DEF j
<1>4. /\ Queue' /\ Holder' /\ Jobs' /\ Port' /\ jobs' \in Seq(JobSet)
      /\ pc' \in [Task -> {"idle", "waiting", "writing", "written", "reading", "answered"}]
      /\ \A k \in DOMAIN jobs' : \E m \in DOMAIN jobs \ {i} : jobs'[k] = jobs[m]
      /\ Mine(j) => \A k \in DOMAIN jobs' : ~OnLine(jobs'[k])
  <2>1. Ends(j.op) = "answered" /\ j.op # "write"
    BY DEF Ends, j
  <2> QED
    BY <1>1, <1>3, <2>1, JobDone DEF j, lockVars
<1>5. lock \in Task \cup {None} /\ result \in [Task -> CallNo \cup {None}]
      /\ pc \in [Task -> {"idle", "waiting", "writing", "written", "reading", "answered"}]
  BY DEF IInv, TypeOK
<1>6. TypeOK'
  <2>1. result' \in [Task -> CallNo \cup {None}]
    BY <1>3, <1>5
  <2> QED
    BY <1>4, <2>1 DEF IInv, TypeOK, JobSet, linkVars, portVars, lockVars, modeVars
<1>7. StopIsLast'
  BY DEF IInv, StopIsLast
<1>8. Line'
  <2> SUFFICES ASSUME ~abandoned' PROVE Line'
    BY DEF Line
  <2>1. Mine(j)
    <3>1. j.kind = "query"
      BY <1>2 DEF Job, j
    <3> QED
      BY <3>1 DEF IInv, Line, j
  <2>2. lock \in Task /\ lock # None
    BY <1>5, <2>1 DEF Mine
  <2>3. /\ pc'[lock] = "answered" /\ lock' = lock /\ kind' = kind /\ no' = no /\ result'[lock] = no[lock]
        /\ \A u \in Task \ {lock} : pc'[u] = pc[u] /\ result'[u] = result[u]
    BY <1>3, <1>5, <2>1, <2>2 DEF lockVars
  <2>4. ~Expecting' /\ asked' = <<>> /\ buffer' = <<>>
    BY <2>3 DEF Expecting
  <2>5. ASSUME NEW k \in DOMAIN jobs' PROVE jobs'[k].kind # "query"
    <3>1. PICK m \in DOMAIN jobs \ {i} : jobs'[k] = jobs[m]
      BY <1>4
    <3>2. ~Mine(jobs[m])
      BY <2>1, <3>1 DEF IInv, Jobs, j
    <3> QED
      BY <3>1, <3>2 DEF IInv, Line
  <2>6. ASSUME NEW u \in Task, pc'[u] = "answered" PROVE result'[u] = no'[u]
    BY <2>3, <2>6 DEF IInv, Line
  <2> QED
    BY <2>4, <2>5, <2>6 DEF Line
<1> QED
  BY <1>4, <1>6, <1>7, <1>8 DEF IInv

LEMMA FinishReadKeeps == ASSUME IInv, NEW i \in DOMAIN jobs, FinishRead(i) PROVE IInv'
<1>1. buffer \in Seq(CallNo) /\ buffer # <<>> /\ buffer' = Tail(buffer) /\ abandoned \in BOOLEAN
  BY DEF FinishRead, IInv, TypeOK
<1>2. Head(buffer) \in CallNo /\ buffer' \in Seq(CallNo)
  BY <1>1
<1>3. ASSUME ~abandoned PROVE buffer' = <<>> /\ asked = <<>> /\ Head(buffer) = no[lock]
  <2>1. asked = <<>> /\ buffer = <<no[lock]>>
    BY <1>1, <1>3 DEF IInv, Line
  <2> QED
    BY <1>1, <2>1
<1> QED
  BY <1>1, <1>2, <1>3, ReadDone DEF FinishRead

LEMMA ReadTimeoutKeeps == ASSUME IInv, NEW i \in DOMAIN jobs, ReadTimeout(i) PROVE IInv'
<1>1. UNCHANGED <<asked, buffer, wheels, moveNo>> /\ buffer \in Seq(CallNo) /\ abandoned' = TRUE
  BY DEF ReadTimeout, lineVars, IInv, TypeOK
<1> QED
  BY <1>1, ReadDone DEF ReadTimeout

LEMMA PortFailsKeeps == ASSUME IInv, NEW i \in DOMAIN jobs, PortFails(i) PROVE IInv'
<1> DEFINE j == jobs[i]
<1>1. /\ OnLine(j) /\ j.started /\ jobs' = RemoveAt(jobs, i)
      /\ abandoned' = (abandoned \/ j.kind = "query")
      /\ UNCHANGED <<linkVars, kind, no, result, calls, waiters, lineVars, stopped, modeVars>>
  BY DEF PortFails, OnLine
<1>2. Job(j) /\ j.owner \in Task
  BY <1>1, JobTypes DEF IInv, Jobs, LineJob
<1>3. (pc[j.owner] \in {"writing", "reading"} /\ no[j.owner] = j.no) <=> Mine(j)
  <2>1. ASSUME pc[j.owner] \in {"writing", "reading"}, no[j.owner] = j.no PROVE Mine(j)
    <3>1. j.owner = lock /\ lock # None
      BY <1>2, <2>1, NoneNotTask DEF IInv, Holder, Inside
    <3> QED
      BY <1>2, <2>1, <3>1 DEF Job
  <2> QED
    BY <2>1 DEF Mine
<1>4. /\ pc' = IF Mine(j) THEN [pc EXCEPT ![j.owner] = "idle"] ELSE pc
      /\ lock' = IF Mine(j) THEN None ELSE lock
  BY <1>3 DEF PortFails
<1> HIDE DEF j
<1>5. /\ jobs' \in Seq(JobSet)
      /\ \A k \in DOMAIN jobs' : jobs'[k].started => k = 1
      /\ \A k \in DOMAIN jobs' : \E m \in DOMAIN jobs \ {i} : jobs'[k] = jobs[m]
      /\ OnlyOne("close")' /\ (NoJob("close")' <=> NoJob("close"))
  BY <1>1, LineRemoved DEF j
<1>6. abandoned' \in BOOLEAN
  BY <1>1
<1>7. CASE Mine(j)
  <2>1. j.owner = lock /\ kind[lock] = j.kind
    BY <1>7 DEF Mine
  <2>2. \A m \in DOMAIN jobs \ {i} : ~Mine(jobs[m])
    BY <1>7 DEF IInv, Jobs, j
  <2>3. ASSUME ~abandoned'
        PROVE  ~abandoned /\ ~Expecting /\ \A k \in DOMAIN jobs' : jobs'[k].kind # "query"
    <3>1. ~abandoned /\ j.kind # "query"
      BY <1>1, <2>3
    <3>2. ~Expecting
      BY <2>1, <3>1 DEF Expecting
    <3>3. \A m \in DOMAIN jobs \ {i} : jobs[m].kind # "query"
      BY <2>2, <3>1 DEF IInv, Line
    <3> QED
      BY <1>5, <3>1, <3>2, <3>3
  <2>4. \A k \in DOMAIN jobs' : \E m \in DOMAIN jobs :
               jobs'[k] = jobs[m] /\ (jobs[m].started \/ ~Mine(jobs[m]))
    BY <1>5, <2>2
  <2>5. pc' = [pc EXCEPT ![j.owner] = "idle"] /\ lock' = None
    BY <1>4, <1>7
  <2> QED
    BY <1>1, <1>2, <1>5, <1>6, <2>1, <2>3, <2>4, <2>5, ReleasesKeep
<1>8. CASE ~Mine(j)
  <2>1. pc' = pc /\ lock' = lock /\ UNCHANGED <<kind, no, result, asked, buffer, wheels, moveNo>>
    BY <1>1, <1>4, <1>8 DEF lineVars
  <2>2. Queue' /\ Holder' /\ Jobs' /\ Port'
    BY <1>1, <1>8, <2>1, JobDone DEF j
  <2>3. \A d : Mine(d)' <=> Mine(d)
    BY <2>1 DEF Mine
  <2>4. Line'
    <3>1. Expecting' <=> Expecting
      BY <2>1 DEF Expecting
    <3>2. ASSUME ~abandoned', NEW k \in DOMAIN jobs', jobs'[k].kind = "query" PROVE Mine(jobs[k])'
      <4>1. PICK m \in DOMAIN jobs : jobs'[k] = jobs[m]
        BY <1>5
      <4>2. Mine(jobs[m])
        BY <1>1, <3>2, <4>1 DEF IInv, Line
      <4> QED
        BY <2>1, <4>1, <4>2 DEF Mine
    <3> QED
      BY <1>1, <2>1, <3>1, <3>2 DEF IInv, Line
  <2>5. TypeOK'
    BY <1>1, <1>5, <1>6, <2>1 DEF IInv, TypeOK, JobSet, linkVars, portVars, modeVars
  <2>6. StopIsLast'
    BY <1>1, <2>1 DEF IInv, StopIsLast
  <2> QED
    BY <2>2, <2>4, <2>5, <2>6 DEF IInv
<1> QED
  BY <1>7, <1>8
-----------------------------------------------------------------------------
LEMMA WorkKeeps == ASSUME IInv, Work PROVE IInv'
<1>1. PICK i \in DOMAIN jobs :
         \/ Start(i) \/ FinishWrite(i) \/ FinishRead(i) \/ ReadTimeout(i) \/ PortFails(i)
         \/ FinishOpen(i) \/ FinishArm(i) \/ LinkFails(i) \/ FinishClose(i)
  BY DEF Work
<1> QED
  BY <1>1, StartKeeps, FinishWriteKeeps, FinishReadKeeps, ReadTimeoutKeeps, PortFailsKeeps,
     FinishOpenKeeps, FinishArmKeeps, LinkFailsKeeps, FinishCloseKeeps

LEMMA StutterKeeps == ASSUME IInv, UNCHANGED vars PROVE IInv'
<1> USE DEF vars, linkVars, callVars, lockVars, lineVars, modeVars, portVars
<1>1. Queue' /\ Holder' /\ StopIsLast'
  BY DEF IInv, Queue, Holder, StopIsLast
<1>2. Jobs'
  BY DEF IInv, Jobs, Job, Mine, OnLine
<1>3. Line'
  BY DEF IInv, Line, Expecting, Mine
<1>4. Port'
  BY JobsStay DEF IInv, Port, Held
<1>5. TypeOK'
  BY DEF IInv, TypeOK
<1> QED
  BY <1>1, <1>2, <1>3, <1>4, <1>5 DEF IInv

LEMMA StepKeeps == ASSUME IInv, [Next]_vars PROVE IInv'
<1>1. ASSUME NEW t \in Task, NEW k \in Kind, Call(t, k) PROVE IInv'
  BY <1>1, CallKeeps
<1>2. ASSUME NEW t \in Task, Proceed(t) PROVE IInv'
  BY <1>2, AcquireKeeps, SkipQueryKeeps, ReturnKeeps, AwaitReplyKeeps, ReturnReplyKeeps DEF Proceed
<1>3. ASSUME NEW t \in Task, CancelWaiting(t) \/ CancelHolding(t) PROVE IInv'
  BY <1>3, CancelWaitingKeeps, CancelHoldingKeeps
<1>4. ASSUME Connect \/ CancelConnect \/ GiveUp \/ Disconnect PROVE IInv'
  BY <1>4, ConnectKeeps, CancelConnectKeeps, GiveUpKeeps, DisconnectKeeps
<1>5. ASSUME Finished PROVE IInv'
  BY <1>5, StutterKeeps DEF Finished
<1> QED
  BY <1>1, <1>2, <1>3, <1>4, <1>5, WorkKeeps, AnswerKeeps, StutterKeeps DEF Next

LEMMA Inductive == Spec => []IInv
BY InitInv, StepKeeps, PTL DEF Spec

(* The variables keep their types, and the driver is degraded exactly when *)
(* its count of timeouts is at the threshold.                              *)
THEOREM TypeCorrect == Spec => []TypeOK
<1>1. IInv => TypeOK
  BY DEF IInv
<1> QED
  BY <1>1, Inductive, PTL

(* Once emergency_stop() has returned, the wheels turn only for a velocity *)
(* that was called later: a job of a caller that was cancelled is either   *)
(* dropped or runs before the stop's own job, whose number is greater.     *)
THEOREM StopHolds == Spec => []StopIsLast
<1>1. IInv => StopIsLast
  BY DEF IInv
<1> QED
  BY <1>1, Inductive, PTL

(* As long as no query has been abandoned, the line carries at most the    *)
(* one request or reply that the owner of _io_lock is waiting for, so the  *)
(* reply that a query is given is its own.                                 *)
THEOREM RepliesHold == Spec => []RepliesMatch
<1>1. IInv => RepliesMatch
  BY DEF IInv, Line, RepliesMatch
<1> QED
  BY <1>1, Inductive, PTL

(* connect() that fails or is cancelled at any await leaves _serial and    *)
(* _connected reset, and a handle that is open is the driver's or is about *)
(* to be closed.                                                           *)
THEOREM ConnectHolds == Spec => []ConnectRollsBack
<1>1. IInv => ConnectRollsBack
  <2> SUFFICES ASSUME Port, TypeOK PROVE ConnectRollsBack
    BY DEF IInv
  <2>1. link \in {"down", "opening", "rollback", "giving up", "closed"} => ~connected /\ ~serial
    BY DEF Port
  <2>2. Held => serial \/ ~NoJob("close")
    <3>1. link \in Starting \cup {"up", "closing", "closed"}
      BY DEF TypeOK
    <3> QED
      BY <3>1 DEF Port, Starting
  <2> QED
    BY <2>1, <2>2 DEF ConnectRollsBack, Held, NoJob
<1> QED
  BY <1>1, Inductive, PTL
-----------------------------------------------------------------------------
(* Nobody is stranded: the part of CallsEnd that is not about fairness.    *)

Waiting == \A t \in Task : pc[t] = "waiting" => \E i \in DOMAIN waiters : waiters[i] = t

Working ==
    lock # None /\ pc[lock] \in {"writing", "reading"} =>
        \E i \in DOMAIN jobs : Mine(jobs[i])

Attended == Waiting /\ Working

LEMMA WaitingStays ==
    ASSUME Waiting, waiters' = waiters,
           \A t \in Task : pc'[t] = "waiting" => pc[t] = "waiting"
    PROVE  Waiting'
BY DEF Waiting

LEMMA WorkingStays ==
    ASSUME Working, UNCHANGED <<lock, pc, no, kind>>,
           \A k \in DOMAIN jobs : Mine(jobs[k]) => \E m \in DOMAIN jobs' : jobs'[m] = jobs[k]
    PROVE  Working'
<1> SUFFICES ASSUME lock # None, pc[lock] \in {"writing", "reading"}
             PROVE  \E m \in DOMAIN jobs' : Mine(jobs[m])'
  BY DEF Working
<1>1. PICK k \in DOMAIN jobs : Mine(jobs[k])
  BY DEF Working
<1>2. PICK m \in DOMAIN jobs' : jobs'[m] = jobs[k]
  BY <1>1
<1>3. Mine(jobs[m])'
  BY <1>1, <1>2 DEF Mine
<1> QED
  BY <1>3

\* The lock is free, or its owner has what it waited for.
LEMMA NothingWaited ==
    ASSUME lock' = None \/ pc'[lock'] \notin {"writing", "reading"}
    PROVE  Working'
BY DEF Working

LEMMA LinkAttends ==
    ASSUME IInv, Attended,
           \/ Connect \/ CancelConnect \/ GiveUp \/ Disconnect
           \/ \E i \in DOMAIN jobs : FinishOpen(i) \/ FinishArm(i) \/ LinkFails(i) \/ FinishClose(i)
    PROVE  Attended'
<1>1. UNCHANGED callerVars
  BY DEF Connect, CancelConnect, GiveUp, Disconnect, FinishOpen, FinishArm, LinkFails, FinishClose
<1>2. Waiting'
  BY <1>1, WaitingStays DEF Attended, callerVars, callVars, lockVars
<1>3. CASE link \in Starting
  <2>1. lock = None
    BY <1>3, Connected DEF IInv, TypeOK, Holder, Inside
  <2> QED
    BY <1>1, <1>2, <2>1, NothingWaited DEF Attended, callerVars, lockVars
<1>4. CASE link \notin Starting
  <2>1. jobs \in Seq(JobSet)
    BY DEF IInv, TypeOK, JobSet
  <2>a. link \notin {"down", "opening", "arming"}
    BY <1>4, Zenon DEF Starting
  <2>2. CASE Disconnect
    <3>1. jobs' = Append(jobs, LinkJob("close")) /\ LinkJob("close") \in JobSet
      BY <2>2, LinkJobs DEF Disconnect
    <3>2. \A k \in DOMAIN jobs : k \in DOMAIN jobs' /\ jobs'[k] = jobs[k]
      BY <2>1, <3>1, AppendedKept
    <3> QED
      BY <1>1, <1>2, <3>2, WorkingStays DEF Attended, callerVars, callVars, lockVars
  <2>3. ASSUME NEW i \in DOMAIN jobs,
               FinishOpen(i) \/ FinishArm(i) \/ LinkFails(i) \/ FinishClose(i)
        PROVE  Attended'
    <3>1. jobs' = RemoveAt(jobs, i) /\ jobs[i].op \notin {"write", "read"}
      BY <2>a, <2>3 DEF FinishOpen, FinishArm, LinkFails, FinishClose
    <3>2. \A k \in DOMAIN jobs \ {i} : \E m \in DOMAIN jobs' : jobs'[m] = jobs[k]
      BY <2>1, <3>1, RemovedKept
    <3>3. ~Mine(jobs[i])
      BY <3>1 DEF Mine
    <3> QED
      BY <1>1, <1>2, <3>2, <3>3, WorkingStays DEF Attended, callerVars, callVars, lockVars
  <2> QED
    BY <1>4, <2>a, <2>2, <2>3 DEF Connect, CancelConnect, GiveUp
<1> QED
  BY <1>3, <1>4

LEMMA StartAttends == ASSUME IInv, Attended, NEW i \in DOMAIN jobs, Start(i) PROVE Attended'
<1>1. UNCHANGED <<callVars, lockVars>>
  BY DEF Start
<1>2. Waiting'
  BY <1>1, WaitingStays DEF Attended, callVars, lockVars
<1>3. ASSUME lock # None, pc[lock] \in {"writing", "reading"}
      PROVE  \E k \in DOMAIN jobs' : Mine(jobs[k])'
  <2>1. PICK k \in DOMAIN jobs : Mine(jobs[k])
    BY <1>3 DEF Attended, Working
  <2>2. jobs' = [jobs EXCEPT ![i] = [jobs[i] EXCEPT !.started = TRUE]]
    BY DEF Start
  <2>3. k \in DOMAIN jobs' /\ jobs'[k] = IF k = i THEN [jobs[k] EXCEPT !.started = TRUE] ELSE jobs[k]
    BY <2>2
  <2>4. jobs[k] \in LineJob
    BY <2>1, JobTypes DEF IInv, Mine, OnLine
  <2>5. /\ jobs'[k].op = jobs[k].op /\ jobs'[k].kind = jobs[k].kind
        /\ jobs'[k].no = jobs[k].no /\ jobs'[k].owner = jobs[k].owner
    BY <2>3, <2>4 DEF LineJob
  <2>6. Mine(jobs[k])'
    BY <1>1, <2>1, <2>5 DEF Mine, callVars, lockVars
  <2> QED
    BY <2>3, <2>6
<1>4. Working'
  BY <1>1, <1>3 DEF Working, callVars, lockVars
<1> QED
  BY <1>2, <1>4 DEF Attended

\* A job on the line that ends was the owner's, who then has its answer or
\* an error, or nobody's.
LEMMA LineAttends ==
    ASSUME IInv, Attended, NEW i \in DOMAIN jobs,
           FinishWrite(i) \/ FinishRead(i) \/ ReadTimeout(i) \/ PortFails(i)
    PROVE  Attended'
<1> DEFINE j == jobs[i]
<1>1. OnLine(j) /\ jobs' = RemoveAt(jobs, i) /\ UNCHANGED <<no, kind, waiters>>
  BY DEF FinishWrite, FinishRead, ReadTimeout, PortFails, OnLine, lockVars
<1>2. j.owner \in Task /\ pc \in [Task -> {"idle", "waiting", "writing", "written", "reading", "answered"}]
  BY <1>1, JobTypes DEF IInv, LineJob, TypeOK
<1>3. /\ Mine(j) => j.owner = lock /\ pc[lock] \in {"writing", "reading"}
      /\ (pc[j.owner] \in {"writing", "reading"} /\ no[j.owner] = j.no) => Mine(j)
  <2>1. ASSUME pc[j.owner] \in {"writing", "reading"}, no[j.owner] = j.no PROVE Mine(j)
    <3>1. j.owner = lock /\ lock # None
      BY <1>2, <2>1, NoneNotTask DEF IInv, Holder, Inside
    <3>2. Job(j)
      BY <1>1 DEF IInv, Jobs
    <3> QED
      BY <2>1, <3>1, <3>2 DEF Job
  <2> QED
    BY <2>1 DEF Mine
<1>4. \/ UNCHANGED <<pc, lock>>
      \/ /\ pc[j.owner] \in {"writing", "reading"}
         /\ \E to \in {"idle", "written", "answered"} : pc' = [pc EXCEPT ![j.owner] = to]
  BY DEF FinishWrite, FinishRead, ReadTimeout, PortFails, Resolve, lockVars
<1>5. \/ UNCHANGED <<pc, lock>> /\ ~Mine(j)
      \/ lock' = None
      \/ lock' = j.owner /\ pc'[j.owner] \in {"written", "answered"}
  <2>1. CASE FinishWrite(i)
    BY <1>2, <1>3, <2>1 DEF FinishWrite, Resolve, lockVars, Mine
  <2>2. CASE FinishRead(i)
    BY <1>2, <1>3, <2>2 DEF FinishRead, Resolve, lockVars, Mine
  <2>3. CASE ReadTimeout(i)
    BY <1>2, <1>3, <2>3 DEF ReadTimeout, Resolve, lockVars, Mine
  <2>4. CASE PortFails(i)
    BY <1>2, <1>3, <2>4 DEF PortFails, Mine
  <2> QED
    BY <2>1, <2>2, <2>3, <2>4
<1> HIDE DEF j
<1>6. \A t \in Task : pc'[t] = "waiting" => pc[t] = "waiting"
  BY <1>2, <1>4
<1>7. Waiting'
  BY <1>1, <1>6, WaitingStays DEF Attended
<1>8. Working'
  <2>1. CASE UNCHANGED <<pc, lock>> /\ ~Mine(j)
    <3>1. \A k \in DOMAIN jobs \ {i} : \E m \in DOMAIN jobs' : jobs'[m] = jobs[k]
      BY <1>1, RemovedKept DEF IInv, TypeOK, JobSet
    <3> QED
      BY <1>1, <2>1, <3>1, WorkingStays DEF Attended, j
  <2>2. CASE lock' = None \/ (lock' = j.owner /\ pc'[j.owner] \in {"written", "answered"})
    BY <2>2, NothingWaited
  <2> QED
    BY <1>5, <2>1, <2>2
<1> QED
  BY <1>7, <1>8 DEF Attended

\* Callers other than t keep their places in the queue for the lock.
LEMMA OthersWait ==
    ASSUME Waiting, NEW t \in Task, pc'[t] # "waiting",
           \A u \in Task \ {t} : pc'[u] = pc[u],
           \A i \in DOMAIN waiters : waiters[i] # t => \E k \in DOMAIN waiters' : waiters'[k] = waiters[i]
    PROVE  Waiting'
BY DEF Waiting

LEMMA CallerAttends ==
    ASSUME IInv, Attended, NEW t \in Task,
           \/ \E k \in Kind : Call(t, k)
           \/ Proceed(t) \/ CancelWaiting(t) \/ CancelHolding(t)
    PROVE  Attended'
<1>1. /\ waiters \in Seq(Task) /\ lock \in Task \cup {None}
      /\ pc \in [Task -> {"idle", "waiting", "writing", "written", "reading", "answered"}]
      /\ no \in [Task -> CallNo] /\ kind \in [Task -> Kind] /\ jobs \in Seq(JobSet)
  BY DEF IInv, TypeOK, JobSet
<1>2. /\ \A u \in Task : pc[u] \in Inside <=> u = lock
      /\ \A i \in DOMAIN waiters : pc[waiters[i]] = "waiting"
  BY DEF IInv, Holder, Queue
<1>3. ASSUME NEW k \in Kind, Call(t, k) PROVE Attended'
  <2>1. /\ pc[t] = "idle" /\ pc' = [pc EXCEPT ![t] = "waiting"] /\ waiters' = Append(waiters, t)
        /\ no' = [no EXCEPT ![t] = calls + 1] /\ kind' = [kind EXCEPT ![t] = k]
        /\ lock' = lock /\ jobs' = jobs
    BY <1>3 DEF Call
  <2>2. /\ DOMAIN waiters' = 1..(Len(waiters) + 1) /\ DOMAIN waiters = 1..Len(waiters)
        /\ Len(waiters) \in Nat
        /\ \A i \in 1..Len(waiters) : waiters'[i] = waiters[i]
        /\ waiters'[Len(waiters) + 1] = t
    BY <1>1, <2>1, Appended
  <2>3. ASSUME NEW u \in Task, pc'[u] = "waiting" PROVE \E i \in DOMAIN waiters' : waiters'[i] = u
    <3>1. CASE u = t
      BY <2>2, <3>1
    <3>2. CASE u # t
      <4>1. PICK i \in DOMAIN waiters : waiters[i] = u
        BY <1>1, <2>1, <2>3, <3>2 DEF Attended, Waiting
      <4> QED
        BY <2>2, <4>1
    <3> QED
      BY <3>1, <3>2
  <2>4. Working'
    <3>1. lock # t
      BY <1>2, <2>1 DEF Inside
    <3>2. lock # None => pc'[lock] = pc[lock] /\ no'[lock] = no[lock] /\ kind'[lock] = kind[lock]
      BY <1>1, <2>1, <3>1
    <3>3. \A i \in DOMAIN jobs : Mine(jobs[i]) => Mine(jobs[i])'
      BY <2>1, <3>2 DEF Mine
    <3> QED
      BY <2>1, <3>2, <3>3 DEF Attended, Working
  <2> QED
    BY <2>3, <2>4 DEF Attended, Waiting
<1>4. ASSUME Acquire(t) \/ SkipQuery(t) PROVE Attended'
  <2>1. /\ waiters # <<>> /\ Head(waiters) = t /\ lock = None /\ waiters' = Tail(waiters)
        /\ UNCHANGED <<no, kind>>
        /\ \E to \in {"writing", "idle"} : pc' = [pc EXCEPT ![t] = to]
    BY <1>4 DEF Acquire, SkipQuery, MayAcquire
  <2>2. /\ DOMAIN waiters = 1..Len(waiters) /\ Len(waiters) \in Nat /\ waiters[1] = t
        /\ DOMAIN waiters' = 1..(Len(waiters) - 1)
        /\ \A k \in 1..(Len(waiters) - 1) : waiters'[k] = waiters[k + 1]
    BY <1>1, <2>1, Behead
  <2>3. ASSUME NEW i \in DOMAIN waiters, waiters[i] # t
        PROVE  \E k \in DOMAIN waiters' : waiters'[k] = waiters[i]
    <3>1. i - 1 \in DOMAIN waiters' /\ waiters'[i - 1] = waiters[i]
      BY <2>2, <2>3
    <3> QED
      BY <3>1
  <2>4. Waiting'
    BY <1>1, <2>1, <2>3, OthersWait DEF Attended
  <2>5. CASE Acquire(t)
    <3>1. /\ lock' = t /\ pc'[t] = "writing" /\ jobs' = Append(jobs, NewJob("write", t))
      BY <1>1, <2>5 DEF Acquire
    <3>2. PICK p \in DOMAIN jobs' : jobs'[p] = NewJob("write", t)
      BY <3>1, NewJobs
    <3>3. Mine(jobs[p])'
      BY <2>1, <3>1, <3>2, NoneNotTask DEF Mine, NewJob
    <3> QED
      BY <2>4, <3>3 DEF Attended, Working
  <2>6. CASE SkipQuery(t)
    BY <2>1, <2>4, <2>6, NothingWaited DEF Attended, SkipQuery
  <2> QED
    BY <1>4, <2>5, <2>6
<1>5. ASSUME Return(t) \/ ReturnReply(t) \/ CancelHolding(t) PROVE Attended'
  <2>1. /\ pc' = [pc EXCEPT ![t] = "idle"] /\ lock' = None /\ waiters' = waiters
    BY <1>5 DEF Return, ReturnReply, CancelHolding, LockAfterCancel
  <2> QED
    BY <1>1, <2>1, WaitingStays, NothingWaited DEF Attended
<1>6. ASSUME AwaitReply(t) PROVE Attended'
  <2>1. /\ pc[t] = "written" /\ pc' = [pc EXCEPT ![t] = "reading"]
        /\ jobs' = Append(jobs, NewJob("read", t)) /\ UNCHANGED <<no, kind, lock, waiters>>
    BY <1>6 DEF AwaitReply, lockVars
  <2>2. lock = t /\ lock # None
    BY <1>2, <2>1, NoneNotTask DEF Inside
  <2>3. PICK p \in DOMAIN jobs' : jobs'[p] = NewJob("read", t)
    BY <2>1, NewJobs
  <2>4. Mine(jobs[p])'
    BY <1>1, <2>1, <2>2, <2>3 DEF Mine, NewJob
  <2> QED
    BY <1>1, <2>1, <2>4, WaitingStays DEF Attended, Working
<1>7. ASSUME CancelWaiting(t) PROVE Attended'
  <2>1. PICK i \in DOMAIN waiters : waiters[i] = t /\ waiters' = RemoveAt(waiters, i)
    BY <1>7 DEF CancelWaiting
  <2>2. /\ pc[t] = "waiting" /\ pc' = [pc EXCEPT ![t] = "idle"]
        /\ UNCHANGED <<no, kind, lock, jobs>>
    BY <1>7 DEF CancelWaiting
  <2>3. /\ DOMAIN waiters = 1..Len(waiters) /\ Len(waiters) \in Nat
        /\ DOMAIN waiters' = 1..(Len(waiters) - 1)
        /\ \A k \in 1..(Len(waiters) - 1) :
              waiters'[k] = IF k < i THEN waiters[k] ELSE waiters[k + 1]
    BY <1>1, <2>1, Removed
  <2>4. ASSUME NEW k \in DOMAIN waiters, waiters[k] # t
        PROVE  \E m \in DOMAIN waiters' : waiters'[m] = waiters[k]
    <3>1. CASE k < i
      <4>1. k \in DOMAIN waiters' /\ waiters'[k] = waiters[k]
        BY <2>3, <3>1
      <4> QED
        BY <4>1
    <3>2. CASE k > i
      <4>1. k - 1 \in DOMAIN waiters' /\ waiters'[k - 1] = waiters[k]
        BY <2>3, <3>2
      <4> QED
        BY <4>1
    <3> QED
      BY <2>1, <2>3, <2>4, <3>1, <3>2
  <2>5. Waiting'
    BY <1>1, <2>2, <2>4, OthersWait DEF Attended
  <2>6. Working'
    <3>1. lock # t
      BY <1>2, <2>2 DEF Inside
    <3>2. lock # None => pc'[lock] = pc[lock]
      BY <1>1, <2>2, <3>1
    <3>3. \A k \in DOMAIN jobs : Mine(jobs[k]) => Mine(jobs[k])'
      BY <2>2, <3>2 DEF Mine
    <3> QED
      BY <2>2, <3>2, <3>3 DEF Attended, Working
  <2> QED
    BY <2>5, <2>6 DEF Attended
<1> QED
  BY <1>3, <1>4, <1>5, <1>6, <1>7 DEF Proceed

LEMMA AttendedStep == IInv /\ Attended /\ [Next]_vars => Attended'
<1> SUFFICES ASSUME IInv, Attended, [Next]_vars PROVE Attended'
  OBVIOUS
<1>1. ASSUME UNCHANGED <<callVars, lockVars, jobs>> PROVE Attended'
  BY <1>1, WaitingStays, WorkingStays DEF Attended, callVars, lockVars
<1>2. CASE Answer \/ Finished \/ UNCHANGED vars
  BY <1>1, <1>2 DEF Answer, Finished, vars
<1>3. CASE Work
  BY <1>3, LinkAttends, StartAttends, LineAttends DEF Work
<1>4. CASE \/ \E t \in Task, k \in Kind : Call(t, k)
           \/ \E t \in Task : Proceed(t) \/ CancelWaiting(t) \/ CancelHolding(t)
  BY <1>4, CallerAttends
<1>5. CASE Connect \/ CancelConnect \/ GiveUp \/ Disconnect
  BY <1>5, LinkAttends
<1> QED
  BY <1>2, <1>3, <1>4, <1>5 DEF Next

(* Whoever is in a call has somebody to wait for: the lock is free for the *)
(* first in its queue, or its owner can go on, or the worker has the job   *)
(* the owner waits for.                                                    *)
NobodyStranded ==
    (\E t \in Task : pc[t] # "idle") =>
        \/ lock = None /\ waiters # <<>>
        \/ lock # None /\ pc[lock] \in {"written", "answered"}
        \/ lock # None /\ \E i \in DOMAIN jobs : Mine(jobs[i])

(* No cancellation, failure or timeout leaves the lock with a caller that  *)
(* waits for nothing, or a caller outside its queue: what CallsEnd owes to *)
(* the code, the rest being fairness of the worker and the chassis.        *)
THEOREM LockNeverLost == Spec => []NobodyStranded
<1>1. Init => Attended
  BY NoneNotTask DEF Init, Attended, Waiting, Working
<1>2. IInv /\ Attended => NobodyStranded
  <2> SUFFICES ASSUME IInv, Attended, NEW t \in Task, pc[t] # "idle"
               PROVE  \/ lock = None /\ waiters # <<>>
                      \/ lock # None /\ pc[lock] \in {"written", "answered"}
                      \/ lock # None /\ \E i \in DOMAIN jobs : Mine(jobs[i])
    BY DEF NobodyStranded
  <2>1. CASE lock = None
    <3>1. pc[t] = "waiting"
      BY <2>1, NoneNotTask DEF IInv, TypeOK, Holder, Inside
    <3>2. waiters # <<>>
      BY <3>1 DEF Attended, Waiting
    <3> QED
      BY <2>1, <3>2
  <2>2. CASE lock # None
    <3>1. pc[lock] \in Inside
      BY <2>2 DEF IInv, TypeOK, Holder
    <3> QED
      BY <2>2, <3>1 DEF Attended, Working, Inside
  <2> QED
    BY <2>1, <2>2
<1> QED
  BY <1>1, <1>2, AttendedStep, Inductive, PTL DEF Spec
=============================================================================
