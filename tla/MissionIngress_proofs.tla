------------------------ MODULE MissionIngress_proofs ------------------------
(***************************************************************************)
(* What MissionIngress keeps for any keys, window and number of requests.  *)
(***************************************************************************)
EXTENDS MissionIngress, SequenceTheorems, TLAPS

Led(r) == requests[r].leader = r

\* A request that runs holds the slot of its key, and a slot is held by one.
SlotsHeld ==
    /\ \A k \in Key : inflight[k] # 0 =>
          requests[inflight[k]].phase = "leading" /\ requests[inflight[k]].key = k
    /\ \A r \in DOMAIN requests :
          requests[r].phase = "leading" /\ requests[r].key \in Key
             => inflight[requests[r].key] = r

Shape ==
    \A r \in DOMAIN requests :
        /\ requests[r].at <= now
        /\ requests[r].phase = "leading" => Led(r)
        /\ requests[r].phase = "following" => ~Led(r)
        /\ requests[r].sent => Led(r) /\ requests[r].phase = "done"

\* A key remembers one of its own accepted requests, and every accepted
\* request whose window is open is remembered.
Remembered ==
    /\ \A k \in Key : dedup[k] # 0 =>
          requests[dedup[k]].sent /\ requests[dedup[k]].key = k
    /\ \A r \in DOMAIN requests :
          requests[r].sent /\ requests[r].key \in Key /\ Alive(r)
             => dedup[requests[r].key] = r

IInv == TypeOK /\ SlotsHeld /\ Shape /\ Remembered /\ OncePerKey

\* The future of a leader says how its dispatch went, and whoever was answered
\* by it agrees.
Answered(r) ==
    LET x == requests[r]  l == requests[x.leader]
    IN /\ x.future # "none" <=> Led(r) /\ x.key \in Key
       /\ x.phase = "leading" => x.future \in {"none", "pending", "cancelled"}
       /\ x.phase = "done" => x.future # "pending"
       /\ x.future \in {"failed", "cancelled"} => stopping
       /\ x.future = "set" => x.phase = "done" /\ (x.answer = "accepted" <=> x.sent)
       /\ ~Led(r) => x.key \in Key /\ l.key = x.key /\ l.leader = x.leader
       /\ x.phase = "following" => x.waited
       /\ ~x.waited /\ ~Led(r) => x.phase = "done" /\ x.answer = "accepted"
       /\ x.phase = "done" /\ x.waited /\ ~stopping => l.phase = "done"
       /\ x.phase = "done" => /\ x.answer = "accepted" =>
                                   /\ l.sent /\ l.key = x.key
                                   /\ ~x.waited => x.at < l.at + Window
                              /\ x.answer # "accepted" /\ ~stopping => ~l.sent

Answers == \A r \in DOMAIN requests : Answered(r)

LEMMA InitEstablishes == Init => IInv
<1> SUFFICES ASSUME Init PROVE IInv
  OBVIOUS
<1>1. requests = <<>> /\ requests \in Seq(Request) /\ Len(requests) = 0
      /\ DOMAIN requests = {}
  BY DEF Init
<1>2. TypeOK
  <2>1. dedup \in [Key -> {0} \cup DOMAIN requests]
        /\ inflight \in [Key -> {0} \cup DOMAIN requests]
    BY DEF Init
  <2>2. now = 0 /\ stopping = FALSE
    BY DEF Init
  <2>3. now \in 0 .. MaxTime /\ Len(requests) <= MaxRequests
    BY <1>1, <2>2, IngressAssumption
  <2> QED
    BY <1>1, <2>1, <2>2, <2>3 DEF TypeOK
<1>3. SlotsHeld /\ Shape /\ Remembered /\ OncePerKey
  BY <1>1 DEF Init, SlotsHeld, Shape, Remembered, OncePerKey
<1> QED
  BY <1>2, <1>3 DEF IInv

\* A new request leaves the others where they are.
LEMMA Appended ==
    ASSUME requests \in Seq(Request), NEW e \in Request,
           requests' = Append(requests, e)
    PROVE  /\ DOMAIN requests = 1 .. Len(requests) /\ Len(requests) \in Nat
           /\ requests' \in Seq(Request) /\ Len(requests') = Len(requests) + 1
           /\ DOMAIN requests' = 1 .. Len(requests) + 1
           /\ \A i \in DOMAIN requests : requests'[i] = requests[i]
           /\ requests'[Len(requests) + 1] = e
  OBVIOUS

\* What the three ways a request can arrive have in common: one that leads on a
\* key found neither a running dispatch nor an open window.
LEMMA ArrivalKeeps ==
    ASSUME IInv, NEW k \in Key \cup {None}, Arrives(k), NEW e \in Request,
           requests' = Append(requests, e), UNCHANGED <<now, stopping>>,
           e.key = k, e.at = now, e.sent = FALSE,
           e.leader \in 1 .. Len(requests) + 1,
           e.phase = "leading" => e.leader = Len(requests) + 1,
           e.phase = "following" => e.leader # Len(requests) + 1,
           \/ e.phase # "leading" /\ e.leader # Len(requests) + 1 /\ inflight' = inflight
           \/ k = None /\ inflight' = inflight
           \/ /\ e.phase = "leading" /\ k \in Key
              /\ Pruned[k] = 0 /\ inflight[k] = 0
              /\ inflight' = [inflight EXCEPT ![k] = Len(requests) + 1]
    PROVE  IInv'
<1> DEFINE n == Len(requests) + 1
<1>1. /\ DOMAIN requests = 1 .. Len(requests) /\ Len(requests) \in Nat
      /\ requests' \in Seq(Request) /\ Len(requests') = n
      /\ DOMAIN requests' = 1 .. n
      /\ \A i \in DOMAIN requests : requests'[i] = requests[i]
      /\ requests'[n] = e
  BY Appended DEF IInv, TypeOK
<1>2. Pruned \in [Key -> {0} \cup DOMAIN requests] /\ dedup' = Pruned
      /\ n <= MaxRequests
  BY <1>1, IngressAssumption DEF Pruned, IInv, TypeOK, Arrives
<1>3. now \in Nat /\ Window \in Nat /\ None \notin Key
      /\ \A i \in DOMAIN requests : requests[i] \in Request
  BY <1>1, IngressAssumption DEF IInv, TypeOK
<1>4. n = Len(requests) + 1 /\ n \notin DOMAIN requests /\ n # 0
  BY <1>1
<1>4a. inflight \in [Key -> {0} \cup DOMAIN requests]
  BY DEF IInv, TypeOK
<1> HIDE DEF n
<1>5. TypeOK'
  <2>1. \A r \in DOMAIN requests' : requests'[r].leader \in DOMAIN requests'
    BY <1>1, <1>4 DEF IInv, TypeOK
  <2>2. inflight' \in [Key -> {0} \cup DOMAIN requests']
    BY <1>1, <1>4, <1>4a
  <2>3. dedup' \in [Key -> {0} \cup DOMAIN requests']
    BY <1>1, <1>2, <1>4
  <2> QED
    BY <2>1, <2>2, <2>3, <1>1, <1>2 DEF IInv, TypeOK
<1>6. SlotsHeld'
  <2>1. \A j \in Key : inflight'[j] # 0 =>
          requests'[inflight'[j]].phase = "leading" /\ requests'[inflight'[j]].key = j
    BY <1>1, <1>4, <1>4a DEF IInv, SlotsHeld
  <2>2. \A r \in DOMAIN requests' :
          requests'[r].phase = "leading" /\ requests'[r].key \in Key
             => inflight'[requests'[r].key] = r
    <3> SUFFICES ASSUME NEW r \in DOMAIN requests',
                        requests'[r].phase = "leading", requests'[r].key \in Key
                 PROVE  inflight'[requests'[r].key] = r
      OBVIOUS
    <3>1. CASE r = n
      BY <3>1, <1>1, <1>3, <1>4, <1>4a
    <3>2. CASE r # n
      <4>1. r \in DOMAIN requests /\ inflight[requests[r].key] = r /\ r # 0
            /\ requests'[r] = requests[r]
        BY <3>2, <1>1, <1>4 DEF IInv, SlotsHeld
      <4> QED
        BY <4>1, <1>4a
    <3> QED
      BY <3>1, <3>2
  <2> QED
    BY <2>1, <2>2 DEF SlotsHeld
<1>7. Shape'
  BY <1>1, <1>3, <1>4 DEF IInv, TypeOK, Shape, Led, Request
<1>8. Remembered'
  <2>1. \A j \in Key : Pruned[j] # 0 => Pruned[j] = dedup[j]
    BY DEF Pruned
  <2>2. \A j \in Key : dedup'[j] # 0 =>
          requests'[dedup'[j]].sent /\ requests'[dedup'[j]].key = j
    BY <2>1, <1>1, <1>2 DEF IInv, Remembered
  <2>3. \A r \in DOMAIN requests' :
          requests'[r].sent /\ requests'[r].key \in Key /\ Alive(r)'
             => dedup'[requests'[r].key] = r
    <3> SUFFICES ASSUME NEW r \in DOMAIN requests', requests'[r].sent,
                        requests'[r].key \in Key, Alive(r)'
                 PROVE  dedup'[requests'[r].key] = r
      OBVIOUS
    <3>1. r \in DOMAIN requests /\ requests'[r] = requests[r]
      BY <1>1, <1>4
    <3>2. Alive(r)
      BY <3>1 DEF Alive
    <3>3. dedup[requests[r].key] = r
      BY <3>1, <3>2 DEF IInv, Remembered
    <3>4. r # 0
      BY <3>1, <1>1
    <3>5. Pruned[requests[r].key] = r
      BY <3>1, <3>2, <3>3, <3>4 DEF Pruned
    <3> QED
      BY <3>1, <3>5, <1>2
  <2> QED
    BY <2>2, <2>3 DEF Remembered
<1>9. OncePerKey'
  <2> SUFFICES ASSUME NEW a \in DOMAIN requests', NEW b \in DOMAIN requests',
                      a < b, requests'[a].key = requests'[b].key,
                      requests'[a].key \in Key,
                      requests'[a].leader = a, requests'[b].leader = b
               PROVE  /\ requests'[a].phase = "done"
                      /\ requests'[a].sent => requests'[b].at >= requests'[a].at + Window
    BY <1>1 DEF OncePerKey
  <2>1. a \in DOMAIN requests /\ requests'[a] = requests[a] /\ a # 0
    BY <1>1, <1>4
  <2>2. CASE b \in DOMAIN requests
    BY <2>1, <2>2, <1>1 DEF IInv, OncePerKey
  <2>3. CASE b = n
    <3>1. e.leader = n /\ k \in Key /\ requests[a].key = k /\ Pruned[k] = 0 /\ inflight[k] = 0
      BY <2>1, <2>3, <1>1, <1>3, <1>4
    <3>2. requests[a].phase \notin {"leading", "following"}
      BY <3>1, <2>1 DEF IInv, SlotsHeld, Shape, Led
    <3>3. requests[a].phase = "done"
      BY <3>2, <2>1, <1>3 DEF Request, Phase
    <3>4. requests[a].sent => ~Alive(a)
      BY <3>1, <2>1 DEF IInv, Remembered, Pruned
    <3>5. requests[a].at \in Nat
      BY <2>1, <1>3 DEF Request
    <3> QED
      BY <3>3, <3>4, <3>5, <2>1, <2>3, <1>1, <1>3 DEF Alive
  <2> QED
    BY <2>2, <2>3, <1>1, <1>4
<1> QED
  BY <1>5, <1>6, <1>7, <1>8, <1>9 DEF IInv

\* What the returns of a leader and the ends of a follower have in common: only
\* the request `r' and, of the others, the futures change; a leader that ends
\* gives its slot back and is remembered when the robot got its command.
LEMMA EndKeeps ==
    ASSUME IInv, NEW r \in DOMAIN requests, requests[r].phase # "done",
           NEW reqs \in [DOMAIN requests -> Request], requests' = reqs,
           UNCHANGED now, stopping' \in BOOLEAN,
           \A i \in DOMAIN requests :
              reqs[i].key = requests[i].key /\ reqs[i].at = requests[i].at
              /\ reqs[i].leader = requests[i].leader,
           \A i \in DOMAIN requests \ {r} :
              reqs[i].phase = requests[i].phase /\ reqs[i].sent = requests[i].sent,
           reqs[r].phase = "done",
           reqs[r].sent => requests[r].phase = "leading",
           inflight' = IF requests[r].phase = "leading"
                       THEN Popped(requests[r].key) ELSE inflight,
           dedup' = IF requests[r].key \in Key /\ reqs[r].sent
                    THEN [dedup EXCEPT ![requests[r].key] = r] ELSE dedup
    PROVE  IInv'
<1>1. /\ DOMAIN requests = 1 .. Len(requests) /\ Len(requests) \in Nat
      /\ DOMAIN reqs = DOMAIN requests
  BY DEF IInv, TypeOK
<1>2. reqs \in Seq(Request) /\ Len(reqs) = Len(requests)
  <2>1. reqs \in [1 .. Len(requests) -> Request]
    BY <1>1
  <2> QED
    BY <2>1, <1>1
<1>3. now \in Nat /\ Window \in Nat /\ None \notin Key
      /\ \A i \in DOMAIN requests : requests[i] \in Request
  BY <1>1, IngressAssumption DEF IInv, TypeOK
<1>4. /\ dedup \in [Key -> {0} \cup DOMAIN requests]
      /\ inflight \in [Key -> {0} \cup DOMAIN requests]
      /\ r # 0
  BY <1>1 DEF IInv, TypeOK
<1>5. TypeOK'
  <2>1. dedup' \in [Key -> {0} \cup DOMAIN requests]
        /\ inflight' \in [Key -> {0} \cup DOMAIN requests]
    BY <1>4 DEF Popped
  <2>2. \A i \in DOMAIN requests : requests'[i].leader \in DOMAIN requests
    BY DEF IInv, TypeOK
  <2> QED
    BY <2>1, <2>2, <1>1, <1>2 DEF IInv, TypeOK
<1>6. SlotsHeld'
  <2>1. \A j \in Key : inflight'[j] # 0 =>
          requests'[inflight'[j]].phase = "leading" /\ requests'[inflight'[j]].key = j
    <3> SUFFICES ASSUME NEW j \in Key, inflight'[j] # 0
                 PROVE  requests'[inflight'[j]].phase = "leading"
                        /\ requests'[inflight'[j]].key = j
      OBVIOUS
    <3>1. inflight'[j] = inflight[j] /\ inflight[j] \in DOMAIN requests
      BY <1>4 DEF Popped
    <3>2. requests[inflight[j]].phase = "leading" /\ requests[inflight[j]].key = j
      BY <3>1 DEF IInv, SlotsHeld
    <3>3. inflight[j] # r
      BY <3>1, <3>2, <1>4 DEF Popped
    <3> QED
      BY <3>1, <3>2, <3>3
  <2>2. \A i \in DOMAIN requests' :
          requests'[i].phase = "leading" /\ requests'[i].key \in Key
             => inflight'[requests'[i].key] = i
    <3> SUFFICES ASSUME NEW i \in DOMAIN requests,
                        reqs[i].phase = "leading", reqs[i].key \in Key
                 PROVE  inflight'[reqs[i].key] = i
      BY <1>1
    <3>1. i # r /\ requests[i].phase = "leading" /\ inflight[requests[i].key] = i
      BY DEF IInv, SlotsHeld
    <3>2. requests[r].phase = "leading" /\ requests[r].key \in Key
             => requests[r].key # requests[i].key
      BY <3>1 DEF IInv, SlotsHeld
    <3> QED
      BY <3>1, <3>2, <1>4 DEF Popped
  <2> QED
    BY <2>1, <2>2 DEF SlotsHeld
<1>7. Shape'
  <2> SUFFICES ASSUME NEW i \in DOMAIN requests
               PROVE  /\ reqs[i].at <= now
                      /\ reqs[i].phase = "leading" => reqs[i].leader = i
                      /\ reqs[i].phase = "following" => reqs[i].leader # i
                      /\ reqs[i].sent => reqs[i].leader = i /\ reqs[i].phase = "done"
    BY <1>1 DEF Shape, Led
  <2> QED
    BY DEF IInv, Shape, Led
<1>8. Remembered'
  <2>1. \A j \in Key : dedup'[j] # 0 =>
          requests'[dedup'[j]].sent /\ requests'[dedup'[j]].key = j
    <3> SUFFICES ASSUME NEW j \in Key, dedup'[j] # 0
                 PROVE  reqs[dedup'[j]].sent /\ reqs[dedup'[j]].key = j
      OBVIOUS
    <3>1. CASE requests[r].key = j /\ reqs[r].sent
      BY <3>1, <1>4
    <3>2. CASE ~(requests[r].key = j /\ reqs[r].sent)
      <4>1. dedup'[j] = dedup[j] /\ dedup[j] \in DOMAIN requests
        BY <3>2, <1>4
      <4>2. requests[dedup[j]].sent /\ requests[dedup[j]].key = j
        BY <4>1 DEF IInv, Remembered
      <4>3. dedup[j] # r
        BY <4>1, <4>2 DEF IInv, Shape
      <4> QED
        BY <4>1, <4>2, <4>3
    <3> QED
      BY <3>1, <3>2
  <2>2. \A i \in DOMAIN requests' :
          requests'[i].sent /\ requests'[i].key \in Key /\ Alive(i)'
             => dedup'[requests'[i].key] = i
    <3> SUFFICES ASSUME NEW i \in DOMAIN requests, reqs[i].sent,
                        reqs[i].key \in Key, reqs[i].at + Window > now
                 PROVE  dedup'[reqs[i].key] = i
      BY <1>1 DEF Alive
    <3>1. CASE i = r
      BY <3>1, <1>4
    <3>2. CASE i # r
      <4>1. requests[i].sent /\ Alive(i) /\ dedup[requests[i].key] = i
        BY <3>2 DEF IInv, Remembered, Alive
      <4>2. requests[i].phase = "done" /\ requests[i].leader = i
        BY <4>1 DEF IInv, Shape, Led
      <4>3. ~(requests[r].key = requests[i].key /\ reqs[r].sent)
        <5> SUFFICES ASSUME requests[r].key = requests[i].key, reqs[r].sent
                     PROVE  FALSE
          OBVIOUS
        <5>1. requests[r].phase = "leading" /\ requests[r].leader = r
          BY DEF IInv, Shape, Led
        <5>2. ~(r < i)
          BY <5>1, <4>2 DEF IInv, OncePerKey
        <5>3. i < r
          BY <5>2, <3>2, <1>1
        <5>4. requests[r].at >= requests[i].at + Window
          BY <5>1, <5>3, <4>1, <4>2 DEF IInv, OncePerKey
        <5>5. requests[r].at <= now /\ requests[r].at \in Nat /\ requests[i].at \in Nat
          BY <1>3 DEF IInv, Shape, Request
        <5> QED
          BY <5>4, <5>5, <4>1, <1>3 DEF Alive
      <4> QED
        BY <4>1, <4>3, <1>4
    <3> QED
      BY <3>1, <3>2
  <2> QED
    BY <2>1, <2>2 DEF Remembered
<1>9. OncePerKey'
  <2> SUFFICES ASSUME NEW a \in DOMAIN requests, NEW b \in DOMAIN requests,
                      a < b, requests[a].key = requests[b].key, requests[a].key \in Key,
                      requests[a].leader = a, requests[b].leader = b
               PROVE  /\ reqs[a].phase = "done"
                      /\ reqs[a].sent => reqs[b].at >= reqs[a].at + Window
    BY <1>1 DEF OncePerKey
  <2>1. requests[a].phase = "done"
        /\ (requests[a].sent => requests[b].at >= requests[a].at + Window)
    BY DEF IInv, OncePerKey
  <2>2. a # r
    BY <2>1
  <2> QED
    BY <2>1, <2>2
<1> QED
  BY <1>5, <1>6, <1>7, <1>8, <1>9 DEF IInv

-----------------------------------------------------------------------------
(* The actions.                                                            *)

LEMMA EntryType ==
    ASSUME IInv, NEW k \in Key \cup {None}, NEW phase \in Phase,
           NEW leader \in 1 .. Len(requests) + 1, NEW future \in Future,
           NEW answer \in Answer
    PROVE  /\ Entry(k, phase, leader, future, answer) \in Request
           /\ DOMAIN requests = 1 .. Len(requests) /\ Len(requests) \in Nat
<1>1. now \in Nat /\ Len(requests) \in Nat /\ DOMAIN requests = 1 .. Len(requests)
  BY IngressAssumption DEF IInv, TypeOK
<1> QED
  BY <1>1 DEF Entry, Request

LEMMA ReplayKeeps == ASSUME IInv, NEW k \in Key \cup {None}, Replay(k) PROVE IInv'
<1> DEFINE e == Entry(k, "done", Pruned[k], "none", "accepted")
<1>1. k \in Key /\ Pruned[k] \in DOMAIN requests
  BY DEF IInv, TypeOK, Replay, Pruned
<1>2. DOMAIN requests = 1 .. Len(requests) /\ Len(requests) \in Nat
  BY DEF IInv, TypeOK
<1>3. e \in Request
  BY <1>1, <1>2, EntryType DEF Phase, Future, Answer
<1>4. e.key = k /\ e.at = now /\ e.sent = FALSE /\ e.leader = Pruned[k] /\ e.phase = "done"
  BY DEF Entry
<1>5. /\ Arrives(k) /\ requests' = Append(requests, e)
      /\ UNCHANGED <<now, stopping>> /\ inflight' = inflight
  BY DEF Replay
<1> HIDE DEF e
<1>6. e.leader \in 1 .. Len(requests) + 1 /\ e.leader # Len(requests) + 1
      /\ e.phase # "leading" /\ e.phase # "following"
  BY <1>1, <1>2, <1>4
<1> QED
  BY <1>3, <1>4, <1>5, <1>6, ArrivalKeeps

LEMMA FollowKeeps == ASSUME IInv, NEW k \in Key \cup {None}, Follow(k) PROVE IInv'
<1> DEFINE e == Entry(k, "following", inflight[k], "none", "none")
<1>1. k \in Key /\ inflight[k] \in DOMAIN requests
  BY DEF IInv, TypeOK, Follow, Joins
<1>2. DOMAIN requests = 1 .. Len(requests) /\ Len(requests) \in Nat
  BY DEF IInv, TypeOK
<1>3. e \in Request
  BY <1>1, <1>2, EntryType DEF Phase, Future, Answer
<1>4. e.key = k /\ e.at = now /\ e.sent = FALSE /\ e.leader = inflight[k]
      /\ e.phase = "following"
  BY DEF Entry
<1>5. /\ Arrives(k) /\ requests' = Append(requests, e)
      /\ UNCHANGED <<now, stopping>> /\ inflight' = inflight
  BY DEF Follow
<1> HIDE DEF e
<1>6. e.leader \in 1 .. Len(requests) + 1 /\ e.leader # Len(requests) + 1
      /\ e.phase # "leading"
  BY <1>1, <1>2, <1>4
<1> QED
  BY <1>3, <1>4, <1>5, <1>6, ArrivalKeeps

LEMMA LeadKeeps == ASSUME IInv, NEW k \in Key \cup {None}, Lead(k) PROVE IInv'
<1> DEFINE n == Len(requests) + 1
           e == Entry(k, "leading", n, IF k \in Key THEN "pending" ELSE "none", "none")
<1>1. DOMAIN requests = 1 .. Len(requests) /\ Len(requests) \in Nat
  BY DEF IInv, TypeOK
<1>2. e \in Request
  BY <1>1, EntryType DEF Phase, Future, Answer
<1>3. e.key = k /\ e.at = now /\ e.sent = FALSE /\ e.leader = n /\ e.phase = "leading"
  BY DEF Entry
<1>4. /\ Arrives(k) /\ requests' = Append(requests, e)
      /\ UNCHANGED <<now, stopping>>
      /\ inflight' = IF k \in Key THEN [inflight EXCEPT ![k] = n] ELSE inflight
  BY DEF Lead
<1>5. k \in Key => Pruned[k] = 0 /\ inflight[k] = 0
  BY DEF Lead, Joins
<1>6. None \notin Key
  BY IngressAssumption
<1> HIDE DEF e
<1>7. e.leader \in 1 .. Len(requests) + 1 /\ e.leader = Len(requests) + 1
      /\ e.phase # "following"
  BY <1>1, <1>3
<1>8. CASE k \in Key
  <2>1. Pruned[k] = 0 /\ inflight[k] = 0
        /\ inflight' = [inflight EXCEPT ![k] = Len(requests) + 1]
    BY <1>4, <1>5, <1>8
  <2> QED
    BY <2>1, <1>2, <1>3, <1>4, <1>7, <1>8, ArrivalKeeps
<1>9. CASE k = None
  <2>1. inflight' = inflight
    BY <1>4, <1>6, <1>9
  <2> QED
    BY <2>1, <1>2, <1>3, <1>4, <1>7, <1>9, ArrivalKeeps
<1> QED
  BY <1>8, <1>9

LEMMA FinishKeeps == ASSUME IInv, NEW r \in DOMAIN requests, Finish(r) PROVE IInv'
<1>1. PICK status \in {"accepted", "refused"} : Dispatched(r, status)
  BY DEF Finish
<1> DEFINE x == requests[r]
           e == [x EXCEPT !.phase = "done", !.sent = (status = "accepted"),
                          !.answer = IF x.future = "cancelled" THEN "failed" ELSE status,
                          !.future = IF x.future = "pending" THEN "set" ELSE x.future]
           reqs == [requests EXCEPT ![r] = e]
<1>2. x \in Request /\ requests \in [DOMAIN requests -> Request]
  BY DEF IInv, TypeOK
<1>3. e \in Request /\ e.key = x.key /\ e.at = x.at /\ e.leader = x.leader
      /\ e.phase = "done" /\ e.sent = (status = "accepted")
  BY <1>2 DEF Request, Phase, Future, Answer
<1>4a. requests' = reqs
  BY <1>1, Zenon DEF Dispatched
<1>4b. x.phase = "leading" /\ UNCHANGED <<now, stopping>> /\ inflight' = Popped(x.key)
  BY <1>1 DEF Dispatched
<1>4c. dedup' = IF x.key \in Key /\ status = "accepted"
               THEN [dedup EXCEPT ![x.key] = r] ELSE dedup
  BY <1>1 DEF Dispatched, Kept
<1>4. x.phase = "leading" /\ requests' = reqs /\ UNCHANGED <<now, stopping>>
      /\ inflight' = Popped(x.key)
      /\ dedup' = IF x.key \in Key /\ status = "accepted"
                  THEN [dedup EXCEPT ![x.key] = r] ELSE dedup
  BY <1>4a, <1>4b, <1>4c
<1>5. stopping' \in BOOLEAN
  BY <1>4 DEF IInv, TypeOK
<1> HIDE DEF e
<1>6. /\ reqs \in [DOMAIN requests -> Request]
      /\ reqs[r] = e
      /\ \A i \in DOMAIN requests \ {r} : reqs[i] = requests[i]
  BY <1>2, <1>3
<1> HIDE DEF reqs
<1> QED
  BY <1>3, <1>4, <1>5, <1>6, EndKeeps

LEMMA CancelLeaderKeeps ==
    ASSUME IInv, NEW r \in DOMAIN requests, CancelLeader(r) PROVE IInv'
<1> DEFINE x == requests[r]
           e == [x EXCEPT !.phase = "done", !.answer = "cancelled",
                          !.future = Signalled(x.future)]
           reqs == [requests EXCEPT ![r] = e]
<1>2. x \in Request /\ requests \in [DOMAIN requests -> Request]
  BY DEF IInv, TypeOK
<1>3. e \in Request /\ e.key = x.key /\ e.at = x.at /\ e.leader = x.leader
      /\ e.phase = "done" /\ e.sent = x.sent
  BY <1>2 DEF Request, Phase, Future, Answer, Signalled
<1>4. x.phase = "leading" /\ requests' = reqs /\ UNCHANGED <<now, stopping>>
      /\ inflight' = Popped(x.key) /\ dedup' = dedup
  BY DEF CancelLeader
<1>5. stopping' \in BOOLEAN /\ ~x.sent
  BY <1>4 DEF IInv, TypeOK, Shape
<1> HIDE DEF e
<1>6. /\ reqs \in [DOMAIN requests -> Request]
      /\ reqs[r] = e
      /\ \A i \in DOMAIN requests \ {r} : reqs[i] = requests[i]
  BY <1>2, <1>3
<1> HIDE DEF reqs
<1> QED
  BY <1>3, <1>4, <1>5, <1>6, EndKeeps

LEMMA WakeKeeps == ASSUME IInv, Answers, NEW r \in DOMAIN requests, Wake(r) PROVE IInv'
<1> DEFINE x == requests[r]
           e == [x EXCEPT !.phase = "done", !.answer = FollowersAnswer(x.leader)]
           reqs == [requests EXCEPT ![r] = e]
<1>1. x \in Request /\ requests \in [DOMAIN requests -> Request]
      /\ requests[x.leader] \in Request
  BY DEF IInv, TypeOK
<1>2. x.phase = "following" /\ requests' = reqs
      /\ UNCHANGED <<now, dedup, inflight, stopping>>
      /\ requests[x.leader].future # "pending"
  BY DEF Wake
<1>3. requests[x.leader].future # "none" => FollowersAnswer(x.leader) \in Answer
  BY <1>1, <1>2 DEF FollowersAnswer, Request, Future, Answer
<1>4. requests[x.leader].future # "none"
  BY <1>2 DEF IInv, TypeOK, Shape, Answers, Answered, Led
<1>5. e \in Request /\ e.key = x.key /\ e.at = x.at /\ e.leader = x.leader
      /\ e.phase = "done" /\ e.sent = x.sent
  BY <1>1, <1>3, <1>4 DEF Request, Phase
<1>6. stopping' \in BOOLEAN /\ ~x.sent
  BY <1>2 DEF IInv, TypeOK, Shape
<1> HIDE DEF e
<1>7. /\ reqs \in [DOMAIN requests -> Request]
      /\ reqs[r] = e
      /\ \A i \in DOMAIN requests \ {r} : reqs[i] = requests[i]
  BY <1>1, <1>5
<1> HIDE DEF reqs
<1> QED
  BY <1>2, <1>5, <1>6, <1>7, EndKeeps

LEMMA CancelFollowerKeeps ==
    ASSUME IInv, NEW r \in DOMAIN requests, CancelFollower(r) PROVE IInv'
<1> DEFINE x == requests[r]
           e == [x EXCEPT !.phase = "done", !.answer = "cancelled"]
           m == [requests[x.leader] EXCEPT
                    !.future = Cancelled(requests[x.leader].future)]
           reqs == [requests EXCEPT ![r] = e, ![x.leader] = m]
<1>1. x \in Request /\ requests \in [DOMAIN requests -> Request]
      /\ x.leader \in DOMAIN requests /\ requests[x.leader] \in Request
  BY DEF IInv, TypeOK
<1>2. x.phase = "following" /\ x.leader # r /\ UNCHANGED <<now, dedup, inflight, stopping>>
  BY DEF CancelFollower, IInv, Shape, Led
<1>3. requests' = reqs
  BY <1>1, <1>2 DEF CancelFollower
<1>4. e \in Request /\ e.key = x.key /\ e.at = x.at /\ e.leader = x.leader
      /\ e.phase = "done" /\ e.sent = x.sent
  BY <1>1 DEF Request, Phase, Answer
<1>5. m \in Request /\ m.key = requests[x.leader].key /\ m.at = requests[x.leader].at
      /\ m.leader = requests[x.leader].leader /\ m.phase = requests[x.leader].phase
      /\ m.sent = requests[x.leader].sent
  BY <1>1 DEF Request, Future, Cancelled
<1>6. stopping' \in BOOLEAN /\ ~x.sent
  BY <1>2 DEF IInv, TypeOK, Shape
<1> HIDE DEF e, m
<1>7. /\ reqs \in [DOMAIN requests -> Request]
      /\ reqs[r] = e /\ reqs[x.leader] = m
      /\ \A i \in DOMAIN requests \ {r, x.leader} : reqs[i] = requests[i]
  BY <1>1, <1>2, <1>4, <1>5
<1> HIDE DEF reqs
<1> QED
  BY <1>2, <1>3, <1>4, <1>5, <1>6, <1>7, EndKeeps

\* The clock and the stop of the server change no request.
LEMMA IdleKeeps ==
    ASSUME IInv, UNCHANGED <<requests, dedup, inflight>>,
           now' \in 0 .. MaxTime, now' >= now, stopping' \in BOOLEAN
    PROVE  IInv'
<1>0. \A i \in DOMAIN requests : requests[i] \in Request
  BY DEF IInv, TypeOK
<1>1. now \in Nat /\ now' \in Nat /\ Window \in Nat
      /\ \A i \in DOMAIN requests : requests[i].at \in Nat
  BY <1>0, IngressAssumption DEF IInv, TypeOK, Request
<1>2. TypeOK' /\ SlotsHeld' /\ OncePerKey'
  BY DEF IInv, TypeOK, SlotsHeld, OncePerKey
<1>3. Shape'
  BY <1>1 DEF IInv, Shape, Led
<1>4. Remembered'
  BY <1>1 DEF IInv, Remembered, Alive
<1> QED
  BY <1>2, <1>3, <1>4 DEF IInv

LEMMA StepKeeps == IInv /\ Answers /\ [Next]_vars => IInv'
<1> SUFFICES ASSUME IInv, Answers, [Next]_vars PROVE IInv'
  OBVIOUS
<1>0. now \in 0 .. MaxTime /\ MaxTime \in Nat /\ stopping \in BOOLEAN
  BY IngressAssumption DEF IInv, TypeOK
<1>1. ASSUME NEW k \in Key \cup {None}, Replay(k) \/ Follow(k) \/ Lead(k) PROVE IInv'
  BY <1>1, ReplayKeeps, FollowKeeps, LeadKeeps
<1>2. ASSUME NEW r \in DOMAIN requests, Step(r) PROVE IInv'
  BY <1>2, FinishKeeps, WakeKeeps, CancelLeaderKeeps, CancelFollowerKeeps DEF Step
<1>3. CASE Tick
  BY <1>0, <1>3, IdleKeeps DEF Tick
<1>4. CASE Stop
  BY <1>0, <1>4, IdleKeeps DEF Stop
<1>5. CASE UNCHANGED vars
  BY <1>0, <1>5, IdleKeeps DEF vars
<1> QED
  BY <1>1, <1>2, <1>3, <1>4, <1>5 DEF Next

-----------------------------------------------------------------------------
(* The answers.                                                            *)

LEMMA InitAnswers == Init => Answers
BY DEF Init, Answers

LEMMA ArrivalAnswers ==
    ASSUME IInv, Answers, NEW e \in Request, requests' = Append(requests, e),
           stopping' = stopping, NEW n, n = Len(requests) + 1, Answered(n)'
    PROVE  Answers'
<1>1. /\ DOMAIN requests = 1 .. Len(requests) /\ Len(requests) \in Nat
      /\ DOMAIN requests' = 1 .. Len(requests) + 1
      /\ \A i \in DOMAIN requests : requests'[i] = requests[i]
  BY Appended DEF IInv, TypeOK
<1>2. ASSUME NEW r \in DOMAIN requests PROVE Answered(r)'
  <2>1. requests'[r] = requests[r] /\ requests[r].leader \in DOMAIN requests
        /\ requests'[requests[r].leader] = requests[requests[r].leader]
    BY <1>1 DEF IInv, TypeOK
  <2> QED
    BY <2>1 DEF Answers, Answered, Led
<1> QED
  BY <1>1, <1>2 DEF Answers

LEMMA ReplayAnswers ==
    ASSUME IInv, Answers, NEW k \in Key \cup {None}, Replay(k) PROVE Answers'
<1> PICK n : n = Len(requests) + 1
  OBVIOUS
<1> DEFINE l == Pruned[k]
           e == Entry(k, "done", l, "none", "accepted")
<1>1. k \in Key /\ l \in DOMAIN requests /\ l = dedup[k] /\ Alive(l)
  BY DEF IInv, TypeOK, Replay, Pruned
<1>2. DOMAIN requests = 1 .. Len(requests) /\ Len(requests) \in Nat
      /\ requests \in Seq(Request) /\ now \in Nat /\ Window \in Nat
      /\ requests[l] \in Request
  BY <1>1, IngressAssumption DEF IInv, TypeOK
<1>2a. requests[l].at \in Nat
  BY <1>2 DEF Request
<1>3. e \in Request
  BY <1>1, <1>2, EntryType DEF Phase, Future, Answer
<1>4. requests' = Append(requests, e) /\ stopping' = stopping
  BY DEF Replay
<1>5. requests[l].sent /\ requests[l].key = k /\ requests[l].leader = l
      /\ requests[l].phase = "done" /\ now < requests[l].at + Window
  BY <1>1, <1>2, <1>2a DEF IInv, Remembered, Shape, Led, Alive
<1>6. e.key = k /\ e.at = now /\ e.leader = l /\ e.phase = "done" /\ e.answer = "accepted"
      /\ e.future = "none" /\ e.waited = FALSE /\ e.sent = FALSE
  BY DEF Entry
<1> HIDE DEF e, l
<1>7. requests'[n] = e /\ requests'[l] = requests[l] /\ n # l
  BY <1>1, <1>2, <1>3, <1>4, Appended
<1>8. Answered(n)'
  BY <1>1, <1>5, <1>6, <1>7 DEF Answered, Led
<1> QED
  BY <1>3, <1>4, <1>8, ArrivalAnswers

LEMMA FollowAnswers ==
    ASSUME IInv, Answers, NEW k \in Key \cup {None}, Follow(k) PROVE Answers'
<1> PICK n : n = Len(requests) + 1
  OBVIOUS
<1> DEFINE l == inflight[k]
           e == Entry(k, "following", l, "none", "none")
<1>1. k \in Key /\ l \in DOMAIN requests /\ l # 0
  BY DEF IInv, TypeOK, Follow, Joins
<1>2. DOMAIN requests = 1 .. Len(requests) /\ Len(requests) \in Nat
      /\ requests \in Seq(Request)
  BY DEF IInv, TypeOK
<1>3. e \in Request
  BY <1>1, <1>2, EntryType DEF Phase, Future, Answer
<1>4. requests' = Append(requests, e) /\ stopping' = stopping
  BY DEF Follow
<1>5. requests[l].phase = "leading" /\ requests[l].key = k /\ requests[l].leader = l
  BY <1>1 DEF IInv, SlotsHeld, Shape, Led
<1>6. e.key = k /\ e.leader = l /\ e.phase = "following"
      /\ e.future = "none" /\ e.waited = TRUE
  BY DEF Entry
<1> HIDE DEF e, l
<1>7. requests'[n] = e /\ requests'[l] = requests[l] /\ n # l
  BY <1>1, <1>2, <1>3, <1>4, Appended
<1>8. Answered(n)'
  BY <1>1, <1>5, <1>6, <1>7 DEF Answered, Led
<1> QED
  BY <1>3, <1>4, <1>8, ArrivalAnswers

LEMMA LeadAnswers ==
    ASSUME IInv, Answers, NEW k \in Key \cup {None}, Lead(k) PROVE Answers'
<1> PICK n : n = Len(requests) + 1
  OBVIOUS
<1> DEFINE f == IF k \in Key THEN "pending" ELSE "none"
           e == Entry(k, "leading", n, f, "none")
<1>1. DOMAIN requests = 1 .. Len(requests) /\ Len(requests) \in Nat
      /\ requests \in Seq(Request)
  BY DEF IInv, TypeOK
<1>2. e \in Request
  BY <1>1, EntryType DEF Phase, Future, Answer
<1>3. requests' = Append(requests, e) /\ stopping' = stopping
  BY DEF Lead
<1>4. e.key = k /\ e.leader = n /\ e.phase = "leading" /\ e.future = f
  BY DEF Entry
<1>5. f # "none" <=> k \in Key
  OBVIOUS
<1>6. f \in {"none", "pending"}
  OBVIOUS
<1> HIDE DEF e, f
<1>7. requests'[n] = e
  BY <1>2, <1>3, Appended
<1>8. Answered(n)'
  BY <1>4, <1>5, <1>6, <1>7 DEF Answered, Led
<1> QED
  BY <1>2, <1>3, <1>8, ArrivalAnswers

LEMMA FinishAnswers ==
    ASSUME IInv, Answers, NEW r \in DOMAIN requests, Finish(r) PROVE Answers'
<1>1. PICK status \in {"accepted", "refused"} : Dispatched(r, status)
  BY DEF Finish
<1> DEFINE x == requests[r]
           a == IF x.future = "cancelled" THEN "failed" ELSE status
           f == IF x.future = "pending" THEN "set" ELSE x.future
           e == [x EXCEPT !.phase = "done", !.sent = (status = "accepted"),
                          !.answer = a, !.future = f]
           reqs == [requests EXCEPT ![r] = e]
<1>2. x \in Request /\ requests \in [DOMAIN requests -> Request]
      /\ \A i \in DOMAIN requests : requests[i].leader \in DOMAIN requests
  BY DEF IInv, TypeOK
<1>3. e.key = x.key /\ e.at = x.at /\ e.leader = x.leader /\ e.waited = x.waited
      /\ e.phase = "done" /\ e.answer = a /\ e.future = f
      /\ e.sent = (status = "accepted")
  BY <1>2 DEF Request
<1>4. x.phase = "leading" /\ stopping' = stopping
  BY <1>1 DEF Dispatched
<1>5. requests' = reqs
  BY <1>1, Zenon DEF Dispatched
<1>6. x.leader = r /\ x.future \in {"none", "pending", "cancelled"}
      /\ (x.future # "none" <=> x.key \in Key) /\ (x.future = "cancelled" => stopping)
  BY <1>4 DEF IInv, Shape, Led, Answers, Answered
<1>7. a \in {"accepted", "refused", "failed"} /\ (a = "accepted" => status = "accepted")
      /\ (a # "accepted" /\ ~stopping => status # "accepted")
      /\ (f = "set" => (a = "accepted" <=> status = "accepted"))
      /\ f # "pending" /\ (f # "none" <=> x.key \in Key) /\ (f = "cancelled" => stopping)
      /\ f # "failed"
  BY <1>6
<1> HIDE DEF e, a, f
<1>8. reqs[r] = e /\ DOMAIN reqs = DOMAIN requests
      /\ \A i \in DOMAIN requests \ {r} : reqs[i] = requests[i]
  BY <1>2
<1> HIDE DEF reqs
<1>9. ASSUME NEW i \in DOMAIN requests PROVE Answered(i)'
  <2>1. CASE i = r
    <3>1. ~e.waited \/ ~Led(r)' \/ e.leader = r
      BY <1>3, <1>6
    <3>2. e.waited \/ e.answer # "accepted" \/ e.at < e.at + Window
      BY <1>2, <1>3, IngressAssumption DEF Request
    <3> QED
      BY <2>1, <3>2, <1>3, <1>4, <1>5, <1>6, <1>7, <1>8 DEF Answered, Led
  <2>2. CASE i # r /\ requests[i].leader = r
    <3>1. /\ reqs[i] = requests[i] /\ reqs[requests[i].leader] = e /\ ~Led(i)
          /\ Answered(i)
      BY <2>2, <1>8 DEF Led, Answers
    <3>2. ~x.sent
      BY <1>4 DEF IInv, Shape
    <3>3. requests[i].phase = "done" => requests[i].answer # "accepted" /\ stopping
      BY <3>1, <3>2, <2>2, <1>4 DEF Answered
    <3> QED
      BY <3>1, <3>3, <2>2, <1>3, <1>4, <1>5 DEF Answered, Led
  <2>3. CASE i # r /\ requests[i].leader # r
    <3>1. /\ reqs[i] = requests[i] /\ reqs[requests[i].leader] = requests[requests[i].leader]
          /\ Answered(i)
      BY <2>3, <1>2, <1>8 DEF Answers
    <3> QED
      BY <3>1, <1>4, <1>5 DEF Answered, Led
  <2> QED
    BY <2>1, <2>2, <2>3
<1> QED
  BY <1>5, <1>8, <1>9 DEF Answers

LEMMA CancelLeaderAnswers ==
    ASSUME IInv, Answers, NEW r \in DOMAIN requests, CancelLeader(r) PROVE Answers'
<1> DEFINE x == requests[r]
           f == Signalled(x.future)
           e == [x EXCEPT !.phase = "done", !.answer = "cancelled", !.future = f]
           reqs == [requests EXCEPT ![r] = e]
<1>2. x \in Request /\ requests \in [DOMAIN requests -> Request]
      /\ \A i \in DOMAIN requests : requests[i].leader \in DOMAIN requests
  BY DEF IInv, TypeOK
<1>3. e.key = x.key /\ e.at = x.at /\ e.leader = x.leader /\ e.waited = x.waited
      /\ e.phase = "done" /\ e.answer = "cancelled" /\ e.future = f
      /\ e.sent = x.sent
  BY <1>2 DEF Request
<1>4. x.phase = "leading" /\ stopping' = stopping /\ stopping
  BY DEF CancelLeader
<1>5. requests' = reqs
  BY Zenon DEF CancelLeader
<1>6. x.leader = r /\ x.future \in {"none", "pending", "cancelled"}
      /\ (x.future # "none" <=> x.key \in Key)
  BY <1>4 DEF IInv, Shape, Led, Answers, Answered
<1>7. f \in {"none", "failed", "cancelled"} /\ (f # "none" <=> x.key \in Key)
  BY <1>6 DEF Signalled
<1> HIDE DEF e, f
<1>8. reqs[r] = e /\ DOMAIN reqs = DOMAIN requests
      /\ \A i \in DOMAIN requests \ {r} : reqs[i] = requests[i]
  BY <1>2
<1> HIDE DEF reqs
<1>9. ASSUME NEW i \in DOMAIN requests PROVE Answered(i)'
  <2>1. CASE i = r
    BY <2>1, <1>3, <1>4, <1>5, <1>6, <1>7, <1>8 DEF Answered, Led
  <2>2. CASE i # r /\ requests[i].leader = r
    <3>1. /\ reqs[i] = requests[i] /\ reqs[requests[i].leader] = e /\ ~Led(i)
          /\ Answered(i)
      BY <2>2, <1>8 DEF Led, Answers
    <3>2. ~x.sent
      BY <1>4 DEF IInv, Shape
    <3>3. requests[i].phase = "done" => requests[i].answer # "accepted" /\ stopping
      BY <3>1, <3>2, <2>2, <1>4 DEF Answered
    <3> QED
      BY <3>1, <3>3, <2>2, <1>3, <1>4, <1>5 DEF Answered, Led
  <2>3. CASE i # r /\ requests[i].leader # r
    <3>1. /\ reqs[i] = requests[i] /\ reqs[requests[i].leader] = requests[requests[i].leader]
          /\ Answered(i)
      BY <2>3, <1>2, <1>8 DEF Answers
    <3> QED
      BY <3>1, <1>4, <1>5 DEF Answered, Led
  <2> QED
    BY <2>1, <2>2, <2>3
<1> QED
  BY <1>5, <1>8, <1>9 DEF Answers

\* The end of a follower; `m' is what becomes of its leader's record.
LEMMA FollowerAnswers ==
    ASSUME IInv, Answers, NEW r \in DOMAIN requests, requests[r].phase = "following",
           stopping' = stopping,
           NEW e, NEW m, NEW reqs, requests' = reqs, DOMAIN reqs = DOMAIN requests,
           reqs[r] = e, reqs[requests[r].leader] = m,
           \A i \in DOMAIN requests \ {r, requests[r].leader} : reqs[i] = requests[i],
           e.key = requests[r].key, e.at = requests[r].at,
           e.leader = requests[r].leader, e.waited = requests[r].waited,
           e.future = requests[r].future, e.sent = requests[r].sent, e.phase = "done",
           m.key = requests[requests[r].leader].key,
           m.at = requests[requests[r].leader].at,
           m.leader = requests[requests[r].leader].leader,
           m.waited = requests[requests[r].leader].waited,
           m.sent = requests[requests[r].leader].sent,
           m.phase = requests[requests[r].leader].phase,
           m.answer = requests[requests[r].leader].answer,
           \/ m.future = requests[requests[r].leader].future
           \/ stopping /\ m.future = "cancelled"
                /\ requests[requests[r].leader].future = "pending",
           m.phase = "done" \/ stopping,
           e.answer = "accepted" => m.sent,
           e.answer # "accepted" /\ ~stopping => ~m.sent
    PROVE  Answers'
<1> DEFINE l == requests[r].leader
<1>1. l \in DOMAIN requests /\ l # r /\ requests[r].future = "none"
      /\ requests[r].waited /\ requests[l].leader = l /\ requests[l].key = requests[r].key
      /\ requests[r].key \in Key /\ ~requests[r].sent
  BY DEF IInv, TypeOK, Shape, Led, Answers, Answered
<1>3. \A i \in DOMAIN requests : requests[i].leader \in DOMAIN requests
  BY DEF IInv, TypeOK
<1>4. ASSUME NEW i \in DOMAIN requests PROVE Answered(i)'
  <2>1. CASE i = r
    BY <2>1, <1>1 DEF Answered, Led
  <2>2. CASE i = l
    <3>1. Answered(l)
      BY <1>1 DEF Answers
    <3> QED
      BY <2>2, <3>1, <1>1 DEF Answered, Led
  <2>3. CASE i # r /\ i # l /\ requests[i].leader # r /\ requests[i].leader # l
    <3>1. Answered(i) /\ reqs[i] = requests[i]
          /\ reqs[requests[i].leader] = requests[requests[i].leader]
      BY <2>3, <1>3 DEF Answers
    <3> QED
      BY <3>1 DEF Answered, Led
  <2>4. CASE i # r /\ i # l /\ requests[i].leader = l
    <3>1. Answered(i) /\ reqs[i] = requests[i] /\ reqs[requests[i].leader] = m
      BY <2>4 DEF Answers
    <3> QED
      BY <3>1, <2>4 DEF Answered, Led
  <2>5. CASE i # r /\ requests[i].leader = r
    BY <2>5, <1>1 DEF Answers, Answered, Led
  <2> QED
    BY <2>1, <2>2, <2>3, <2>4, <2>5
<1> QED
  BY <1>4 DEF Answers

LEMMA WakeAnswers ==
    ASSUME IInv, Answers, NEW r \in DOMAIN requests, Wake(r) PROVE Answers'
<1> DEFINE x == requests[r]
           l == requests[x.leader]
           a == FollowersAnswer(x.leader)
           e == [x EXCEPT !.phase = "done", !.answer = a]
           reqs == [requests EXCEPT ![r] = e]
<1>1. x \in Request /\ requests \in [DOMAIN requests -> Request]
      /\ x.leader \in DOMAIN requests /\ l \in Request
  BY DEF IInv, TypeOK
<1>2. x.phase = "following" /\ stopping' = stopping /\ l.future # "pending"
  BY DEF Wake
<1>3. requests' = reqs
  BY Zenon DEF Wake
<1>4. x.leader # r /\ l.leader = x.leader /\ l.key = x.key /\ x.key \in Key
  BY <1>2 DEF IInv, Shape, Led, Answers, Answered
<1>5. Answered(x.leader)
  BY <1>1 DEF Answers
<1>6. l.future \in {"set", "failed", "cancelled"}
  BY <1>1, <1>2, <1>4, <1>5 DEF Answered, Led, Request, Future
<1>7. l.phase = "done" \/ stopping
  BY <1>5, <1>6 DEF Answered
<1>8. (a = "accepted" => l.sent) /\ (a # "accepted" /\ ~stopping => ~l.sent)
  <2>1. CASE l.future = "set"
    <3>1. a = l.answer
      BY <2>1 DEF FollowersAnswer
    <3> QED
      BY <3>1, <2>1, <1>4, <1>5 DEF Answered
  <2>2. CASE l.future # "set"
    BY <2>2, <1>5, <1>6 DEF Answered, FollowersAnswer
  <2> QED
    BY <2>1, <2>2
<1>9. e.key = x.key /\ e.at = x.at /\ e.leader = x.leader /\ e.waited = x.waited
      /\ e.future = x.future /\ e.sent = x.sent /\ e.phase = "done" /\ e.answer = a
  BY <1>1 DEF Request
<1> HIDE DEF e, a
<1>10. DOMAIN reqs = DOMAIN requests /\ reqs[r] = e /\ reqs[x.leader] = l
       /\ \A i \in DOMAIN requests \ {r, x.leader} : reqs[i] = requests[i]
  BY <1>1, <1>4
<1> HIDE DEF reqs
<1> QED
  BY <1>2, <1>3, <1>7, <1>8, <1>9, <1>10, FollowerAnswers

LEMMA CancelFollowerAnswers ==
    ASSUME IInv, Answers, NEW r \in DOMAIN requests, CancelFollower(r) PROVE Answers'
<1> DEFINE x == requests[r]
           l == requests[x.leader]
           e == [x EXCEPT !.phase = "done", !.answer = "cancelled"]
           m == [l EXCEPT !.future = Cancelled(l.future)]
           reqs == [requests EXCEPT ![r] = e, ![x.leader] = m]
<1>1. x \in Request /\ requests \in [DOMAIN requests -> Request]
      /\ x.leader \in DOMAIN requests /\ l \in Request
  BY DEF IInv, TypeOK
<1>2. x.phase = "following" /\ x.leader # r /\ stopping' = stopping /\ stopping
  BY DEF CancelFollower, IInv, Shape, Led
<1>3. requests' = reqs
  BY <1>1, <1>2 DEF CancelFollower
<1>4. e.key = x.key /\ e.at = x.at /\ e.leader = x.leader /\ e.waited = x.waited
      /\ e.future = x.future /\ e.sent = x.sent /\ e.phase = "done"
      /\ e.answer = "cancelled"
  BY <1>1 DEF Request
<1>5. m.key = l.key /\ m.at = l.at /\ m.leader = l.leader /\ m.waited = l.waited
      /\ m.sent = l.sent /\ m.phase = l.phase /\ m.answer = l.answer
      /\ m.future = Cancelled(l.future)
  BY <1>1 DEF Request
<1>6. m.future = l.future \/ (m.future = "cancelled" /\ l.future = "pending")
  BY <1>5 DEF Cancelled
<1> HIDE DEF e, m
<1>7. DOMAIN reqs = DOMAIN requests /\ reqs[r] = e /\ reqs[x.leader] = m
      /\ \A i \in DOMAIN requests \ {r, x.leader} : reqs[i] = requests[i]
  BY <1>1, <1>2
<1> HIDE DEF reqs
<1> QED
  BY <1>2, <1>3, <1>4, <1>5, <1>6, <1>7, FollowerAnswers

LEMMA IdleAnswers ==
    ASSUME Answers, requests' = requests, stopping => stopping'
    PROVE  Answers'
<1> SUFFICES ASSUME NEW r \in DOMAIN requests PROVE Answered(r)'
  BY DEF Answers
<1>1. Answered(r)
  BY DEF Answers
<1> QED
  BY <1>1 DEF Answered, Led

LEMMA StepAnswers == IInv /\ Answers /\ [Next]_vars => Answers'
<1> SUFFICES ASSUME IInv, Answers, [Next]_vars PROVE Answers'
  OBVIOUS
<1>1. ASSUME NEW k \in Key \cup {None}, Replay(k) \/ Follow(k) \/ Lead(k) PROVE Answers'
  BY <1>1, ReplayAnswers, FollowAnswers, LeadAnswers
<1>2. ASSUME NEW r \in DOMAIN requests, Step(r) PROVE Answers'
  BY <1>2, FinishAnswers, WakeAnswers, CancelLeaderAnswers, CancelFollowerAnswers DEF Step
<1>3. CASE Tick
  BY <1>3, IdleAnswers DEF Tick
<1>4. CASE Stop
  BY <1>4, IdleAnswers DEF Stop
<1>5. CASE UNCHANGED vars
  BY <1>5, IdleAnswers DEF vars
<1> QED
  BY <1>1, <1>2, <1>3, <1>4, <1>5 DEF Next

-----------------------------------------------------------------------------
(* The theorems.                                                           *)

THEOREM Inductive == Spec => [](IInv /\ Answers)
<1>1. Init => IInv /\ Answers
  BY InitEstablishes, InitAnswers
<1>2. IInv /\ Answers /\ [Next]_vars => (IInv /\ Answers)'
  BY StepKeeps, StepAnswers
<1> QED
  BY <1>1, <1>2, PTL DEF Spec

\* The tables only ever name requests that came, of any number of clients.
THEOREM TypeCorrect == Spec => []TypeOK
<1>1. IInv => TypeOK
  BY DEF IInv
<1> QED
  BY <1>1, Inductive, PTL

\* A command repeated under its key reaches the robot at most once per window,
\* however retries, slow dispatches and cancellations interleave.
THEOREM DispatchedOnce == Spec => []OncePerKey
<1>1. IInv => OncePerKey
  BY DEF IInv
<1> QED
  BY <1>1, Inductive, PTL

\* No client is told that a command was accepted which the robot did not get,
\* nor, while the server stays up, the converse.
THEOREM AnswersHold == Spec => []AnswerIsTrue
<1>1. Answers => AnswerIsTrue
  <2> SUFFICES ASSUME Answers, NEW r \in DOMAIN requests, requests[r].phase = "done"
               PROVE  LET req == requests[r]  l == req.leader
                      IN /\ req.answer = "accepted" =>
                              /\ requests[l].sent /\ requests[l].key = req.key
                              /\ ~req.waited => req.at < requests[l].at + Window
                         /\ req.answer # "accepted" /\ ~stopping => ~requests[l].sent
    BY DEF AnswerIsTrue
  <2>1. Answered(r)
    BY DEF Answers
  <2> QED
    BY <2>1 DEF Answered
<1> QED
  BY <1>1, Inductive, PTL

\* Whoever waits for an answer waits for a dispatch that is still running.
FollowersLed ==
    \A r \in DOMAIN requests :
        LET l == requests[r].leader
        IN requests[r].phase = "following" /\ requests[l].future = "pending"
             => requests[l].phase = "leading"

\* No future is left pending behind a dispatch that is over, however its
\* leader ended: what FollowersEnd owes to the code, the rest being that
\* dispatches end.
THEOREM NoOneAbandoned == Spec => []FollowersLed
<1>1. IInv /\ Answers => FollowersLed
  <2> SUFFICES ASSUME IInv, Answers, NEW r \in DOMAIN requests,
                      requests[r].phase = "following",
                      requests[requests[r].leader].future = "pending"
               PROVE  requests[requests[r].leader].phase = "leading"
    BY DEF FollowersLed
  <2> DEFINE l == requests[r].leader
  <2>1. l \in DOMAIN requests /\ requests[l].phase \in Phase
    <3>1. l \in DOMAIN requests /\ requests \in Seq(Request)
      BY DEF IInv, TypeOK
    <3>2. requests[l] \in Request
      BY <3>1
    <3> QED
      BY <3>1, <3>2 DEF Request
  <2>2. ~Led(r)
    BY DEF IInv, Shape
  <2>3. requests[l].leader = l
    BY <2>2 DEF Answers, Answered
  <2>4. requests[l].phase # "following"
    BY <2>1, <2>3 DEF IInv, Shape, Led
  <2>5. requests[l].phase # "done"
    BY <2>1 DEF Answers, Answered
  <2> QED
    BY <2>1, <2>4, <2>5 DEF Phase
<1> QED
  BY <1>1, Inductive, PTL

=============================================================================
