------------------------ MODULE EmergencyLatch_proofs -----------------------
(***************************************************************************)
(* AckIsDurable and KeepsPromise for any number of writer threads.         *)
(* AckIsDurable is not inductive: whether a returning persist() may be     *)
(* believed depends on what its thread, and the others, did to the files.  *)
(***************************************************************************)
EXTENDS EmergencyLatch, TLAPS

(* Only a latched process has anything to write. *)
WritesOnlyLatched ==
    /\ dirty => up /\ latched
    /\ \A w \in Writer : stage[w] # "idle" => up /\ latched

(* Since the last re-arm, what a thread has replaced stays on the disk. *)
ReplacedIsHeld ==
    ~rearmed =>
        \A w \in Writer :
            /\ stage[w] \in {"replaced", "done"} => Held(path)
            /\ stage[w] = "done" /\ Fsync => Held(durable)

(* A process that is free to drive has no stop on record. *)
FreeOwesNothing == up /\ ~latched => ~owed

IInv == TypeOK /\ WritesOnlyLatched /\ ReplacedIsHeld /\ AckIsDurable /\ FreeOwesNothing

USE DEF Content, Stage, Link, Held, ReadsLatched, DirtyInFlight,
        WriteReturned, TmpAfterReplace, DirSynced, ReadOutcomes, proc, disk, ghost

(* Every file of the code's initial states and every idle thread satisfies *)
(* the inductive invariant.                                                *)
LEMMA InitIInv == Init => IInv
  BY DEF Init, IInv, TypeOK, WritesOnlyLatched, ReplacedIsHeld, AckIsDurable, FreeOwesNothing

(* No step of the process, of a writer thread, of the CLI or of the        *)
(* machine breaks the inductive invariant.                                 *)
LEMMA NextIInv == IInv /\ [Next]_vars => IInv'
<1> SUFFICES ASSUME IInv, [Next]_vars PROVE IInv'
  OBVIOUS
<1> USE FsyncBoolean, NoneNotWriter
    DEF IInv, TypeOK, WritesOnlyLatched, ReplacedIsHeld, AckIsDurable, FreeOwesNothing
<1>1. CASE Load
  BY <1>1 DEF Load
<1>2. CASE Trip
  BY <1>2 DEF Trip
<1>3. CASE TickTimeout
  BY <1>3 DEF TickTimeout
<1>4. ASSUME NEW w \in Writer, PersistCall(w) PROVE IInv'
  BY <1>4 DEF PersistCall
<1>5. ASSUME NEW w \in Writer, PersistReturn(w) PROVE IInv'
  BY <1>5 DEF PersistReturn
<1>6. ASSUME NEW w \in Writer, PersistRaise(w) PROVE IInv'
  BY <1>6 DEF PersistRaise
<1>7. ASSUME NEW w \in Writer, OpenTmp(w) PROVE IInv'
  BY <1>7 DEF OpenTmp
<1>8. ASSUME NEW w \in Writer, WriteTmp(w) PROVE IInv'
  BY <1>8 DEF WriteTmp
<1>9. ASSUME NEW w \in Writer, Replace(w) PROVE IInv'
  BY <1>9 DEF Replace
<1>10. ASSUME NEW w \in Writer, SyncDir(w) PROVE IInv'
  BY <1>10 DEF SyncDir
<1>11. ASSUME NEW w \in Writer, WriteFails(w) PROVE IInv'
  BY <1>11 DEF WriteFails
<1>12. ASSUME NEW w \in Writer, OrphanEnds(w) PROVE IInv'
  BY <1>12 DEF OrphanEnds
<1>13. CASE CliLoad
  BY <1>13 DEF CliLoad
<1>14. CASE CliRearm
  BY <1>14 DEF CliRearm
<1>15. CASE Flush
  BY <1>15 DEF Flush
<1>16. CASE Crash
  BY <1>16 DEF Crash, ProcessDies
<1>17. CASE PowerCut
  BY <1>17 DEF PowerCut, ProcessDies
<1>18. CASE UNCHANGED vars
  BY <1>18 DEF vars
<1> QED
  BY <1>1, <1>2, <1>3, <1>4, <1>5, <1>6, <1>7, <1>8, <1>9, <1>10, <1>11,
     <1>12, <1>13, <1>14, <1>15, <1>16, <1>17, <1>18 DEF Next, WriteStep

THEOREM InvariantHolds == Spec => []IInv
  BY InitIInv, NextIInv, PTL DEF Spec

(* Every reachable state of the latch, its threads and its files is well   *)
(* typed.                                                                  *)
THEOREM TypeCorrect == Spec => []TypeOK
  BY InvariantHolds, PTL DEF IInv

(* A persist() that returned is a record that every restart reads as       *)
(* latched, until an operator re-arms.                                     *)
THEOREM AckDurable == Spec => []AckIsDurable
  BY InvariantHolds, PTL DEF IInv

(* A step of the latch is a step, or a stutter, of what it promises.       *)
LEMMA StepRefines ==
  IInv /\ [Next]_vars => [Promise!PromiseNext]_(Promise!promiseVars)
<1> SUFFICES ASSUME IInv, [Next]_vars
             PROVE  [Promise!PromiseNext]_(Promise!promiseVars)
  OBVIOUS
<1> USE FsyncBoolean, NoneNotWriter
    DEF IInv, TypeOK, WritesOnlyLatched, AckIsDurable, FreeOwesNothing,
        Promise!promiseVars, Promise!PromiseNext
<1>1. CASE Load
  <2>1. CASE latched'
    BY <1>1, <2>1 DEF Load, Promise!Disarm
  <2>2. CASE ~latched'
    BY <1>1, <2>2 DEF Load, Promise!Arm
  <2> QED BY <2>1, <2>2
<1>2. CASE Trip
  BY <1>2 DEF Trip, Promise!Disarm
<1>3. ASSUME NEW w \in Writer, PersistReturn(w)
      PROVE  [Promise!PromiseNext]_(Promise!promiseVars)
  <2>1. latched /\ latched' /\ owed' = ~rearmed
    BY <1>3 DEF PersistReturn
  <2>2. CASE rearmed
    BY <1>3, <2>1, <2>2 DEF PersistReturn, Promise!Release
  <2>3. CASE ~rearmed
    BY <1>3, <2>1, <2>3 DEF PersistReturn, Promise!Hold
  <2> QED BY <2>2, <2>3
<1>4. CASE CliRearm
  BY <1>4 DEF CliRearm, Promise!Release
<1>5. CASE Crash
  BY <1>5 DEF Crash, ProcessDies, Promise!Disarm
<1>6. CASE PowerCut
  <2>1. CASE Fsync
    BY <1>6, <2>1 DEF PowerCut, ProcessDies, Promise!Disarm
  <2>2. CASE ~Fsync
    BY <1>6, <2>2 DEF PowerCut, ProcessDies, Promise!Forget
  <2> QED BY <2>1, <2>2
<1>7. ASSUME NEW w \in Writer,
             PersistCall(w) \/ PersistRaise(w) \/ WriteStep(w) \/ OrphanEnds(w)
      PROVE  [Promise!PromiseNext]_(Promise!promiseVars)
  BY <1>7 DEF PersistCall, PersistRaise, WriteStep, OpenTmp, WriteTmp, Replace,
              SyncDir, WriteFails, OrphanEnds
<1>8. CASE TickTimeout \/ CliLoad \/ Flush \/ UNCHANGED vars
  BY <1>8 DEF TickTimeout, CliLoad, Flush, vars, Promise!promiseVars
<1> QED
  BY <1>1, <1>2, <1>3, <1>4, <1>5, <1>6, <1>7, <1>8 DEF Next

(* A stop on record is cleared only by an operator, and clearing it never  *)
(* frees a running rover to drive: the latch implements EStopPromise.      *)
THEOREM Refines == Spec => KeepsPromise
<1>1. Init => Promise!PromiseInit
  BY DEF Init, Promise!PromiseInit
<1> QED
  BY <1>1, StepRefines, InvariantHolds, PTL DEF Spec, KeepsPromise, Promise!PromiseSpec

(* The promise is worth something: a rover with a stop on record is never  *)
(* free to drive.                                                          *)
LEMMA PromiseHolds == Promise!PromiseSpec => []Promise!NeverArmedWhileHeld
<1>1. Promise!PromiseInit => Promise!NeverArmedWhileHeld
  BY DEF Promise!PromiseInit, Promise!NeverArmedWhileHeld
<1>2. Promise!NeverArmedWhileHeld /\ [Promise!PromiseNext]_(Promise!promiseVars)
        => Promise!NeverArmedWhileHeld'
  BY DEF Promise!NeverArmedWhileHeld, Promise!PromiseNext, Promise!promiseVars,
         Promise!Disarm, Promise!Hold, Promise!Release, Promise!Arm, Promise!Forget
<1> QED
  BY <1>1, <1>2, PTL DEF Promise!PromiseSpec

(* So the latch: no process that is up and unlatched owes the operator a   *)
(* stop, the one thing safety/latch.py is there to rule out.               *)
THEOREM NeverArmed == Spec => []Promise!NeverArmedWhileHeld
<1> QED
  BY Refines, PromiseHolds, PTL DEF KeepsPromise
-----------------------------------------------------------------------------
(* A persist() that is awaited has a thread at work for it. *)
AwaitedWorks == awaiting # None => stage[awaiting] # "idle" /\ latched

(* An emergency tick never waits for a write that nobody performs, and it  *)
(* waits only for the record of a stop that still holds: what              *)
(* TripReachesDisk owes to the code, the rest being fairness of the        *)
(* threads and the disk.                                                   *)
THEOREM AwaitEnds == Spec => []AwaitedWorks
<1> USE NoneNotWriter
<1>1. Init => AwaitedWorks
  BY DEF Init, AwaitedWorks
<1>2. IInv /\ AwaitedWorks /\ [Next]_vars => AwaitedWorks'
  <2> SUFFICES ASSUME IInv, AwaitedWorks, [Next]_vars PROVE AwaitedWorks'
    OBVIOUS
  <2> USE DEF IInv, TypeOK, WritesOnlyLatched, AwaitedWorks
  <2>1. ASSUME NEW w \in Writer, PersistCall(w) \/ PersistReturn(w) \/ PersistRaise(w)
        PROVE  AwaitedWorks'
    BY <2>1 DEF PersistCall, PersistReturn, PersistRaise
  <2>2. ASSUME NEW w \in Writer, WriteStep(w) \/ OrphanEnds(w) PROVE AwaitedWorks'
    BY <2>2 DEF WriteStep, OpenTmp, WriteTmp, Replace, SyncDir, WriteFails, OrphanEnds
  <2>3. CASE Load
    BY <2>3 DEF Load
  <2>4. CASE Trip \/ TickTimeout \/ CliLoad \/ CliRearm \/ Flush
    BY <2>4 DEF Trip, TickTimeout, CliLoad, CliRearm, Flush
  <2>5. CASE Crash \/ PowerCut
    BY <2>5 DEF Crash, PowerCut, ProcessDies
  <2>6. CASE UNCHANGED vars
    BY <2>6 DEF vars
  <2> QED
    BY <2>1, <2>2, <2>3, <2>4, <2>5, <2>6 DEF Next
<1> QED
  BY <1>1, <1>2, InvariantHolds, PTL DEF Spec
=============================================================================
