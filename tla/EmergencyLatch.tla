--------------------------- MODULE EmergencyLatch ---------------------------
(***************************************************************************)
(* FileEmergencyLatch (src/src/mousedroid/safety/latch.py) with everything *)
(* that acts on its file: the control process that trips and persists it   *)
(* from the 30 Hz tick, the worker threads asyncio.to_thread leaves behind *)
(* when the tick is cancelled by tick_timeout_s, the re-arm CLI (a second  *)
(* process with a latch object of its own), process crashes and power cuts.*)
(*                                                                         *)
(* A file's content is one of "absent", "clear" (a latched:false record),  *)
(* "latched", or "torn" (empty, truncated, unparsable, unknown version).   *)
(* A thread's handle follows its inode: os.replace by one thread moves the *)
(* inode another thread still writes to from the tmp name to the path.     *)
(***************************************************************************)
EXTENDS Naturals

CONSTANTS
    Writer,  \* worker threads of the default executor that may be writing
    Fsync,   \* safety.emergency_latch.fsync
    None

ASSUME FsyncBoolean == Fsync \in BOOLEAN
ASSUME NoneNotWriter == None \notin Writer

VARIABLES
    up,        \* the control process has loaded the latch and runs
    latched,   \* its _record.latched
    dirty,     \* its _dirty
    awaiting,  \* the thread whose result the tick's persist() awaits
    stage,     \* stage[w]: progress of _write_sync in thread w
    handle,    \* handle[w]: where the inode w has open is linked now
    path,      \* content of estop_latch.json as the OS shows it
    durable,   \* content of estop_latch.json a power cut would leave
    tmp,       \* content of estop_latch.json.tmp
    cli,       \* the re-arm CLI: has it loaded and confirmed a latch
    rearmed,   \* history: an operator re-armed since the last trip
    owed       \* history: a persist() returned, and no re-arm since

proc  == <<up, latched, dirty, awaiting>>
disk  == <<path, durable, tmp>>
ghost == <<rearmed, owed>>
vars  == <<proc, stage, handle, disk, cli, ghost>>

Content == {"absent", "clear", "latched", "torn"}
Stage   == {"idle", "queued", "opened", "written", "replaced", "done", "failed"}
Link    == {"closed", "tmp", "path", "gone"}

TypeOK ==
    /\ up \in BOOLEAN /\ latched \in BOOLEAN /\ dirty \in BOOLEAN
    /\ awaiting \in Writer \cup {None}
    /\ stage \in [Writer -> Stage]
    /\ handle \in [Writer -> Link]
    /\ path \in Content /\ durable \in Content
    /\ tmp \in {"absent", "latched", "torn"}
    /\ cli \in {"idle", "confirmed"}
    /\ rearmed \in BOOLEAN /\ owed \in BOOLEAN

(* A record that must keep the rover stopped. *)
Held(content) == content \in {"latched", "torn"}

(* _read_sync: only an absent file and a latched:false record read clear.  *)
FailOpenOnDamage(content) == content = "latched"   \* mutant: slot_store's way
ReadsLatched(content) == content \in {"latched", "torn"}

(* A read of a present file may fail with OSError, which reads as latched. *)
ReadOutcomes(content) ==
    {b \in BOOLEAN : (ReadsLatched(content) => b) /\ (content = "absent" => ~b)}

Init ==
    /\ up = FALSE /\ latched = FALSE /\ dirty = FALSE
    /\ awaiting = None
    /\ stage = [w \in Writer |-> "idle"]
    /\ handle = [w \in Writer |-> "closed"]
    /\ path \in Content /\ durable = path /\ tmp = "absent"
    /\ cli = "idle"
    /\ rearmed = FALSE /\ owed = FALSE
-----------------------------------------------------------------------------
(* The control process *)

(* start() loads the latch before it connects the motor driver. *)
Load ==
    /\ ~up
    /\ up' = TRUE
    /\ latched' \in ReadOutcomes(path)
    /\ dirty' = FALSE
    /\ UNCHANGED <<awaiting, stage, handle, disk, cli, ghost>>

(* evaluate() found a live emergency; a second trip changes nothing. *)
Trip ==
    /\ up /\ ~latched
    /\ latched' = TRUE
    /\ dirty' = TRUE
    /\ rearmed' = FALSE
    /\ UNCHANGED <<up, awaiting, stage, handle, disk, cli, owed>>

(* persist() drops _dirty only once the write has returned. *)
DropDirtyFirst == FALSE   \* mutant: _dirty = False before the await
DirtyInFlight == dirty

(* An emergency tick awaits persist(), which is a no-op unless dirty. *)
PersistCall(w) ==
    /\ up /\ dirty /\ awaiting = None
    /\ stage[w] = "idle"
    /\ awaiting' = w
    /\ stage' = [stage EXCEPT ![w] = "queued"]
    /\ dirty' = DirtyInFlight
    /\ UNCHANGED <<up, latched, handle, disk, cli, ghost>>

(* The write came back without EmergencyLatchStoreError. *)
WriteReturned(w) == stage[w] = "done"

PersistReturn(w) ==
    /\ awaiting = w /\ WriteReturned(w)
    /\ awaiting' = None
    /\ stage' = [stage EXCEPT ![w] = "idle"]
    /\ dirty' = FALSE
    /\ owed' = ~rearmed
    /\ UNCHANGED <<up, latched, handle, disk, cli, rearmed>>

(* EmergencyLatchStoreError: the tick logs it, the next tick tries again. *)
PersistRaise(w) ==
    /\ awaiting = w /\ stage[w] = "failed"
    /\ awaiting' = None
    /\ stage' = [stage EXCEPT ![w] = "idle"]
    /\ UNCHANGED <<up, latched, dirty, handle, disk, cli, ghost>>

(* wait_for(tick, tick_timeout_s) cancels the await: a thread that runs is *)
(* not stopped by it, a job still queued in the executor is dropped.       *)
TickTimeout ==
    /\ awaiting # None
    /\ awaiting' = None
    /\ \/ stage' = stage
       \/ /\ stage[awaiting] = "queued"
          /\ stage' = [stage EXCEPT ![awaiting] = "idle"]
    /\ UNCHANGED <<up, latched, dirty, handle, disk, cli, ghost>>
-----------------------------------------------------------------------------
(* _write_sync in a worker thread *)

(* tmp.open("w") truncates the inode the tmp name has, or makes a new one. *)
OpenTmp(w) ==
    /\ stage[w] = "queued"
    /\ stage' = [stage EXCEPT ![w] = "opened"]
    /\ handle' = [handle EXCEPT ![w] = "tmp"]
    /\ tmp' = "torn"
    /\ UNCHANGED <<proc, path, durable, cli, ghost>>

(* write, flush and fsync reach the inode wherever it is linked by now. *)
WriteTmp(w) ==
    /\ stage[w] = "opened"
    /\ stage' = [stage EXCEPT ![w] = "written"]
    /\ handle' = [handle EXCEPT ![w] = "closed"]
    /\ tmp' = IF handle[w] = "tmp" THEN "latched" ELSE tmp
    /\ path' = IF handle[w] = "path" THEN "latched" ELSE path
    /\ UNCHANGED <<proc, durable, cli, ghost>>

(* os.replace; with the tmp name gone it raises FileNotFoundError. *)
TmpAfterReplace == "absent"

Replace(w) ==
    /\ stage[w] = "written" /\ tmp # "absent"
    /\ stage' = [stage EXCEPT ![w] = "replaced"]
    /\ path' = tmp
    /\ tmp' = TmpAfterReplace
    /\ handle' = [v \in Writer |-> IF handle[v] = "tmp" THEN "path"
                                   ELSE IF handle[v] = "path" THEN "gone"
                                   ELSE handle[v]]
    /\ UNCHANGED <<proc, durable, cli, ghost>>

(* fsync of the directory makes the rename survive a power cut. *)
RenameOnly == durable   \* mutant: no fsync of the directory
DirSynced == IF Fsync THEN path ELSE durable

SyncDir(w) ==
    /\ stage[w] = "replaced"
    /\ stage' = [stage EXCEPT ![w] = "done"]
    /\ durable' = DirSynced
    /\ UNCHANGED <<proc, handle, path, tmp, cli, ghost>>

(* OSError in any of the steps above. *)
WriteFails(w) ==
    /\ stage[w] \in {"queued", "opened", "written", "replaced"}
    /\ stage' = [stage EXCEPT ![w] = "failed"]
    /\ handle' = [handle EXCEPT ![w] = "closed"]
    /\ UNCHANGED <<proc, disk, cli, ghost>>

(* A thread nobody awaits any more ends and its result is dropped. *)
OrphanEnds(w) ==
    /\ awaiting # w
    /\ stage[w] \in {"done", "failed"}
    /\ stage' = [stage EXCEPT ![w] = "idle"]
    /\ UNCHANGED <<proc, handle, disk, cli, ghost>>

WriteStep(w) ==
    OpenTmp(w) \/ WriteTmp(w) \/ Replace(w) \/ SyncDir(w) \/ WriteFails(w)
-----------------------------------------------------------------------------
(* The re-arm CLI, with --operator and --confirm-area-clear given *)

CliLoad ==
    /\ cli = "idle"
    /\ TRUE \in ReadOutcomes(path)
    /\ cli' = "confirmed"
    /\ UNCHANGED <<proc, stage, handle, disk, ghost>>

CliRearm ==
    /\ cli = "confirmed"
    /\ cli' = "idle"
    /\ path' = "absent"
    /\ handle' = [w \in Writer |-> IF handle[w] = "path" THEN "gone" ELSE handle[w]]
    /\ rearmed' = TRUE
    /\ owed' = FALSE
    /\ UNCHANGED <<proc, stage, durable, tmp>>
-----------------------------------------------------------------------------
(* The machine *)

(* The kernel writes dirty pages back in its own time. *)
Flush ==
    /\ durable # path
    /\ durable' = path
    /\ UNCHANGED <<proc, stage, handle, path, tmp, cli, ghost>>

ProcessDies ==
    /\ up' = FALSE /\ latched' = FALSE /\ dirty' = FALSE /\ awaiting' = None
    /\ stage' = [w \in Writer |-> "idle"]
    /\ handle' = [w \in Writer |-> "closed"]

(* SIGKILL, an unhandled exception, or an orderly exit: memory is gone. *)
Crash ==
    /\ up
    /\ ProcessDies
    /\ UNCHANGED <<disk, cli, ghost>>

PowerCut ==
    /\ ProcessDies
    /\ path' \in {path, durable} \cup (IF path # durable THEN {"torn"} ELSE {})
    /\ durable' = path'
    /\ tmp' \in {tmp, "absent", "torn"}
    /\ cli' = "idle"
    /\ owed' = (owed /\ Fsync)
    /\ UNCHANGED rearmed

Next ==
    \/ Load \/ Trip \/ TickTimeout
    \/ \E w \in Writer : PersistCall(w) \/ PersistReturn(w) \/ PersistRaise(w)
    \/ \E w \in Writer : WriteStep(w) \/ OrphanEnds(w)
    \/ CliLoad \/ CliRearm
    \/ Flush \/ Crash \/ PowerCut

Spec == Init /\ [][Next]_vars

(* Emergency ticks keep coming while the rover is latched, threads make    *)
(* progress, and the storage does not fail a step for ever.                *)
Fairness ==
    /\ WF_vars(\E w \in Writer : PersistCall(w))
    /\ \A w \in Writer :
        /\ WF_vars(PersistReturn(w) \/ PersistRaise(w))
        /\ WF_vars(OrphanEnds(w))
        /\ WF_vars(WriteStep(w))
        /\ SF_vars(OpenTmp(w)) /\ SF_vars(WriteTmp(w)) /\ SF_vars(Replace(w))

FairSpec == Spec /\ Fairness
-----------------------------------------------------------------------------
(***************************************************************************)
(* A persist() that returned, and that no operator has undone, is a record *)
(* that a restart reads as latched, and with fsync so does a boot after a  *)
(* power cut, whatever orphaned writer threads did to the files meanwhile. *)
(***************************************************************************)
AckIsDurable ==
    owed => Held(path) /\ (Fsync => Held(durable))

(***************************************************************************)
(* The latch keeps the operator's promise: a stop on record is cleared     *)
(* only by the CLI, and clearing it never frees a running rover to drive.  *)
(***************************************************************************)
Promise == INSTANCE EStopPromise WITH armed <- up /\ ~latched, held <- owed
KeepsPromise == Promise!PromiseSpec

(***************************************************************************)
(* A trip reaches the disk even if every single persist() that started a   *)
(* write was cancelled by the tick deadline, unless the process ends or an *)
(* operator re-arms meanwhile.                                             *)
(***************************************************************************)
TripReachesDisk == dirty ~> (Held(path) \/ ~up \/ rearmed)
=============================================================================
