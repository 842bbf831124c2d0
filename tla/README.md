# Mouse-Droid-AGI: the rover's control, missions and learning in TLA+

This directory models the parts of Mouse-Droid-AGI (`src/src/mousedroid/`) that
keep state across awaits, processes and crashes. First, what decides whether the
wheels turn: the control loop and its shutdown, the safety monitor, the persistent
emergency-stop latch, the serial chassis driver, the resilience wrapper around it,
and the MCP tool bridge that commands the same chassis from outside. Second, what
decides where the rover goes: the REST door for missions, the mission's lifecycle and
its replans. Third, what decides which world model drives it: learning on the rover,
the regression gate and the weight swap. Paths below are relative to `src/src/mousedroid/` unless
they start with `docs/`, `config/` or `tests/`.

## 1. Inventory

The program is one Python asyncio process. A 30 Hz tick reads the sensors,
judges safety, plans, and sends a velocity to an ESP32 chassis that *keeps the
last velocity it was sent*. Everything else runs between the awaits of that tick.

| Component | State it keeps | Operations | Interacts with | What is hard |
|---|---|---|---|---|
| Emergency-stop latch `safety/latch.py`, CLI `cli/rearm.py` | `_record`, `_dirty`; `estop_latch.json` and its `.tmp` | `load`, `trip`, `persist`, `rearm` | monitor trips it, tick persists it, CLI (another process) clears it | `persist` writes in a worker thread that a cancelled tick leaves running; crashes; power cuts |
| Safety monitor `safety/monitor.py` | overrun streak, ticks seen, last index, last-valid stamps, LiDAR clock | `evaluate` | tick (twice after a recovery), MCP gate, latch | three callers share one object; a call is not idempotent |
| Control loop `orchestrator/orchestrator.py`, `_lifecycle_mixin.py` | `_running`, `_shutdown_requested`, tick count | `serve`, `start`, `run`, `tick`, `stop`, `request_shutdown` | all of the above, signals, systemd | signals at any point, cancellation by `tick_timeout_s`, teardown that raises, kills and restarts |
| Serial driver `comms/serial_driver.py`, `base_driver.py` | `_io_lock`, the single I/O worker's queue, degraded mode | `send_velocity`, `emergency_stop`, `read_encoders`, `get_battery_voltage`, `connect`, `disconnect` | tick, gathered sensor reads, MCP tools | cancelling a coroutine releases the lock, not the thread |
| Circuit breaker `resilience/circuit_breaker.py` | state, failure/success counts, half-open slots | `call`, `reset` | wraps ESP32, LiDAR, camera, MCP, cloud calls | calls outlive the state they were admitted in; cancelled calls report nothing |
| Resilient driver `resilience/resilient_driver.py`, `retry.py` | two breakers | `send_velocity` and queries through breaker and retry, `emergency_stop` straight | control loop, MCP tools | a backoff asleep while the rover is stopped; deadlines shorter than the retries |
| MCP tool bridge `mcp/tool_bridge.py`, `common/tools/motor_tools.py` | rate limiter, breaker | `call_tool` | monitor (gate), driver | the gate is read long before the velocity is sent, and on a made-up snapshot |
| Mission ingress `telemetry/server/_rest_handlers.py` | answers kept per idempotency key, futures of running dispatches | POST `/api/v1/mission` | dispatcher, clients that retry | a retry before, behind and long after the first dispatch; cancelled handlers |
| Mission lifecycle `orchestrator/mission_lifecycle.py`, dispatcher, replanner | `_mission` with its state, stalls and replans; `_mission_completed` | `start_mission`, `tick`, `fail`, `dispatch` | ingress, tick, LLM, tracker | `start_mission` and `fail` run while `tick` awaits the LLM; the tick itself may be cancelled there |
| Task tracker `harness/task_tracker.py` | tasks and their status | `submit`, `update`, `evaluate_active` | lifecycle, tick | a cap, timeouts, late verdicts |
| On-device learning `learning/on_device/`, `factory/on_device_learning.py` | record store, slots and `active.json`, `consumed_offset`, held-out batch | the coordinator's cycle: count, load, refine, persist, gate | experience store, hot-swap source | a worker thread at every step; files that rot; restarts that forget half of it |
| Weight swap `learning/on_device/hot_swap.py`, `_world_model_state_mixin.py` | `_seen_digest`, `_pending_update`, the engine cache; `_world_model`, `_h`, `_z`, buffer, `_prev_action` | probe, materialise, apply, acknowledge | tick, slots, planner | a newer update during the swap; state made by the old weights |
| Cloud weight poller `cloud/weight_update_poller.py` | pending update, current version | download, publish, acknowledge | the same swap | network failures |
| Sensor manager `sensing/manager.py` | sensor handles, last readings | `read_all`, `recovery_attempt` | tick, driver | gathered reads, partial failure |
| Other chassis drivers `comms/wifi_driver.py`, `mock_driver.py` | HTTP session | as the serial driver | tick | no ordering by a worker |
| Agent harness `harness/` | hooks, journal, approvals | run hooks, approve | tick | policy of failing hooks |
| LLM gateway `llm_gateway/` | fallback chain, caches | translate goals | missions, REST | fallback under breakers and timeouts |
| Telemetry `telemetry/`, cloud twin `cloud/` | bounded queues, clients | publish, broadcast, upload | tick | queue at its limit, slow clients |
| Memory, offline learning, world model, planning, voice, hardware, simulation, training, validation, arm, configuration | tensors, files, devices | — | tick or offline | numerical or device I/O; not this project's subject |

What makes each of the modelled components correct:

- *Latch*: an acknowledged stop survives everything but an operator; a re-arm never
  frees a rover that runs; a trip eventually reaches the disk.
- *Monitor*: the overrun interlock fires on a sustained overrun, never on less; a
  sensor that went silent stops the rover; a latched rover does not start by itself.
- *Control loop*: a stop on record means still wheels; a process that ends by itself
  has halted; no tick begins after a shutdown request; a shutdown request ends the
  process; wheels left turning by a kill are stopped by the next process.
- *Serial driver*: a stop that has returned is the last word until a newer velocity;
  a query gets its own reply; the lock is never lost.
- *Breaker and resilient driver*: no half-open slot is lost; a healthy dependency is
  used again; a dead one is cut off; no retry moves the wheels behind a stop.
- *Ingress*: the robot is sent once per key and window; an answer is true; every client
  is answered.
- *Mission and tracker*: a verdict is final and the task list shows it; an LLM is asked
  no more often than allowed; a stalled mission ends; no mission boundary is forgotten.
- *Learning and swap*: only the boot model or one the gate promoted drives the rover, on
  a state it made itself; a promoted model does come to drive; no record counts twice.

## 2. Modules

| Module | Models | Extends |
|---|---|---|
| `EStopPromise` | the abstract promise to the operator | |
| `EmergencyLatch` | `FileEmergencyLatch`, its writer threads, the CLI, crashes, power cuts | refines `EStopPromise` |
| `SafetyMonitor` | `evaluate()` and its three callers | |
| `ControlLoop` | `serve`/`start`/`run`/`tick`/`stop`, signals, kills, an MCP agent | refines `EStopPromise` |
| `SerialDriver` | the port: connect and disconnect, concurrent, cancellable callers | |
| `Breaker` | the breaker's bookkeeping as operators | |
| `CircuitBreaker` | one breaker under concurrent calls, and the dependency behind it | `Breaker` |
| `ResilientDriver` | retry inside a breaker, under deadlines, beside `emergency_stop` | `CircuitBreaker` |
| `Mission` | lifecycle, replanner, task tracker, the boundary flag, cancelled ticks | |
| `MissionIngress` | the two idempotency tables of the mission route | |
| `OnDeviceLearning` | coordinator, slots, gate, hot-swap source, the tick that swaps | |
| `SafetyMonitorMC`, `ResilientDriverMC` | what TLC needs (symmetry of slots, deadlines) | the module |
| `*_proofs` | theorems | the module, `TLAPS` |

The components meet in pairs. `ControlLoop` uses the latch as the three facts
`EmergencyLatch` refines (in memory, dirty, on record) and the monitor as a verdict;
both are shown to implement the same promise, `EStopPromise`;
`SafetyMonitor` opens the verdict up and keeps the loop abstract; `ResilientDriver`
takes from `SerialDriver` that the port serves its queue in order; `MissionIngress` ends
where the dispatcher accepts or refuses, and `Mission` starts there; `Mission` and
`OnDeviceLearning` each open up one part of the tick that `ControlLoop` calls `Drive`.

### EmergencyLatch

`latched` and `dirty` are `_record.latched` and `_dirty`; `path`, `tmp` and `durable`
are the contents of the two files and of what a power cut would leave of the first;
`stage[w]` and `handle[w]` say how far `_write_sync` has come in thread `w` and where
the inode it has open is linked. `TickTimeout` is `wait_for` in `run()` cancelling the
await of `asyncio.to_thread`: the thread goes on (`OrphanEnds` is its unobserved end).
Two writers share one temporary name, so a `Replace` by one may publish the other's
half-written inode: the model keeps inodes apart from names for exactly that reason.
`Load` is bring-up; a damaged file reads latched; `CliLoad`/`CliRearm` are the two
halves of the CLI with the operator in between. `owed` remembers that a `persist()`
has returned and no operator has re-armed since.

### SafetyMonitor

`mon` holds the monitor's fields; time is counted in control periods and saturates one
past the thresholds (`AgeCap`, `Gap`). `StartTick` is `read_all` and the first
`evaluate`, `Recover` the second one of the tick, `StopTick`/`DriveTick`/`FailTick` its
three ends (only the first two advance the tick index: `counted`), `GateCall` gate 6 of
`call_tool` on the made-up snapshot, `Dispatch` the handler. `sustained`, `judged`,
`realAge`, `lidarGap` and `tripped` are histories of what really happened, computed
apart from the monitor's own fields; `misled` remembers that a gate call or a failed
tick has disturbed the monitor. `Init` wires the latch or not. Clearance, battery and human proximity are one
input (`hazard`): they are memoryless comparisons.

### ControlLoop

`pc` is where `serve()` is: bring-up (`load`, `connect`, `halt`, `bringup`), the loop and
its tick (`loop`, `sense`, `brake`, `persist`, `drive`), `handler` (run()'s except
branches), `wedged` (a tick that swallowed its cancellation), teardown (`teardown`,
`halting`, `closing`) and `down`. `CutShort` is what a stretch of code that raises or is
cancelled may or may not have done. `Signal` is `request_shutdown` plus the escalation
task, `Escalate` its `run_task.cancel()`. An agent is always there: `ToolPasses` is gate
6 passed, `ToolSends` the velocity on the port some awaits later. `wheels` tells motion of
the loop ("driven") from motion of the agent ("pushed"), which is not of its making. After `down` the same state boots again: `Boot`
is systemd or the operator. The wheels and the record survive every death.

`KeepsPromise` says that the process implements `EStopPromise`: it is *armed* when it is
past the load of the latch and not latched, and a stop is *held* when it is `recorded`.
`Persist` is then the promise's `Hold` (only a latched process has anything to write),
`Rearm` its `Release`, a load that finds nothing its `Arm`, and a trip or any death its
`Disarm`. `Fsync` is TRUE in the mapping, as what a power cut does to the file is
`EmergencyLatch`'s subject.

The chassis is assumed to have no heartbeat failsafe armed (the `legacy` command set, or
a heartbeat period of 0): with one, wheels left turning stop by themselves. Terminating
on a second SIGTERM is the default disposition of a process that is not PID 1.

### SerialDriver

`Connect` opens the port on the worker, arms the command set under the lock and, on an
error or a cancellation, rolls back (`serial`, `connected`, `handles`); `attempts` counts
the tries of `ResilientESP32Driver.connect`. A process connects once and disconnects once.
A caller waits for `_io_lock` (`waiters`, first come first served), holds it, submits a
job to the single worker, awaits it; `CancelWaiting` and `CancelHolding` cut it off at
any of these awaits. `jobs` is the executor's queue, `asked` and `buffer` the line to the
chassis. `PortFails` is an exception of pyserial. `abandoned` remembers that a query ended
without its reply. The model uses the `waveshare_stock`
command set, in which both queries poll; under `legacy` the encoder query only reads.

### Breaker, CircuitBreaker, ResilientDriver

`Breaker` is the record of `_state`, `_failure_count`, `_success_count`,
`_half_open_calls` and the operators the code applies under its lock, which it never
holds across an await. `CircuitBreaker` adds the calls in flight and marks them by the
period they were admitted in (`flight`); `proven` and `lost` are histories of the fresh
calls of the half-open period that succeeded or were cancelled. It has two
specifications. `BreakerSpec` is the breaker whatever becomes of its calls: each may
succeed, fail or be cancelled at any time. `Spec` puts a dependency behind it that
answers every call or none (`healthy`).

`ResilientDriver` is the breaker `_cb_command` in use: `healthy` is the serial port, and
each action of the driver that touches the breaker is one of the breaker's own
(`SendVelocity` a `Begin`, `Return` a `Succeed`, `Exhaust` a `Fail`, `Deadline` a
`Cancel`) beside what it does to the retry loop. The driver adds that loop and the caller's
deadline (`Patience[c]`: the number of backoffs that fit in it); `attempts` is
`retry.max_attempts`, picked once in `DriverInit`. That `DriverSpec` implements
`BreakerSpec` is a theorem, so that what holds of a breaker whatever becomes of its calls
holds of the driver's.

### Mission

`mission`, `seq` and `completed` are `_mission`, `_mission_seq` and the dispatcher's
`_mission_completed`; `tracker` is the status of each mission's task. The tick runs
through `phase`: "scoring" has no await; "asking" is the await of the replanner, "export"
that of the memory export, and in both a command (`Dispatch`, `Fail`) may be handled and
`CutShort`, the tick's timeout, may strike. An emergency tick skips the tracker and the
boundary (`full`). The progress score is one of three values, told apart by the two
thresholds. `outcome`, `requests`, `owed` and `lost` are histories. A command that is
refused, needs an approval nobody gives or is not understood is a `Dispatch` that starts
nothing. Replanning is off by default (`replan_enabled`); the model is of a rover where it
is on, without which `GiveUp` and `Ask` do not occur. `fail()` is public and has no caller
in `src/`; the model lets anybody call it.

### MissionIngress

A request is its position in `requests`, with the role it took: it leads a dispatch,
follows one that is running, or replays an answer. Reading the clock, pruning the table
and taking the role are one action, as no await separates them. `Finish` is the return
of the dispatcher, `Wake` a follower's. The server's shutdown (`Stop`) is the only time
aiohttp cancels handlers; a client that goes away does not.

### OnDeviceLearning

`stage` is where the coordinator's cycle is; `CycleFails` may end it anywhere. `slots`
and `active` are files: they outlive `Restart` and may rot. `Probe` and `Materialised` are
the two ends of the worker thread that loads a slot; between them the tick runs, another
slot may be promoted, and files may rot. `carried` names the model that made the latent
state, the recovery buffer and the previous action. A model is the digest of its slot, so
that whether training produces the same candidate twice, and whether it is good
(`Better`), is left open. `reset_state_on_swap` has its default, TRUE.

## 3. Runs

Passing runs:

| Run | Instance | Distinct states | Shows |
|---|---|---|---|
| `latch` | 2 writer threads, fsync, fair | 12,092 | `AckIsDurable`, `KeepsPromise`, `TripReachesDisk` |
| `serial` | 2 tasks, 3 calls, 2 attempts to connect, 2 misses, cancellations, failing port, fair | 149,458 | `StopIsLast`, `RepliesMatch`, `ConnectRollsBack`, `CallsEnd` |
| `monitor` | 2 slots, streak 3, warm-up 2, stale 2, grace 2, latch wired or not, MCP gate, failing ticks | 217,170 | `OverrunIsSustained`, `SilentSensorStops`, `DeadLidarStops`, `LatchedNeverStarts` |
| `loop` | 2 kills, failing disk, MCP agent, fair | 4,321 | `KeepsPromise`; record, halt at exit, no late tick, shutdown ends, orphaned and pushed wheels stop |
| `breaker` | 3 callers, threshold 2, 3 probes, cancellations, fair | 952 | `SlotsAccounted`, `RecoversUnlessLost` |
| `driver` | patient tick, impatient agent, 1 to 3 attempts, fair | 15,834 | `StopIsLast`, `DeadPortOpens` |
| `mission` | 3 missions, window 2, 2 replans, 2 active tasks, fair | 170,420 | `OutcomeFinal`, `ReplanBudget`, `TrackerAgrees`, `BoundaryKept`, `StallEnds` |
| `learning` | 3 candidates, 2 good, batch of 2, 4 records, 1 restart, fair | 138,824 | `LiveIsBlessed`, `CarriedIsOwn`, `EngineOfPending`, `ConsumedIsReal`, `ActiveGoesLive` |
| `ingress` | 2 keys, window 2, 3 clock steps, 3 requests, fair | 104,133 | `OncePerKey`, `AnswerIsTrue`, `FollowersEnd` |

The bounds. Two writer threads are the smallest number that can share the temporary
name, and a third adds nothing the second cannot do, since `awaiting` admits one awaited
write at a time. Two tasks and three calls let jobs of cancelled calls stand in the queue
before a stop and a velocity, let two queries meet, and let a degraded driver be reached
and left; two attempts let a failed connect be followed by one that succeeds. Two kills
leave one process's wheels to a successor that is killed as well. Streak 3 and warm-up 2
are separate numbers so that neither hides the other; ages saturate where the code stops
telling them apart. Three callers can hold all three probes, or two of them next to a
call of the period before. Three attempts make two backoffs, one before and one after a
stop. Three missions let one be replaced while it is asked about and the next one be
replaced too, and fill the two places of the tracker. Two good candidates can supersede
each other, the bad one is there to be refused, and four records make a held-out batch
that the store of a young rover (two records) does not. Three requests are a leader, a
follower and one that comes later; three clock steps let the window of two pass. The
theorems of section 4 remove the bounds where they apply.

Runs that end in a violation, each stating what a document or a comment says:

| Run | Says | The code |
|---|---|---|
| `monitor_blind` | gating is "enforced upstream in MCPToolBridge" (`common/tools/motor_tools.py:15`) | the gate judges a snapshot in which all is well |
| `loop_unsaved` | "The latch holds the stop across ticks and across restarts" (`docs/runbooks/emergency-stop-rearm.md:16`) | a trip whose stop failed is never persisted |
| `swap_planner` | "the current tick saw one consistent weight set" (`orchestrator/_world_model_state_mixin.py:143`) | a swap replaces the model that observes; the planner keeps the one of the boot |

The models show more disagreements between code and text. Several properties carry the
exception in their statement; without it they fail:

| Property | Exception | Why |
|---|---|---|
| `OverrunIsSustained` | `misled` by a failed tick | a failing tick keeps its index and the next one is not counted, though a tick slow "because it keeps failing must not stay invisible" (`orchestrator.py:694`) |
| the same | `misled` by a gate call | a gate call in between judges 0 ms and resets the streak |
| `SilentSensorStops`, `StaleNeedsReading` | the same | the gate's snapshot stamps every slot as valid |
| `RecordedMeansStill`, `LatchedNeverStarts` | wheels "pushed"; a call past its gate | a tool call past its gate moves the wheels once more behind the stop |
| `HaltedAtExit` | wheels "pushed" | a tool call that survives a failed software teardown sends between the halt and the disconnect |
| `RepliesMatch` | `abandoned` | "The send-then-read pair MUST be atomic" (`comms/serial_driver.py:287`), but a query that ends without its reply leaves it in the input buffer, which nothing drains, and every later query is one reply behind |
| `RecoversUnlessLost` | a cancelled probe | it keeps its half-open slot; when all slots are lost the circuit rejects every call for ever, though "Once root cause is fixed, the breaker auto-transitions" (`docs/playbooks/esp32-fail.md:67`) |
| `DeadPortOpens` | a caller with patience | the default 1 s tick deadline cancels each failing call in its first backoff of 1 s, and a cancelled call records no failure |
| `OutcomeFinal` | a `fail()` during the await | the answer of the replan sets the failed mission running again |
| `StallEnds` | a cancelled replan | nothing but a high score leads out of the `REPLANNING` it leaves behind |
| `BoundaryKept` | a cancelled export | the flag is cleared before the await and the resets behind it are skipped |
| `ActiveGoesLive` | a rejected digest | a slot found rotten is remembered as seen: it is not tried again before another digest or a restart, even when training writes it anew |

More follow from single actions and need no run:

- `_read_sync` clears on a `latched: false` file, although "absence is the only unlatched
  state" (`safety/latch.py:286`; action `Load`).
- Cancelling a caller drops its job while that is still queued, a stop too, although "a
  cancelled future does not cancel already-submitted work" (`comms/serial_driver.py:114`;
  action `CancelHolding`).
- A second SIGTERM after `serve()` has removed its handlers ends the process before the
  halt, although it is said to be "a no-op" (`_lifecycle_mixin.py:555`; action
  `SignalInTeardown`).
- With the latch wired a sensor recovery cannot avoid the stop (`orchestrator.py:532`):
  the evaluation before it has tripped the latch.
- The held-out batch is read once, when the gate is built (`heldOut` changes in `Restart`
  alone), although on a sparse store "promotion simply waits for more experience"
  (`factory/on_device_learning.py:366`): it waits for a restart.
- The trigger counts the *new* records, but the batch is read from the start of the store
  (`factory/_replay_batch_helpers.py:238`): later cycles train on the oldest ones (action
  `Load`).
- The refiner and the gate keep the boot model as their baseline after a swap, as the
  planner does.
- The window of the ingress is counted from the arrival of the leader, not from its
  answer (`Alive`); a repeated key gets the first answer even with another command.
- A follower awaits the leader's own future: cancelled at shutdown, it cancels that
  future, and the leader's `set_result` raises after the robot was sent
  (`CancelFollower`, `lost` in `Dispatched`).
- On a chassis that falls silent, `read_encoders` returns `{}` (`serial_driver.py:402`)
  and the sensor manager marks the motor slot valid (`sensing/manager.py:399`): that slot
  never goes stale. `SafetyMonitor` takes validity as an input and does not show it.

`CHECK_DEADLOCK FALSE` appears once, in `ingress`: with the clock and the number of
requests at their bounds and every request answered nothing is left to happen.

### Fairness

- `EmergencyLatch`: emergency ticks keep calling `persist` while the record is dirty
  (the loop ticks as long as it runs), threads make progress, and storage does not fail
  the same step for ever (strong fairness of the three file steps). A disk that fails
  for ever is a real limit: the trip then lives in memory only.
- `SerialDriver`: asyncio runs what is ready, the worker runs its queue, and the chassis
  answers or the read times out. Nobody is obliged to call or to cancel.
- `ControlLoop`: the event loop runs, the grace timer fires, and `Restart=on-failure`
  starts a process that failed or was killed. A clean exit need not be followed by a
  start; systemd's watchdog may be off and is not relied on.
- `CircuitBreaker`, `ResilientDriver`: the 30 Hz loop keeps calling, calls end (each has
  a timeout), the monotonic clock passes the recovery timeout. No fairness is put on
  `reset`, on cancellation or on the dependency's health; a backoff that outlasts its
  caller's deadline is cut off by it.
- `Mission`: the loop ticks, frames come again and again (strong fairness of `Lifecycle`,
  so that ticks without a pair of frames do not hide all the others), LLM calls and
  exports end. Nobody is obliged to send commands, and timeouts may strike or not.
- `OnDeviceLearning`: the loop ticks and not for ever in an emergency (strong fairness of
  `PlanAndSwap`); the source probes at its cadence and its thread ends, not for ever in an
  error (strong fairness of `Materialised`). No fairness on the coordinator: `ActiveGoesLive`
  is about a slot that is promoted already.
- `MissionIngress`: a dispatch ends, as the language model's calls have a limit, and a
  resolved future wakes its waiters.

## 4. Theorems

All hold for every value of the constants that satisfies the modules' assumptions.

- `EmergencyLatch_proofs`: `TypeCorrect`, `AckDurable`, `Refines`, `NeverArmed`.
  `AckIsDurable` is not inductive: the induction needs that only a latched process has
  anything to write (`WritesOnlyLatched`), that what a thread has replaced stays on disk
  until a re-arm (`ReplacedIsHeld`), and that a process free to drive has no stop on record
  (`FreeOwesNothing`). The last one is also the heart of the refinement: `Arm` of the
  promise is possible only when nothing is held. `NeverArmed` carries the promise's own
  invariant down to the latch.
- `SafetyMonitor_proofs`: `TypeCorrect`; `DeadLidar`, from the monitor's clock never being
  younger than the real gap; `OverrunExact`, from the monitor's streak and tick count
  agreeing with the histories as long as nothing misled them; `LatchHolds`, from a
  tripped monitor being latched and a latched verdict being an emergency (it assumes a
  grace above 0: with 0 the gate's own snapshot trips the latch of a rover that drives);
  `SilentStops` and `StaleWasValid`, from the monitor's stamps being the real readings as
  long as nobody shows it a made-up snapshot.
- `ControlLoop_proofs`: `TypeCorrect`; `ShutdownHolds`, since a request leaves `_running`
  false for good; `RecordHolds`: the record is written only at `persist`, where the loop's
  wheels are still, and every later state that could drive them needs `latched` to be
  false, which the load rules out; `ExitHalts`: past `halting` the loop's wheels are still
  or the port has refused the stop; `Refines`: the record changes only when a dirty latch is
  saved or an operator clears it (`RecordChanges`), and no process past its load is
  unlatched while a stop is on record (`Held`).
- `SerialDriver_proofs`: `TypeCorrect`, `StopHolds`, `RepliesHold`, `ConnectHolds`, for any
  set of callers and any number of calls. None of the three is inductive. The invariant
  numbers the calls and says that the numbers agree with every place a call may be in:
  whoever waits for the lock called before those behind it and after every stop that has
  returned (`Queue`); only the owner of the lock is inside an operation (`Holder`); a job
  on the line is the one the owner waits for, or it runs already and has lost its caller,
  and then it is older than everything else (`Jobs`); what is open has exactly one handle,
  or one close on its way (`Port`); and at most one reply is outstanding until a query is
  abandoned (`Line`). `StopHolds` follows, as every
  job left on the line is of a later call than the last stop that has returned.
- `ResilientDriver_proofs`, first about `CircuitBreaker`: lemmas that every operation of
  the breaker keeps it consistent; `SlotsHeld`: each step of a call moves it between
  running probes, proven and lost ones and leaves their sum equal to the slots taken, by a
  cardinality argument over the finite set of callers; `CircuitImplements` and
  `TypeCorrect`. Then about the driver: `DriverImplements`, one step of the breaker or a
  stutter for each step of the driver, by which `DriverSlotsHeld` is `SlotsHeld` itself;
  `DriverTypeCorrect`; `StopHolds`: with one attempt per call nobody is ever in a backoff
  (`NoBackoff`), the only place a velocity older than a stop can leave from.
- `Mission_proofs`: `TypeCorrect`, `BudgetHolds`, `TrackerFollows`, `BoundaryHeld`,
  `VerdictFinal`. The budget needs that `requests` is the number of counted replans plus at
  most one that is open or was cut short, and that a mission left in `REPLANNING` cannot
  stall again (`Budget`); a verdict is final because a mission with one is in a terminal
  state, or is the one being asked about (`Verdict`, `Waits`).
- `MissionIngress_proofs`: `TypeCorrect`, `DispatchedOnce`, `AnswersHold`, for any number of
  requests. The tables must be tied to the requests: a key in flight points to its one
  running leader (`SlotsHeld`), every sent command younger than the window is remembered
  (`Remembered`), and a future says how its leader's dispatch went (`Answers`).
- `OnDeviceLearning_proofs`: `TypeCorrect`, `Blessed`, `NoContamination`, `EngineReady`,
  `TriggerDisarms`. What is on the way to the wheels, in the thread, in the cache or behind
  the pointer, was promoted already (`OnTheWay`); the rest follows by cases.

Liveness under fairness is beyond the prover: `TripReachesDisk`, `CallsEnd`,
`RecoversUnlessLost`, `DeadPortOpens`, `ShutdownEnds`, `OrphanedWheelsStop`,
`LatchedWheelsStop`, `StallEnds`, `FollowersEnd` and `ActiveGoesLive` are model-checked
only. What can be proved of most of them is the safety they rest on: whoever waits has
something to wait for, which the code, and not the scheduler, has to provide.

| Liveness property | Rests on | Proved as |
|---|---|---|
| `TripReachesDisk` | an awaited `persist()` has a thread at work, for a stop that still holds | `AwaitEnds` |
| `CallsEnd` | the lock is free for the next, or its owner can go on, or the worker has its job | `LockNeverLost` |
| `RecoversUnlessLost` | a half-open breaker that runs no probe and lost none admits one | `ProbeAdmitted`, `DriverProbeAdmitted` |
| `ShutdownEnds` | behind a request and a loop that still runs stands the grace timer | `AlwaysEscalates` |
| `StallEnds` | a running mission's stall is acted upon in the tick that fills the window | `StallNeverOverdue` |
| `FollowersEnd` | a follower's leader still runs, or its future has the answer | `NoOneAbandoned` |
| `ActiveGoesLive` | a promoted slot is still to be probed, or pending, or drives, unless it was found rotten | `NoSlotPassedOver` |

The others, `DeadPortOpens`, `OrphanedWheelsStop` and `LatchedWheelsStop`, count failures
or deaths until something happens, and have no such part. All safety properties
of the passing runs are theorems, the ones that end in a violation excepted.

## 5. Not modelled

Battery, clearance and human thresholds (memoryless), the fields of the latch record
other than `latched`, codecs and JSON, logging and metrics, what networks and planners
compute, the query side of `ResilientDriver` (the same code on a second breaker), the
tracker's tasks that are no missions and its bounded history, the rate limiter and the
schema check of the mission route, the approval gate and the injection filter in front of
a mission. The cloud weight poller hands its update to the same swap as the on-device
source; its downloads are network I/O. A swap of the policy engine replaces no state that
the models follow, and the bounded latent context is off by default. Hooks after the tick
are assumed not to suspend. The remaining packages (tensors, simulation, training,
configuration, scripts) have no behaviour over time that a state machine would show; they
are listed with their reasons under `components` in `PROJECT.json`.

## 6. Plan

Done: the modules above. Next, in this order:

1. `SensorManager`: gathered reads, partial failure and recovery, as the environment of
   `SafetyMonitor`.
2. The cloud weight poller as a second source of `OnDeviceLearning`: an update is applied
   or dead-lettered exactly once.
3. The approval gate and the LLM fallback in front of `Mission`; the telemetry queues.
4. `SerialDriver` as the port of `ResilientDriver`: the attempt that takes effect as it is
   made, replaced by the queue whose order is proved.
5. A composition of `SafetyMonitor` and `ControlLoop`, in which the verdict the loop takes
   as an input is the monitor's.
