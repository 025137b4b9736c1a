# R2B4 in TLA+

This directory keeps a TLA+ model of the control core of R2B4, a Raspberry Pi
robot, next to the Python that implements it. Source paths are relative to the
repository root. Every definition is translated from the source; the file
`PROJECT.json` names, for each one, the lines it stands for.

## 1. The system

R2B4 is a handful of processes on one computer.

| Part | Source | State it keeps | Operations |
|---|---|---|---|
| Tick pipeline L1-L12 | `v3/engine.py`, `v3/layers/` | last tick context, per-layer state, the L12 fault latch | `run_tick`, `run_fault_tick` |
| Resident live control | `v3/composition/resident_live_control.py` | lifecycle, ACTIVE / re-arm / fault / shutdown flags, lidar preflight | `tick_execution`, `shutdown_execution` |
| Runtime loop | `v3_runtime.py`, `v3/composition/resident_physical_control.py` | tick id, deadline, previous clock | one loop iteration, `close` |
| Motor sink | `v3/adapters/gpio_motor.py`, `motor_pwm.py`, `motor_writer.py` | GPIO handle, last ALLOW directions, closed / failed | `write`, `close` |
| Command mailbox | `v3/adapters/resident_command.py` | one JSON file, replaced under a file lock; client and gateway revisions | `publish_*`, `publish_stop`, `snapshot` |
| Control CLI | `v3/control_cli.py` | one client, heartbeat loop | start, refresh, stop |
| Operator controller | `v3/operator_controller.py` | transition lock, sequence mark, pid files, producer and runtime processes | `runtime_start`, `runtime_stop`, `stop`, finite motions, teleoperation, test sequence |
| Planner process port | `v3/adapters/l6_planner_process.py` | one running and one pending request, completion buffer, abandoned ids | `submit`, `take_completion`, `abandon`, collector thread |
| Recovering planner | `v3/adapters/recovering_l6_planner.py` | generation, worker backend, latest logical request | the same port, plus the recovery thread |
| Multirate inputs | `v3/adapters/multirate_inputs.py` | per device a history, a deadline, a sequence; the batch the last tick froze | worker lanes, `begin_tick`, `close` |
| Device drivers | `v3/adapters/latest_lidar.py`, `process_lidar_port.py`, `gpio_encoder.py`, ... | device handles, latest decoded sample | `read` |
| Vision and media | `v3/adapters/vision_owner.py`, `process_vision_port.py`, `vision_media_socket.py` | camera, its generation, who demands it; the consumer's demand, its revision and what is published | acquire, release, idle grace, sessions; raise and withdraw, collect |
| Process sidecars | `v3/process_sidecars.py` | status and capture child processes, their queues and one-slot mailbox | start, publish, finish |
| Capture and replay | `v3/mcap_capture.py`, `v3/mcap_writer.py`, `v3/replay.py` | bounded queue, file | tap, drain, close |
| Robot runtime | `r2b4_orchestration/robot_runtime.py` | host generation, action lock | execute, preempt, revoke, poll |
| Brain core | `r2b4_orchestration/brain_core.py` | goals, primary goal, adoption, facts, policy | adopt, dispatch, revoke, fail |
| Behaviour system | `r2b4_orchestration/behavior_system.py` | the installed behaviour, its generation and life | start, step, revoke, finish |
| Skills | `r2b4_orchestration/skill_runtime.py`, `skill_worker.py`, `robot_skills/` | the skill run, its worker process | start, call, revoke, supervise |
| Voice | `r2b4_voice/` | wake state, session, audio queues | wake, listen, speak |
| Embodied-reasoning client | `r2b4_er2/` | remote session | ask, apply |
| Tools, diagnostics, web UI | `tools/`, `v3/operator_*`, static files | none that control motion | reports |

### How the parts meet

* A **client** (CLI, operator controller, a behaviour) publishes a short-lived
  command revision into the mailbox file. It never calls the runtime.
* The **runtime loop** calls the resident control once per period. The resident
  control closes one input batch (L0), takes one command snapshot from the
  gateway, freezes any finished planner answer into the inputs, runs L1 to L11
  as pure functions of that snapshot plus layer state, and lets **L12** make the
  one decision and the one motor write of the tick.
* The **motor sink** turns the decision into four GPIO pins and owns the
  hard-low path taken on STOP, FAULT, close and every I/O error.
* The **planner** works in another process. L6 owns the request; the port may
  run one and hold the latest one; an answer becomes visible only when a later
  tick closes its inputs, and an answer to a superseded request never does.
* Orchestration (brain, behaviours, skills, voice) lives in another process, the
  host. Every way to move the robot there goes through one action lock and the
  operator controller; what a request may still do is decided by a generation it
  captured when it was admitted.
* The **operator controller** owns no motion: it starts a control CLI process as
  producer, watches it and takes it away again. Several controllers (host, web UI,
  command line) share only files, signals and one file lock.
* The **vision owner** serves several clients of one camera; the runtime's consumer
  is one of them, and the mission raises and withdraws its demand.

### What is hard

* **Ordering and staleness**: preflight evidence must be of the tick just
  before, in order, and from distinct lidar revisions; a command may be old,
  re-read, or replaced by a producer that was superseded while it was writing.
* **Partial failure**: any of the twenty-odd GPIO calls of one write may fail,
  and so may the calls of the emergency path that follows.
* **Concurrency**: several client processes race on the mailbox; a planner
  recovery thread, a collector thread and the tick thread share one port; input
  lanes publish while the tick freezes what they published.
* **Late authority**: a motion is prepared, submitted and accepted in separate lock
  sections; a STOP, a new goal or a failure may come between any two of them.
* **Crash and restart**: an operator's call is killed or cancelled in the middle of nested
  calls; the owner of the camera is killed; a planner worker dies with a request in flight; a
  client dies and its command must expire by itself.
* **Termination**: FAULT must end the loop and the loop must leave the pins low.

### What makes each part correct

| Part | It is correct when |
|---|---|
| Resident control with L12 | motion is granted only on fresh, ordered, counted preflight evidence; it is lost at once; a fault is final; readiness shown to the operator is honest |
| Runtime loop | it ends with the output closed; one tick per slot, in order; a stop is obeyed within a tick and always ends the loop |
| Motor sink | a returned STOP is off, a returned ALLOW is the frame, a reversal breaks first, an error leaves the sink closed and nothing running that could have been stopped |
| Command mailbox | a heartbeat replaces only what it has seen; revisions rise; abandoned motion ends as STOP; clients never bring the runtime down |
| Planner port and supervisor | one request at a time, answered at most once and never when superseded; no request, count or process is lost in a recovery; hangs are noticed; recoveries end |
| Multirate inputs | a tick misses nothing that is older than itself; hung and dead lanes are not healthy; nothing is published after close |
| Robot runtime, brain, behaviours, skills | what was revoked moves nothing after the STOP that followed and never has authority again; whoever takes over begins with a robot that is still |
| Operator controller | a clean stop leaves no producer and a STOP; a failed one revokes what it could not end; a revoked sequence starts nothing more; at most one runtime; no call keeps the transition |
| Vision owner and consumer | a camera in use is neither turned off nor replaced; nothing of an earlier demand is published; a failure stays visible; every demand is answered |

## 2. Modules

Every module is plain TLA+. `MC...` modules only give constants their values;
`...Proofs` modules hold theorems and extend the module they are about.
Operators called `Mut...` are not part of a specification: each is the form a
plausible bug would give the operator that follows it, and the run of that
module finds the named property violated when it is put in place.

**ResidentControl** (abstract: **MotionAuthority**). One action is one call of
`tick_execution` or `shutdown_execution`, from the L0 read to the motor write:
`FaultedTick`, `InputErrorTick`, `PreflightRequiredTick`, `MotionTick`,
`IdleTick`, `ShutdownTick`, `ShutdownInputError` and `WriterFailure` are its ways
to end, in the order of the early returns. `Decide` is
`FinalSafetyGate.finalize`, `Commit` the engine's commit with the latch and the
write, `OrderFault` the engine's tick-order check. Device health, lidar revision,
upstream fault, motion request, lidar verdict and writer failure are chosen anew
in each call. `evidence` and `established` are history variables: the revisions
really seen, and whether an ACTIVE tick was ever committed.

**RuntimeLoop**. `run_resident_physical_control` between its calls: build,
wait (a signal does not shorten the sleep), read clock and flag, tick or shut
down, advance the deadline, close. A call of the composition is well, faulted or
raises; `ResidentControl` is what happens inside, and `CallsInOrder` is what
its tick-order check asks for.

**CommandMailbox**. Client processes go through `BeginMotion` or `BeginStop`,
`Stage` (temporary file, no lock), `Lock` or `LockTimeout`, `Check` (revision
compared under the lock), `Replace` or `Reject`; they may `Crash` anywhere, and
the operating system then drops the lock. `ReaderPoll` and `Snapshot` are the
runtime's reader thread and gateway. `RestartRuntime` is the controller's removal of
the file at runtime start, at any moment: it takes no lock and looks for no producer, and
the producers it leaves behind are remembered in `orphans`. A publication is its
revision, mode and remaining lease; `id`, its place in the order of all commits, is what
the code does not have and the properties need.

**MotorSink**. One action per backend call and pin: a call of the sink runs
through phases (cancel, low, verify, hold, verify, PWM, release), and `Fails`
lets any step fail with or without its effect, which leads to the emergency
phases, whose steps may fail too. `Duty`, `Direction` and `Breaks` are
`plan_drv8871_pwm`, `_channel_direction` and the break-before-make decision.

**PlannerRecovery**. The control thread's calls (`Submit`, `TakeResult`,
`NoticeFailure`, `Abandon`, `Close`, `FinishClose`) against the recovery thread,
one action per lock section: `CloseOld`, `StartWorker`, `Look`, `Install` for no
pending request, `Hand` and `Publish` for one, `GiveUp`. Workers fail at any time.

**PlannerWorker** (abstract: **RolloutPort**). What `PlannerRecovery` sees as
a worker: the parent's calls, the collector thread (`Collect`,
`CollectorNoticesExit`) and the process (`WorkerTakes`, `WorkerAnswers`,
`WorkerDies`) over two queues, with a watchdog on a clock. A hung process is one
that takes no step.

**MultirateInputs**. Lanes poll (`FindDue`, `StartPoll`, `ReadReturns`) and
publish in two steps, `StampPublication` and `Publish`, between which they hold
the publication lock; the control thread builds the reader, freezes batches
(`BeginTick`) and closes it. A read that takes no step is a hung read. What is due
is polled in any order, where the code keeps the order of the configuration.

**OperatorController**. A call is a small stack machine: `pc` is the step of the innermost
method, `stack` says where its callers go on, `OnReturn` and `OnRaise` are their
continuations and exception handlers, and `Unwind` is what an error does to them. `Stop*`
and `Revoke*` are `stop()` with its preemption outside the transition, the repetition under
it and the shutdown a failed cleanup asks for; `Off*` is `runtime_stop`, `Start*`
`runtime_start`, `Move*` a finite motion or teleoperation, `Seq*` the test sequence with its
phases. A used capture slot makes a finite motion (`MovePrepare`) and a sequence
(`SeqPrepare`) restart the runtime in the middle. The environment is explicit: producers
start, are admitted, superseded and end (`Admit`, `Heartbeat`, `UnwindProducer`,
`EndProducer`), a supervisor spawns its runtime and records it later (`Supervise`, `Record`,
`Ready`), a budget is cancelled (`Cancel`) and a caller killed (`Crash`). A wait with a
limit may expire as long as what it waits for has not come.

**RobotHost**. The takeover protocol of the host: request threads, the brain's dispatcher,
the poll thread and a skill's supervisor. One action is one section under the state, brain
and behaviour locks; the action lock is a variable, held over whole submissions. `RevokeFor`
is what an admission takes away from those before it, `EarlyStop`, `FinalStop` and
`FailStops` are the STOPs before and under the action lock, `Land` a submission that gets to
the robot. `Dispatch*` is the brain's dispatcher with `adopt` (`Adopt`, `Cede`, `Refuse`),
`Poll*` the poll that steps behaviours, `Skill*` a skill run. A goal's plan is a sequence of
nodes of any length: `Progress` is the end of a node that was running, `DispatchAccepts` of
one that ended as it was submitted; both go on to the next node with no STOP and no
revocation, as `_transition_node` does (`brain_core.py:1406-1423`). Only `Recover`, after a
failure, ends the behaviour first, and `DispatchAgain` is its STOP. `onward` says that the
node in hand was reached by success, `beside` who has begun to act since the current goal
was adopted. Generations are identities: a request's generation is current as long as it is
the newest admission, the primary goal or the owner of the behaviour.

**VisionDemand**. `Activate`, `ActivateFails`, `Acquire`, `Release` and `Idle` are the
owner's methods under its lock, `Serve` to `EndSession` the server's thread for one
connection, `SetDemand` and `Close` what the mission does to the consumer, and
`Collect` to `Unpark` the collector thread, one section under its condition each. A
connection is what its client has not read yet. `CameraDies` and `OwnerDies` are the
faults; `ImageClient` and `Manual` are everybody else who wants the camera.

### Composition and what comes next

The interfaces are kept so that the modules meet: `RuntimeLoop` guarantees the call order
`ResidentControl` checks, `ResidentControl` asks of the inputs what `MultirateInputs` gives
it, `MotionAuthority` and `RolloutPort` are what a user of the detailed module may rely on.
`OperatorController` is what stands behind `RestartRuntime` of `CommandMailbox`: its `Off*`
to `StartSpawn` scan for producers and remove the file in different steps, with a producer
started between them or left by a `stop()` that failed, and `CommandMailbox` assumes no more
of it. And its `StopIsFinal` is what `RobotHost` takes a STOP to be. What is left, in order:

1. An abstract specification of who may move the robot, which `RobotHost` and
   `OperatorController` both implement, so that what `StopIsFinal` promises and what
   `RobotHost` assumes of a STOP is one text.
2. A recovery thread that fails to start, and old-generation results, in
   `PlannerRecovery`; the transport watchdog of `native_control.py` above it.
3. The mission lifecycle of L5 and the rollout bookkeeping of L6 as seen by the
   port; status and capture sidecars with their bounded queues.

## 3. Runs

| Run | Bounds | States |
|---|---|---|
| `resident_control` | 2 devices, 3 lidar revisions, 2 required, 8 tick ids, clock steps 0 to 2 with a maximum age of 1 | 14 thousand |
| `command_mailbox` | 1 producer, 1 stopper, 4 starts of a producer or a publication, lease and patience of one clock step | 641 thousand |
| `command_mailbox_restart` (violation) | the same | - |
| `motor_sink` | a coasting and an inverted braking wheel, outputs -1, 0, 1, 2 of 3 | 515 thousand |
| `planner_recovery` | 4 workers, 4 requests, 2 attempts | 690 thousand |
| `planner_worker` | 4 requests, buffer of 1, watchdog of 1, clock to 4 | 148 thousand |
| `runtime_loop` | period 3, clock to 14 | 275 thousand |
| `multirate_inputs` | 1 critical and 2 auxiliary devices, period 2, age 1, history 1, clock to 2 | 3.0 million |
| `operator_controller` | 2 callers with one call each, 2 producers, 2 runtimes | 3.2 million |
| `robot_host` | 3 requests, 2 at once, symmetric; of any kind but a report, 2 of them goals or skill runs | 3.4 million |
| `robot_host_late` (violation) | a behaviour and a manual motion | - |
| `vision_demand` | 2 connections, 3 changes of the demand, 2 camera generations, 1 crash | 276 thousand |

Why the bounds are enough for the questions asked:

* Two devices tell "one critical device is bad" from "all are"; three revisions
  give increase, repeat and return; eight ticks allow a full preflight, a motion
  session, an interruption, a re-arm and a second session before a fault.
* Every mailbox race needs two writers and one reader; four starts are a producer, two
  heartbeats and a STOP before, between or after them, or two producers one after the other.
  That safety does not depend on how many writers there are is proved. A lease of one step
  can be alive, expiring and expired.
* Two wheels make four pins, so a call can fail before, between and after both
  pins of a wheel; three parts of full duty give a change of duty without a change
  of direction on both decay modes.
* Four workers and two attempts allow a recovery to fail and succeed, and a second
  worker to die during the hand-over; four requests allow one before the failure,
  one during it, one that supersedes it and one after.
* A request in the process, one waiting and one more replacing it is all the port
  can hold; four requests reach that and one answer that comes too late. `Submit`
  stops early enough for the watchdog to fire within the clock bound.
* A clock of 14 with a period of 3 allows ticks on time, ticks that miss one and
  two slots, and stops in each of them.
* Each device can be polled twice, with a hang between; since the newest
  snapshot is always visible to a tick that holds the lock, a history of one
  loses no behaviour that a longer one shows to the tick.
* Two callers are one that stops and one that starts something, or a sequence and what
  overtakes it; two producers are the one to be stopped and the one that slips in,
  two runtimes the old and the new one. The stack of a call is not bounded.
* A takeover has an old and a new owner; the third request follows the two and finds
  what they left behind (`AtOnce` keeps it from starting while both others run). A
  goal's plan has nodes without number, so that three requests are a goal, the goal that
  replaces it or the skill that begins beside it, and what comes between two nodes. Goals
  and skill runs live on after their request; `Lasting` allows two of them, that is every
  pair, and leaves out only three requests all of which are one or the other. A goal that only reports is a goal all of
  whose nodes are control nodes and that sends no STOP; it is in the model and the proofs
  but not in the run, which it would double.
* Three changes of the demand are raised, withdrawn, raised again, with a message of the
  first still on its way; two connections are the two demands, or one and another client;
  two generations are a camera and its replacement.

`CHECK_DEADLOCK FALSE` is given where the system really ends: after a failed motor
write or a shutdown (`resident_control`), when the port is closed and its process
and collector are gone (`planner_worker`), when the reader is closed or given up and its
lanes have ended or hang at the end of the clock (`multirate_inputs`), when all
requests are served (`robot_host`, `robot_host_late`), and when the consumer is closed
and no camera is left to come or go (`vision_demand`). Elsewhere a final state loops by
an explicit action (`Closed`, `Over`, `Finished`) so that every other stop is an error:
in `operator_controller` a call that hangs would be a deadlock.

### What the passing runs show

* `resident_control`: `ReadyIsHonest` (the readiness flag the operator sees is
  kept by the next timely command), `DriveNeedsAuthority`, `EstablishedRearms`,
  `ActivationHasPreflight`, and that the whole implements `MotionAuthority`, which knows
  neither ticks nor latches.
* `command_mailbox`: `RevisionsRise`, and `NoStaleOverwrite` for every producer but one
  whose mailbox was removed under it by a runtime start, until it takes a new cursor;
  and as liveness `MotionExpires` (with no producer left the runtime ends up obeying STOP) and
  `StopReturns` (a process that publishes STOP comes back, though another hangs in the
  lock: it is not promised that its STOP was written).
* `motor_sink`: `NoCoastConflict`, `BreakBeforeMake`, `StopIsOff`, `FrameApplied`
  (for outputs below full), `LeftoverIsStuck`.
* `planner_recovery`: `NoWorkerIsLost`, `RetainedIsHandedOver`, `RecoveryEnds`.
* `planner_worker`: `SlotsSuffice`, `HungIsNoticed`, `RequestsEnd`, and the port
  implements `RolloutPort`.
* `runtime_loop`: `EndsClosed`, `StopIsPrompt`, `OneTickPerSlot`, `StopEnds`.
* `multirate_inputs`: `CompleteCut`, `LostLaneIsNotOk`, `ClosedIsQuiet`.
* `operator_controller`: `StopIsFinal`, `EndedStopRevokes`, `RevokedSequenceRests`,
  `OneRuntime` (as long as no supervisor was given up: one that is later than its two
  seconds is abandoned and not killed), `TransitionIsLeft`.
* `robot_host`: `StopHolds`, `RevokedStays`, `CleanTakeover`. All
  three leave out whom two holes let through (`robot_host_late`, and the poll below);
  `escaped` records exactly these. `CleanTakeover` says of a node reached by success what
  is left without a STOP: such a node begins on a still robot or on one moved by a request
  that began beside its goal, never by what its adoption replaced.
* `vision_demand`: `HoldersKeepTheCamera`, `PublishedIsCurrent`, `NoSilentReplacement`,
  and as liveness `DemandIsAnswered`.

The type invariant of every module but the abstract ones is a theorem; so are
`FaultIsTerminal`, `ClientsAreTrusted`, `CallsInOrder` and `RequestsAreAccounted`, which
no run repeats.

### What the violations show

Each contradicts a sentence of the repository that `PROJECT.json` quotes.

* `command_mailbox_restart`: `runtime_start` removes the mailbox
  (`operator_controller.py:329`) with no look at producers, so revisions begin again; a STOP
  published next can have the very revision that a surviving producer expects, and its
  heartbeat overwrites the STOP. The comment at `resident_command.py:497-499` says that a STOP
  invalidates it.
* `robot_host_late`: `execute()` compares its generation under the state lock
  (`robot_runtime.py:1217-1219`) and installs the behaviour after releasing it (1220). A
  manual motion that comes between finds nothing to revoke; the behaviour is installed, and
  stays live through the STOP of its successor. The comment at 1198-1199 says that a
  STOP invalidates every request that was queued before.

### Other disagreements met while modelling

The models take these steps, and no run is about them.

* A producer that was superseded publishes an unconditional STOP over the newer command
  while it unwinds (`control_cli.py:140`; `resident_command.py:523-525` says that it must
  not).
* In BRAKE mode an update in the same direction from partial to full output leaves the
  trailing input's old duty running and returns normally (`gpio_motor.py:285`). The shipped
  output limit of 0.75 (`conf/vezerles.json:445`) keeps the case away, and `motor_sink`
  stays below full output.
* A recovery may end although a request that was submitted between two of its lock
  sections has no worker (`recovering_l6_planner.py:322`, against the comment at 302-304).
* The same two sections do not look at `_closed`: `close()` between them finds no worker
  to close, and the recovery thread then installs a live one in the closed supervisor
  (`recovering_l6_planner.py:323`).
* A goal's request finds no skill run and is adopted in a later section
  (`robot_runtime.py:968`, 1164-1165); a run that was waiting for the action lock starts
  between, or after, and is not replaced, against the comment at 963-964.
* A stop nested in a transition whose budget was cancelled is cut short before it asks the
  runtime to shut down (`operator_controller.py:510` and 251, against 521 and
  `test_operator_sequence_stop.py:297`); `EndedStopRevokes` still holds, because the
  producers have been signalled.
* The second hole of `robot_host`: `poll()` steps a skill's behaviour without the action
  lock (`robot_runtime.py:766-767`), so a step may come between an admission and its STOP.
* A skill that ends with its last motion still on the way does not stop it
  (`robot_runtime.py:982-1055`); a goal that only reports is adopted with an early STOP and
  none under the lock (`brain_core.py:756`, 907). What either lets run is not revoked, so
  no property is broken.
* A goal that goes on after a success, or after a world condition that was met, sends no
  STOP (`brain_core.py:1445-1447`, 1524-1544): a skill or a manual motion that began beside
  it is still moving the robot when the goal's next motion begins.
* `brain.fail` revokes behaviours after releasing the brain's lock
  (`brain_core.py:1572`), by then possibly the one of the goal that came after.
* When the camera's thread does not end in the idle loop, a dead camera is kept with no
  deadline, until the next demand (`vision_owner.py:173-197`); a dead camera with other
  holders is not replaced. A consumer that waits out an error keeps its session until the
  buffer is full and the send has waited 15 s (`vision_media_socket.py:310`), and an image
  session notices a dead camera only when it is asked for the next image (371-375).

## 4. Fairness

* `CommandMailbox`: weak fairness of the reader thread and of the runtime's
  snapshots (both run in a periodic loop), of time, and of the steps of a process that
  publishes a STOP (a short-lived process the system schedules). None of producers:
  they may hang for ever, also with the lock.
* `PlannerRecovery`: weak fairness of the recovery thread: every wait in it is
  bounded. The control thread need not call again. The run bounds the requests, so
  a recovery that is superseded for ever is not among its behaviours.
* `PlannerWorker`: time passes, the driver polls in every tick, the collector loops
  with a bounded wait. None of the process.
* `RuntimeLoop`: the loop thread runs and time passes. None of the signal.
* `VisionDemand`: weak fairness of the idle thread, of the collector (it loops with
  bounded waits; a message that comes too late or malformed, `Stumble`, is not promised)
  and of each server thread; of an image session only when its client has left, for until
  then it may wait for a request for ever. None of the clients, of the mission, of faults.
* `OperatorController`, `RobotHost`, `ResidentControl`, `MotorSink` and
  `MultirateInputs` state no fairness: their properties are safety. That a call of the operator
  controller always can go on is checked as absence of deadlock.

## 5. Proofs

TLAPS checks 10772 obligations in eight modules about the ten that have behaviour; they
hold for every value of the constants that satisfies the assumption named in each module
(finite sets of devices, positive periods and counts, disjoint kinds of clients and of
processes). Two proof modules are about two components each, those that run in one
thread or serve one tick: `ResidentControlProofs` takes in `RuntimeLoop`, and
`VisionDemandProofs` `MultirateInputs`; these two therefore have names of their own for
`Init`, `Next` and `Spec` (`LoopSpec`, `InputSpec`).

* **ResidentControlProofs**. `IInv` is `TypeOK`, `Safety` and `Bookkeeping`. The
  properties are not inductive alone: that a drive has authority needs that latch,
  lifecycle and the three private flags agree (`Safety`), and that an activation had
  its evidence needs that the saturating counter never runs ahead of the revisions
  really seen and that a recorded preflight is that of the last committed tick
  (`Bookkeeping`). From it follow the invariants, the action properties
  `ActivationHasPreflight` and `FaultIsTerminal`, and step by step the refinement
  of `MotionAuthority`.
* **CommandMailboxProofs**. `MailboxInv` adds to types that the lock has one holder, that
  between `Check` and `Replace` nothing but the unlocked removal at runtime start can have
  touched the file (`LockInv`), that the cursor of a producer that no removal has orphaned
  stands for one commit (`CursorInv`), and that what the gateway has seen and accepted never
  is ahead of the file (`ReaderInv`). For any number of processes it gives
  `ClientsAreTrusted`, `NoStaleOverwrite` and `RevisionsRise`.
* **ResidentControlProofs**, second part: `RuntimeLoop`. `LoopInv` ties the output to the
  place of the loop (`OwnerInv`), the last context to tick id and previous time
  (`ContextInv`), and the count of late ticks to what the loop knows of the flag
  (`StopInv`). `SlotsKept` rests on lemmas about division: the deadline skips exactly the
  missed slots.
* **PlannerRecoveryProofs**. `RecoveryInv` ties the recovery thread to what it owns: an
  open supervisor has a published worker or a recovery that holds or will start one
  (`OwnerInv`), and only the newest request is kept (`RequestInv`). With it
  `NoWorkerIsLost`, `RetainedIsHandedOver` and the accounting of requests are inductive,
  for any number of workers, attempts and requests.
* **MotorSinkProofs**. `SinkInv` says, phase by phase, for which pins it is done
  (`PhaseInv`), that the transmitters run with one frame and never against its directions
  (`DrivenInv`), and that what an unbroken update keeps running has the directions of the
  next frame (`KeptInv`). For any number of wheels, mix of decay modes and failing calls it
  gives `StopIsOff`, `BreakBeforeMake`, `NoCoastConflict` and `LeftoverIsStuck`.
  `FrameApplied` is proved with one hypothesis more, `BelowFull`, which the shipped limit
  satisfies (`max_normalized_output` of 0.75, `conf/vezerles.json:445`) and without which it
  is false (section 3). `FrameInv` says why the hypothesis is needed: below full output a
  direction tells which inputs run (`Told`), so a transmitter that an unbroken update keeps
  is one that the frame sets again.
* **PlannerWorkerProofs**. `WorkerInv` says that the process side holds the running request
  at one place at most (`TokenInv`), that whatever runs and is not the newest request is
  abandoned and the buffer empty meanwhile (`SlotInv`), and when it was submitted
  (`ClockInv`). Hence no overflow, the watchdog property, and step by step the refinement
  of `RolloutPort`.
* **VisionDemandProofs**. `DemandInv` adds that a session which was given its demand is
  entered for it as long as it has not released it (`HoldInv`), so that the idle thread
  cannot find the camera unused and `_activate` finds it on; and that what is published
  came with the accepted generation, while an error lasts as long as its demand and keeps
  the collector waiting (`PortInv`). From it follow all safety properties of the run.
* **VisionDemandProofs**, second part: `MultirateInputs`. That a cut misses nothing needs
  three facts together: a lane publishes and a tick freezes under one lock, so nothing is
  stamped before a tick and visible after it (`LockInv`); a device's history is sorted by
  the sequence numbers that were given before the read (`OrderInv`); and a batch covers
  what was visible at its time (`BatchInv`). `ReadInv` (nothing in a history is younger
  than the read its lane waits for) makes a hanging lane stale, `EndInv` ends the workers
  before `close()` returns. The types of due times and bounded histories are a second
  invariant over the first (`DueInv`, `ShapeInv`). The history is cut by `SubSeq`; that
  the cut keeps order and length is a lemma on sequences.
* **HostProofs**: `RobotHost`, for any number of requests. Its invariant has a clause for
  every place of a request's thread, of the dispatcher, the poll and a skill's supervisor
  where what was read may be stale: which thread can be where for which request
  (`JobInv`), who holds the action lock (`LockInv`), who owns the robot (`WhoInv`), that
  the records of a skill agree (`SkillInv`), that what was revoked is live only inside
  the call that will take it back or through one of the two holes (`RevokedInv`), that what
  a STOP under the lock has covered is in no hand that could still submit it
  (`StoppedInv`), that between the STOP of a takeover and the new motion nothing moves
  the robot (`CleanInv`), and that while a goal is active
  whatever moves the robot, is live or is being submitted is that goal's own or began
  beside it (`BesideInv`): a node reached by success rests on this, for it has no STOP of
  its own. The property alone is not inductive: a thread that captured its generation
  before a revocation is harmless only because of what it tests next.
* **OperatorControllerProofs**: `OperatorController`, for any number of callers, producers
  and runtimes. A call is a stack of methods, and an error may end in any handler on it,
  so the first part is about stacks: which frame can stand on which (`Fits`), that a
  handler or a return comes out at a place that fits again, and that a sequence stays one
  until it is over (`ErrorIsHandled`, `ReturnResumes`). The second part is what a call
  knows where it stands, of the transition (`InsideOf`), the producers (`ProducerOf`), the
  mark (`MarkerOf`) and the runtimes (`RuntimeOf`). Processes and calls outside the
  transition take steps that are `Harmless`: nothing dead comes to live, nobody is
  marked, a STOP with no producer stays one. Harmless steps leave every knowledge true
  (`KnowledgeKeeps`). Only the call inside may do more, spawn or mark, and there is one
  (`OneInside`); what the others know without being inside is little (`OutsideKnows`), and
  each such step is shown to leave it. There is a lemma for every step of a call. It
  gives all five properties of the run, among them that stop() is final and that
  controllers never run two runtimes.

The properties, and the invariants of these proofs, were checked with TLC on the bounds of
section 3 before they were proved.

Only model-checked: liveness (`MotionExpires`, `StopReturns`, `RecoveryEnds`, `RequestsEnd`,
`StopEnds`, `DemandIsAnswered`) and the absence of deadlock, which are beyond the prover
because of fairness and ENABLED. `StopInvalidatesProducer` and `StopInvalidates` are false
and stay with the runs that violate them. Every other property of a run is a theorem.

## 6. Hazards

`PROJECT.json` lists what is hard to test in this code, at its line, with the
properties that would catch it. Those without a property are four whose step
the models take but which no property forbids: the superseded producer's STOP, the end of a
recovery that does not look again, the step of a behaviour by `poll()` without the action
lock, and the skill run that starts beside a goal that is being adopted (section 3).

## 7. What is not modelled

* Floating-point layers L1 to L11: their result is any decision they can reach.
* Timing reports, telemetry, logging, capture and replay formats.
* Device drivers: a read returns a valid or invalid sample, fails or hangs.
* In the mailbox: the conditional STOP that only tests use, and file permission and
  payload validation beyond "the read failed".
* In the supervisor: the generation counter that refuses results of a detached
  worker, a recovery thread that does not start, a manual `request_recovery`.
* In the inputs: the passive liveness report, the offline mode without workers, and
  the single ways in which starting a lane may fail.
* In the operator controller: capture trigger files and identities, the legacy
  sequences, the text of reports.
* In the host: which nodes a goal's plan has (they are taken in any number and order),
  retry budgets, facts, policy, memory, teaching (`person.teach` with its interjections) and
  budgets of behaviours, skills that belong to a goal, and errors of a skill's cleanup.
* In vision: images and photos, observation sessions of skills, the election of the one
  owner process, the close of the owner.
* Voice, the embodied-reasoning client and the tools: they reach motion only through the
  host, the operator controller or the mailbox.

The larger part of the repository's lines is none of the model's: float geometry,
estimation and planning (`v3/layers/l3_*`, `l6_navigation.py`, `lidar_estimator.py`),
recording and replay (`mcap_*`, `replay.py`), prompts and remote sessions, tools and
reports. What the models cover is where processes, threads and failures meet.
