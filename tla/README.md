# RobotCore verification project

TLA+ models of the control path of RobotCore and of the nodes around it, checked with TLC on
small instances and, where it matters most, proved with TLAPS for every value
of the constants.

RobotCore runs an eight-thruster underwater vehicle: operator, PID and learned
policy produce thruster commands, one node decides which of them may drive, one
bridge turns its decision into UART frames for the Aquaboard MCU, and an action
server runs whole tracking experiments on top. What must never happen is that
thrusters run on a command nobody authorised, on stale data, or after a reset
or a fault that an operator has not acknowledged. That is what this project is
about.

## 1. Inventory

| Component | State it keeps | Operations | Interacts with |
| --- | --- | --- | --- |
| `command_authority` (C++) | last command of each source, body state, target, their ages; selected and active source; armed, generation, latched fault; output and limit | source, body, target and safety subscriptions; `/control/authority/set`; evaluation (100 Hz), command (50 Hz) and status timers | publishes `/control/thruster_cmd`, read by `aboard_bridge`; service used by operator and `tracking_experiment` |
| `aboard_bridge` (C++) | control session, boot challenge, dispatch history and acknowledgements; stored command, publisher gate, arm barrier; mailbox, pending and active write; calibration, shutdown | command subscription, 20 ms write timer, endpoint refresh, calibration service (ROS thread); read, write, open, fault, status and shutdown handlers (I/O thread) | UART to the MCU; `/hardware/board_status` to `safety_monitor` |
| Aquaboard MCU (external) | boot ID, session, received and applied sequence, outputs | frame reception, PWM update, watchdog, reset, status | UART |
| `safety_monitor` (Python) | operator abort, last board status and its age, last event | board subscription, abort service, 10 Hz tick | `/safety/events` to `command_authority` and `run_logger` |
| `tracking_experiment` (Python) | last authority, target and controller statuses; one coroutine per goal | action server, feedback loop, clean-up | authority, recorder and trajectory services |
| `run_logger` (Python) | active run, event log and what of it is flushed, rosbag2 child, rate limits | start and stop services, eight topic callbacks, flush and announcement timers, destroy_node | services of `tracking_experiment`; `/runtime/run_dir` to `body_policy` |
| `trajectory_command` (Python) | parameters, measured and start pose, approval, held targets, operator input, `tracking_started` | tick, validate, reset, stop, body, IMU, operator and manual subscriptions | target to controllers and authority |
| `six_dof_pid`, `control_math` (Python) | configuration, selection, limit, last inputs, integrals, slew and sign memories | configuration load, body, IMU, target and authority subscriptions, control tick | commands to `command_authority` |
| `body_policy` and its runners (Python) | manifest, runner, device buffers, delayed samples, frame history, readiness | load, four subscriptions, tick | action to `command_authority` |
| `host_manager` (Python) | the AprilTag map file; request threads | upsert, delete, list; health, logs and service life cycle through systemd | Unix socket to the web console |
| `t60_policy` (C++) | as `body_policy`, with CUDA graphs and a log writer thread | as `body_policy` | as `body_policy` |
| `vio_tag_fusion`, `apriltag_map_localizer` (C++) | pose filter, alignment, dropout state | sensor callbacks | body state |
| `tracking_monitor`, `task_catalog` (Python) | a previous velocity; the task table | derive metrics; validate at start-up | status topic; parameters |

What is hard here:

* **Two threads in the bridge.** The ROS executor and the UART thread share one
  mutex, but a handler takes it several times, and a request built under it
  waits unlocked in up to three slots before it leaves.
* **Time.** Every input, command, status and calibration expires, and each is
  looked at by several timers at different rates.
* **Identity across restarts.** Arm generations, session IDs, boot IDs and
  sequence numbers exist so that a late message of an earlier life is not
  believed; each is checked in some places and deliberately not in others.
* **Unserialised goals.** The experiment server runs one coroutine per goal and
  calls three other processes, each of which may refuse, be missing or die.

* **Memory that outlives its situation.** Integrals, slew limiters, frame
  histories, stick inputs, approvals and log suppression are kept across ticks;
  each is right only for the mode, run or gap-free stretch it was built in.
* **Failure half way.** A load that fails after the second allocation, a map
  edit that loses power between write and rename, a logger killed in a run.

The hazards, each at its line and with the properties that would catch it, are
listed in `PROJECT.json`.

## 2. Modules

| Module | Models | Extends |
| --- | --- | --- |
| `AuthorityContract` | what `/control/thruster_cmd` promises its readers (abstract specification) | - |
| `CommandAuthority` | `command_authority_node.cpp` | instance of `AuthorityContract` |
| `AboardBridge` | `aboard_bridge_node.cpp`, command and transport | - |
| `BoardLink` | the bridge joined by a lossy UART to a board that follows the protocol | `AboardBridge` |
| `TrackingExperiment` | `tracking_experiment_node.py`, with the authority, recorder and trajectory services it calls | - |
| `SafetyMonitor` | `safety_monitor.py` | - |
| `ManagedMap` | what the managed AprilTag map promises (abstract specification) | - |
| `HostMap` | the map requests of `daemon.py`, with files, threads and power loss | instance of `ManagedMap` |
| `RunLogger` | `run_logger.py`, with the rosbag2 child and `body_policy`'s subscription | - |
| `BodyPolicy` | `body_policy_node.py`, the runners, `t60_observation.py` | - |
| `ControlMath` | the control laws of `control_math.py` | - |
| `PidController` | `six_dof_pid_node.py` | `ControlMath` |
| `TrajectoryCommand` | `trajectory_command_node.py` | - |
| `MCRuntime` | the six nodes above in one instance | all six |
| `MC*` | instances for TLC | the module named |
| `RuntimeProofs` | theorems about `SafetyMonitor`, `RunLogger`, `BodyPolicy` and `MCRuntime` | `MCRuntime`, the proofs of the other three nodes, TLAPS |
| `*Proofs` | theorems | the module named, TLAPS |

Definitions that a comment marks "variant" are plausible slips in the code
(a dropped guard, a missing reset). No specification uses them: with one of
them in place of the definition that follows it, the run named in
`PROJECT.json` must fail, which shows that the property depends on that code.

### 2.1 CommandAuthority

One action per callback (`OnSourceCommand`, `OnRlAction`, `OnBodyState`,
`OnTarget`, `OnSafety`), per outcome of `on_set_authority` (`SetPwmLimit`,
`Disarm`, `Arm`, `ClearFault`; a refusal changes nothing) and per timer
(`EvaluationTimer`, `CommandTimer`). The node spins on one thread, so callbacks
are atomic. `evaluate()` is the operator `Evaluate`, which `OnSourceCommand`
and `OnRlAction` also run before they publish, on the value they have just
stored.

`Tick` is one timer period: every age grows by one and both timers become due.
In a tick each timer fires once, in either order, with any callbacks between.
The code runs the evaluation timer at twice the rate of the command timer; one
evaluation per publication is the sparser, hence less favourable, case. Ages
saturate above the timeout, where every reader treats them as missing.

The eight action values become well-formed or not; the output is the limit it
was scaled with, or 0. A command from an unexpected producer name is dropped by
the code before it is stored, and is a stuttering step.

`AuthorityContract` is what the bridge relies on: a message enables only while
the authority is armed, every arming takes a generation that no earlier message
carried, and nothing else moves the generation. `CommandAuthority` implements it
with `generation <- arm_generation, published <- thruster_cmd`.

### 2.2 AboardBridge and BoardLink

An action is one critical section of `state_mutex_` with the lock-free code
around it. ROS thread: `OnCommand`, `RefreshAuthorityEndpoint`,
`CalibrateImuGyro`, `WriteCommand`, and `DestroyNode` for the destructor. I/O
thread: `DrainLatestWrite`, `WriteDone`, `WriteAborted`, `OpenSerial`,
`IoFault`, `AcceptBoardStatus`, `RejectBoardStatus`, `BeginShutdown`,
`ShutdownDeadline`. Handlers that rotate the session from the I/O thread take
the mutex a second time to dispatch a neutral frame; `neutral_due` keeps the
I/O thread between the two (`DispatchNeutral`), while ROS callbacks run.

`session` is the record of everything `rotate_session_locked` resets,
`barrier` the four variables of the arm barrier, `mailbox`, `pending` and
`active` the three places a request waits in. `last_disarm` is a history
variable: the generation of the last disarmed command accepted since authority
was last lost. In `AboardBridge` the board, the topic, the ROS graph and time
are arbitrary: statuses acknowledge rightly or wrongly, commands carry any
generation, publishers come and go, stored values expire at any moment.
`Events` selects which of these a run explores.

`WriteAborted` and `OpenSerial` rest on one fact about time: a reconnect waits
a second (`schedule_reconnect`), after which the cancelled handlers of the old
link have run. `make_session_id` mixes a random device, clock, PID and counter;
the model assumes only that it does not repeat an ID something still refers to.

`BoardLink` adds the MCU. Its firmware is not in this repository, so the board
is external, modelled from the bridge's frames and checks and from
`docs/ABOARD_UART_V2.md`. One frame in flight each way, which may be lost; a
watchdog; resets that draw a boot ID nothing refers to. `mcu` separates what the
board has accepted (`session`, `received`, `staged`) from what the last PWM
boundary latched (`applied`, `outputs`, and `latched`, the session it came
from). Accepting a frame or dropping the session changes only the former;
`BoardApplies` is the boundary. So a status between the two truthfully tells the
new session with the numbers and outputs of the old one, or outputs that are
still on without a session (lines 71 and 85-89 of that document).

### 2.3 TrackingExperiment

`phase[g]` is the place of goal `g`'s coroutine in `execute()`; one action per
service call with the coroutine's reaction, or per waiting loop. Any call may be
refused or its service missing, any wait may time out: a goal turns away from a
recorder that is dead. The cases where the code has no such path are kept too:
`call_async` has no timeout, so a recorder that dies under a call leaves the goal
waiting for ever (phase "unanswered"). `authority` is the service as
`CommandAuthority` has it, `status` the last message about it, which lags.
`Hazards` selects trips, an operator on the same service, a dying recorder and
an authority service that is not discovered. `armed_as` is a history variable:
the generation a goal's own arming took.

### 2.4 SafetyMonitor

`OnBoardStatus`, `HandleAbort` and `SafetyTick` are the three callbacks;
`SafetyPeriod` is a timer period, in which the board may report any number of
times or not at all. Ages are counted in periods up to the first that is too
old. `healthy_age` and `operator_request` are history variables: when the board
last said that all is well, and what the operator asked for last, whatever the
node made of it.

### 2.5 ManagedMap and HostMap

`ManagedMap` is the map as the operator sees it: a function from tag ids to
definitions that changes by one whole edit at a time. `HostMap` is the code: a
thread per request reads the file, edits the document, opens the temporary file
named after the process, writes, syncs, renames and cleans up, and each of
these is a step another thread or a power loss can come between. Files are
inodes, so that a handle opened before a rename goes on writing to the file
that now is the map. `WriteTemporary` may fail on a full disk. The refinement
mapping is `tags <- CurrentMap`, the document the map's path names. That
`os.replace` is durable when it returns is assumed; the code does not sync the
directory.

### 2.6 RunLogger

One action per callback; each whole, because rclpy runs them one at a time. A
callback that raises ends the process through `destroy_node`, which stops the
child and closes the log (`StartRunRaises`, `StopRunRaises`,
`StopRunTimesOut`); `Kill` is the end without it. `log` holds the marks that
matter (`run_started`, `start`, `event`, `end`), `flushed` how many of them are
on disk. `Summarise` is what six of the eight subscriptions do; they differ in
the fields they copy. `ClockSetBack` makes ages negative. `io_path` is
`body_policy`'s side of the announcement.

### 2.7 BodyPolicy

`load_policy` is a chain of steps from `LoadPolicy` on, in which nothing else of
the node runs: close the old runner, try the manifest, create the runner.
`Allocate` takes the buffers of `TensorRtRunner.__init__` one by one and
`AllocationFails` may come after any of them; `ReleaseNext` is one release of
`close()`, which CUDA may refuse, and the nested `finally` clauses are `Tried`:
the next one is tried all the same. A refusal lets `close` raise, which ends the
process if it was the old runner's (`CloseRaises`) and is the load error
otherwise (`CloseReturns`); `_closed` keeps `__del__` from a second attempt.
`refused` is a history variable. Samples and history frames are represented by their ages in ticks,
which is what `delayed_sample`, `missing_inputs` and the resets are about.
`PolicyTick` is the callback: the four places where an inference can raise are
`BuildRaises`, `ExecuteRaises`, `DecodeRaises` and `WritePolicyIoRaises`, the
last after the action was published.

### 2.8 ControlMath and PidController

`ControlMath` is the arithmetic in whole actuator units with one control period
as the unit of time: the conditional integrator, setpoints, slew limiter, error
crossing, horizontal mixer with its measured coefficients, level cascade and
collective headroom. `PidController` calls it in the order of `tick`: resets,
station loops, mixer and roll-back, level loops, altitude loop with what is
left. A `Samples` element is what one tick reads after the input filters.
`LoadConfiguration` keeps the check group by group; of the IMU estimator's
settings, which the model has no other use for, it keeps whether they are in
range. `TickDisabled` is every
early return that resets, `TickRaises` the non-finite value no check covers.
`regime` and `pid_run` are history variables: since when the present mode,
phase and limit have been in force without interruption; `pid_command` also
remembers whether the mixer cut the altitude effort and whether an integral
moved further into its limit.

### 2.9 TrajectoryCommand

A pose has one planar coordinate, a height and a heading. The tick has one
action per branch (`TickIdle`, `TickAltitudeHold`, `TickStationHold`,
`TickAutomatic`, `TickInvalid`); the services are `OnValidateScenario`,
`OnResetScenario`, `OnStopScenario`, and `SetParameters` is the ROS parameter
service, which takes new values at any time. The four automatic paths are
closed curves run through by a ramped time; here one lap is the sequence
`Path`, and `RampedTime` is the code's formula. The approach blends
monotonically, so that a tick of it may be anywhere between the two poses
(`MovePoses`). The lazy envelope check in `target_is_valid` cannot run: a Start
needs a Validate, and a Validate needs a position, after which
`envelope_checked` stays set. `approved`, `as_started`, `start_pose`, `touched`,
`last_push` and `left_at` are history variables; the last two say which sticks
the last tick saw pushed and where, component by component, the hold was left.

### 2.10 MCRuntime

The six nodes share no variable that a property is about: what one receives
from another is an arbitrary input of its module. Their product would only
multiply state spaces, so an execution of `MCRuntime` launches one of them and
parks the rest (`launched`), and the spaces add up.

## 3. Runs

| Run | Shows | Instance | Distinct states |
| --- | --- | --- | --- |
| `authority` | `ArmedIsHealthy`, `EnabledOutputIsFresh`, refinement of the contract | three sources, altitude hold, 2 armings, inputs live one tick | 922,796 |
| `authority_liveness` | `LossStopsThrusters`, `LoweredLimitTakesEffect` | fair timers, manual and policy, timeouts of different length, limits 0 and 1 | 210,246 |
| `authority_timeout` | expected violation, see section 6 | manual and PID | - |
| `bridge_barrier` | `TypeOK`, `AuthorizedAfterDisarm`, `SessionOpensDisabled` | intruders, malformed commands, command timeout, calibration | 370,914 |
| `bridge_pipeline` | `SessionBindsBoot`, `EnabledFrameIsAuthorized`, `NewestRequestLeaves` | 2 boots, faults, invalid statuses, heartbeat timeout, 3 sequence numbers | 951,396 |
| `bridge_shutdown` | `NothingEnabledAfterShutdown`, `ShutdownCompletes` | fair I/O thread, shutdown at any moment | 393,996 |
| `board_link` | `HonestBoardIsBelieved`, `NoResumeAfterReset`, `AcknowledgedOutputsAreOwn` | 2 boots (the first fixed, by symmetry), 3 sessions, one fault of any kind, a PWM boundary at any moment | 1,056,388 |
| `experiment` | `RunHasOneOwner`, `ArmedTracksValidatedPath` | PID and RL goal, operator, trips, dying recorder, missing authority service | 1,505,688 |
| `experiment_liveness` | `FinishedIsDisarmed`, `CancelDisarms`, `GoalEnds` | two PID goals, one endless, operator, dying recorder | 300,378 |
| `experiment_missing` | expected violation, see section 6 | one goal | - |
| `runtime` | the nineteen properties of sections 2.4 to 2.9, see below | `MCRuntime` | 516,932 |
| `map_race` | expected violation, see section 6 | two request threads | - |

`NewestRequestLeaves` is about the three slots: the last request that either
thread built has left or still waits, so that a disarmed command is never
superseded by an older frame that reached a slot after it.

In `board_link`, `HonestBoardIsBelieved` speaks of a board that has crossed a PWM
boundary in the session (`Settled`). Before that its truthful status may carry
numbers of another session; the bridge may then refuse it and rotate once more.
The opposite mistake is the dangerous one, and `AcknowledgedOutputsAreOwn`
excludes it: such numbers never pass for an acknowledgement while the board
still drives what another session commanded.

What `runtime` shows, node by node:

* `SafetyMonitor`. `ClearIsEarned`: a clear event rests on a healthy report
  within the timeout and on an operator who does not want an abort.
  `EventsFollowTheBoard`: lasting trouble ends in a lasting abort, lasting
  health without an abort request in a lasting clear.
* `HostMap` with one request at a time. `MapAlwaysWhole`, `FilesImplementMap`
  (the refinement) and `AnswerTellsTheMap` hold through failed writes and power
  loss at every step. With two threads the first fails (`map_race`).
* `RunLogger`. `LogsAreBracketed`, `NoRecorderLeftBehind`,
  `LogShowsCurrentAbort` through kills, restarts and clock jumps;
  `PolicyFindsTheRun` when the policy is started in the middle of a run.
* `BodyPolicy`. `HistoryIsUnbroken`: the network never sees frames from before
  a gap. `StaleSampleOnlyAtResume`: freshness is judged by the newest sample
  while an older one is used, so that right after a gap one from before it is
  used; the property bounds how long. `BuffersFollowRunner`: between loads a
  TensorRT runner holds all its device memory and any other node state none, and
  what a load leaves allocated is exactly what CUDA refused to release.
* `PidController`. `RegimeOwnsIntegrals`: an integral holds no more than the
  uninterrupted ticks of the present mode, phase and limit can have put there.
  `SlewedWithinLimit`, `NoWindUp`: none of the limits that act in turn (a
  loop's own, the axis limit, the mixer scale, the headroom that roll and pitch
  leave) has an integral or a slew memory grow behind it. They speak of the five
  `ConditionalPid` loops and the slew limiters; the integral of the pitch rate,
  which `conditional_axis_integral_effort` keeps apart, is in the model but not
  in these two properties.
* `TrajectoryCommand`. `UntouchedHoldStaysPut`. `HoldRestsWhereLeft`: a component
  that is not being pushed rests where Start put it or where the vehicle was
  measured at the first tick that saw its stick neutral; the release latches
  exactly once. `ApprovedRunStaysValid`: what Validate approved is never refused by the
  node's own tick, over approach, ramp and laps.

Bounds. Generations: the barrier compares two of them, a disarmed and an armed
one, so two values show older, equal and newer (the proof covers all of them);
the authority needs two armings to reuse one. Sessions: the current one, one
that a waiting request refers to and one that the board still reports; a
rotation for which no ID is free is not taken. Sequence numbers: enough for a
neutral frame to overtake a mailbox and a pending request; they are compared
modulo `SequenceModulus` as the code compares them modulo 2^32, but no run is
long enough for them to wrap; the proved properties hold when they do.
Acknowledgement lag and history are scaled from 8 and 16 to 1 and 2, so that
both limits are met. Two goals are what is needed for one to disturb another.
Session IDs are a symmetry set because only their equality is used.

`runtime`: a board timeout of two periods, so that a status can be fresh, at the
limit and stale; two tags and two definitions, so that an edit can create,
change, rename, delete and collide; three inodes, the map and two replacements;
two runs, so that something of the first can survive into the second; a delay
of one tick and a history of two frames, so that a gap shorter and longer than
both happens; limits 0 and 3 with unit gains, so that every loop saturates, the
mixer scales and the roll and pitch share empties the altitude headroom, with
one rejected and one unready configuration; fourteen samples that move the axes
alone and together; two ticks in a row under one regime, after which a
remaining integral is told from an earned one; a pool of two cells with the
vehicle inside it and beyond its wall, and an automatic run of ten ticks: two of
approach, four of ramp, then laps of two.

Deadlock is checked everywhere except in `bridge_shutdown`, where the process
ends, and in `runtime` and `map_race`, where nodes end by an exception and the
bounds on inodes, ticks and runs stop the rest.

Fairness. `CommandAuthority`: the wall timers of a spinning executor fire and
the clock advances; no message has to arrive. `AboardBridge`: the I/O thread
finishes the handler it is in (weak), and since its queue is FIFO, a posted
shutdown handler and an expired shutdown timer are not overtaken for ever by
reads and writes that keep it busy (strong, because those handlers disable it
for a while). Nothing is assumed of the board or of writes.
`TrackingExperiment`: a coroutine whose awaited response or timer is there goes
on, and statuses keep arriving; no cancellation, trip or operator is fair.
`MCRuntime`: the safety monitor's timer fires and time passes; the logger's
one-second timer fires and a delivered announcement is taken (weak: both stay
enabled until they happen). Boards, operators and restarts owe nothing.

## 4. Proofs

All theorems are safety: `Spec => []Inv`, `Spec => [][A]_vars` or a refinement,
for arbitrary constants that satisfy the named assumptions of the modules. The
assumptions say what kind of value a constant is (`AuthorityAssumption`,
`BridgeAssumption`, `LinkAssumption`, `ExperimentAssumption`,
`SafetyAssumption`, `LoggerAssumption`, `PolicyAssumption`, `HostAssumption`,
`PidAssumption`, `TrajectoryAssumption`). Three of them say more:

* `PidAssumption` ties the sway loops to each other and gives yaw no derivative
  gain, as the parameters of the node do; `PidErrorAssumption` names
  `PidErrorBound`, a bound on the velocity error that a sample can show under
  accepted parameters, in which `RegimeOwnsIntegrals` counts.
* `TrajectoryAssumption` keeps the value that stands for "no pose" out of the
  poses a vehicle can have.
* `BridgeAssumption` wants at least eight sequence numbers; the code has 2^32.

Each theorem but the refinements and action properties is one inductive
invariant, a lemma that Init gives it, a lemma per action that a step keeps it,
and a last step that combines them.

* `CommandAuthorityProofs`. `AuthorityTypeCorrect` first. `ArmedIsHealthy` is
  inductive with the types, because arming and driving both rule out what
  `CommonFailure` contains. `EnabledOutputIsFresh` needs
  `ActiveFollowsSelection`: an enabled output comes from the selected source,
  the override or the altitude-hold mix, so a source that is erased is always
  one whose callback evaluates at once, and a tick makes the evaluation due
  again. `AuthorityImplementsContract` shows one lemma per action: the initial
  state maps to the contract's, each step to a step of it or a stutter.
* `AboardBridgeProofs`. `BridgeAuthorizedAfterDisarm` needs the relation between
  the barrier's flags and the history variable: while `saw_disarmed` holds,
  `disarmed_generation` is `last_disarm`. `BridgeSessionBindsBoot` needs that
  the boot challenge changes only together with the session, and that a fresh
  session ID is in no slot. `BridgeEnabledFrameIsAuthorized` follows for every
  step from what `Sent` requires and from the two invariants.
  `BridgeSessionOpensDisabled` needs `Opens`: an acknowledged session has had
  its handshake too, so that no enabled frame can be the first.
  `BridgeNothingEnabledAfterShutdown` needs `LastFrameIsNeutral`: from the
  moment `shutdown` is "waiting", what is behind the write in progress is the
  neutral frame. `BridgeNewestRequestLeaves` needs `NewestInv`: the number
  dispatched last and whatever waits for the session trail the newest number by
  less than half the range (`Trails`), so that the comparisons of `start_write_io`
  and `queue_write_io` decide rightly although the counter wraps; and a fresh
  session has nothing in its slots when its neutral frame is dispatched, but
  perhaps a newer request in the mailbox.
  `BridgeTypes` is the type invariant.
* `BoardLinkProofs`. `LinkNoResumeAfterReset` is the acceptance criterion on
  resets for any number of boots, sessions, faults and sequence numbers. Each
  step of the link is shown to be a step of the bridge, a status or none, so
  that the bridge's invariants hold here too. `ResetInv` then follows the
  evidence along the link: while the bridge knows the board's current boot,
  what its barrier holds dates from after the reset; so does every enabled
  frame with that boot, in the write and on the wire; so does what the board has
  staged. The proof uses that a reset draws a boot ID nothing refers to; without
  the bridge's `link_boot` among those references it fails, as it should.
  `LinkKeepsBridge`: what the bridge promises against arbitrary statuses it
  keeps in the link.
  `LinkHonestBoardIsBelieved` is that the acknowledgement checks never misfire
  for a board that has crossed a PWM boundary in the session.
  `EchoInv` follows the frames of the current session round the loop. A frame
  being written, on the wire, held by the board or reported back left the bridge
  in this session with that sequence number and enable flag (`Known`), and of
  what the board reports nothing lies behind what was acknowledged before. The
  places are ordered: nothing is overtaken by what comes after it (`Chain`);
  only the report of a transition takes its two numbers from two sessions, and
  then what the board latches of the session does not lie behind what that report
  says it had received. Each dispatched frame is still in the history with its
  flag, or lies at least `HistoryDepth` behind the last one (`RecordInv`). What
  the wires and the board hold of other sessions is never taken for the current
  one, since a rotation draws an ID none of them holds. `AckValid` then follows
  check by check. The theorem has two hypotheses. `HistoryCoversLag`: the
  permitted lag is below the history's length (8 and 16 in the code, 1 and 2 in
  `board_link`). `SessionsDoNotWrap`: a session numbers fewer frames than half
  the counter's range, which in the code is 2^31, over a year of uninterrupted
  50 Hz frames; past that a board's old number would compare as a newer one, and
  `sequence_newer` cannot tell. The `board_link` instance (8 numbers, of which a
  session uses 4) satisfies both.
  `LinkAcknowledgedOutputsAreOwn` needs neither. `OwnInv`: before its
  acknowledgement a session sends only disabled frames (`OpensQuietly`), so the
  report that acknowledges it says that the outputs are off, whatever session its
  number belongs to; once the board has heard of the session, nothing of another
  one is on the wire or staged (`OwnLoop`), so that the outputs are switched on
  again only by a frame of this session.
* `TrackingExperimentProofs`. `ExperimentRunHasOneOwner` is inductive with the
  types. `ExperimentArmedTracksValidatedPath` strengthens it phase by phase:
  whose parameters and start pose the trajectory node has follows from how far
  the owner of the run has come, and nobody else is in those phases.
  `ExperimentFinishedIsDisarmed` assumes that the authority service is there,
  and rests on generations: an arming a goal has made is either still its own,
  or has been replaced by a higher generation.
* `RuntimeProofs`, three nodes and `MCRuntime`.
  `SafetyMonitor`: `SafetyClearIsEarned` needs two more facts: a stored status
  that says all is well is no older than the last such report
  (`EvidenceDates`), and the latch is the operator's last request
  (`LatchIsRequest`). The code of an event is then clear only when both hold in
  time, and one period later the age has grown by at most one.
  `RunLogger`: `LogsStayBracketed`, `RecordersBelongToRun` and
  `LogFollowsSafety` rest on `OneActiveRun` (an open log, the child and the run
  come and go together), `WellMarked` (the shape of each run's log, on disk and
  in the buffer, according to what the operator was told) and
  `SuppressesTheLast` (the signature that suppresses repetitions is that of the
  event received last).
  `BodyPolicy`: `HistoryStaysUnbroken`, `StaleSamplesPass` and
  `BuffersStayWithRunner`. The second is the hard one: while inputs are ready
  there is a fresh sample at every tick of the streak (`SampleOfEachTick`), the
  deque is ordered by age (`OldestFirst`), so that `delayed_sample`, which takes
  the last that is old enough, cannot reach behind the streak once it is longer
  than the delay. That there is such a last entry is the well-foundedness of the
  naturals, not an induction over the deque. The third rests on `DeviceInv`:
  how far a load has come says what may still be held, and no buffer whose
  release was tried is.
  `MCRuntime`: `RuntimeRunsTheNodes` shows that its executions obey the
  specification of each of the six nodes, fairness apart, because the nodes
  share no variable and each step is one node's. So the theorems about the
  nodes hold of the specification that the run `runtime` checks:
  `NodesKeepTheirPromises` and, with one request thread, `HostKeepsItsMap`.
  `RuntimeTypesHold` combines the six type invariants, each of them part of
  its node's inductive invariant.
* `PidControllerProofs`. `PidInv` (theorem `PidInvariant`) contains the types,
  `ReadyIsConfigured` (a controller that is ready has one of the configurations,
  an accepted one), `Sound` (integrals and slew memories lie inside the limits
  they were formed under), `NoWindUp`, `RegimeOwnsIntegrals` and
  `RegimeIsCurrent` (the recorded regime is the present one, or all integrals
  are 0). `IntegralsNeverWindUp`, `IntegralsBelongToRegime` and
  `SlewsStayInsideLimit` follow, for all gains, limits and samples. Below it are
  lemmas about `ControlMath`, one per operator: what `Clip`, `SlewRateLimit`,
  the conditional integrator, the mixer's roll-back and the collective headroom
  return and bound.
* `HostMapProofs`. `HostTypesHold`, for any number of threads: types, and that
  an open handle refers to an allocated inode (`HandleIsOpen`), also while
  threads race. With one request thread (`OneHandler`): `MapStaysWhole`,
  `AnswersAreTrue`, and `FilesRefineMap`, that every step on files is one edit
  of `ManagedMap` or a stutter. With two threads they are false (`map_race`).
  `HostInv` says where a thread's document is: the map's inode is whole and
  synced (`FilesInPlace`), the document was made from the present map
  (`EditIsCurrent`), the temporary entry is the thread's own handle and holds
  what it has written so far (`TemporaryIsMine`). With a second thread that is
  the fact that goes.
* `TrajectoryCommandProofs`. `HoldStaysPut` needs that nothing counts as pushed
  before it is touched (`NothingPushed`) and that a running hold has a target
  (`HoldHasTarget`). `HoldRests` needs that the
  node's own active flags are the sticks of the last tick (`FlagsAreLastPush`),
  so that the tick that sees a release is one that latches, and that a run that
  started has a measurement to latch (`MeasuredBefore`).
  `ApprovedRunNeverInvalidates` needs `ApprovalHolds` (what Validate approved is
  what is latched) and arithmetic: the ramped time is a number of whole laps
  plus a position that is within the validation horizon, by lemmas on `\div`
  and `%`, so that every reference of a run of any length is among the samples.
  The proof found an error in an earlier form of the model: `np.clip` with
  inverted bounds returns the upper one, as `ClipToPool` now does.

Only model-checked:

* liveness (`LossStopsThrusters`, `LoweredLimitTakesEffect`, `ShutdownCompletes`,
  `CancelDisarms`, `GoalEnds`, `EventsFollowTheBoard`, `PolicyFindsTheRun`):
  fairness is beyond the prover.

Every invariant and every action property of a passing run, and both
refinements, are stated by a theorem. Some have hypotheses beyond the named
assumptions: `FinishedIsDisarmed` (the authority service is there),
`HonestBoardIsBelieved` (the two above), and the properties of the map (one
request thread; the counterexample with two is `map_race`).

`TypeOK` of the authority is a theorem and `TypeOK` of the experiment a lemma of
its proofs; no run repeats them.

## 5. Not modelled, and the plan

* Numeric work: IMU outlier rejection and prediction, low-pass filters,
  quaternion algebra, path geometry between samples, PnP, pose fusion
  (`vio_tag_fusion`, `apriltag_map_localizer`), inference. What is decided there
  depends on real values that a small instance cannot represent; where a
  modelled node uses the result, the result is an input of its module.
* Pure encodings and checks: UART byte layout and CRC, the YAML checks of
  `task_catalog`, message definitions, diagnostics, logging text.
* `t60_policy`: its contract is that of `BodyPolicy`; its log writer thread
  drops records under load, never commands.
* `tracking_monitor`: derives metrics and steers nothing.
* The bridge's IMU queue and relays: one-way, without influence on authority.
* `host_manager`'s health, logs and service life cycle: one systemd command
  each, no state.
* The product of `CommandAuthority` and `AboardBridge`: each is checked against
  every input the other can produce; a joint instance with the smallest useful
  bounds does not finish in the time of a run.
* The crash of `tracking_experiment` in its main loop: no code handles it.

Behaviours of the code that the models contain or that were met while reading,
and that no property judges because nothing in the repository says what is right:

* an operator who clears and re-arms between two statuses takes a tracking run
  over unnoticed (`tracking_experiment_node.py:339`), and readiness is judged
  from a controller status that may have been computed before the target (`:453`);
* offsets built for arming g can go out once under g+1
  (`aboard_bridge_node.cpp:1409`);
* `body_policy` goes on writing into a finished run's folder
  (`body_policy_node.py:287`), and after the ROS clock is set back the
  localisation summaries are silent until it has caught up (`run_logger.py:556`);
* `absolute_localization_seen` is never cleared (`six_dof_pid_node.py:688`); a
  non-finite input ends the controller without a disabled command (`:966`), which
  the authority's command timeout covers; an integral gain in the fast sway loop
  would wind up behind its slew limiter (`:1209`; the deployed gain is 0);
* a change of parameters to altitude hold during a run finds no latched height,
  so that the target follows the vehicle (`trajectory_command_node.py:398`).

What remains open: an abstract specification that the bridge and the link
implement together, instead of the separate promises of sections 2.2 and 4; the
product of authority, bridge and experiment, which here meet only in the
assumptions each makes about the others' messages; liveness beyond the small
instances.

## 6. Where documents and code disagree, and a defect

* `authority_timeout`. `docs/PID_POOL_TRACKING.md:47` says that any source
  timeout disarms and latches a fault. `evaluate()` keeps a selected manual
  source that has gone silent armed, with neutral output and no fault, and
  drives again with its next command. `TimeoutDisarms` states the documented
  rule and fails.
* `experiment_missing`. `docs/PID_POOL_TRACKING.md:198` says that an experiment
  always disarms. `set_authority` gives up when the service is not discovered,
  and the clean-up ignores the result: the goal ends and the authority stays
  armed. `FinishedIsDisarmed` holds whenever the service is there, and is proved
  for that case.
* `map_race`. `_write_apriltag_map` says that it atomically replaces the map.
  Requests are served by threads without a lock and share one temporary file
  name: one thread truncates the file another has just synced and is about to
  rename, and the map is then empty or torn until the next edit.
  `MapAlwaysWhole` states the comment and fails; with one request at a time it
  holds (`runtime`).
