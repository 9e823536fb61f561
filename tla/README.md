# Burgerbot: a TLA+ verification of the robot's firmware and driver

Burgerbot is a differential-drive robot. An ESP32 (`src/firmware/src/`, C++ with
micro-ROS) reads encoders, gyroscope and compass, runs two PID speed controllers
and talks to a micro-ROS agent over a serial link. On the host side one ROS 2 node
of this repository (`src/ros2_ws/src/lds02rr_driver`) drives the LiDAR, two small
nodes relay and draw the IMU, and the rest is configuration of third-party packages.

This directory holds a model of that code in TLA+, the TLC runs that check it on
small instances, and TLAPS proofs of the theorems that hold for every value of
the constants.

## 1. Inventory

### 1.1 The firmware

The firmware is one task: `loop()` in `main.cpp` runs a pass after the other, and
only the encoder interrupts run beside it. Components share global variables
(`g_...`), and several calls inside a pass block: the ping of the agent (50 ms),
the creation of the ROS entities with its clock synchronisation (more than 1 s),
their destruction, the executor and the publishers. `now = millis()` is sampled once
at the top of the pass and handed around while time goes on.

| component | state | operations | what makes it correct |
|---|---|---|---|
| Super-loop, agent supervision (`main.cpp`) | `g_agent_state`, `last_agent_check_ms`, `last_control_ms`, targets, `g_last_cmd_ms` | a pass: calibration update, agent check, create / destroy, control step, executor, publishing; four subscriptions' callbacks | motors stop in bounded time whatever blocks; without an agent nothing moves the robot for long; commands and calibration do not fight |
| Drive decision (`odometry.cpp:75-117`, `motors.cpp:31-36`) | `prev_cmd_active`, `kickstart_ms`, PWM duties | watchdog, stop, kickstart, PID outputs to the H-bridges | the watchdog always wins; the kickstart ends; every start after a stop gets it |
| Wheel speed (`encoders.cpp`, `odometry.cpp:14-63`) | two int32 edge counters, snapshots, window accumulators, filtered rpm | interrupt, snapshot, plausibility checks, window estimate, filter, dead zone | deltas are the travel, across the counter's wrap; real travel is not discarded; a standstill is seen |
| Kinematics (`motors.cpp:57-66`, `odometry.cpp:65-98`) | targets, twist, pose | command to targets, stop decision, wheels to twist | dead zones agree with each other; odometry follows the command |
| PID and motor output (`pid.cpp:21-41`, `odometry.cpp:100-117`, `motors.cpp:38-55`) | integral, previous measurement, duties | `Update`, `Reset`, kickstart's boost, `applyMotorCommand` | bounded output, no push against the command but by memory, never both channels of a bridge, no wheel left in the dead band |
| micro-ROS entities (`main.cpp:185-263`) | global handles, `g_ros_entities_created`, the client library's pools | create in order with an early return per entity, destroy | connected means complete; nothing leaks but what failed; the robot reconnects |
| Configuration in flash (`pid.cpp:43-74`, `imu.cpp:289-305`) | namespaces `pid` and `mag`, three keys each | load at boot, save key by key | a reboot changes nothing; a torn save leaves something sensible |
| Compass and calibration (`imu.cpp:148-202`, `:244-287`) | reading, offsets, extremes, staleness | read, start, update, finish | offsets centre this calibration's readings only |
| Yaw estimate (`imu.cpp:111-226`) | sensor flags, last readings, yaw, last update | two periodic readings that may fail, complementary filter | stays on the circle; keeps running while a sensor is valid; follows the heading |
| ROS clock (`main.cpp:72-93`, `:388-392`) | synchronised flag, time of the last synchronisation | synchronise at creation and periodically, stamp | an epoch stamp is fresh; stamps do not jump back without cause; the clock comes back |
| Session streams (the vendored agent's `client/session/stream/*.hpp`, and the client library's other ends) | sequence numbers, kept and waiting messages, a fragment buffer | push, send, heartbeat, acknack, pop, reset | what is pushed is popped once, in order and whole, whatever the line loses |

### 1.2 The host

| component | state | operations | what makes it correct |
|---|---|---|---|
| LiDAR driver (`lds02rr_node.py`) | line buffer, 360 slots, frequency | 1 ms timer: read, split, parse, publish | every line parsed once, in order; one scan per mark, holding that rotation |
| IMU TF publisher, visualizer | last position; a log-once flag | relay a message | stateless |
| Launch files, EKF, nav2, SLAM, descriptions, simulation | - | - | third-party behaviour |

### 1.3 Interactions and hard behaviours

* **Shared targets.** Velocity commands, rpm commands, the calibration, the
  watchdog and the disconnect all write `g_m1_target_rpm` / `g_m2_target_rpm`
  and `g_last_cmd_ms`. (`ControlLoop`)
* **A stale `now`.** The control step, the calibration and the timers subtract
  timestamps that callbacks took *later* than the pass's `now`, in uint32.
  (`ControlLoop`, `WheelOdometry`)
* **Interrupts** count edges between any two instructions. (`WheelOdometry`)
* **An unreliable agent**: a single lost answer tears everything down, creation fails
  half way, and the clock is set in the middle of it. (`ControlLoop`, `RosEntities`,
  `RosClock`)
* **An unreliable line**: packets are lost and full queues drop their oldest; heartbeats
  and acknacks repair it, over 16-bit numbers that come round. (`AgentStream`)
* **Sensors that come and go**, each with its own period and its own silence, and a clock
  that wraps. (`YawEstimate`)
* **Power cuts** between two flash writes. (`Nvs`)
* **Stream chunking and unplugging** of the LiDAR. (`LidarDriver`)

`PROJECT.json` lists the hazards one by one, each at the line where it bites and with the
properties that would catch it, or the reason why none does; where a property exempts the hazard
itself and shows that nothing else has its effect, a note says so.

## 2. Modules

| module | models | state and actions |
|---|---|---|
| `ControlLoop` | `loop()`, agent supervision, callbacks, watchdog, kickstart, calibration's hold on the motors | one action per call of the pass (`BeginPass`, `UpdateMagCalibrationMode`, `CheckAgent`, `PingAgent`, `CreateRosEntities`, `DestroyRosEntities`, `RunControlStep` / `SkipControlStep`, the callbacks, `EndPass`); `Tick` lets a millisecond pass inside a call that blocks; `AgentLinkChanges` is the environment |
| `DeadMan` | the abstract promise of `ControlLoop` | `moving`, and the age of the last wish to move |
| `WheelOdometry` | one wheel, from the interrupt to `g_m1_measured_rpm` | `Elapse` is a millisecond with its interrupts, `RunControlStep` the whole estimation, `TurnAt` the wheel's motion |
| `DriveKinematics` | command to targets to twist | `CmdVel`, `RunControlStep(timed_out)` (any step may be one in which the watchdog strikes), `WheelsFollow` (settled controllers) |
| `MotorOutput` | one motor from its target to its bridge's two channels | `DriveStep(dt)` is the controller, the boost and the first write, `WriteLeft` the second write; `StopStep`, `ConfigurePid`, `Disconnect`; `SetTarget` and `Measure` are its inputs |
| `RosEntities` | creation and destruction of the entities, the client library's pools | `CreateRosEntities(n)` is a call that got as far as the n-th entity, `DestroyRosEntities`, `LinkBecomes` |
| `Nvs` | flash, RAM, power | `Boot`, `Configure`, `PutFloat`, `PowerCut` |
| `RosClock` | the clock of the telemetry's stamps; extends `RosEntities`, whose creation synchronises it | a pass in four parts: `CheckAgent` / `SkipCheck`, `Resync`, `PublishWheelSpeeds` / `SkipTelemetry`, `NextPass(ms)`; `LinkChanges` at any moment |
| `Compass` | one axis of the magnetometer, its calibration, the staleness counter | `ReadCompassData`, `StartMagCalibration`, `FinishMagCalibration`, `Pass` |
| `YawEstimate` | the sensor calls of a pass; extends `Compass`, which it drives in the program's order | `SensorCalls` (`ReadImuData`, `ReadCompass`, `UpdateYawEstimate` with its four ways out), `Calibrate`, `NextPass(ms)` |
| `AgentStream` | both ends of a reliable stream of the micro-ROS session, the queues and the line between them | `PushSubmessage`, `SendNext`, `SendHeartbeat`, `ReceiveAcknack`; `ReceiveData`, `PopMessage`, `AnswerHeartbeat`; `Reset` |
| `ReliableStream` | the abstract promise of `AgentStream` | the messages pushed and not popped yet, and the parity of the session: only a step to the next session may drop messages |
| `LidarDriver` | the LiDAR's stream, the port, the node | `SendLine`, `Unplug`, `ReadCallback(n)`, `ParseLine` |
| `...Proofs` | theorems about `ControlLoop`, `WheelOdometry`, `RosClock` with `RosEntities`, `Nvs`, `YawEstimate` with `Compass`, `AgentStream`, `LidarDriver`; `DriveProofs` about `DriveKinematics` and `MotorOutput` | |
| `MC_...` | constants that a `.cfg` cannot write | |

`RosClock` and `YawEstimate` are compositions: every step of theirs is a step of the
module they extend, or leaves it alone (`ImplementsEntities`, `ImplementsCompass`), so what is
said of the part is checked and proved of the whole.

Definitions marked *Variant* in a comment are plausible mistakes in the same
code (a dropped guard, an off-by-one, a missing reset). No action uses them;
`PROJECT.json` pairs each with the property that fails once it replaces the real one.

### Main abstractions

* **Time as ages.** A timestamp `ts` is kept as `millis() - ts` modulo `UINT32`, and
  the pass's `now` as `lag = millis() - now`, so the code's `now - ts` is
  `Minus(age, lag)`, with the same wrap. Ages that the code does not look at (the
  calibration's while it is inactive, the kickstart's without a command)
  rest at 0.
* **Blocking.** `Budget(phase)` is the longest a call may block; it may take any time
  up to that. Nothing in the code bounds these calls by itself, so the
  budgets are constants.
* **Targets** are `Zero`, `Cmd` or `Cal`, the PWM `off`, `pid` or `kick`: the control
  loop's decisions do not look further.
* **Outputs** of the PID controllers are integers: times are control periods and gains are
  fractions of a PWM step. The history variable `seen` records the directions of the errors and
  speeds a controller has been given since its last reset.
* **Samples and lines.** A LiDAR distance is the number of the line that
  reported it, which is what tells stale samples from new ones; a line is two
  tokens, so a read may end inside it. Everything the parser ignores is one kind. The port
  may be opened within a line, whose tail may parse as another angle; any line, marks included,
  may be garbled into one that is ignored, and a sample into one whose angle is nan or inf,
  for which `int(round(...))` raises (`lds02rr_node.py:108`).
* **Readings** of the compass are integers, and what carries an offset is doubled, so
  the centre of two extremes is an integer too.
* **Configurations** are numbered; 0 stands for a default and for a missing key.
* **Angles** are integers, half a turn is `HALF`. The yaw filter's arithmetic is that of the
  code, its weights a fraction; `atan2f` is a table from corrected readings to angles. Times are
  kept whole, and wrapped where the code compares two of them.
* **The age of a synchronisation** is kept as the uint32 the code computes: `now` minus a
  time that `millis()` gave later in the same pass is negative before it wraps.
* **A message** of a stream is the place of its fragment in its submessage. The line loses
  packets and does not reorder them: it is a serial line. A reset happens behind everything
  that is still on the line, as the session's handshake does.

* **Left out as unreachable**, with the reason at the definition: a message of a stream whose
  append fails, an executor that refuses one of the four subscriptions it has room for, a
  synchronised session without a positive epoch time, and (in `Compass`) the exit for a field
  that is not finite (`imu.cpp:182-186`), which integer registers and finite offsets cannot give.
* **Edges** are whole numbers per millisecond. A window in which a wheel right at
  `MAX_PLAUSIBLE_RPM` shows one edge more than its speed (`odometry.cpp:51`), and is taken for
  implausible, does not occur.

## 3. Runs

| run | checks | what it shows |
|---|---|---|
| `control_loop` | `TypeOK`, `StopBound`, `RestWhenWaiting`, `CalibrationBounded`, `KickEnds`, `CalibrationOwnsTargets`, `DeadManSwitch`, `AgentLossRest` | the motors stop in bounded time with every call blocking for up to its longest; a calibration ends neither late nor, without a message, early; the loop implements `DeadMan`; losing the agent for good brings the robot to rest for good |
| `control_loop_kick` | `KickFollowsEveryStop` (violated) | finding 1 |
| `wheel_odometry` | `TypeOK`, `DeltaIsTravel`, `DiscardsOnlyWhenLate`, `StandstillSeen` | deltas are travel; real counts are discarded only by a control step that ran later in its pass than the one before; the filter's tail ends in the dead zone |
| `drive_kinematics` | `CommandMoves`, `LinearFollowsCommand` | three dead zones agree; the odometry reports the commanded linear speed |
| `drive_turn` | `TurnFollowsCommand` (violated) | finding 3 |
| `motor_output` | `TypeOK`, `OneChannelOn`, `NeverPushedBack`, `StuckWheelPushed` | only the controller's memory pushes a wheel against its command, and only for a while; a bridge has one channel on |
| `ros_clock` | `ClockTypeOK`, `EntitiesAccounted`, `EpochIsFresh`, `UptimeIsBrief`, `Reconnects`, `FallsBackOnlyByFailure`, `ClockRecovers` | only creations that failed half way leak, and with fewer failures than places the robot reconnects; epoch stamps are fresh, uptime stamps are explained and brief, and a good link brings the clock back for good |
| `nvs` | `TypeOK`, `RebootKeeps`, `GainsNotMixedWithDefaults`, `TornInOrder` | what survives power cuts between any two puts |
| `yaw_estimate` | `YawTypeOK`, `OffsetCentres`, `StaleIsElapsed`, `FrozenOnlyByWrap`, `HeldHeadingPins` | calibrations do not leak into each other; staleness is time; the yaw stays on the circle, only a wrap of `millis()` freezes it, and an unchanging heading pins it |
| `agent_stream` | `StreamsAgree`, `ImplementsReliableStream`, `WholeButByReset`, `NeverStuck` | both ends agree whatever is lost; `AgentStream` implements `ReliableStream`; only a session that ends between two fragments tears a submessage; nothing is waited for for ever |
| `lidar` | `ScansMatchStream`, `MarksAnswered` | scans answer marks one by one with the newest samples, however the stream is cut |
| `lidar_rotation` | `ScanIsOneRotation` (violated) | finding 2 |

### Bounds, and why they are enough

* `control_loop`: periods of a few milliseconds in the code's order of size (a calibration
  longer than the command timeout and the agent check, a kickstart shorter than the
  timeout). A control gap (12 ms) is longer than every timeout, so a call that
  blocks outlasts each of them, alone and together. `UINT32 = 16` is barely above what
  `WidthAssumption` demands (14, 11 and 3), so idle ages wrap all the time. `LOG_MS` is the
  time that saving and printing the offsets takes after the calibration's update.
* `wheel_odometry`: `TO_CONTROL_MS = 3` is the smallest delay for which the
  plausibility checks do discard real counts, so both action properties are about
  something that happens. The counter starts at 0 or at its greatest value and
  has 16 values, twice the most a wheel does between two snapshots: it wraps in
  both directions. The estimation window is two control periods, so windows of one step
  and of two occur.
* `drive_kinematics`: dead zones of 1 and 2, speeds up to 3: above, at and below each.
* `motor_output`: the proportional, slope and feed-forward gains in their real
  proportion (1 : 1 : 1.5); an integral whose limit outweighs the largest output, as 300 does
  255, so it can turn an output round; speeds of 2 in either direction and a weak one of 1,
  whose command the feed-forward alone does not enforce.
* `ros_clock`: all 14 entities of the build (`PUBLISH_RAW_ODOM_TF` is 0 in
  `config.h:74`), pools with room for two sessions, one failure. With one
  session in the pool, as the client library has by default, a single failed
  creation already keeps it, and `Reconnects` cannot hold with `MaxFailures = 1`; the
  run shows the bound below which it does. A period of 3 ms and passes of up to 2: the
  period takes two passes, and `CLOCK_WRAP = 8` is one more than `ClockAssumption` asks
  for, so the age of a session without a clock wraps.
* `nvs`: four configurations over two namespaces: a complete one, one that is cut off,
  one on top of it, and one in the other namespace.
* `yaw_estimate`: three readings around zero and not symmetric, eight milliseconds, passes
  longer and shorter than the reading periods, every combination of sensors. Half a turn is 4
  and the weights are 1 : 1, so the filter rounds and crosses the seam; `CLOCK_WRAP = 6`,
  so the clock wraps inside a behaviour; `SETTLE = 3` updates are what these weights need to
  bring any yaw to a held heading.
* `agent_stream`: numbers modulo 8 with a window of 2 and submessages of up to two
  fragments: fragments are pushed beyond the window, as the code lets them, and the
  numbers come round. `RELIABLE_STREAM_DEPTH + MaxFragments <= Half` is what keeps
  the comparison of numbers right (`NothingDropped`); with 2^16 numbers and a depth of 16 that is a
  submessage of 32,752 fragments, where `push_submessage` takes 64 KiB at most. Two packets down and one up are the fewest
  for which a retransmission is overtaken by a heartbeat and the queue drops its oldest.
* `lidar`: three slots, the fewest for which a mirrored scan differs from an
  unmirrored one; five lines, so a rotation can begin in the middle, end, and be
  followed by another. `lidar_rotation` needs two marks and a garbled line.

`CHECK_DEADLOCK FALSE` stands where the model really stops: `LidarDriver` when the
LiDAR has sent `MaxLines` lines, or the node is dead or its port unplugged;
`YawEstimate` when `MaxTimeMs` is reached.

### Fairness

* `ControlLoop`, `WheelOdometry`: weak fairness of the loop's own steps, because `loop()` is the
  only task and each call it makes returns; strong fairness of the passing of time,
  because a pass takes time, although each single call may take none. Nothing is
  assumed of the agent, the messages or the wheel.
* `MotorOutput`: weak fairness of the control step, which `ControlLoop` takes for ever.
* `LidarDriver`: weak fairness of the node, whose timer fires every millisecond
  and which runs nothing else. Nothing is assumed of the LiDAR.
* `RosClock`: weak fairness of the loop's steps, as above, and strong fairness of an agent check
  that acts, because it comes round every 500 ms. Nothing is assumed of the link; the
  liveness properties are about links that are good from some time on.
* `AgentStream`: weak fairness of sending and popping, which both ends do for ever; strong
  fairness of an arrival: a heartbeat is sent every `HEARTBEAT_PERIOD`, and a line on which
  nothing ever arrives is a dead agent, which is `RosEntities`'s case.

## 4. Findings

1. **A kickstart can be missed** (`control_loop_kick`). `prev_cmd_active` is reset only
   in the stop branch of the control step (`odometry.cpp:96`). A disconnect during a
   calibration stops the motors without it; the calibration sets the targets again
   in the next pass and, if no control step was due in between, the motors start without the boost that the comments at
   `odometry.cpp:80` and `:103` promise.
2. **A scan can hold samples of an earlier rotation** (`lidar_rotation`).
   `lds02rr_node.py:39` calls the buffer "filled rotation by rotation", but nothing resets it
   after publication.
3. **The odometry turns the other way** (`drive_turn`). `odometry.cpp:68` computes the turn
   rate as left minus right, while `motors.cpp:61-62` gives the right wheel the larger
   speed in a left turn; `ekf.yaml:26` relies on this turn rate.

Noticed and not about behaviour: `pid.h:7` has a default feed-forward of 1.5 while
`config.h:83` defines an unused `FF_GAIN` of 0.8, so the controllers run with 1.5.

## 5. Proofs

| theorem | states |
|---|---|
| `ControlLoopProofs!Inductive`, `TypeCorrect`, `StopsInTime`, `RestsWithoutAgent`, `CalibrationEnds`, `KickstartEnds`, `CalibrationKeepsTargets` | `IInv`, the five invariants of `control_loop`, and `CalibrationBounded` |
| `ControlLoopProofs!LoopIsDeadManSwitch` | `ControlLoop` implements `DeadMan` |
| `DriveProofs!CommandsMove`, `OdometryFollowsLinear` | both invariants of `drive_kinematics` |
| `DriveProofs!TypeCorrect`, `BridgeIsSafe`, `PushesAlongCommand` | the safety properties of `motor_output` |
| `NvsProofs!TypeCorrect`, `RebootChangesNothing`, `GainsStayWhole`, `TornSavesInOrder` | the invariants of `nvs` |
| `YawEstimateProofs!TypeCorrect`, `CalibrationCentres`, `StalenessIsTime` | the invariants of `Compass` |
| `YawEstimateProofs!ImplementsCompass`, `LoopCalibrationCentres`, `LoopStalenessIsTime` | the loop is a `Compass`, and inherits its invariants |
| `YawEstimateProofs!YawTypeCorrect`, `OnlyWrapFreezes`, `HeadingPins` | the yaw stays on the circle; only a wrap freezes it; a heading that does not change pins it |
| `RosClockProofs!ImplementsEntities`, `EntitiesAreAccounted` | the loop is a `RosEntities`; connected means complete, only failures leak |
| `RosClockProofs!ClockTypeCorrect`, `EpochStaysFresh`, `UptimeStaysBrief`, `FallsBackByFailure` | the safety properties of `ros_clock` |
| `WheelOdometryProofs!SpeedTypeCorrect`, `WrapIsUnseen`, `OnlyLatenessDiscards` | the safety properties of `wheel_odometry` |
| `AgentStreamProofs!Inductive`, `StreamsStayInAgreement` | `StreamInv` and the invariant of `agent_stream`: what is handed up is what was pushed, once and in order |
| `AgentStreamProofs!StreamKeepsItsPromise` | `AgentStream` implements `ReliableStream` |
| `AgentStreamProofs!SubmessagesAreWhole` | only a session that ends between two fragments tears a submessage |
| `AgentStreamProofs!NothingThrows` | the message that `get_next_message` looks up is always kept, so `messages_.at` never throws |
| `LidarDriverProofs!Inductive`, `ScansAnswerStream` | `DriverInv` and the safety property of `lidar` |
| `LidarDriverProofs!CaughtUpAnswersAll` | a living node that has processed all that was sent has published one scan per mark |

**Assumptions.** `TimingAssumption` and `WidthAssumption` (`ControlLoop`): periods are
positive, and 2^32 ms is longer than each interval the loop measures while
the robot moves. `EpsAssumption` (`DriveKinematics`): the dead zones of a command
are wider than that of a wheel target, as they are in `config.h`.
`SpeedAssumption`, `CounterAssumption` (`WheelOdometry`): the delay of the control step is part of
the pass, and the int32 counter is not half filled in the longest control gap; with 2^31 that is
hours. `ClockAssumption` (`RosClock`): the period and two passes fit the uint32. `YawAssumption`:
every corrected reading has a heading on the circle, and the filter's weight is a fraction.
`SettleAssumption`: the history counts enough updates for that weight to shrink a full turn to
nothing; every weight below 1 has such a number. `StreamAssumption` (`AgentStream`): a
stream's depth and its longest submessage together fit half a turn of the numbers.
`MotorAssumption`, `ReadingAssumption`, `ConfigAssumption`: gains, limits and readings are
integers, bounds are numbers.

**Arguments.**

* *Control loop.* `StopBound` is not inductive: how old a command may be depends on where the
  pass is. `IInv` bounds the lag by the budgets of the calls made so far
  (`LagBound`), the age of the control step by the lag and the phase
  (`ControlBound`), and the command's age by that of the control step
  (`CommandBound`): whatever drives the motors was young enough at the last control
  step. `WaitingBound` and `CalibrationBound` do the same for the other two, and
  `WidthAssumption` turns each uint32 difference into a plain one. The refinement
  reuses `IInv`: every step starts, renews, ages or stops the abstract wish, or
  stutters.
* *Kinematics.* The targets are those of the last wish in every state: if one part of
  a command survives its dead zone, at least one wheel gets more than the wheel's
  own dead zone, because the parts cannot cancel on both.
* *Motor.* What a controller remembers (`integral`, `prev`) only has signs it has `seen`. Without
  memory of the other direction the wheel has not passed its target, so the slope term
  is at most `KD * target`; where `FF - KD` of the target is a PWM step or more (with the
  defaults, from 2 rpm), the sum keeps the command's sign through division, clamp,
  truncation and boost.
* *Flash.* Between two puts, the keys already put hold the new configuration and the others what
  the flash held before; the invariant says which, key by key.
* *Compass.* While a calibration is active, the extremes are members and bounds of the
  samples; when it ends they become the offset.
* *Yaw.* Offsets are sums of two readings, because extremes are samples; so every valid reading
  is corrected to one that has a heading, and what the filter leaves is normalised. An estimate
  of an earlier pass was left by the comparison at `imu.cpp:212`, and two times of which the
  later looks no later are a turn of the clock apart.
* *Entities and clock.* Connected is created, and an entity holds one place per failed creation
  besides the session's (`EntityInv`). With a session and a clock, the uint32 age is the real age,
  a negative one included (`AgeIsReal`): the check in `Resync` bounds it by the period, and one
  pass later it has not wrapped. Without a clock, the age bounds how long a good link has been
  waited for (`WaitsNoLonger`): the pass in which the second synchronisation fails starts with
  an age of the first one.
* *Wheel.* The edges since a snapshot are bounded by the time since it, which is dt and the
  difference of two lags (`TravelBound`); that time is at most `GAP_MS`, so the counter is within
  half its range of the snapshot, or a turn away from it (`CounterTurns`). A difference beyond one
  and a half times what dt allows therefore needs a lag that grew by half of dt, and `WindowBound`
  adds the same up over a window.

* *Held heading.* One update with a heading leaves the estimate between the prediction and the
  heading (`Pulled`), far enough from the seam that a gentle turn does not carry the next
  prediction over it (`GentleStaysOff`). From there on each update shrinks what the estimate
  is off beyond the slack by the weight, as `Excess` does (`BlendContracts`), and
  `SettleAssumption` says that `SETTLE` updates bring `Excess` to 0.
* *Streams.* Numbers are compared by their `Place`, the signed distance from the number handed up
  last. `StreamInv` orders the numbers of both ends on that line and keeps everything that is
  ever compared (kept, waiting, on its way down or up, announced, acknowledged) less than
  half a turn apart (`Window`), which `StreamAssumption` makes room for; so `Less` on the circle is
  `<` on the line. A packet on its way that is still
  ahead carries the fragment pushed under its number (`Line`), and acknacks on their way are
  about what has been handed up, in that order (`Answers`). `Fragments` relates the fragment buffer to the fragment handed up next. The steps of the refinement are
  read off the same invariant: a push appends, a pop takes the first, everything else stutters.
* *LiDAR.* `DriverInv` cuts the bytes delivered so far into those processed and those still held,
  at a line's end; the slots are what the processed lines leave behind, newest last, and the
  scans answer the processed marks. A read only lengthens what is held, `ParseLine` moves
  the cut by one line.

**Only model-checked.** Liveness (`AgentLossRest`, `StandstillSeen`, `MarksAnswered`,
`Reconnects`, `ClockRecovers`, `NeverStuck`, `StuckWheelPushed`), which is out of the prover's
reach. `CaughtUpAnswersAll` is the safety half of `MarksAnswered`: that the node does catch up is
left to fairness. Every safety invariant and every action property of the passing runs is a theorem.

## 6. Not modelled

* **Pose integration** (`odometry.cpp:70-73`) and `atan2f`: trigonometric floating point. Of
  the yaw, the filter and its circle are modelled.
* **Sensor registers**: I2C probing that runs once, and copies of a vendor library's event. Which
  sensors there are, when a reading is due and that it may fail is in `YawEstimate`.
* **Message buffers, covariances, frame names**: constants.
* **The IMU TF publisher and visualizer**: functions of one message.
* **Launch files, configurations, descriptions, simulation, archive**: no behaviour of
  this code.
* **The vendored agent and colcon's output** (`ros2_ws/installfff`, `installfff`, `build`, `log`):
  third-party headers (serialisation of the XRCE types, a logging and a formatting library, an
  argument parser) and generated scripts. They are nearly all lines of the repository's C++, and
  none is this project's logic. The one part whose behaviour the robot leans on, the reliable
  streams, is `AgentStream`. Of it, the agent's best-effort streams, its sessions' bookkeeping and
  its middleware are left out: nothing in the firmware tells them apart from a link that answers
  or does not, which is how `RosEntities` and `ControlLoop` see them.

## 7. Plan

The order is by what can move the robot wrongly.

1. Done: `ControlLoop` with `DeadMan`; `WheelOdometry`; `DriveKinematics`; `MotorOutput`;
   `RosEntities` composed into `RosClock`; `Nvs`; `Compass` composed into `YawEstimate`;
   `AgentStream` with `ReliableStream`; `LidarDriver`; proofs of every safety and action
   property of theirs.
2. An abstract speedometer for `WheelOdometry`, and an abstract "latest scan" for
   `LidarDriver`, each shown to be implemented and proved to be: the invariants are there.
3. `TfTree`: who publishes odom to base_link when the EKF and the relay both run.
