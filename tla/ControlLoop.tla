---------------------------- MODULE ControlLoop ----------------------------
(***************************************************************************)
(* The firmware's super-loop (firmware/src/main.cpp, loop()) and what runs *)
(* inside it: the agent supervision, the motor targets and their sources,  *)
(* the command watchdog and the drive decision of runControlStep, and the  *)
(* magnetometer calibration, which turns the robot by itself.              *)
(*                                                                         *)
(* Time.  The code keeps a uint32 timestamp ts = millis() per timer and    *)
(* compares differences.  Here each timer is its age, millis() - ts modulo *)
(* UINT32; the sample `now` taken at the top of loop() is kept as `lag`,   *)
(* millis() - now, so that now - ts is Minus(age, lag).  Time passes only  *)
(* in Tick, and only inside calls that block: `phase` names the call being *)
(* executed and `spent` how long it has been blocking.                     *)
(*                                                                         *)
(* Data.  A pair of wheel targets is Zero (both within ZERO_CMD_RPM_EPS),  *)
(* Cmd (set by a velocity command) or Cal (the calibration's rotation).    *)
(* What the H-bridges are given is "off", "pid" (the PID outputs) or       *)
(* "kick" (the PID outputs raised to MIN_PWM_START).                       *)
(***************************************************************************)
EXTENDS Naturals

CONSTANTS
  CONTROL_PERIOD_MS, CMD_TIMEOUT_MS, AGENT_CHECK_MS,
  MAG_CALIBRATION_DURATION_MS, KICKSTART_DURATION_MS,
  SENSOR_MS,    \* longest time from `now` to the calibration's update (I2C)
  LOG_MS,       \* longest time from there to the agent check (flash, printf)
  PING_MS,      \* longest rmw_uros_ping_agent
  CREATE_MS,    \* longest createRosEntities, its syncRosClock(1000) included
  DESTROY_MS,   \* longest destroyRosEntities
  COMMS_MS,     \* longest syncRosClock(100) + spin_some + publishWheelSpeeds
  UINT32        \* number of values of a uint32 timestamp

ASSUME TimingAssumption ==
  /\ CONTROL_PERIOD_MS \in Nat \ {0}
  /\ CMD_TIMEOUT_MS \in Nat
  /\ AGENT_CHECK_MS \in Nat
  /\ MAG_CALIBRATION_DURATION_MS \in Nat \ {0}
  /\ KICKSTART_DURATION_MS \in Nat \ {0}
  /\ SENSOR_MS \in Nat /\ LOG_MS \in Nat /\ PING_MS \in Nat
  /\ CREATE_MS \in Nat /\ DESTROY_MS \in Nat /\ COMMS_MS \in Nat

VARIABLES
  agent,        \* g_agent_state
  agentUp,      \* is the micro-ROS agent reachable over the serial link?
  targets,      \* g_m1_target_rpm, g_m2_target_rpm
  cmd_age,      \* millis() - g_last_cmd_ms
  calibrating,  \* g_mag_calibration.active
  cal_age,      \* millis() - g_mag_calibration.start_ms, 0 when not calibrating
  phase,        \* where loop() is
  served,       \* callbacks already considered by this spin_some, in order
  spent,        \* time spent in the current blocking call
  lag,          \* millis() - now
  control_age,  \* millis() - last_control_ms
  check_age,    \* millis() - last_agent_check_ms
  drive,        \* what the PWM channels hold
  cmd_active,   \* prev_cmd_active
  kick_age      \* millis() - kickstart_ms, 0 when prev_cmd_active is false

loopVars  == <<phase, served, spent, lag>>
timerVars == <<control_age, check_age>>
calVars   == <<calibrating, cal_age>>
driveVars == <<drive, cmd_active, kick_age>>
vars == <<agent, agentUp, targets, cmd_age, calVars, loopVars, timerVars,
          driveVars>>

Targets == {"Zero", "Cmd", "Cal"}
Phases  == {"begin", "sensors", "agent", "ping", "create", "destroy",
            "control", "comms"}

Larger(a, b) == IF a >= b THEN a ELSE b

\* The longest pass of loop() up to the control step, and the longest pass.
TO_CONTROL_MS ==
  SENSOR_MS + LOG_MS + PING_MS + Larger(CREATE_MS, DESTROY_MS)
PASS_MS == TO_CONTROL_MS + COMMS_MS

\* The longest time between the `now` of one control step and the execution
\* of the next: a pass that just misses CONTROL_PERIOD_MS, then another one.
CONTROL_GAP_MS == (CONTROL_PERIOD_MS - 1) + PASS_MS + TO_CONTROL_MS

\* A uint32 holds every interval the loop measures while the robot moves.
ASSUME WidthAssumption ==
  /\ UINT32 \in Nat
  /\ UINT32 > CMD_TIMEOUT_MS + CONTROL_GAP_MS
  /\ UINT32 > MAG_CALIBRATION_DURATION_MS + PASS_MS + SENSOR_MS
  /\ UINT32 > AGENT_CHECK_MS

\* uint32 arithmetic.
OlderUnbounded(age) == age + 1   \* variant: a counter that never wraps
Older(age)  == IF age + 1 = UINT32 THEN 0 ELSE age + 1
Minus(a, b) == IF a >= b THEN a - b ELSE (a + UINT32) - b

Budget(p) == CASE p = "sensors" -> SENSOR_MS
               [] p = "agent"   -> LOG_MS
               [] p = "ping"    -> PING_MS
               [] p = "create"  -> CREATE_MS
               [] p = "destroy" -> DESTROY_MS
               [] p = "comms"   -> COMMS_MS
               [] OTHER         -> 0

Init ==  \* after setup(), at the first call of loop()
  /\ agent = "Waiting"
  /\ agentUp \in BOOLEAN
  /\ targets = "Zero"
  /\ cmd_age = 0
  /\ calibrating = FALSE
  /\ cal_age = 0
  /\ phase = "begin"
  /\ served = 0
  /\ spent = 0
  /\ lag = 0
  /\ control_age = 0
  /\ check_age = AGENT_CHECK_MS   \* last_agent_check_ms = 0, long after boot
  /\ drive = "off"
  /\ cmd_active = FALSE
  /\ kick_age = 0

-----------------------------------------------------------------------------
(* Time and the outside world.                                             *)

Tick ==
  /\ spent < Budget(phase)
  /\ spent' = spent + 1
  /\ lag' = lag + 1
  /\ cmd_age' = Older(cmd_age)
  /\ cal_age' = IF calibrating THEN Older(cal_age) ELSE cal_age
  /\ control_age' = Older(control_age)
  /\ check_age' = Older(check_age)
  /\ kick_age' = IF cmd_active THEN Older(kick_age) ELSE kick_age
  /\ UNCHANGED <<agent, agentUp, targets, calibrating, phase, served, drive,
                 cmd_active>>

\* The agent process dies, or the serial link is unplugged; or it comes back.
AgentLinkChanges ==
  /\ agentUp' = ~agentUp
  /\ UNCHANGED <<agent, targets, cmd_age, calVars, loopVars, timerVars,
                 driveVars>>

Goto(p) == phase' = p /\ spent' = 0

-----------------------------------------------------------------------------
(* One pass of loop().                                                     *)

BeginPass ==  \* const uint32_t now = millis()
  /\ phase = "begin"
  /\ Goto("sensors")
  /\ lag' = 0
  /\ UNCHANGED <<agent, agentUp, targets, cmd_age, calVars, served,
                 timerVars, driveVars>>

\* finishMagCalibration, the part that concerns the motors.
FinishMagCalibration ==
  /\ calibrating' = FALSE
  /\ cal_age' = 0
  /\ targets' = "Zero"
  /\ cmd_age' = 0

\* now_ms - start_ms >= duration_ms.  Variants: a strict comparison, and no
\* end at all.
CalibrationOverLate  == Minus(cal_age, lag) > MAG_CALIBRATION_DURATION_MS
CalibrationNeverOver == FALSE
CalibrationOver      == Minus(cal_age, lag) >= MAG_CALIBRATION_DURATION_MS

\* updateMagCalibrationMode(now): keeps the robot turning and feeds the
\* watchdog with the pass's `now` until the duration is over.  Saving the
\* offsets, and printing, take their time in the next phase.
UpdateMagCalibrationMode ==
  /\ phase = "sensors"
  /\ Goto("agent")
  /\ \/ /\ ~calibrating
        /\ UNCHANGED <<targets, cmd_age, calVars>>
     \/ /\ calibrating
        /\ ~CalibrationOver
        /\ targets' = "Cal"
        /\ cmd_age' = lag
        /\ UNCHANGED calVars
     \/ /\ calibrating
        /\ CalibrationOver
        /\ FinishMagCalibration
  /\ UNCHANGED <<agent, agentUp, served, lag, timerVars, driveVars>>

CheckAgent ==  \* every 500 ms
  /\ phase = "agent"
  /\ \/ /\ Minus(check_age, lag) >= AGENT_CHECK_MS
        /\ check_age' = lag
        /\ Goto("ping")
     \/ /\ Minus(check_age, lag) < AGENT_CHECK_MS
        /\ check_age' = check_age
        /\ Goto("control")
  /\ UNCHANGED <<agent, agentUp, targets, cmd_age, calVars, served, lag,
                 control_age, driveVars>>

\* rmw_uros_ping_agent(50, 1): one attempt, so an answer may be lost.
PingAgent(agent_ok) ==
  /\ phase = "ping"
  /\ agent_ok => agentUp
  /\ Goto(CASE agent = "Waiting" /\ agent_ok    -> "create"
            [] agent = "Connected" /\ ~agent_ok -> "destroy"
            [] OTHER                            -> "control")
  /\ UNCHANGED <<agent, agentUp, targets, cmd_age, calVars, served, lag,
                 timerVars, driveVars>>

CreateRosEntities(ok) ==
  /\ phase = "create"
  /\ agent' = IF ok THEN "Connected" ELSE "Waiting"
  /\ Goto("control")
  /\ UNCHANGED <<agentUp, targets, cmd_age, calVars, served, lag, timerVars,
                 driveVars>>

\* Variant: the disconnect stops the motors but forgets the targets.
DestroyKeepingTargets ==
  /\ phase = "destroy"
  /\ agent' = "Waiting"
  /\ drive' = "off"
  /\ Goto("control")
  /\ UNCHANGED <<agentUp, targets, cmd_age, calVars, served, lag, timerVars,
                 cmd_active, kick_age>>

\* The motors keep their last PWM until destroyRosEntities has returned.
DestroyRosEntities ==
  /\ phase = "destroy"
  /\ agent' = "Waiting"
  /\ targets' = "Zero"
  /\ drive' = "off"
  /\ Goto("control")
  /\ UNCHANGED <<agentUp, cmd_age, calVars, served, lag, timerVars,
                 cmd_active, kick_age>>

AfterControl ==
  /\ Goto(IF agent = "Connected" THEN "comms" ELSE "begin")
  /\ served' = 0

SkipControlStep ==
  /\ phase = "control"
  /\ Minus(control_age, lag) < CONTROL_PERIOD_MS
  /\ AfterControl
  /\ UNCHANGED <<agent, agentUp, targets, cmd_age, calVars, lag, timerVars,
                 driveVars>>

\* The watchdog at the head of the drive decision.  Variants: no watchdog,
\* and one that is a millisecond late.
UnwatchedTargets   == targets
LateWatchedTargets == IF cmd_age > CMD_TIMEOUT_MS + 1 THEN "Zero" ELSE targets
WatchedTargets     == IF cmd_age > CMD_TIMEOUT_MS THEN "Zero" ELSE targets

\* millis() - kickstart_ms < KICKSTART_DURATION_MS.  Variant: <=.
KickstartedLate(age) == age <= KICKSTART_DURATION_MS
Kickstarted(age)     == age < KICKSTART_DURATION_MS

\* runControlStep: the watchdog, the stop decision and the kickstart.  The
\* PWM is zeroed at once on a stop; otherwise both motors get their outputs.
RunControlStep ==
  /\ phase = "control"
  /\ Minus(control_age, lag) >= CONTROL_PERIOD_MS
  /\ control_age' = lag
  /\ targets' = WatchedTargets
  /\ \/ /\ WatchedTargets = "Zero"
        /\ drive' = "off"
        /\ cmd_active' = FALSE
        /\ kick_age' = 0
     \/ /\ WatchedTargets # "Zero"
        /\ cmd_active' = TRUE
        /\ kick_age' = IF cmd_active THEN kick_age ELSE 0
        /\ drive' = IF Kickstarted(kick_age') THEN "kick" ELSE "pid"
  /\ AfterControl
  /\ UNCHANGED <<agent, agentUp, cmd_age, calVars, lag, check_age>>

-----------------------------------------------------------------------------
(* rclc_executor_spin_some: at most one message per subscription, in the   *)
(* order the subscriptions were added.  /pid_config (the third) changes    *)
(* nothing this module keeps.                                              *)

Callback(handle) ==
  /\ phase = "comms"
  /\ agentUp
  /\ served < handle
  /\ served' = handle
  /\ UNCHANGED <<agent, agentUp, phase, spent, lag, timerVars, driveVars>>

\* Variant: the calibration does not shut the commands out.
AcceptAnyCommand(wanted) == targets' = wanted /\ cmd_age' = 0

AcceptCommand(wanted) ==
  \/ /\ calibrating
     /\ UNCHANGED <<targets, cmd_age>>
  \/ /\ ~calibrating
     /\ targets' = wanted
     /\ cmd_age' = 0

CmdVelCallback(wanted) ==
  /\ Callback(1)
  /\ AcceptCommand(wanted)
  /\ UNCHANGED calVars

RpmCmdCallback(wanted) ==
  /\ Callback(2)
  /\ AcceptCommand(wanted)
  /\ UNCHANGED calVars

StartMagCalibration ==
  /\ calibrating' = TRUE
  /\ cal_age' = 0
  /\ targets' = "Cal"
  /\ cmd_age' = 0

\* calibrateMagCallback: true starts (or restarts) a calibration, false
\* finishes the running one.
CalibrateMagCallback(start) ==
  /\ Callback(4)
  /\ \/ /\ start
        /\ StartMagCalibration
     \/ /\ ~start /\ calibrating
        /\ FinishMagCalibration
     \/ /\ ~start /\ ~calibrating
        /\ UNCHANGED <<targets, cmd_age, calVars>>

EndPass ==
  /\ phase = "comms"
  /\ Goto("begin")
  /\ served' = 0
  /\ UNCHANGED <<agent, agentUp, targets, cmd_age, calVars, lag, timerVars,
                 driveVars>>

-----------------------------------------------------------------------------

\* The steps the single loop task takes by itself.
LoopStep ==
  \/ BeginPass
  \/ UpdateMagCalibrationMode
  \/ CheckAgent
  \/ \E agent_ok \in BOOLEAN : PingAgent(agent_ok)
  \/ \E ok \in BOOLEAN : CreateRosEntities(ok)
  \/ DestroyRosEntities
  \/ SkipControlStep
  \/ RunControlStep
  \/ EndPass

Message ==
  \/ \E wanted \in {"Zero", "Cmd"} : CmdVelCallback(wanted)
  \/ \E wanted \in {"Zero", "Cmd"} : RpmCmdCallback(wanted)
  \/ \E start \in BOOLEAN : CalibrateMagCallback(start)

Next == Tick \/ AgentLinkChanges \/ LoopStep \/ Message

Spec == Init /\ [][Next]_vars

\* The loop task never blocks for ever, and time diverges: a pass that takes
\* no time at all cannot be repeated for ever.
FairSpec == Spec /\ WF_vars(LoopStep) /\ SF_vars(Tick)

-----------------------------------------------------------------------------

\* Every variable holds a value of its kind; ages and the lag stay in range.
TypeOK ==
  /\ agent \in {"Waiting", "Connected"}
  /\ agentUp \in BOOLEAN
  /\ targets \in Targets
  /\ cmd_age \in 0 .. (UINT32 - 1)
  /\ calibrating \in BOOLEAN
  /\ cal_age \in 0 .. (UINT32 - 1)
  /\ phase \in Phases
  /\ served \in 0 .. 4
  /\ spent \in 0 .. Budget(phase)
  /\ lag \in 0 .. PASS_MS
  /\ control_age \in 0 .. (UINT32 - 1)
  /\ check_age \in 0 .. (UINT32 - 1)
  /\ drive \in {"off", "pid", "kick"}
  /\ cmd_active \in BOOLEAN
  /\ kick_age \in 0 .. (UINT32 - 1)

StopLimit == CMD_TIMEOUT_MS + CONTROL_GAP_MS

\* The dead-man switch: whatever blocks the loop, powered motors mean that a
\* command (or the calibration) was refreshed at most the watchdog's timeout
\* plus one control gap ago.
StopBound == drive # "off" => cmd_age <= StopLimit

\* Without an agent nobody can stop the robot by a message, so it may move
\* only because a calibration is turning it, or because a calibration ended
\* and no control step has run since.
RestWhenWaiting ==
  (agent = "Waiting" /\ drive # "off" /\ ~calibrating)
     => cmd_age <= control_age

\* A calibration ends by itself, agent or no agent: its age never exceeds
\* its duration by more than one pass and the sensor calls of the next.  And
\* it ends no earlier: only a message cuts it short, the comparison with the
\* pass's old `now` never does.
CalibrationBounded ==
  /\ [](calibrating =>
          cal_age < MAG_CALIBRATION_DURATION_MS + PASS_MS + SENSOR_MS)
  /\ [][calibrating /\ ~calibrating' /\ phase # "comms" =>
          cal_age >= MAG_CALIBRATION_DURATION_MS]_vars

\* The kickstart clamp is transient: a boosted PWM is not held longer than
\* its duration plus one control gap, even when the loop is blocked.
KickEnds == drive = "kick" => kick_age < KICKSTART_DURATION_MS + CONTROL_GAP_MS

\* While a calibration runs no velocity command reaches the wheels' targets.
CalibrationOwnsTargets == calibrating => targets # "Cmd"

\* If the agent is gone for good the robot comes to rest for good.
AgentLossRest == <>[]~agentUp => <>[](drive = "off")

\* The loop implements the dead-man switch: powered motors are motion, the
\* age of the last command is the age of the wish.  Beyond StopBound it says
\* that motion starts only on a command the watchdog accepts, and that the
\* calibration's refresh with the pass's old `now` never ages the command.
Switch == INSTANCE DeadMan WITH
            Timeout <- CMD_TIMEOUT_MS,
            Limit   <- StopLimit,
            moving  <- drive # "off",
            quiet   <- IF drive = "off" THEN 0 ELSE cmd_age
DeadManSwitch == Switch!Spec

\* odometry.cpp:80-81, 103-105: prev_cmd_active is "kept accurate even
\* between commands" and motors that were stopped start with the "one-shot
\* kickstart"; they never go from off to the bare PID outputs.
KickFollowsEveryStop == [][drive = "off" => drive' # "pid"]_vars

=============================================================================
