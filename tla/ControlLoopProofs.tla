-------------------------- MODULE ControlLoopProofs --------------------------
(***************************************************************************)
(* The control loop's timing guarantees, for every period, timeout and     *)
(* blocking time.  The argument: within a pass the lag is bounded by what  *)
(* the calls made so far may take (LagBound); hence the age of the last    *)
(* control step is bounded (ControlBound); every wish to move that powers  *)
(* the motors was at most the timeout old at the last control step, so it  *)
(* ages in step with the control step (CommandBound), and likewise the     *)
(* calibration (CalibrationBound) and the kickstart (KickBound).  None of  *)
(* these ages reaches UINT32, so the modular differences are the real ones.*)
(***************************************************************************)
EXTENDS ControlLoop, TLAPS

\* `now` is as old as the calls made since it was sampled.
LagBound ==
  /\ phase = "sensors" => lag = spent
  /\ phase = "agent"   => lag <= SENSOR_MS + spent
  /\ phase = "ping"    => lag <= SENSOR_MS + LOG_MS + spent
  /\ phase \in {"create", "destroy"} =>
       lag <= SENSOR_MS + LOG_MS + PING_MS + spent
  /\ phase = "control" => lag <= TO_CONTROL_MS
  /\ phase = "comms"   => lag <= TO_CONTROL_MS + spent
  /\ phase = "begin"   => lag <= PASS_MS

\* Only a connected loop talks to the agent, and only such a loop loses it.
AgentPhase ==
  /\ phase \in {"comms", "destroy"} => agent = "Connected"
  /\ phase = "create" => agent = "Waiting"

ControlBound ==
  /\ lag <= control_age
  /\ phase \in {"comms", "begin"} => control_age <= (CONTROL_PERIOD_MS - 1) + lag
  /\ control_age <= (CONTROL_PERIOD_MS - 1) + PASS_MS + lag
  /\ phase # "begin" /\ phase # "comms" => lag <= TO_CONTROL_MS

CommandBound ==
  /\ drive # "off" => cmd_age <= CMD_TIMEOUT_MS + control_age
  /\ drive # "off" /\ phase = "sensors" => lag <= cmd_age

WaitingBound ==
  agent = "Waiting" /\ ~calibrating =>
    /\ targets = "Zero"
    /\ drive # "off" => cmd_age <= control_age

CalibrationBound ==
  calibrating =>
    /\ targets # "Cmd"
    /\ phase # "sensors" => cal_age <= (MAG_CALIBRATION_DURATION_MS - 1) + lag
    /\ phase = "sensors" =>
         /\ lag <= cal_age
         /\ cal_age <= (MAG_CALIBRATION_DURATION_MS - 1) + PASS_MS + lag

KickBound == drive = "kick" => kick_age < KICKSTART_DURATION_MS + control_age

IInv ==
  /\ TypeOK
  /\ LagBound
  /\ AgentPhase
  /\ ControlBound
  /\ CommandBound
  /\ WaitingBound
  /\ CalibrationBound
  /\ KickBound

-----------------------------------------------------------------------------
(* Facts about the constants and the modular clocks.                       *)

\* What the blocking times add up to, without the maximum in TO_CONTROL_MS.
LEMMA Durations ==
  /\ TO_CONTROL_MS \in Nat
  /\ PASS_MS = TO_CONTROL_MS + COMMS_MS
  /\ SENSOR_MS + LOG_MS + PING_MS + CREATE_MS <= TO_CONTROL_MS
  /\ SENSOR_MS + LOG_MS + PING_MS + DESTROY_MS <= TO_CONTROL_MS
  /\ SENSOR_MS + LOG_MS + PING_MS <= TO_CONTROL_MS
  /\ CONTROL_GAP_MS = (CONTROL_PERIOD_MS - 1) + PASS_MS + TO_CONTROL_MS
BY TimingAssumption DEF TO_CONTROL_MS, PASS_MS, Larger, CONTROL_GAP_MS

\* A clock stays in range; away from the wrap it advances by one.
LEMMA OlderFacts ==
  ASSUME NEW age \in 0 .. (UINT32 - 1)
  PROVE  /\ Older(age) \in 0 .. (UINT32 - 1)
         /\ Older(age) <= age + 1
         /\ age + 1 < UINT32 => Older(age) = age + 1
BY WidthAssumption DEF Older

\* What the calls may still block.
LEMMA BudgetFacts ==
  /\ Budget("sensors") = SENSOR_MS
  /\ Budget("agent") = LOG_MS
  /\ Budget("ping") = PING_MS
  /\ Budget("create") = CREATE_MS
  /\ Budget("destroy") = DESTROY_MS
  /\ Budget("comms") = COMMS_MS
  /\ Budget("begin") = 0
  /\ Budget("control") = 0
BY DEF Budget

-----------------------------------------------------------------------------
(* The steps.                                                              *)

\* The loop starts with every clock in range and the motors off.
LEMMA InitInvariant == Init => IInv
<1> SUFFICES ASSUME Init PROVE IInv
    OBVIOUS
<1> USE TimingAssumption, WidthAssumption, Durations, BudgetFacts
<1>1. TypeOK
  <2>1. Budget(phase) = 0
        BY DEF Init
  <2>2. /\ CONTROL_GAP_MS \in Nat /\ UINT32 \in Nat \ {0} /\ PASS_MS \in Nat
        OBVIOUS
  <2> HIDE TimingAssumption, WidthAssumption, Durations, BudgetFacts
  <2>3. AGENT_CHECK_MS \in 0 .. (UINT32 - 1)
        BY <2>2, TimingAssumption, WidthAssumption
  <2>4. agentUp \in BOOLEAN /\ calibrating \in BOOLEAN /\ cmd_active \in BOOLEAN
        BY Zenon DEF Init
  <2>5. /\ cmd_age = 0 /\ cal_age = 0 /\ spent = 0 /\ lag = 0
        /\ control_age = 0 /\ check_age = AGENT_CHECK_MS /\ kick_age = 0
        BY DEF Init
  <2>6. /\ agent = "Waiting" /\ targets = "Zero" /\ phase = "begin"
        /\ served = 0 /\ drive = "off"
        BY DEF Init
  <2> QED BY <2>1, <2>2, <2>3, <2>4, <2>5, <2>6 DEF TypeOK, Targets, Phases
<1>2. LagBound /\ AgentPhase /\ ControlBound
      BY DEF Init, LagBound, AgentPhase, ControlBound
<1>3. CommandBound /\ WaitingBound /\ CalibrationBound /\ KickBound
      BY DEF Init, CommandBound, WaitingBound, CalibrationBound, KickBound
<1> QED BY <1>1, <1>2, <1>3 DEF IInv

\* While a call blocks, the command and the control step age together, and
\* neither wraps while the motors are powered.
LEMMA TickAges ==
  ASSUME IInv, Tick
  PROVE  /\ phase # "comms" => lag + 1 <= TO_CONTROL_MS
         /\ lag + 1 <= PASS_MS
         /\ control_age' = control_age + 1
         /\ drive # "off" => cmd_age' = cmd_age + 1 /\ cmd_age + 1 <= StopLimit
<1> USE TimingAssumption, WidthAssumption, Durations
<1> USE DEF IInv
<1>1. /\ phase \in {"sensors", "agent", "ping", "create", "destroy", "comms"}
      /\ phase = "sensors" => spent + 1 <= SENSOR_MS
      /\ phase = "agent"   => spent + 1 <= LOG_MS
      /\ phase = "ping"    => spent + 1 <= PING_MS
      /\ phase = "create"  => spent + 1 <= CREATE_MS
      /\ phase = "destroy" => spent + 1 <= DESTROY_MS
      /\ phase = "comms"   => spent + 1 <= COMMS_MS
      BY BudgetFacts DEF Tick, TypeOK, Phases
<1>2. /\ phase # "comms" => lag + 1 <= TO_CONTROL_MS
      /\ lag + 1 <= PASS_MS
      /\ lag \in Nat /\ spent \in Nat
      BY <1>1, BudgetFacts DEF LagBound, TypeOK, Phases
<1>3. control_age + 1 <= CONTROL_GAP_MS
      BY <1>1, <1>2 DEF ControlBound, TypeOK
<1>4. control_age' = control_age + 1
      BY <1>3, OlderFacts DEF Tick, TypeOK
<1>5. drive # "off" => cmd_age' = cmd_age + 1
      BY <1>3, OlderFacts DEF Tick, CommandBound, TypeOK
<1>6. drive # "off" => cmd_age + 1 <= StopLimit
      BY <1>3 DEF CommandBound, StopLimit, TypeOK
<1> QED BY <1>2, <1>4, <1>5, <1>6

\* So a tick keeps every bound that compares two ages.
LEMMA TickInvariant == IInv /\ Tick => IInv'
<1> SUFFICES ASSUME IInv, Tick PROVE IInv'
    OBVIOUS
<1> USE TimingAssumption, WidthAssumption, Durations
<1> USE DEF IInv
<1>1. /\ phase' = phase /\ spent' = spent + 1 /\ lag' = lag + 1
      /\ agent' = agent /\ targets' = targets /\ drive' = drive
      /\ calibrating' = calibrating /\ cmd_active' = cmd_active
      BY DEF Tick
<1>2. /\ phase \in {"sensors", "agent", "ping", "create", "destroy", "comms"}
      /\ phase = "sensors" => spent + 1 <= SENSOR_MS
      /\ phase = "agent"   => spent + 1 <= LOG_MS
      /\ phase = "ping"    => spent + 1 <= PING_MS
      /\ phase = "create"  => spent + 1 <= CREATE_MS
      /\ phase = "destroy" => spent + 1 <= DESTROY_MS
      /\ phase = "comms"   => spent + 1 <= COMMS_MS
      BY BudgetFacts DEF Tick, TypeOK, Phases
<1>3. lag \in Nat /\ spent \in Nat
      BY <1>2, BudgetFacts DEF TypeOK
<1>4. /\ phase # "comms" => lag + 1 <= TO_CONTROL_MS
      /\ lag + 1 <= PASS_MS
      /\ control_age' = control_age + 1
      /\ drive # "off" => cmd_age' = cmd_age + 1
      BY TickAges
<1>5. TypeOK'
  <2>1. spent' \in 0 .. Budget(phase)'
        BY <1>1, <1>2, <1>3, BudgetFacts
  <2>2. /\ cmd_age' \in 0 .. (UINT32 - 1) /\ cal_age' \in 0 .. (UINT32 - 1)
        /\ check_age' \in 0 .. (UINT32 - 1) /\ kick_age' \in 0 .. (UINT32 - 1)
        /\ control_age' \in 0 .. (UINT32 - 1)
        BY OlderFacts DEF Tick, TypeOK
  <2>3. lag' \in 0 .. PASS_MS /\ UNCHANGED <<agentUp, served>>
        BY <1>1, <1>3, <1>4 DEF Tick
  <2> QED BY <1>1, <2>1, <2>2, <2>3 DEF TypeOK
<1>6. LagBound'
      BY <1>1, <1>2, <1>3, <1>4 DEF LagBound
<1>7. AgentPhase'
      BY <1>1 DEF AgentPhase
<1>8. ControlBound'
      BY <1>1, <1>2, <1>3, <1>4 DEF ControlBound, TypeOK
<1>9. CommandBound'
      BY <1>1, <1>3, <1>4 DEF CommandBound, TypeOK
<1>10. WaitingBound'
      BY <1>1, <1>4 DEF WaitingBound, TypeOK
<1>11. CalibrationBound'
  <2> SUFFICES ASSUME calibrating PROVE CalibrationBound'
      BY <1>1 DEF CalibrationBound
  <2>1. cal_age + 1 < UINT32
        BY <1>1, <1>2, <1>3, <1>4 DEF CalibrationBound, LagBound, TypeOK
  <2>2. cal_age' = cal_age + 1
        BY <2>1, OlderFacts DEF Tick, TypeOK
  <2> QED BY <1>1, <1>3, <1>4, <2>2 DEF CalibrationBound, TypeOK
<1>12. KickBound'
      BY <1>1, <1>4, OlderFacts DEF Tick, KickBound, TypeOK
<1> QED BY <1>5, <1>6, <1>7, <1>8, <1>9, <1>10, <1>11, <1>12

\* The steps of a pass that only decide what comes next: they move `phase`,
\* and at most start `now` anew or restart the agent check's clock.
LEMMA PassInvariant ==
  ASSUME IInv,
         \/ BeginPass \/ CheckAgent \/ SkipControlStep \/ EndPass
         \/ AgentLinkChanges \/ (\E agent_ok \in BOOLEAN : PingAgent(agent_ok))
         \/ (\E ok \in BOOLEAN : CreateRosEntities(ok))
         \/ UNCHANGED vars
  PROVE  IInv'
<1> USE TimingAssumption, WidthAssumption, Durations, BudgetFacts
<1> USE DEF IInv, TypeOK, Phases, Goto, calVars, timerVars, driveVars, loopVars
<1>1. CASE BeginPass
  <2>1. TypeOK'
        BY <1>1 DEF BeginPass
  <2>2. LagBound' /\ AgentPhase' /\ ControlBound'
        BY <1>1 DEF BeginPass, LagBound, AgentPhase, ControlBound
  <2>3. CommandBound' /\ WaitingBound' /\ KickBound'
        BY <1>1 DEF BeginPass, CommandBound, WaitingBound, KickBound
  <2>4. CalibrationBound'
        BY <1>1 DEF BeginPass, CalibrationBound, LagBound
  <2> QED BY <2>1, <2>2, <2>3, <2>4
<1>2. CASE CheckAgent
  <2>1. lag \in 0 .. (UINT32 - 1)
        BY <1>2 DEF CheckAgent, LagBound
  <2>2. TypeOK'
        BY <1>2, <2>1 DEF CheckAgent
  <2>3. LagBound' /\ AgentPhase' /\ ControlBound'
        BY <1>2 DEF CheckAgent, LagBound, AgentPhase, ControlBound
  <2>4. CommandBound' /\ WaitingBound' /\ KickBound'
        BY <1>2 DEF CheckAgent, CommandBound, WaitingBound, KickBound
  <2>5. CalibrationBound'
        BY <1>2 DEF CheckAgent, CalibrationBound
  <2> QED BY <2>2, <2>3, <2>4, <2>5
<1>3. ASSUME NEW agent_ok \in BOOLEAN, PingAgent(agent_ok)
      PROVE  IInv'
  <2>1. TypeOK'
        BY <1>3 DEF PingAgent
  <2>2. LagBound' /\ AgentPhase' /\ ControlBound'
        BY <1>3 DEF PingAgent, LagBound, AgentPhase, ControlBound
  <2>3. CommandBound' /\ WaitingBound' /\ KickBound'
        BY <1>3 DEF PingAgent, CommandBound, WaitingBound, KickBound
  <2>4. CalibrationBound'
        BY <1>3 DEF PingAgent, CalibrationBound
  <2> QED BY <2>1, <2>2, <2>3, <2>4
<1>4. ASSUME NEW ok \in BOOLEAN, CreateRosEntities(ok)
      PROVE  IInv'
  <2>1. TypeOK'
        BY <1>4 DEF CreateRosEntities
  <2>2. LagBound' /\ AgentPhase' /\ ControlBound'
        BY <1>4 DEF CreateRosEntities, LagBound, AgentPhase, ControlBound
  <2>3. CommandBound' /\ WaitingBound' /\ KickBound'
        BY <1>4 DEF CreateRosEntities, CommandBound, WaitingBound, KickBound,
                    AgentPhase
  <2>4. CalibrationBound'
        BY <1>4 DEF CreateRosEntities, CalibrationBound
  <2> QED BY <2>1, <2>2, <2>3, <2>4
<1>5. CASE SkipControlStep
  <2>1. TypeOK'
        BY <1>5 DEF SkipControlStep, AfterControl
  <2>2. LagBound' /\ AgentPhase'
        BY <1>5 DEF SkipControlStep, AfterControl, LagBound, AgentPhase
  <2>3. ControlBound'
        BY <1>5 DEF SkipControlStep, AfterControl, ControlBound, Minus
  <2>4. CommandBound' /\ WaitingBound' /\ KickBound'
        BY <1>5 DEF SkipControlStep, AfterControl, CommandBound, WaitingBound,
                    KickBound
  <2>5. CalibrationBound'
        BY <1>5 DEF SkipControlStep, AfterControl, CalibrationBound
  <2> QED BY <2>1, <2>2, <2>3, <2>4, <2>5
<1>6. CASE EndPass
  <2>1. TypeOK'
        BY <1>6 DEF EndPass
  <2>2. LagBound' /\ AgentPhase' /\ ControlBound'
        BY <1>6 DEF EndPass, LagBound, AgentPhase, ControlBound
  <2>3. CommandBound' /\ WaitingBound' /\ KickBound' /\ CalibrationBound'
        BY <1>6 DEF EndPass, CommandBound, WaitingBound, KickBound,
                    CalibrationBound
  <2> QED BY <2>1, <2>2, <2>3
<1>7. CASE AgentLinkChanges \/ UNCHANGED vars
  <2>1. TypeOK'
        BY <1>7 DEF AgentLinkChanges, vars
  <2>2. LagBound' /\ AgentPhase' /\ ControlBound'
        BY <1>7 DEF AgentLinkChanges, vars, LagBound, AgentPhase, ControlBound
  <2>3. CommandBound' /\ WaitingBound' /\ KickBound' /\ CalibrationBound'
        BY <1>7 DEF AgentLinkChanges, vars, CommandBound, WaitingBound,
                    KickBound, CalibrationBound
  <2> QED BY <2>1, <2>2, <2>3
<1> QED BY <1>1, <1>2, <1>3, <1>4, <1>5, <1>6, <1>7

\* The calibration's refresh is dated `lag` ago, which is no older than the
\* last control step; when it ends the targets are zeroed with it.
LEMMA CalibrationInvariant == IInv /\ UpdateMagCalibrationMode => IInv'
<1> SUFFICES ASSUME IInv, UpdateMagCalibrationMode PROVE IInv'
    OBVIOUS
<1> USE TimingAssumption, WidthAssumption, Durations, BudgetFacts
<1> USE DEF IInv, TypeOK, Phases, Targets, Goto, calVars, timerVars, driveVars,
            UpdateMagCalibrationMode, FinishMagCalibration
<1>1. lag \in 0 .. (UINT32 - 1) /\ lag <= SENSOR_MS
      BY DEF LagBound
<1>2. TypeOK'
  <2>1. calibrating' \in BOOLEAN
        BY Zenon
  <2>2. /\ targets' \in Targets /\ phase' \in Phases /\ spent' \in 0 .. Budget(phase)'
        /\ cmd_age' \in 0 .. (UINT32 - 1) /\ cal_age' \in 0 .. (UINT32 - 1)
        BY <1>1
  <2>3. UNCHANGED <<agent, agentUp, served, lag, timerVars, driveVars>>
        OBVIOUS
  <2> QED BY <2>1, <2>2, <2>3
<1>3. LagBound' /\ AgentPhase' /\ ControlBound'
      BY <1>1 DEF LagBound, AgentPhase, ControlBound
<1>4. CommandBound'
      BY <1>1 DEF CommandBound, ControlBound
<1>5. WaitingBound'
      BY <1>1 DEF WaitingBound, ControlBound
<1>6. CalibrationBound'
  <2>1. CASE ~calibrating
        BY <2>1 DEF CalibrationBound
  <2>2. CASE calibrating /\ CalibrationOver
        BY <2>2 DEF CalibrationBound
  <2>3. CASE calibrating /\ ~CalibrationOver
    <3>1. /\ targets' = "Cal" /\ cal_age' = cal_age /\ lag' = lag
          /\ phase' = "agent" /\ lag <= cal_age
          BY <2>3 DEF CalibrationBound
    <3>2. cal_age <= (MAG_CALIBRATION_DURATION_MS - 1) + lag
          BY <2>3, <3>1, <1>1 DEF CalibrationOver, Minus
    <3> QED BY <3>1, <3>2 DEF CalibrationBound
  <2> QED BY <2>1, <2>2, <2>3
<1>7. KickBound'
      BY DEF KickBound
<1> QED BY <1>2, <1>3, <1>4, <1>5, <1>6, <1>7

\* A disconnect leaves the motors off and the targets zero.
LEMMA DestroyInvariant == IInv /\ DestroyRosEntities => IInv'
<1> SUFFICES ASSUME IInv, DestroyRosEntities PROVE IInv'
    OBVIOUS
<1> USE TimingAssumption, WidthAssumption, Durations, BudgetFacts
<1> USE DEF IInv, TypeOK, Phases, Targets, Goto, calVars, timerVars,
            DestroyRosEntities
<1>1. TypeOK'
      OBVIOUS
<1>2. LagBound' /\ AgentPhase' /\ ControlBound'
      BY DEF LagBound, AgentPhase, ControlBound
<1>3. CommandBound' /\ WaitingBound' /\ CalibrationBound' /\ KickBound'
      BY DEF CommandBound, WaitingBound, CalibrationBound, KickBound
<1> QED BY <1>1, <1>2, <1>3

\* The control step powers the motors only on a command the watchdog lets
\* through; from then on command and control step age together.
LEMMA ControlInvariant == IInv /\ RunControlStep => IInv'
<1> SUFFICES ASSUME IInv, RunControlStep PROVE IInv'
    OBVIOUS
<1> USE TimingAssumption, WidthAssumption, Durations, BudgetFacts
<1> USE DEF IInv, TypeOK, Phases, Targets, Goto, calVars, AfterControl,
            RunControlStep, WatchedTargets
<1>1. lag \in 0 .. (UINT32 - 1) /\ lag <= TO_CONTROL_MS
      BY DEF LagBound
<1>2. TypeOK'
  <2>1. cmd_active' \in BOOLEAN
        BY Zenon
  <2>2. /\ phase' \in Phases /\ spent' = 0 /\ served' = 0
        /\ Budget(phase)' \in Nat
        BY <1>1
  <2>3. /\ targets' \in Targets /\ control_age' \in 0 .. (UINT32 - 1)
        /\ kick_age' \in 0 .. (UINT32 - 1) /\ drive' \in {"off", "pid", "kick"}
        BY <1>1
  <2>4. UNCHANGED <<agent, agentUp, cmd_age, calVars, lag, check_age>>
        OBVIOUS
  <2> QED BY <2>1, <2>2, <2>3, <2>4
<1>3. LagBound' /\ AgentPhase' /\ ControlBound'
      BY <1>1 DEF LagBound, AgentPhase, ControlBound
<1>4. CommandBound'
      BY <1>1 DEF CommandBound
<1>5. WaitingBound'
      BY <1>1 DEF WaitingBound
<1>6. CalibrationBound'
      BY <1>1 DEF CalibrationBound
<1>7. KickBound'
      BY <1>1 DEF KickBound, Kickstarted
<1> QED BY <1>2, <1>3, <1>4, <1>5, <1>6, <1>7

\* A message renews the command, or starts or ends the calibration; it is
\* served only while connected and never drives the motors itself.
LEMMA MessageInvariant == IInv /\ Message => IInv'
<1> SUFFICES ASSUME IInv, Message PROVE IInv'
    OBVIOUS
<1> USE TimingAssumption, WidthAssumption, Durations, BudgetFacts
<1> USE DEF IInv, TypeOK, Phases, Targets, calVars, timerVars, driveVars,
            Callback, AcceptCommand, FinishMagCalibration
<1>1. ASSUME NEW wanted \in {"Zero", "Cmd"},
             CmdVelCallback(wanted) \/ RpmCmdCallback(wanted)
      PROVE  IInv'
  <2>1. TypeOK'
        BY <1>1 DEF CmdVelCallback, RpmCmdCallback
  <2>2. LagBound' /\ AgentPhase' /\ ControlBound'
        BY <1>1 DEF CmdVelCallback, RpmCmdCallback, LagBound, AgentPhase,
                    ControlBound
  <2>3. CommandBound' /\ WaitingBound' /\ KickBound'
        BY <1>1 DEF CmdVelCallback, RpmCmdCallback, CommandBound, WaitingBound,
                    KickBound, AgentPhase, ControlBound
  <2>4. CalibrationBound'
        BY <1>1 DEF CmdVelCallback, RpmCmdCallback, CalibrationBound
  <2> QED BY <2>1, <2>2, <2>3, <2>4
<1>2. ASSUME NEW start \in BOOLEAN, CalibrateMagCallback(start)
      PROVE  IInv'
  <2>1. TypeOK'
    <3>1. calibrating' \in BOOLEAN
          BY <1>2, Zenon DEF CalibrateMagCallback, StartMagCalibration
    <3>2. /\ targets' \in Targets /\ served' \in 0 .. 4
          /\ cmd_age' \in 0 .. (UINT32 - 1) /\ cal_age' \in 0 .. (UINT32 - 1)
          BY <1>2 DEF CalibrateMagCallback, StartMagCalibration
    <3>3. UNCHANGED <<agent, agentUp, phase, spent, lag, timerVars, driveVars>>
          BY <1>2 DEF CalibrateMagCallback, StartMagCalibration
    <3> QED BY <3>1, <3>2, <3>3
  <2>2. LagBound' /\ AgentPhase' /\ ControlBound'
        BY <1>2 DEF CalibrateMagCallback, StartMagCalibration, LagBound, AgentPhase, ControlBound
  <2>3. CommandBound' /\ WaitingBound' /\ KickBound'
        BY <1>2 DEF CalibrateMagCallback, StartMagCalibration, CommandBound, WaitingBound,
                    KickBound, AgentPhase, ControlBound
  <2>4. CalibrationBound'
    <3>1. phase' = "comms" /\ lag' = lag
          BY <1>2 DEF CalibrateMagCallback, StartMagCalibration
    <3>2. CASE start
          BY <1>2, <3>1, <3>2 DEF CalibrateMagCallback, StartMagCalibration, CalibrationBound
    <3>3. CASE ~start /\ calibrating
          BY <1>2, <3>3 DEF CalibrateMagCallback, StartMagCalibration, CalibrationBound
    <3>4. CASE ~start /\ ~calibrating
          BY <1>2, <3>4 DEF CalibrateMagCallback, StartMagCalibration, CalibrationBound
    <3> QED BY <3>2, <3>3, <3>4
  <2> QED BY <2>1, <2>2, <2>3, <2>4
<1> QED BY <1>1, <1>2 DEF Message

\* Every step of the specification preserves the invariant.
LEMMA NextInvariant == IInv /\ [Next]_vars => IInv'
BY TickInvariant, PassInvariant, CalibrationInvariant, DestroyInvariant,
   ControlInvariant, MessageInvariant DEF Next, LoopStep

\* The inductive invariant holds throughout every behaviour.
THEOREM Inductive == Spec => []IInv
BY InitInvariant, NextInvariant, PTL DEF Spec

-----------------------------------------------------------------------------
(* What the invariant gives.                                               *)

\* Every variable keeps a value of its kind, whatever the constants; an age
\* is a uint32, wrapped or not.
THEOREM TypeCorrect == Spec => []TypeOK
<1>1. IInv => TypeOK
      BY DEF IInv
<1> QED BY <1>1, Inductive, PTL

\* The control step is never older than one control gap.
LEMMA ControlGap == IInv => control_age <= CONTROL_GAP_MS
<1> SUFFICES ASSUME IInv PROVE control_age <= CONTROL_GAP_MS
    OBVIOUS
<1>1. lag <= TO_CONTROL_MS \/ phase \in {"begin", "comms"}
      BY DEF IInv, ControlBound
<1> QED BY <1>1, TimingAssumption, Durations DEF IInv, ControlBound, TypeOK

\* The bound on the age of the wish is one of the invariant's consequences.
LEMMA WishBound == IInv => StopBound
BY ControlGap, TimingAssumption, Durations
   DEF StopBound, StopLimit, IInv, CommandBound, TypeOK

\* Whatever blocks the loop, powered motors mean a wish to move at most the
\* watchdog's timeout plus one control gap old.
THEOREM StopsInTime == Spec => []StopBound
BY WishBound, Inductive, PTL

\* Without an agent, motion outlives a calibration by less than a control
\* step.
THEOREM RestsWithoutAgent == Spec => []RestWhenWaiting
<1>1. IInv => RestWhenWaiting
      BY DEF IInv, WaitingBound, RestWhenWaiting
<1> QED BY <1>1, Inductive, PTL

\* A calibration lasts for its duration unless a message ends it, and is over
\* one pass and the sensor calls of the next after it at the latest.
THEOREM CalibrationEnds == Spec => CalibrationBounded
<1> USE TimingAssumption, Durations
<1>1. IInv => (calibrating =>
                cal_age < MAG_CALIBRATION_DURATION_MS + PASS_MS + SENSOR_MS)
  <2> SUFFICES ASSUME IInv, calibrating
               PROVE  cal_age < MAG_CALIBRATION_DURATION_MS + PASS_MS + SENSOR_MS
      OBVIOUS
  <2>1. CASE phase = "sensors"
        BY <2>1, BudgetFacts DEF IInv, CalibrationBound, LagBound, TypeOK
  <2>2. CASE phase # "sensors"
        BY <2>2 DEF IInv, CalibrationBound, TypeOK
  <2> QED BY <2>1, <2>2
<1>2. IInv /\ [Next]_vars =>
        [calibrating /\ ~calibrating' /\ phase # "comms" =>
           cal_age >= MAG_CALIBRATION_DURATION_MS]_vars
  <2> SUFFICES ASSUME IInv, Next, calibrating, ~calibrating', phase # "comms"
               PROVE  cal_age >= MAG_CALIBRATION_DURATION_MS
      OBVIOUS
  <2>1. UpdateMagCalibrationMode
        BY DEF Next, LoopStep, Message, Tick, AgentLinkChanges, BeginPass,
               CheckAgent, PingAgent, CreateRosEntities, DestroyRosEntities,
               SkipControlStep, RunControlStep, EndPass, CmdVelCallback,
               RpmCmdCallback, CalibrateMagCallback, Callback, calVars
  <2>2. phase = "sensors" /\ CalibrationOver
        BY <2>1 DEF UpdateMagCalibrationMode, calVars
  <2>3. lag <= cal_age /\ lag \in Nat /\ cal_age \in Nat
        BY <2>2 DEF IInv, CalibrationBound, TypeOK
  <2> QED BY <2>2, <2>3 DEF CalibrationOver, Minus
<1> QED BY <1>1, <1>2, Inductive, PTL DEF Spec, CalibrationBounded

\* The kickstart's boost outlives its duration by less than a control gap.
THEOREM KickstartEnds == Spec => []KickEnds
<1>1. IInv => KickEnds
      BY ControlGap, TimingAssumption, Durations DEF IInv, KickBound, KickEnds,
         TypeOK
<1> QED BY <1>1, Inductive, PTL

\* No velocity command reaches the targets of a calibrating robot.
THEOREM CalibrationKeepsTargets == Spec => []CalibrationOwnsTargets
<1>1. IInv => CalibrationOwnsTargets
      BY DEF IInv, CalibrationBound, CalibrationOwnsTargets
<1> QED BY <1>1, Inductive, PTL

-----------------------------------------------------------------------------
(* The loop implements the dead-man switch.                                *)

\* At rest the abstract wish is 0; in motion its age is the command's.
LEMMA SwitchStep == IInv /\ [Next]_vars => [Switch!Next]_(Switch!vars)
<1> SUFFICES ASSUME IInv, [Next]_vars
             PROVE  [Switch!Next]_(Switch!vars)
    OBVIOUS
<1> USE TimingAssumption, WidthAssumption
<1>1. cmd_age \in Nat /\ lag \in Nat
      BY DEF IInv, TypeOK
<1>2. \* motion goes on with the wish unchanged, older by one, or renewed
      ASSUME drive # "off", drive' # "off",
             \/ cmd_age' \in 0 .. cmd_age
             \/ cmd_age < StopLimit /\ cmd_age' = cmd_age + 1
      PROVE  Switch!Next
      BY <1>2 DEF Switch!Next, Switch!Wait, Switch!Renew
<1>3. ASSUME drive = "off", drive' = "off"
      PROVE  UNCHANGED Switch!vars
      BY <1>3 DEF Switch!vars
<1>4. ASSUME drive # "off", drive' = "off"
      PROVE  Switch!Next
      BY <1>4 DEF Switch!Next, Switch!Stop
<1>5. ASSUME drive = "off", drive' # "off", cmd_age' \in 0 .. CMD_TIMEOUT_MS
      PROVE  Switch!Next
      BY <1>5 DEF Switch!Next, Switch!Start
<1>6. CASE Tick
  <2>1. drive' = drive
        BY <1>6 DEF Tick
  <2>2. drive # "off" => cmd_age' = cmd_age + 1 /\ cmd_age + 1 <= StopLimit
        BY <1>6, TickAges
  <2>3. drive # "off" => cmd_age < StopLimit
        BY <1>1, <2>2, Durations DEF StopLimit
  <2> QED BY <1>2, <1>3, <2>1, <2>2, <2>3
<1>7. CASE RunControlStep
  <2>1. cmd_age' = cmd_age /\ (drive' # "off" => cmd_age <= CMD_TIMEOUT_MS)
        BY <1>1, <1>7 DEF RunControlStep, WatchedTargets, Targets
  <2> QED BY <1>1, <1>2, <1>3, <1>4, <1>5, <2>1
<1>8. CASE DestroyRosEntities
      BY <1>8, <1>3, <1>4 DEF DestroyRosEntities
<1>9. CASE UpdateMagCalibrationMode
  <2>1. drive' = drive
        BY <1>9 DEF UpdateMagCalibrationMode, driveVars
  <2>2. drive # "off" => cmd_age' \in 0 .. cmd_age
        BY <1>1, <1>9 DEF UpdateMagCalibrationMode, FinishMagCalibration, IInv,
                          CommandBound
  <2> QED BY <1>2, <1>3, <2>1, <2>2
<1>10. CASE Message
  <2>1. drive' = drive
        BY <1>10 DEF Message, CmdVelCallback, RpmCmdCallback,
                     CalibrateMagCallback, StartMagCalibration, Callback, driveVars
  <2>2. cmd_age' \in 0 .. cmd_age
        BY <1>1, <1>10 DEF Message, CmdVelCallback, RpmCmdCallback,
                     CalibrateMagCallback, StartMagCalibration, AcceptCommand, FinishMagCalibration
  <2> QED BY <1>2, <1>3, <2>1, <2>2
<1>11. CASE UNCHANGED <<drive, cmd_age>>
      BY <1>11 DEF Switch!vars
<1>12. UNCHANGED <<drive, cmd_age>>
       \/ Tick \/ RunControlStep \/ DestroyRosEntities
       \/ UpdateMagCalibrationMode \/ Message
      BY DEF Next, LoopStep, vars, driveVars, AgentLinkChanges, BeginPass,
             CheckAgent, PingAgent, CreateRosEntities, SkipControlStep, EndPass
<1> QED BY <1>6, <1>7, <1>8, <1>9, <1>10, <1>11, <1>12

\* Every behaviour of the loop is one of the dead-man switch.
THEOREM LoopIsDeadManSwitch == Spec => DeadManSwitch
<1>1. Init => Switch!Init
      BY DEF Init, Switch!Init
<1> QED BY <1>1, SwitchStep, Inductive, PTL DEF Spec, DeadManSwitch, Switch!Spec

=============================================================================
