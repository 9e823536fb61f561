---------------------------- MODULE MotorOutput ----------------------------
(***************************************************************************)
(* One motor, from its target to the two channels of its H-bridge: the PID *)
(* controller (firmware/src/pid.cpp) with the state it keeps over stops,   *)
(* the kickstart of the control step (odometry.cpp:101-117) and            *)
(* applyMotorCommand (motors.cpp), which writes the right channel first.   *)
(*                                                                         *)
(* Units.  Time in control periods, speeds in rpm, gains in 1/SCALE of a   *)
(* PWM step, so that an output is an integer after static_cast<int>.  The  *)
(* defaults are 1.0, 0.01, 1.0 and 1.5 PWM steps for the error, its sum,   *)
(* its slope and the setpoint.                                             *)
(***************************************************************************)
EXTENDS Integers

CONSTANTS
  Rpms,               \* the targets and measured speeds, rpm
  KP, KI, KD, FF, SCALE,
  INTEGRAL_MAX,       \* 300.0f rpm seconds, in rpm periods
  PWM_MAX, PWM_DEADBAND, MIN_PWM_START,
  KICKSTART,          \* KICKSTART_DURATION_MS in control periods
  MaxDt               \* bound: control periods between two control steps

ASSUME MotorAssumption ==
  /\ Rpms \subseteq Int /\ 0 \in Rpms
  /\ KP \in Nat /\ KI \in Nat /\ KD \in Nat /\ FF \in Nat
  /\ SCALE \in Nat \ {0}
  /\ INTEGRAL_MAX \in Nat
  /\ PWM_MAX \in Nat \ {0}
  /\ PWM_DEADBAND \in 0 .. PWM_MAX
  /\ MIN_PWM_START \in 1 .. PWM_MAX
  /\ KICKSTART \in Nat \ {0}
  /\ MaxDt \in Nat \ {0}

VARIABLES
  motor,       \* 1 or 2; M1_MOTOR_DIR_INVERTED and not M2_MOTOR_DIR_INVERTED
  target,      \* g_m1_target_rpm
  measured,    \* g_m1_measured_rpm
  integral,    \* integral_
  prev,        \* prev_measurement_
  first_run,   \* first_run_
  cmd_active,  \* prev_cmd_active
  kick_age,    \* age of kickstart_ms, 0 without a command, capped at KICKSTART
  right,       \* duty of the channel PWM_M1_R_CH
  left,        \* duty of the channel PWM_M1_L_CH
  pending,     \* what is to be written to the left channel next, or Written
  seen         \* history: directions of the errors and speeds that the
               \* controller has been given since its last reset

pidVars    == <<integral, prev, first_run, seen>>
kickVars   == <<cmd_active, kick_age>>
bridgeVars == <<right, left, pending>>
vars == <<motor, target, measured, pidVars, kickVars, bridgeVars>>

Written == -1

Abs(x)      == IF x >= 0 THEN x ELSE -x

\* constrain(x, -n, n).  Variant: its lower bound is forgotten.
ClampAbove(x, n) == IF x > n THEN n ELSE x
Clamp(x, n)      == IF x > n THEN n ELSE IF x < -n THEN -n ELSE x

\* static_cast<int>(a / b), b > 0.
Truncated(a, b) == IF a >= 0 THEN a \div b ELSE -((-a) \div b)

Directions(x) == IF x > 0 THEN {"forward"} ELSE IF x < 0 THEN {"backward"} ELSE {}

Init ==
  /\ motor \in {1, 2}
  /\ target = 0
  /\ measured = 0
  /\ integral = 0
  /\ prev = 0
  /\ first_run = TRUE
  /\ cmd_active = FALSE
  /\ kick_age = 0
  /\ right = 0
  /\ left = 0
  /\ pending = Written
  /\ seen = {}

-----------------------------------------------------------------------------
(* What happens between two control steps.                                 *)

SetTarget(rpm) ==
  /\ pending = Written
  /\ target' = rpm
  /\ UNCHANGED <<motor, measured, pidVars, kickVars, bridgeVars>>

\* The wheel's speed as the next control step measures it.
Measure(rpm) ==
  /\ pending = Written
  /\ measured' = rpm
  /\ UNCHANGED <<motor, target, pidVars, kickVars, bridgeVars>>

\* PidController::Reset.  Variant: the integral is kept.
ResetButIntegral ==
  /\ prev' = 0
  /\ first_run' = TRUE
  /\ seen' = {}
  /\ UNCHANGED integral
Reset ==
  /\ integral' = 0
  /\ prev' = 0
  /\ first_run' = TRUE
  /\ seen' = {}

\* pidConfigCallback, with gains that stay as they are.
ConfigurePid ==
  /\ pending = Written
  /\ Reset
  /\ UNCHANGED <<motor, target, measured, kickVars, bridgeVars>>

\* The disconnect: prev_cmd_active is out of its reach.  stopMotors writes
\* two zeros, and no channel is on in between that was not on before.
Disconnect ==
  /\ pending = Written
  /\ target' = 0
  /\ Reset
  /\ right' = 0
  /\ left' = 0
  /\ UNCHANGED <<motor, measured, kickVars, pending>>

-----------------------------------------------------------------------------
(* The control step.                                                       *)

\* Both targets are a stop, or the watchdog has made them one: the controller
\* keeps its state.  A target is 0 or clear of ZERO_CMD_RPM_EPS.
StopStep ==
  /\ pending = Written
  /\ target = 0
  /\ cmd_active' = FALSE
  /\ kick_age' = 0
  /\ right' = 0
  /\ left' = 0
  /\ UNCHANGED <<motor, target, measured, pidVars, pending>>

Error == target - measured

\* integral_ after this Update.  Variant: it winds up, but never down.
IntegralKept(dt) ==
  IF integral * Error < 0 THEN integral
  ELSE Clamp(integral + Error * dt, INTEGRAL_MAX)
Integral(dt) == Clamp(integral + Error * dt, INTEGRAL_MAX)

MeasurementChange == IF first_run THEN 0 ELSE measured - prev

\* PidController::Update over dt periods.  Variant: no feed-forward.
OutputWithoutFF(dt) ==
  Clamp(Truncated((KP * Error + KI * Integral(dt)) * dt - KD * MeasurementChange,
                  SCALE * dt), PWM_MAX)
Output(dt) ==
  Clamp(Truncated((KP * Error + KI * Integral(dt) + FF * target) * dt
                    - KD * MeasurementChange, SCALE * dt), PWM_MAX)

KickAge(dt) == IF ~cmd_active THEN 0
               ELSE IF kick_age + dt > KICKSTART THEN KICKSTART ELSE kick_age + dt

\* The boost to MIN_PWM_START, in the output's own direction.
Pwm(dt) ==
  IF KickAge(dt) < KICKSTART /\ Abs(Output(dt)) < MIN_PWM_START
    THEN IF Output(dt) >= 0 THEN MIN_PWM_START ELSE -MIN_PWM_START
    ELSE Output(dt)

\* applyMotorCommand: what the bridge is to do, positive for the right channel.
Bridge(dt) ==
  LET pwm == IF Abs(Pwm(dt)) < PWM_DEADBAND THEN 0 ELSE Pwm(dt)
  IN  IF motor = 1 THEN -pwm ELSE pwm

\* At least one of the two targets is no stop; this one may be.
DriveStep(dt) ==
  /\ pending = Written
  /\ integral' = Integral(dt)
  /\ prev' = measured
  /\ first_run' = FALSE
  /\ seen' = seen \cup Directions(Error) \cup Directions(measured)
  /\ cmd_active' = TRUE
  /\ kick_age' = KickAge(dt)
  /\ right' = IF Bridge(dt) >= 0 THEN Bridge(dt) ELSE 0
  /\ pending' = IF Bridge(dt) >= 0 THEN 0 ELSE -Bridge(dt)
  /\ UNCHANGED <<motor, target, measured, left>>

\* The second ledcWrite.  Variant: only a nonzero duty is written.
WrittenIfOn == IF pending = 0 THEN left ELSE pending
LeftDuty    == pending

WriteLeft ==
  /\ pending # Written
  /\ left' = LeftDuty
  /\ pending' = Written
  /\ UNCHANGED <<motor, target, measured, pidVars, kickVars, right>>

ControlStep ==
  \/ StopStep
  \/ \E dt \in 1 .. MaxDt : DriveStep(dt)
  \/ WriteLeft

Next ==
  \/ \E rpm \in Rpms : SetTarget(rpm)
  \/ \E rpm \in Rpms : Measure(rpm)
  \/ ConfigurePid
  \/ Disconnect
  \/ ControlStep

Spec == Init /\ [][Next]_vars

\* Control steps are made for ever.
FairSpec == Spec /\ WF_vars(ControlStep)

-----------------------------------------------------------------------------

\* Every variable holds a value of its kind; duties fit their channels.
TypeOK ==
  /\ motor \in {1, 2}
  /\ target \in Rpms
  /\ measured \in Rpms
  /\ integral \in (-INTEGRAL_MAX) .. INTEGRAL_MAX
  /\ prev \in Rpms
  /\ first_run \in BOOLEAN
  /\ cmd_active \in BOOLEAN
  /\ kick_age \in 0 .. KICKSTART
  /\ right \in 0 .. PWM_MAX
  /\ left \in 0 .. PWM_MAX
  /\ pending \in 0 .. PWM_MAX \cup {Written}
  /\ seen \subseteq {"forward", "backward"}

\* Between control steps at most one channel of the bridge is on; both are
\* on only in the moment between the two writes of a reversal.
OneChannelOn == pending = Written => right = 0 \/ left = 0

\* A command the feed-forward can enforce against the slope term alone.
Strong(rpm) == rpm * (FF - KD) >= SCALE

\* The only thing that pushes a wheel against its command is what the
\* controller remembers: unless, since the last reset, it was given an error
\* or a speed in the other direction, the PWM has the command's sign, on
\* every change of command, over stops, and when the wheel catches up fast.
NeverPushedBack ==
  [][\A dt \in 1 .. MaxDt : DriveStep(dt) =>
       /\ Strong(target)  => "backward" \in seen' \/ Pwm(dt) > 0
       /\ Strong(-target) => "forward" \in seen' \/ Pwm(dt) < 0]_vars

\* What the bridge does, positive when the wheel is pushed forward.
Push == IF motor = 1 THEN left - right ELSE right - left

\* A wheel that does not move the way it should is in the end pushed that
\* way for good: neither an integral of an earlier command, nor a boost of
\* the wrong sign, nor the dead band keeps a command from being obeyed.
StuckWheelPushed ==
  /\ (<>[](target > 0 /\ measured <= 0) /\ <>[][~ConfigurePid /\ ~Disconnect]_vars)
        => <>[](Push > 0)
  /\ (<>[](target < 0 /\ measured >= 0) /\ <>[][~ConfigurePid /\ ~Disconnect]_vars)
        => <>[](Push < 0)

=============================================================================
