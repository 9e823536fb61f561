-------------------------- MODULE DriveKinematics --------------------------
(***************************************************************************)
(* From a velocity command to the wheels and back: setTargetsFromCmdVel    *)
(* (firmware/src/motors.cpp) makes two wheel targets of a command, the     *)
(* control step (firmware/src/odometry.cpp) decides whether they are a     *)
(* stop and turns the measured wheel speeds into the odometry's twist.     *)
(*                                                                         *)
(* Units.  Every speed is the wheel speed it causes: a linear speed v is   *)
(* the rpm of a wheel rolling at v, a turn rate w the rpm of a wheel       *)
(* rolling at w * WHEEL_BASE_M / 2.  Positive turns are to the left (ROS). *)
(***************************************************************************)
EXTENDS Integers

CONSTANTS
  ZERO_CMD_RPM_EPS,    \* a wheel target up to this is a stop
  ZERO_CMD_MPS_EPS,    \* a linear speed below this is 0
  ZERO_CMD_RADPS_EPS,  \* a turn rate below this is 0
  MaxSpeed             \* bound: commands are -MaxSpeed .. MaxSpeed

\* 0.8 rpm, and 0.01 m/s = 1.56 rpm, 0.05 rad/s = 1.10 rpm on these wheels.
ASSUME EpsAssumption ==
  /\ ZERO_CMD_RPM_EPS \in Nat
  /\ ZERO_CMD_MPS_EPS \in Nat /\ ZERO_CMD_MPS_EPS > ZERO_CMD_RPM_EPS
  /\ ZERO_CMD_RADPS_EPS \in Nat /\ ZERO_CMD_RADPS_EPS > ZERO_CMD_RPM_EPS
  /\ MaxSpeed \in Nat

VARIABLES
  wish,     \* history: the last command, after its dead zones; none once
            \* the watchdog has given it up
  targets,  \* g_m1_target_rpm, g_m2_target_rpm
  wheels,   \* g_m1_measured_rpm, g_m2_measured_rpm
  odom      \* g_odom.linear_mps, g_odom.angular_radps

driveVars == <<wish, targets, wheels, odom>>

Magnitude(x) == IF x >= 0 THEN x ELSE -x

Speeds == (-MaxSpeed) .. MaxSpeed
Still  == [linear |-> 0, turn |-> 0]
Parked == [m1 |-> 0, m2 |-> 0]

DriveInit ==
  /\ wish = Still
  /\ targets = Parked
  /\ wheels = Parked
  /\ odom = Still

\* A speed below its dead zone is 0.
Deadened(speed, eps) == IF Magnitude(speed) < eps THEN 0 ELSE speed

\* m1 is the left wheel, m2 the right one.  Variant: one wheel turns alone.
PivotTargets(linear, turn) == [m1 |-> linear, m2 |-> linear + 2 * turn]
WheelTargets(linear, turn) == [m1 |-> linear - turn, m2 |-> linear + turn]

CmdVel(linear, turn) ==
  LET v == Deadened(linear, ZERO_CMD_MPS_EPS)
      w == Deadened(turn, ZERO_CMD_RADPS_EPS)
  IN  /\ wish' = [linear |-> v, turn |-> w]
      /\ targets' = WheelTargets(v, w)
      /\ UNCHANGED <<wheels, odom>>

\* Variant: one slow wheel is enough for a stop.
StopIfEither(t) == Magnitude(t.m1) <= ZERO_CMD_RPM_EPS \/ Magnitude(t.m2) <= ZERO_CMD_RPM_EPS
StopRequested(t) == Magnitude(t.m1) <= ZERO_CMD_RPM_EPS /\ Magnitude(t.m2) <= ZERO_CMD_RPM_EPS

\* The odometry's twist of two wheel speeds (twice each, to stay integer).
Twist(m) == [linear |-> m.m1 + m.m2, turn |-> m.m1 - m.m2]

\* The watchdog may find the command too old in any step: when it does is
\* ControlLoop's subject.
RunControlStep(timed_out) ==
  /\ odom' = Twist(wheels)
  /\ wish' = IF timed_out THEN Still ELSE wish
  /\ targets' = IF timed_out \/ StopRequested(targets) THEN Parked ELSE targets
  /\ UNCHANGED wheels

\* The speed controllers have brought both wheels to their targets.
WheelsFollow ==
  /\ wheels' = targets
  /\ UNCHANGED <<wish, targets, odom>>

DriveNext ==
  \/ \E linear \in Speeds, turn \in Speeds : CmdVel(linear, turn)
  \/ \E timed_out \in BOOLEAN : RunControlStep(timed_out)
  \/ WheelsFollow

DriveSpec == DriveInit /\ [][DriveNext]_driveVars

-----------------------------------------------------------------------------

\* Every speed is an integer, and the wish is clear of its dead zones.
DriveTypeOK ==
  /\ wish \in [linear : Speeds, turn : Speeds]
  /\ wish.linear = 0 \/ Magnitude(wish.linear) >= ZERO_CMD_MPS_EPS
  /\ wish.turn = 0 \/ Magnitude(wish.turn) >= ZERO_CMD_RADPS_EPS
  /\ targets \in [m1 : Int, m2 : Int]
  /\ wheels \in [m1 : Int, m2 : Int]
  /\ odom \in [linear : Int, turn : Int]

\* The three dead zones agree: a command that survives its own is never
\* taken for a stop by the control step, however its two parts cancel on
\* one of the wheels, and no other command moves the robot, nor does one that
\* the watchdog has given up.
CommandMoves == targets = WheelTargets(wish.linear, wish.turn)

\* Wheels at their targets, and an odometry that has seen them.
Settled == wheels = targets /\ odom = Twist(wheels)

\* Once the wheels follow a command, the odometry reports its linear speed.
LinearFollowsCommand == Settled => odom.linear = 2 * wish.linear

\* ekf.yaml:26 "wheel odometry gives accurate angular velocity": once the
\* wheels follow a command, the odometry turns the way the command says.
TurnFollowsCommand == Settled => odom.turn * wish.turn >= 0

=============================================================================
