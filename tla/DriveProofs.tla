---------------------------- MODULE DriveProofs ----------------------------
(***************************************************************************)
(* From a velocity command to the wheels' targets, and from a target to    *)
(* the bridge.                                                             *)
(*                                                                         *)
(* Kinematics: the dead zones of command and control step agree for every  *)
(* choice of them in which a wheel's is the smallest, and for every        *)
(* command.                                                                *)
(*                                                                         *)
(* One motor, for every choice of gains and limits.  The argument for      *)
(* NeverPushedBack: what the controller remembers, the integral and the    *)
(* last measurement, has only the signs it has seen since its last reset   *)
(* (MemorySeen); without memory of the other direction, the slope term is  *)
(* at most KD * target and the feed-forward outweighs it.                  *)
(***************************************************************************)
EXTENDS DriveKinematics, MotorOutput, TLAPS

TargetsInv == DriveTypeOK /\ CommandMoves

\* A command that has passed its dead zone is a stop only if it is still.
LEMMA StopIsStill ==
  ASSUME TargetsInv, StopRequested(targets)
  PROVE  wish.linear = 0 /\ wish.turn = 0
<1> DEFINE v == wish.linear
           w == wish.turn
<1>1. v \in Int /\ w \in Int
      BY EpsAssumption DEF TargetsInv, DriveTypeOK, Speeds
<1>2. targets.m1 = v - w /\ targets.m2 = v + w
      BY DEF TargetsInv, CommandMoves, WheelTargets
<1>3. Magnitude(v - w) <= ZERO_CMD_RPM_EPS /\ Magnitude(v + w) <= ZERO_CMD_RPM_EPS
      BY <1>2 DEF StopRequested
<1>4. /\ v = 0 \/ Magnitude(v) >= ZERO_CMD_MPS_EPS
      /\ w = 0 \/ Magnitude(w) >= ZERO_CMD_RADPS_EPS
      BY DEF TargetsInv, DriveTypeOK
<1> HIDE DEF v, w
<1>5. v = 0 /\ w = 0
      BY <1>1, <1>3, <1>4, EpsAssumption DEF Magnitude
<1> QED BY <1>5 DEF v, w

\* A command is dead-zoned and turned into its targets in one step.
LEMMA CommandInvariant ==
  ASSUME TargetsInv, NEW linear \in Speeds, NEW turn \in Speeds, CmdVel(linear, turn)
  PROVE  TargetsInv'
<1> DEFINE v == Deadened(linear, ZERO_CMD_MPS_EPS)
           w == Deadened(turn, ZERO_CMD_RADPS_EPS)
<1>1. /\ wish' = [linear |-> v, turn |-> w]
      /\ targets' = WheelTargets(v, w)
      /\ UNCHANGED <<wheels, odom>>
      BY DEF CmdVel
<1>2. /\ v \in Speeds /\ (v = 0 \/ Magnitude(v) >= ZERO_CMD_MPS_EPS)
      /\ w \in Speeds /\ (w = 0 \/ Magnitude(w) >= ZERO_CMD_RADPS_EPS)
      BY EpsAssumption DEF Deadened, Magnitude, Speeds
<1>3. v \in Int /\ w \in Int
      BY <1>2 DEF Speeds
<1> HIDE DEF v, w
<1> QED BY <1>1, <1>2, <1>3 DEF TargetsInv, DriveTypeOK, CommandMoves, WheelTargets

\* A stop, of a dead zone or of the watchdog, leaves the still command's targets.
LEMMA ControlInvariant ==
  ASSUME TargetsInv, NEW timed_out \in BOOLEAN, RunControlStep(timed_out)
  PROVE  TargetsInv'
<1>1. odom' \in [linear : Int, turn : Int] /\ UNCHANGED wheels
      BY DEF RunControlStep, Twist, TargetsInv, DriveTypeOK
<1>2. CASE timed_out
  <2>1. wish' = Still /\ targets' = Parked
        BY <1>2 DEF RunControlStep
  <2>2. Still \in [linear : Speeds, turn : Speeds] /\ Parked \in [m1 : Int, m2 : Int]
        BY EpsAssumption DEF Still, Parked, Speeds
  <2>3. Parked = WheelTargets(Still.linear, Still.turn)
        BY DEF Parked, Still, WheelTargets
  <2> QED BY <1>1, <2>1, <2>2, <2>3 DEF TargetsInv, DriveTypeOK, CommandMoves, Still
<1>3. CASE ~timed_out
  <2>1. wish' = wish
        BY <1>3 DEF RunControlStep
  <2>2. targets' = targets
        BY <1>3, StopIsStill
           DEF RunControlStep, Parked, TargetsInv, CommandMoves, WheelTargets
  <2> QED BY <1>1, <2>1, <2>2 DEF TargetsInv, DriveTypeOK, CommandMoves
<1> QED BY <1>2, <1>3

\* Every behaviour keeps the targets of the last command.
LEMMA TargetsInductive == DriveSpec => []TargetsInv
<1>1. DriveInit => TargetsInv
      BY EpsAssumption DEF DriveInit, TargetsInv, DriveTypeOK, CommandMoves, WheelTargets,
                           Still, Parked, Speeds
<1>2. TargetsInv /\ [DriveNext]_driveVars => TargetsInv'
  <2> SUFFICES ASSUME TargetsInv, [DriveNext]_driveVars PROVE TargetsInv'
      OBVIOUS
  <2>1. CASE WheelsFollow
        BY <2>1 DEF WheelsFollow, TargetsInv, DriveTypeOK, CommandMoves
  <2>2. CASE UNCHANGED driveVars
        BY <2>2 DEF driveVars, TargetsInv, DriveTypeOK, CommandMoves
  <2> QED BY <2>1, <2>2, CommandInvariant, ControlInvariant DEF DriveNext
<1> QED BY <1>1, <1>2, PTL DEF DriveSpec

\* No command is swallowed by a dead zone that is not its own.
THEOREM CommandsMove == DriveSpec => []CommandMoves
BY TargetsInductive, PTL DEF TargetsInv

\* The odometry's linear speed is the commanded one, for every command.
THEOREM OdometryFollowsLinear == DriveSpec => []LinearFollowsCommand
<1>1. TargetsInv => LinearFollowsCommand
  <2> SUFFICES ASSUME TargetsInv, Settled PROVE odom.linear = 2 * wish.linear
      BY DEF LinearFollowsCommand
  <2>1. wish.linear \in Int /\ wish.turn \in Int
        BY EpsAssumption DEF TargetsInv, DriveTypeOK, Speeds
  <2>2. odom.linear = (wish.linear - wish.turn) + (wish.linear + wish.turn)
        BY DEF Settled, Twist, TargetsInv, CommandMoves, WheelTargets
  <2> QED BY <2>1, <2>2
<1> QED BY <1>1, TargetsInductive, PTL


-----------------------------------------------------------------------------
(* One motor.                                                                *)

MemorySeen ==
  /\ "backward" \notin seen => integral >= 0 /\ prev >= 0
  /\ "forward" \notin seen => integral <= 0 /\ prev <= 0

\* What the second write completes is a bridge with one channel on.
OneChannelNext == pending # Written => right = 0 \/ pending = 0

IInv == TypeOK /\ MemorySeen /\ OneChannelOn /\ OneChannelNext

-----------------------------------------------------------------------------

\* Products keep their order.
LEMMA Products ==
  ASSUME NEW a \in Int, NEW b \in Int, NEW c \in Nat, a <= b
  PROVE  a * c <= b * c /\ a * c \in Int /\ b * c \in Int
<1>1. (b - a) * c >= 0
      BY Z3
<1>2. (b - a) * c = b * c - a * c
      BY Z3
<1> QED BY <1>1, <1>2

\* A number that is not negative grows when it is multiplied.
LEMMA Scaled ==
  ASSUME NEW a \in Int, NEW c \in Nat \ {0}, a >= 0
  PROVE  a <= a * c /\ a * c \in Int
<1>1. 1 * a <= c * a
      BY Products
<1> QED BY <1>1, Z3

\* A quotient of at least 1 stays so when it is truncated.
LEMMA TruncatedSign ==
  ASSUME NEW a \in Int, NEW b \in Nat \ {0}
  PROVE  /\ Truncated(a, b) \in Int
         /\ a >= b => Truncated(a, b) >= 1
         /\ a <= -b => Truncated(a, b) <= -1
<1>1. ASSUME NEW n \in Int, n >= b PROVE n \div b >= 1
      BY <1>1, Z3
<1>2. a \div b \in Int /\ (-a) \div b \in Int
      BY Z3
<1>3. a >= b => Truncated(a, b) >= 1
      BY <1>1 DEF Truncated
<1>4. a <= -b => Truncated(a, b) <= -1
  <2> SUFFICES ASSUME a <= -b PROVE Truncated(a, b) <= -1
      OBVIOUS
  <2>1. (-a) \div b >= 1
        BY <1>1
  <2> QED BY <2>1, <1>2 DEF Truncated
<1> QED BY <1>2, <1>3, <1>4 DEF Truncated

\* A clamped value is within its limits and keeps its sign.
LEMMA ClampFacts ==
  ASSUME NEW x \in Int, NEW n \in Nat
  PROVE  /\ Clamp(x, n) \in (-n) .. n
         /\ x >= 0 => Clamp(x, n) >= 0
         /\ x <= 0 => Clamp(x, n) <= 0
         /\ (x >= 1 /\ n >= 1) => Clamp(x, n) >= 1
         /\ (x <= -1 /\ n >= 1) => Clamp(x, n) <= -1
BY DEF Clamp

\* The controller's intermediate values are integers.
LEMMA ControllerTypes ==
  ASSUME TypeOK, NEW dt \in 1 .. MaxDt
  PROVE  /\ dt \in Nat \ {0}
         /\ target \in Int /\ measured \in Int /\ prev \in Int
         /\ integral \in Int
         /\ Error \in Int
         /\ MeasurementChange \in Int
         /\ Error * dt \in Int
         /\ Integral(dt) \in (-INTEGRAL_MAX) .. INTEGRAL_MAX
         /\ Integral(dt) \in Int
<1> USE MotorAssumption
<1>1. /\ dt \in Nat \ {0} /\ target \in Int /\ measured \in Int /\ prev \in Int
      /\ integral \in Int
      BY DEF TypeOK
<1>2. Error \in Int /\ MeasurementChange \in Int
      BY <1>1 DEF Error, MeasurementChange
<1>3. Error * dt \in Int
      BY <1>1, <1>2
<1>4. integral + Error * dt \in Int
      BY <1>1, <1>3
<1>5. Integral(dt) \in (-INTEGRAL_MAX) .. INTEGRAL_MAX
      BY <1>4, ClampFacts DEF Integral
<1> QED BY <1>1, <1>2, <1>3, <1>5

Numerator(dt) ==
  (KP * Error + KI * Integral(dt) + FF * target) * dt - KD * MeasurementChange

\* The output, its boosted form and the bridge's duties fit their ranges.
LEMMA PwmTypes ==
  ASSUME TypeOK, NEW dt \in 1 .. MaxDt
  PROVE  /\ Numerator(dt) \in Int
         /\ SCALE * dt \in Nat \ {0}
         /\ Output(dt) \in (-PWM_MAX) .. PWM_MAX
         /\ Pwm(dt) \in (-PWM_MAX) .. PWM_MAX
         /\ Bridge(dt) \in (-PWM_MAX) .. PWM_MAX
<1> USE MotorAssumption
<1>1. KP * Error \in Int /\ KI * Integral(dt) \in Int /\ FF * target \in Int
      BY ControllerTypes
<1>2. (KP * Error + KI * Integral(dt) + FF * target) * dt \in Int
      BY <1>1, ControllerTypes
<1>3. Numerator(dt) \in Int
      BY <1>2, ControllerTypes DEF Numerator
<1>4. SCALE * dt \in Nat \ {0}
  <2>1. dt \in Int /\ 1 <= dt /\ SCALE \in Nat \ {0}
        BY ControllerTypes
  <2>2. 1 * SCALE <= dt * SCALE /\ dt * SCALE \in Int
        BY <2>1, Products
  <2> QED BY <2>1, <2>2
<1>5. Output(dt) = Clamp(Truncated(Numerator(dt), SCALE * dt), PWM_MAX)
      BY DEF Output, Numerator
<1>6. Output(dt) \in (-PWM_MAX) .. PWM_MAX
      BY <1>3, <1>4, <1>5, TruncatedSign, ClampFacts
<1>7. Pwm(dt) \in (-PWM_MAX) .. PWM_MAX
      BY <1>6 DEF Pwm
<1>8. Bridge(dt) \in (-PWM_MAX) .. PWM_MAX
      BY <1>7 DEF Bridge
<1> QED BY <1>3, <1>4, <1>6, <1>7, <1>8

-----------------------------------------------------------------------------

\* A slope up to a strong target is outweighed by the feed-forward, whatever
\* error and integral add.
LEMMA Outweighed ==
  ASSUME NEW m \in Nat, NEW t \in Nat, NEW change \in Int, NEW n \in Nat \ {0},
         change <= t, Strong(t)
  PROVE  (m + FF * t) * n - KD * change >= SCALE * n
<1> USE MotorAssumption
<1>1. /\ KD * change <= KD * t /\ KD * change \in Int
      /\ KD * t \in Int /\ 0 <= KD * t
      BY Products
<1>2. KD * t <= (KD * t) * n /\ (KD * t) * n \in Int
      BY <1>1, Scaled
<1>3. FF * t \in Int /\ SCALE <= FF * t - KD * t
      BY Products, Z3 DEF Strong
<1>4. /\ SCALE + KD * t \in Int /\ m + FF * t \in Int
      /\ SCALE + KD * t <= m + FF * t
      BY <1>1, <1>3
<1>5. (SCALE + KD * t) * n <= (m + FF * t) * n /\ (m + FF * t) * n \in Int
      BY <1>4, Products
<1>6. (SCALE + KD * t) * n = SCALE * n + (KD * t) * n /\ SCALE * n \in Int
      BY <1>1, Z3
<1> QED BY <1>1, <1>2, <1>5, <1>6

\* An error of the integral's sign leaves that sign.
LEMMA IntegralSign ==
  ASSUME TypeOK, NEW dt \in 1 .. MaxDt
  PROVE  /\ Error >= 0 /\ integral >= 0 => Integral(dt) >= 0
         /\ Error <= 0 /\ integral <= 0 => Integral(dt) <= 0
<1> USE MotorAssumption
<1>1. Error >= 0 => Error * dt >= 0
      BY ControllerTypes, Products
<1>2. Error <= 0 => Error * dt <= 0
      BY ControllerTypes, Products
<1> DEFINE sum == integral + Error * dt
<1>3. /\ sum \in Int
      /\ Error >= 0 /\ integral >= 0 => sum >= 0
      /\ Error <= 0 /\ integral <= 0 => sum <= 0
      BY <1>1, <1>2, ControllerTypes
<1>4. Integral(dt) = Clamp(sum, INTEGRAL_MAX)
      BY DEF Integral
<1> HIDE DEF sum
<1>5. /\ sum >= 0 => Clamp(sum, INTEGRAL_MAX) >= 0
      /\ sum <= 0 => Clamp(sum, INTEGRAL_MAX) <= 0
      BY <1>3, ClampFacts
<1> QED BY <1>3, <1>4, <1>5

\* Nothing backward in sight or in memory: a strong target is enforced.
LEMMA ForwardOutput ==
  ASSUME TypeOK, NEW dt \in 1 .. MaxDt, Strong(target),
         Error >= 0, measured >= 0, integral >= 0, prev >= 0
  PROVE  Numerator(dt) >= SCALE * dt
<1> USE MotorAssumption
<1> DEFINE m == KP * Error + KI * Integral(dt)
<1>1. target \in Nat /\ MeasurementChange \in Int /\ MeasurementChange <= target
      BY ControllerTypes DEF Error, MeasurementChange
<1>2. KP * Error \in Nat /\ KI * Integral(dt) \in Nat
      BY IntegralSign, ControllerTypes, Products
<1>3. m \in Nat /\ dt \in Nat \ {0}
      BY <1>2, ControllerTypes
<1> HIDE DEF m
<1>4. (m + FF * target) * dt - KD * MeasurementChange >= SCALE * dt
      BY <1>1, <1>3, Outweighed
<1> QED BY <1>4 DEF Numerator, m

\* The same the other way round.
LEMMA BackwardOutput ==
  ASSUME TypeOK, NEW dt \in 1 .. MaxDt, Strong(-target),
         Error <= 0, measured <= 0, integral <= 0, prev <= 0
  PROVE  Numerator(dt) <= -(SCALE * dt)
<1> USE MotorAssumption
<1> DEFINE m == KP * Error + KI * Integral(dt)
<1>1. /\ -target \in Nat /\ -MeasurementChange \in Int
      /\ -MeasurementChange <= -target
      BY ControllerTypes DEF Error, MeasurementChange
<1>2. /\ KP * Error \in Int /\ KP * Error <= 0
      /\ KI * Integral(dt) \in Int /\ KI * Integral(dt) <= 0
      BY IntegralSign, ControllerTypes, Products
<1>3. -m \in Nat /\ m \in Int /\ dt \in Nat \ {0}
      BY <1>2, ControllerTypes
<1> HIDE DEF m
<1>4. (-m + FF * (-target)) * dt - KD * (-MeasurementChange) >= SCALE * dt
      BY <1>1, <1>3, Outweighed
<1>5. /\ FF * (-target) = -(FF * target) /\ FF * target \in Int
      /\ KD * (-MeasurementChange) = -(KD * MeasurementChange)
      /\ KD * MeasurementChange \in Int
      BY ControllerTypes, Z3
<1>6. (-m + -(FF * target)) * dt = -((m + FF * target) * dt)
      BY <1>3, <1>5, Z3
<1>7. (m + FF * target) * dt \in Int /\ SCALE * dt \in Int
      BY <1>3, <1>5
<1>8. (m + FF * target) * dt - KD * MeasurementChange <= -(SCALE * dt)
      BY <1>4, <1>5, <1>6, <1>7
<1> QED BY <1>8 DEF Numerator, m

\* The output's sign, and with it the boosted output's.
LEMMA PwmSign ==
  ASSUME TypeOK, NEW dt \in 1 .. MaxDt
  PROVE  /\ Numerator(dt) >= SCALE * dt => Pwm(dt) > 0
         /\ Numerator(dt) <= -(SCALE * dt) => Pwm(dt) < 0
<1> USE MotorAssumption
<1> DEFINE n == Numerator(dt)
           d == SCALE * dt
           q == Truncated(n, d)
<1>1. Output(dt) = Clamp(q, PWM_MAX)
      BY DEF Output, Numerator
<1>4. n \in Int /\ d \in Nat \ {0}
      BY PwmTypes
<1> HIDE DEF n, d
<1>5. q \in Int /\ (n >= d => q >= 1) /\ (n <= -d => q <= -1)
      BY <1>4, TruncatedSign
<1> HIDE DEF q
<1>2. n >= d => Output(dt) >= 1
      BY <1>1, <1>5, ClampFacts
<1>3. n <= -d => Output(dt) <= -1
      BY <1>1, <1>5, ClampFacts
<1> USE DEF n, d
<1> QED BY <1>2, <1>3, PwmTypes DEF Pwm

-----------------------------------------------------------------------------

\* After setup() the controller remembers nothing.
LEMMA InitHolds == Init => IInv
<1> SUFFICES ASSUME Init PROVE IInv
    OBVIOUS
<1>1. first_run \in BOOLEAN /\ cmd_active \in BOOLEAN
      BY DEF Init
<1>2. /\ motor \in {1, 2} /\ target \in Rpms /\ measured \in Rpms /\ prev \in Rpms
      /\ integral \in (-INTEGRAL_MAX) .. INTEGRAL_MAX
      /\ kick_age \in 0 .. KICKSTART
      /\ right \in 0 .. PWM_MAX /\ left \in 0 .. PWM_MAX
      /\ pending \in 0 .. PWM_MAX \cup {Written}
      /\ seen \subseteq {"forward", "backward"}
      BY MotorAssumption DEF Init
<1>3. MemorySeen /\ OneChannelOn /\ OneChannelNext
      BY DEF Init, MemorySeen, OneChannelOn, OneChannelNext
<1> QED BY <1>1, <1>2, <1>3 DEF IInv, TypeOK

\* What the controller keeps of a control step.
LEMMA DriveInvariant ==
  ASSUME IInv, NEW dt \in 1 .. MaxDt, DriveStep(dt)
  PROVE  IInv'
<1> USE MotorAssumption
<1>1. UNCHANGED <<motor, target, measured, left>>
      BY DEF DriveStep
<1>2. TypeOK'
  <2>1. integral' \in (-INTEGRAL_MAX) .. INTEGRAL_MAX
        BY ControllerTypes DEF DriveStep, IInv
  <2>2. prev' \in Rpms /\ first_run' \in BOOLEAN /\ cmd_active' \in BOOLEAN
        BY DEF DriveStep, IInv, TypeOK
  <2>3. kick_age' \in 0 .. KICKSTART
        BY ControllerTypes DEF DriveStep, KickAge, IInv, TypeOK
  <2>4. right' \in 0 .. PWM_MAX /\ pending' \in 0 .. PWM_MAX
        BY PwmTypes DEF DriveStep, IInv
  <2>5. seen' \subseteq {"forward", "backward"}
        BY DEF DriveStep, Directions, IInv, TypeOK
  <2> QED BY <1>1, <2>1, <2>2, <2>3, <2>4, <2>5 DEF IInv, TypeOK
<1>3. MemorySeen'
  <2>1. /\ "backward" \notin seen' => "backward" \notin seen
                                      /\ Error >= 0 /\ measured >= 0
        /\ "forward" \notin seen' => "forward" \notin seen
                                     /\ Error <= 0 /\ measured <= 0
        BY ControllerTypes DEF DriveStep, Directions, IInv
  <2>2. integral' = Integral(dt) /\ prev' = measured
        BY DEF DriveStep
  <2> QED BY <2>1, <2>2, IntegralSign DEF MemorySeen, IInv
<1>4. OneChannelOn' /\ OneChannelNext'
  <2>1. pending' # Written /\ (right' = 0 \/ pending' = 0)
        BY PwmTypes DEF DriveStep, Written, IInv
  <2> QED BY <2>1 DEF OneChannelOn, OneChannelNext
<1> QED BY <1>2, <1>3, <1>4 DEF IInv

\* Each other step leaves the memory alone, or clears it.
LEMMA StepInvariant == IInv /\ [Next]_vars => IInv'
<1> SUFFICES ASSUME IInv, [Next]_vars PROVE IInv'
    OBVIOUS
<1> USE MotorAssumption DEF IInv, TypeOK, MemorySeen, OneChannelOn, OneChannelNext
<1>1. ASSUME NEW rpm \in Rpms, SetTarget(rpm) PROVE IInv'
      BY <1>1 DEF SetTarget, pidVars, kickVars, bridgeVars
<1>2. ASSUME NEW rpm \in Rpms, Measure(rpm) PROVE IInv'
      BY <1>2 DEF Measure, pidVars, kickVars, bridgeVars
<1>3. CASE ConfigurePid
      BY <1>3 DEF ConfigurePid, Reset, kickVars, bridgeVars
<1>4. CASE Disconnect
      BY <1>4 DEF Disconnect, Reset, kickVars
<1>5. CASE StopStep
  <2>1. cmd_active' \in BOOLEAN /\ first_run' = first_run
        BY <1>5 DEF StopStep, pidVars
  <2>2. /\ kick_age' = 0 /\ right' = 0 /\ left' = 0
        /\ UNCHANGED <<motor, target, measured, integral, prev, seen, pending>>
        BY <1>5 DEF StopStep, pidVars
  <2> QED BY <2>1, <2>2
<1>6. CASE WriteLeft
      BY <1>6 DEF WriteLeft, LeftDuty, pidVars, kickVars, Written
<1>7. CASE UNCHANGED vars
      BY <1>7 DEF vars, pidVars, kickVars, bridgeVars
<1> QED BY <1>1, <1>2, <1>3, <1>4, <1>5, <1>6, <1>7, DriveInvariant
        DEF Next, ControlStep

\* The invariant holds in every reachable state.
LEMMA Inductive == Spec => []IInv
BY InitHolds, StepInvariant, PTL DEF Spec

\* Duties fit their channels and the integral its limit, for all gains.
THEOREM TypeCorrect == Spec => []TypeOK
<1>1. IInv => TypeOK
      BY DEF IInv
<1> QED BY <1>1, Inductive, PTL

\* No reversal leaves both channels of a bridge on.
THEOREM BridgeIsSafe == Spec => []OneChannelOn
<1>1. IInv => OneChannelOn
      BY DEF IInv
<1> QED BY <1>1, Inductive, PTL

\* For all gains, a strong command is only ever worked against by what the
\* controller remembers of the other direction.
THEOREM PushesAlongCommand == Spec => NeverPushedBack
<1> DEFINE Along(dt) ==
      /\ Strong(target)  => "backward" \in seen' \/ Pwm(dt) > 0
      /\ Strong(-target) => "forward" \in seen' \/ Pwm(dt) < 0
<1>1. ASSUME IInv, NEW dt \in 1 .. MaxDt, DriveStep(dt) PROVE Along(dt)
  <2>1. ASSUME Strong(target), "backward" \notin seen' PROVE Pwm(dt) > 0
    <3>1. Error >= 0 /\ measured >= 0 /\ integral >= 0 /\ prev >= 0
          BY <1>1, <2>1, ControllerTypes
          DEF DriveStep, Directions, IInv, MemorySeen
    <3> QED BY <1>1, <2>1, <3>1, ForwardOutput, PwmSign DEF IInv
  <2>2. ASSUME Strong(-target), "forward" \notin seen' PROVE Pwm(dt) < 0
    <3>1. Error <= 0 /\ measured <= 0 /\ integral <= 0 /\ prev <= 0
          BY <1>1, <2>2, ControllerTypes
          DEF DriveStep, Directions, IInv, MemorySeen
    <3> QED BY <1>1, <2>2, <3>1, BackwardOutput, PwmSign DEF IInv
  <2> QED BY <2>1, <2>2
<1>2. IInv => \A dt \in 1 .. MaxDt : DriveStep(dt) => Along(dt)
      BY <1>1
<1>3. IInv /\ [Next]_vars => [\A dt \in 1 .. MaxDt : DriveStep(dt) => Along(dt)]_vars
      BY <1>2
<1> QED BY <1>3, Inductive, PTL DEF Spec, NeverPushedBack

=============================================================================
