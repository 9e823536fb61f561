---------------------------- MODULE YawEstimate ----------------------------
(***************************************************************************)
(* The first three calls of every pass of loop(): readImuData,             *)
(* readCompassData and updateYawEstimate (firmware/src/imu.cpp), on top of *)
(* Compass, whose reading and calibration this module drives in the order  *)
(* of the program, and the start-up that decides which sensors there are.  *)
(*                                                                         *)
(* Data.  An angle is an integer, half a turn is HALF.  The one axis of    *)
(* Compass stands for the corrected vector, and HeadingOf for atan2f.      *)
(* Times are kept absolute; the code sees them modulo CLOCK_WRAP.  Only    *)
(* the comparison at imu.cpp:212 tells: it compares two times, the reading *)
(* periods compare differences, and no sensor is silent for 49 days.       *)
(***************************************************************************)
EXTENDS Compass

CONSTANTS
  Rates,               \* gyro_z, in angle units per ms
  HALF,                \* M_PI
  ALPHA, ALPHA_OF,     \* YAW_COMPLEMENTARY_ALPHA = ALPHA / ALPHA_OF
  HeadingOf,           \* the angle of a corrected reading
  IMU_READ_PERIOD_MS,
  CLOCK_WRAP,          \* 2^32
  SETTLE               \* bound of a history: updates counted

Angles  == (-HALF) .. HALF
Offsets == {lo + hi : lo, hi \in Readings}
Fields  == {2 * raw - offset : raw \in Readings, offset \in Offsets}

ASSUME YawAssumption ==
  /\ Rates \subseteq Int
  /\ HALF \in Nat \ {0}
  /\ ALPHA \in Nat /\ ALPHA_OF \in Nat \ {0} /\ ALPHA < ALPHA_OF
  /\ HeadingOf \in [Fields -> Angles]
  /\ IMU_READ_PERIOD_MS \in Nat
  /\ CLOCK_WRAP \in Nat \ {0}
  /\ SETTLE \in Nat \ {0}

\* SETTLE updates are enough: an angle of a full turn, weighted by ALPHA every
\* time and rounded as the filter rounds, is gone after that many.
ASSUME SettleAssumption ==
  \E excess \in [0 .. SETTLE -> 0 .. 2 * HALF * (ALPHA_OF - ALPHA)] :
    /\ excess[0] + ALPHA_OF - 1 >= 2 * HALF * (ALPHA_OF - ALPHA)
    /\ \A n \in 1 .. SETTLE : excess[n] = (ALPHA * excess[n - 1]) \div ALPHA_OF
    /\ excess[SETTLE] = 0

VARIABLES
  sensors,      \* g_imu_present, g_compass_present, g_compass_using_qmc
  imu,          \* g_imu_data_valid, g_imu_data.gyro_z and .last_read_ms
  orientation,  \* g_orientation
  swept,        \* has this pass made its sensor calls?
  outage,       \* history: an update since the last one found no valid sensor
  held          \* history: the updates in a row that met the same heading

yawVars  == <<sensors, imu, orientation, outage, held>>
loopVars == <<vars, yawVars, swept>>

\* initI2cAndSensors: the QMC5883 is only looked for without an HMC5883.
InitSensors(imu_ok, hmc_ok, qmc_ok) ==
  sensors = [imu |-> imu_ok, compass |-> hmc_ok \/ qmc_ok, qmc |-> ~hmc_ok /\ qmc_ok]

LoopInit ==
  /\ Init
  /\ \E imu_ok, hmc_ok, qmc_ok \in BOOLEAN : InitSensors(imu_ok, hmc_ok, qmc_ok)
  /\ imu = [valid |-> FALSE, gyro_z |-> 0, last_read_ms |-> 0]
  /\ orientation = [initialized |-> FALSE, yaw_rad |-> 0, last_update_ms |-> 0]
  /\ swept = FALSE
  /\ outage = FALSE
  /\ held = [times |-> 0, heading |-> 0, turn |-> 0]

-----------------------------------------------------------------------------

ImuDue == sensors.imu /\ now - imu.last_read_ms >= IMU_READ_PERIOD_MS

\* getEvent delivers or fails; a failure leaves the time, so the next pass
\* tries again.
ReadImuData ==
  \/ ~ImuDue /\ UNCHANGED imu
  \/ ImuDue /\ imu' = [imu EXCEPT !.valid = FALSE]
  \/ ImuDue /\ \E rate \in Rates :
       imu' = [valid |-> TRUE, gyro_z |-> rate, last_read_ms |-> now]

CompassDue == sensors.compass /\ now - last_read_ms >= COMPASS_READ_PERIOD_MS

\* Only the QMC5883's reading can fail, and then nothing tells.
ReadCompass ==
  \/ (~CompassDue \/ sensors.qmc) /\ UNCHANGED <<compassVars, calVars>>
  \/ CompassDue /\ \E raw \in Readings : ReadCompassData(raw)

\* normalizeAngleRad.  Variant: none.
NotNormalized(x) == x
Normalized(x) ==
  CASE x > HALF  -> ((x + HALF - 1) % (2 * HALF)) - HALF + 1
    [] x < -HALF -> ((x + HALF) % (2 * HALF)) - HALF
    [] OTHER     -> x

Ms(t) == t % CLOCK_WRAP

\* The prediction and the heading, weighted.  Variant: the compass only
\* corrects what the gyro has predicted.
BlendedIfGyro(pred, heading) ==
  IF ~imu'.valid THEN pred
  ELSE Normalized((ALPHA * pred + (ALPHA_OF - ALPHA) * heading) \div ALPHA_OF)
Blended(pred, heading) ==
  Normalized((ALPHA * pred + (ALPHA_OF - ALPHA) * heading) \div ALPHA_OF)

\* When the estimate counts as updated.  Variant: only when the gyro was used.
UpdatedIfGyro == IF imu'.valid THEN now ELSE orientation.last_update_ms
Updated       == now

NoValidSensor == ~imu'.valid /\ ~valid'

ThereIsNoSensor ==
  /\ NoValidSensor
  /\ outage' = TRUE
  /\ UNCHANGED <<orientation, held>>

InitializeYaw ==
  /\ ~NoValidSensor
  /\ ~orientation.initialized
  /\ orientation' = [initialized |-> TRUE, last_update_ms |-> now,
                     yaw_rad |-> IF valid' THEN HeadingOf[mag'] ELSE orientation.yaw_rad]
  /\ outage' = FALSE
  /\ UNCHANGED held

ClockIsNotAhead ==
  /\ ~NoValidSensor
  /\ orientation.initialized
  /\ Ms(now) <= Ms(orientation.last_update_ms)
  /\ UNCHANGED <<orientation, outage, held>>

\* The angle the gyro saw since the last update.
Turned == IF imu'.valid
            THEN imu'.gyro_z * (Ms(now) - Ms(orientation.last_update_ms)) ELSE 0

Magnitude(x) == IF x < 0 THEN -x ELSE x

\* The history of the headings met.
MeetHeading(heading) ==
  held' = IF ~valid' THEN held
          ELSE IF held.times > 0 /\ held.heading = heading
            THEN [held EXCEPT !.times = Lower(@ + 1, SETTLE),
                              !.turn = Greater(@, Magnitude(Turned))]
            ELSE [times |-> 1, heading |-> heading, turn |-> Magnitude(Turned)]

BlendYaw ==
  /\ ~NoValidSensor
  /\ orientation.initialized
  /\ Ms(now) > Ms(orientation.last_update_ms)
  /\ LET pred    == Normalized(orientation.yaw_rad + Turned)
         heading == HeadingOf[mag']
     IN  /\ orientation' = [initialized |-> TRUE, last_update_ms |-> Updated,
                            yaw_rad |-> IF valid' THEN Blended(pred, heading) ELSE pred]
         /\ MeetHeading(heading)
  /\ outage' = FALSE

UpdateYawEstimate ==
  ThereIsNoSensor \/ InitializeYaw \/ ClockIsNotAhead \/ BlendYaw

SensorCalls ==
  /\ ~swept
  /\ swept' = TRUE
  /\ ReadImuData
  /\ ReadCompass
  /\ UpdateYawEstimate
  /\ UNCHANGED <<now, sensors>>

NextPass(ms) ==
  /\ swept
  /\ swept' = FALSE
  /\ Pass(ms)
  /\ UNCHANGED yawVars

\* Later in the pass: /calibrate_mag, or the end of the calibration's time.
Calibrate ==
  /\ swept
  /\ StartMagCalibration \/ FinishMagCalibration
  /\ UNCHANGED <<yawVars, swept>>

LoopNext ==
  \/ SensorCalls
  \/ \E ms \in 1 .. MaxPassMs : NextPass(ms)
  \/ Calibrate

LoopSpec == LoopInit /\ [][LoopNext]_loopVars

-----------------------------------------------------------------------------

\* Compass's variables are as Compass has them; the yaw stays on the circle.
YawTypeOK ==
  /\ TypeOK
  /\ sensors \in [imu : BOOLEAN, compass : BOOLEAN, qmc : BOOLEAN]
  /\ imu \in [valid : BOOLEAN, gyro_z : Int, last_read_ms : 0 .. now]
  /\ orientation \in [initialized : BOOLEAN, yaw_rad : Angles, last_update_ms : 0 .. now]
  /\ swept \in BOOLEAN
  /\ outage \in BOOLEAN
  /\ held \in [times : 0 .. SETTLE, heading : Angles, turn : Nat]

\* While a sensor is valid every pass brings the estimate up to date, but for
\* the passes after millis() has wrapped: until it has come round to where it
\* was at the last update, the estimate is frozen.
FrozenOnlyByWrap ==
  LET last == orientation.last_update_ms
  IN  swept /\ orientation.initialized /\ ~outage =>
        \/ last = now
        \/ now \div CLOCK_WRAP > last \div CLOCK_WRAP /\ Ms(now) <= Ms(last)

\* Updates that meet the same heading pull the estimate to it.  If the robot
\* stands still it gets there, from anywhere and over the seam at half a
\* turn; and if the heading is only the last one of a compass that no longer
\* answers, while the robot turns, the estimate is pinned to it all the same,
\* further off by ALPHA / (ALPHA_OF - ALPHA) turns of one pass at most.
HeldHeadingPins ==
  LET off   == Magnitude(orientation.yaw_rad - held.heading)
      slack == ALPHA * held.turn + ALPHA_OF - 1
  IN  /\ held.times = SETTLE
      /\ held.turn = 0 \/ Magnitude(held.heading) + slack + held.turn <= HALF
      => (ALPHA_OF - ALPHA) * off <= slack

=============================================================================
