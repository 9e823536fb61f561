------------------------- MODULE YawEstimateProofs -------------------------
(***************************************************************************)
(* Compass and the loop that drives it, for any set of readings and any    *)
(* length of a behaviour.  Compass first: while a calibration is active    *)
(* its extremes are samples of its own that bound all of its samples, and  *)
(* there are none exactly when has_samples is false (ExtremesOfSamples);   *)
(* a calibration that is done is not active (DoneIsOver), so nothing adds  *)
(* samples to it any more.  The first calls of a pass drive Compass as its *)
(* specification allows, so all that holds of the loop.  On top of that:   *)
(* the yaw stays on the circle, because every heading belongs to a         *)
(* corrected reading (OffsetFits, FieldFits), and only a turn of the       *)
(* millisecond clock keeps the estimate from being brought up to date.     *)
(* Last, a heading that does not change pins the estimate (HeldInv): one   *)
(* update pulls it off the seam, so that no later prediction wraps, and    *)
(* each one shrinks what it is off beyond the slack (Excess) by the weight.*)
(***************************************************************************)
EXTENDS YawEstimate, TLAPS

ExtremesOfSamples ==
  cal.active =>
    /\ ~cal.has_samples => samples = {}
    /\ cal.has_samples =>
         /\ cal.min \in samples /\ cal.max \in samples
         /\ \A s \in samples : cal.min <= s /\ s <= cal.max

DoneIsOver == cal.done => ~cal.active

NoChangeBeforeReading == last_read_ms = 0 => stale_ms = 0

IInv ==
  /\ TypeOK
  /\ ExtremesOfSamples
  /\ DoneIsOver
  /\ OffsetCentres
  /\ NoChangeBeforeReading
  /\ StaleIsElapsed

Calibrations == [active : BOOLEAN, done : BOOLEAN, has_samples : BOOLEAN,
                 min : Int, max : Int, offset : Int]

LEMMA LowerAndGreater ==
  ASSUME NEW a \in Int, NEW b \in Int
  PROVE  /\ Lower(a, b) \in Int /\ Lower(a, b) <= a /\ Lower(a, b) <= b
         /\ Greater(a, b) \in Int /\ a <= Greater(a, b) /\ b <= Greater(a, b)
BY DEF Lower, Greater

LEMMA InitHolds == Init => IInv
<1> SUFFICES ASSUME Init PROVE IInv
  OBVIOUS
<1> USE ReadingAssumption
<1>1. PICK lo \in Readings, hi \in Readings, done \in BOOLEAN :
        /\ cal = [active |-> FALSE, done |-> done, has_samples |-> FALSE,
                  min |-> 0, max |-> 0, offset |-> lo + hi]
        /\ samples = {lo, hi}
  BY DEF Init
<1>2. lo \in Int /\ hi \in Int
  OBVIOUS
<1>3. cal \in Calibrations /\ samples \subseteq Readings /\ ~cal.active
  BY <1>1, <1>2 DEF Calibrations
<1>4. TypeOK
  <2>1. /\ now \in Nat /\ stale_ms \in Nat /\ mag \in Int
        /\ last_read_ms \in 0 .. now /\ changed_at \in 0 .. last_read_ms
    BY DEF Init
  <2>2. valid \in BOOLEAN
    BY DEF Init
  <2> QED
    BY <1>3, <2>1, <2>2 DEF TypeOK, Calibrations
<1>5. OffsetCentres
  <2>1. CASE lo <= hi
    BY <1>1, <1>2, <2>1 DEF OffsetCentres
  <2>2. CASE hi <= lo
    BY <1>1, <1>2, <2>2 DEF OffsetCentres
  <2> QED
    BY <1>2, <2>1, <2>2
<1>6. ExtremesOfSamples /\ DoneIsOver
  BY <1>3 DEF ExtremesOfSamples, DoneIsOver
<1>7. NoChangeBeforeReading /\ StaleIsElapsed
  BY DEF Init, NoChangeBeforeReading, StaleIsElapsed
<1> QED
  BY <1>4, <1>5, <1>6, <1>7 DEF IInv

LEMMA PassStep ==
  ASSUME IInv, NEW ms \in 1 .. MaxPassMs, Pass(ms)
  PROVE  IInv'
<1> USE ReadingAssumption DEF IInv, Pass, compassVars, calVars
<1>1. TypeOK'
  BY DEF TypeOK
<1> QED
  BY <1>1 DEF ExtremesOfSamples, DoneIsOver, OffsetCentres,
              NoChangeBeforeReading, StaleIsElapsed

LEMMA ReadStep ==
  ASSUME IInv, NEW raw \in Readings, ReadCompassData(raw)
  PROVE  IInv'
<1> USE ReadingAssumption DEF IInv, ReadCompassData, Stamp
<1>1. raw \in Int /\ cal \in Calibrations /\ samples \subseteq Int
  BY DEF TypeOK, Calibrations
<1>2. /\ cal'.active = cal.active /\ cal'.done = cal.done
      /\ cal'.offset = cal.offset
      /\ cal' \in Calibrations
  BY <1>1 DEF Collected, Calibrations, Lower, Greater
<1>3. /\ ~cal.active => cal' = cal
      /\ cal.active => cal'.has_samples
      /\ cal.active /\ ~cal.has_samples => cal'.min = raw /\ cal'.max = raw
      /\ cal.active /\ cal.has_samples => /\ cal'.min = Lower(cal.min, raw)
                                          /\ cal'.max = Greater(cal.max, raw)
  BY <1>1 DEF Collected, Calibrations
<1>4. ExtremesOfSamples'
  <2> SUFFICES ASSUME cal'.active PROVE ExtremesOfSamples'
    BY DEF ExtremesOfSamples
  <2>1. cal.active /\ cal'.has_samples /\ samples' = samples \cup {raw}
    BY <1>2, <1>3
  <2>2. CASE ~cal.has_samples
    <3>1. samples' = {raw} /\ cal'.min = raw /\ cal'.max = raw
      BY <1>3, <2>1, <2>2 DEF ExtremesOfSamples
    <3> QED
      BY <1>1, <2>1, <3>1 DEF ExtremesOfSamples
  <2>3. CASE cal.has_samples
    <3>1. /\ cal.min \in samples /\ cal.max \in samples
          /\ \A s \in samples : cal.min <= s /\ s <= cal.max
      BY <2>1, <2>3 DEF ExtremesOfSamples
    <3>2. /\ cal'.min = Lower(cal.min, raw)
          /\ cal'.max = Greater(cal.max, raw)
      BY <1>3, <2>1, <2>3
    <3>3. cal'.min \in samples' /\ cal'.max \in samples'
      <4>1. cal'.min \in {cal.min, raw} /\ cal'.max \in {cal.max, raw}
        BY <3>2 DEF Lower, Greater
      <4> QED
        BY <2>1, <3>1, <4>1
    <3>4. \A s \in samples' : cal'.min <= s /\ s <= cal'.max
      <4>1. cal.min \in Int /\ cal.max \in Int
        BY <1>1 DEF Calibrations
      <4>2. /\ cal'.min <= cal.min /\ cal'.min <= raw
            /\ cal.max <= cal'.max /\ raw <= cal'.max
            /\ cal'.min \in Int /\ cal'.max \in Int
        BY <1>1, <3>2, <4>1, LowerAndGreater
      <4> QED
        BY <1>1, <2>1, <3>1, <4>1, <4>2
    <3> QED
      BY <2>1, <3>3, <3>4 DEF ExtremesOfSamples
  <2> QED
    BY <2>2, <2>3
<1>5. DoneIsOver'
  BY <1>2 DEF DoneIsOver
<1>6. OffsetCentres'
  <2> SUFFICES ASSUME cal'.done PROVE OffsetCentres'
    BY DEF OffsetCentres
  <2>1. cal.done /\ ~cal.active
    BY <1>2 DEF DoneIsOver
  <2> QED
    BY <1>2, <2>1 DEF OffsetCentres
<1>7. TypeOK'
  <2>1. /\ last_read_ms' = now /\ now' = now /\ now \in Nat
        /\ stale_ms' \in Nat
        /\ changed_at' \in 0 .. last_read_ms'
    BY DEF TypeOK, UnchangedFor
  <2>2. mag' \in Int /\ valid' \in BOOLEAN /\ samples' \subseteq Readings
    BY <1>1 DEF TypeOK, Corrected, Calibrations
  <2> QED
    BY <1>2, <2>1, <2>2 DEF TypeOK, Calibrations
<1>8. now > 0
  BY DEF TypeOK
<1>9. NoChangeBeforeReading' /\ StaleIsElapsed'
  BY <1>8 DEF TypeOK, NoChangeBeforeReading, StaleIsElapsed, UnchangedFor
<1> QED
  BY <1>4, <1>5, <1>6, <1>7, <1>9

LEMMA StartStep ==
  ASSUME IInv, StartMagCalibration
  PROVE  IInv'
<1> USE DEF IInv, StartMagCalibration, StartedAfresh, compassVars
<1>1. cal'.active /\ ~cal'.done /\ ~cal'.has_samples /\ cal' \in Calibrations
  BY DEF TypeOK, Calibrations
<1>2. TypeOK'
  BY <1>1 DEF TypeOK, Calibrations
<1> QED
  BY <1>1, <1>2 DEF ExtremesOfSamples, DoneIsOver, OffsetCentres,
                    NoChangeBeforeReading, StaleIsElapsed

LEMMA FinishStep ==
  ASSUME IInv, FinishMagCalibration
  PROVE  IInv'
<1> USE DEF IInv, FinishMagCalibration, compassVars
<1>1. /\ ~cal'.active /\ cal' \in Calibrations
      /\ cal.has_samples => cal'.offset = cal.min + cal.max
      /\ ~cal.has_samples => ~cal'.done
  <2>1. cal \in Calibrations /\ cal.min + cal.max \in Int
    BY DEF TypeOK, Calibrations
  <2>2. CASE cal.has_samples
    BY <2>1, <2>2 DEF Calibrations
  <2>3. CASE ~cal.has_samples
    BY <2>1, <2>3 DEF Calibrations
  <2> QED
    BY <2>2, <2>3
<1>2. TypeOK'
  BY <1>1 DEF TypeOK, Calibrations
<1>3. OffsetCentres'
  BY <1>1 DEF OffsetCentres, ExtremesOfSamples
<1> QED
  BY <1>1, <1>2, <1>3 DEF ExtremesOfSamples, DoneIsOver,
                          NoChangeBeforeReading, StaleIsElapsed

\* The conjunction of the named parts is inductive.
THEOREM Inductive == Spec => []IInv
<1>1. IInv /\ [Next]_vars => IInv'
  <2> SUFFICES ASSUME IInv, [Next]_vars PROVE IInv'
    OBVIOUS
  <2>1. CASE \E ms \in 1 .. MaxPassMs : Pass(ms)
    BY <2>1, PassStep
  <2>2. CASE \E raw \in Readings : ReadCompassData(raw)
    BY <2>2, ReadStep
  <2>3. CASE StartMagCalibration
    BY <2>3, StartStep
  <2>4. CASE FinishMagCalibration
    BY <2>4, FinishStep
  <2>5. CASE UNCHANGED vars
    BY <2>5 DEF vars, compassVars, calVars, IInv, TypeOK, ExtremesOfSamples,
                DoneIsOver, OffsetCentres, NoChangeBeforeReading, StaleIsElapsed
  <2> QED
    BY <2>1, <2>2, <2>3, <2>4, <2>5 DEF Next
<1> QED
  BY <1>1, InitHolds, PTL DEF Spec

\* Every variable keeps a value of its kind, whatever the sensor delivers.
THEOREM TypeCorrect == Spec => []TypeOK
BY Inductive, PTL DEF IInv

\* Calibrations never see each other's samples or offsets.
THEOREM CalibrationCentres == Spec => []OffsetCentres
BY Inductive, PTL DEF IInv

\* The staleness counter is the time the reading has been the same.
THEOREM StalenessIsTime == Spec => []StaleIsElapsed
BY Inductive, PTL DEF IInv


-----------------------------------------------------------------------------

\* Offsets in use are sums of two readings, and a valid reading is corrected
\* by one of them.
OffsetFits == cal.offset \in Offsets
FieldFits  == valid => mag \in Fields

YawInv ==
  /\ IInv
  /\ YawTypeOK
  /\ OffsetFits
  /\ FieldFits
  /\ FrozenOnlyByWrap

Orientations == [initialized : BOOLEAN, yaw_rad : Angles, last_update_ms : 0 .. now]
Gyros        == [valid : BOOLEAN, gyro_z : Int, last_read_ms : 0 .. now]
Histories    == [times : 0 .. SETTLE, heading : Angles, turn : Nat]

-----------------------------------------------------------------------------

\* Every step of the loop is a step of Compass, or leaves it alone.
LEMMA LoopStep ==
  ASSUME [LoopNext]_loopVars
  PROVE  [Next]_vars
<1>1. CASE SensorCalls
  BY <1>1 DEF SensorCalls, ReadCompass, Next, vars
<1>2. CASE \E ms \in 1 .. MaxPassMs : NextPass(ms)
  BY <1>2 DEF NextPass, Next
<1>3. CASE Calibrate
  BY <1>3 DEF Calibrate, Next
<1>4. CASE UNCHANGED loopVars
  BY <1>4 DEF loopVars
<1> QED
  BY <1>1, <1>2, <1>3, <1>4 DEF LoopNext

\* The loop implements Compass.
THEOREM ImplementsCompass == LoopSpec => Spec
<1>1. LoopInit => Init
  BY DEF LoopInit
<1> QED
  BY <1>1, LoopStep, PTL DEF LoopSpec, Spec

\* Calibrations do not leak into each other when the loop runs them.
THEOREM LoopCalibrationCentres == LoopSpec => []OffsetCentres
BY ImplementsCompass, CalibrationCentres, PTL

\* Staleness is time when the loop takes the readings.
THEOREM LoopStalenessIsTime == LoopSpec => []StaleIsElapsed
BY ImplementsCompass, StalenessIsTime, PTL

-----------------------------------------------------------------------------

LEMMA Remainder ==
  ASSUME NEW x \in Int, NEW k \in Nat \ {0}
  PROVE  x % k \in 0 .. (k - 1) /\ x = k * (x \div k) + (x % k) /\ x \div k \in Int
OBVIOUS

LEMMA NormalizedIsAngle ==
  ASSUME NEW x \in Int
  PROVE  Normalized(x) \in Angles
<1>1. HALF \in Nat \ {0} /\ 2 * HALF \in Nat \ {0}
  BY YawAssumption
<1>2. CASE x > HALF
  <2>1. (x + HALF - 1) % (2 * HALF) \in 0 .. (2 * HALF - 1)
    BY <1>1, Remainder
  <2> QED
    BY <1>1, <1>2, <2>1 DEF Normalized, Angles
<1>3. CASE x < -HALF
  <2>1. (x + HALF) % (2 * HALF) \in 0 .. (2 * HALF - 1)
    BY <1>1, Remainder
  <2> QED
    BY <1>1, <1>3, <2>1 DEF Normalized, Angles
<1>4. CASE ~(x > HALF) /\ ~(x < -HALF)
  BY <1>1, <1>4 DEF Normalized, Angles
<1> QED
  BY <1>2, <1>3, <1>4

LEMMA BlendIsAngle ==
  ASSUME NEW pred \in Angles, NEW heading \in Angles
  PROVE  Blended(pred, heading) \in Angles
<1> DEFINE sum == ALPHA * pred + (ALPHA_OF - ALPHA) * heading
<1>1. sum \in Int
  <2>1. /\ pred \in Int /\ heading \in Int /\ ALPHA \in Int
        /\ ALPHA_OF - ALPHA \in Int
    BY YawAssumption DEF Angles
  <2>2. ALPHA * pred \in Int /\ (ALPHA_OF - ALPHA) * heading \in Int
    BY <2>1
  <2> QED
    BY <2>2
<1>2. sum \div ALPHA_OF \in Int
  <2> HIDE DEF sum
  <2> QED
    BY <1>1, Remainder, YawAssumption
<1> QED
  BY <1>2, NormalizedIsAngle DEF Blended

\* Times of which the later one looks no later lie a turn of the clock apart.
LEMMA EarlierLaterInTurns ==
  ASSUME NEW s \in Nat, NEW t \in Nat, s < t, Ms(t) <= Ms(s)
  PROVE  t \div CLOCK_WRAP > s \div CLOCK_WRAP
<1> DEFINE a == s \div CLOCK_WRAP
           b == t \div CLOCK_WRAP
<1>1. CLOCK_WRAP \in Nat \ {0}
  BY YawAssumption
<1>2. /\ Ms(s) \in Nat /\ s = CLOCK_WRAP * a + Ms(s) /\ a \in Int
      /\ Ms(t) \in Nat /\ t = CLOCK_WRAP * b + Ms(t) /\ b \in Int
  BY <1>1, Remainder DEF Ms
<1> HIDE DEF a, b
<1>3. SUFFICES ASSUME b <= a PROVE FALSE
  BY <1>2 DEF a, b
<1>4. CLOCK_WRAP * b <= CLOCK_WRAP * a
  <2>1. CLOCK_WRAP * (a - b) >= 0
    BY <1>1, <1>2, <1>3
  <2>2. CLOCK_WRAP * (a - b) = CLOCK_WRAP * a - CLOCK_WRAP * b
    BY <1>1, <1>2
  <2> QED
    BY <1>1, <1>2, <2>1, <2>2
<1>5. CLOCK_WRAP * a \in Int /\ CLOCK_WRAP * b \in Int
  BY <1>1, <1>2
<1> QED
  BY <1>2, <1>4, <1>5

-----------------------------------------------------------------------------

LEMMA FieldOfReading ==
  ASSUME NEW raw \in Readings, cal \in Calibrations, OffsetFits
  PROVE  Corrected(raw) \in Fields
BY DEF OffsetFits, Fields, Corrected

\* Calibrating adds two extremes, which are readings.
LEMMA OffsetOfSamples ==
  ASSUME IInv, OffsetFits, FinishMagCalibration
  PROVE  OffsetFits'
<1> cal \in Calibrations /\ samples \subseteq Readings /\ cal.active
  BY DEF IInv, TypeOK, Calibrations, FinishMagCalibration
<1>1. CASE cal.has_samples
  <2>1. cal.min \in Readings /\ cal.max \in Readings
    BY <1>1 DEF IInv, ExtremesOfSamples
  <2>2. cal'.offset = cal.min + cal.max
    BY <1>1 DEF FinishMagCalibration, Calibrations
  <2> QED
    BY <2>1, <2>2 DEF OffsetFits, Offsets
<1>2. CASE ~cal.has_samples
  <2>1. cal'.offset = cal.offset
    BY <1>2 DEF FinishMagCalibration, Calibrations
  <2> QED
    BY <2>1 DEF OffsetFits
<1> QED
  BY <1>1, <1>2

LEMMA ReadCompassHolds ==
  ASSUME IInv, OffsetFits, FieldFits, ReadCompass, UNCHANGED now
  PROVE  IInv' /\ OffsetFits' /\ FieldFits'
<1>1. CASE UNCHANGED <<compassVars, calVars>>
  <2>1. IInv'
    BY <1>1 DEF compassVars, calVars, IInv, TypeOK, ExtremesOfSamples,
                DoneIsOver, OffsetCentres, NoChangeBeforeReading, StaleIsElapsed
  <2>2. OffsetFits' /\ FieldFits'
    BY <1>1 DEF compassVars, calVars, OffsetFits, FieldFits
  <2> QED
    BY <2>1, <2>2
<1>2. ASSUME NEW raw \in Readings, ReadCompassData(raw)
      PROVE  IInv' /\ OffsetFits' /\ FieldFits'
  <2>1. IInv'
    BY <1>2, ReadStep
  <2>2. cal \in Calibrations
    BY DEF IInv, TypeOK, Calibrations
  <2>3. cal'.offset = cal.offset
    BY <1>2, <2>2 DEF ReadCompassData, Collected, Calibrations
  <2>4. OffsetFits'
    BY <2>3 DEF OffsetFits
  <2>5. mag' \in Fields
    BY <1>2, <2>2, FieldOfReading DEF ReadCompassData
  <2> QED
    BY <2>1, <2>4, <2>5 DEF FieldFits
<1> QED
  BY <1>1, <1>2 DEF ReadCompass

-----------------------------------------------------------------------------

LEMMA ReadImuHolds ==
  ASSUME imu \in Gyros, now \in Nat, ReadImuData
  PROVE  imu' \in Gyros
<1> now \in 0 .. now
  OBVIOUS
<1>1. CASE UNCHANGED imu
  BY <1>1 DEF Gyros
<1>2. CASE imu' = [imu EXCEPT !.valid = FALSE]
  BY <1>2, Zenon DEF Gyros
<1>3. ASSUME NEW rate \in Rates,
             imu' = [valid |-> TRUE, gyro_z |-> rate, last_read_ms |-> now]
      PROVE  imu' \in Gyros
  <2>1. rate \in Int
    BY YawAssumption
  <2> QED
    BY <1>3, <2>1 DEF Gyros
<1> QED
  BY <1>1, <1>2, <1>3 DEF ReadImuData

LEMMA MsIsNat ==
  ASSUME NEW x \in Nat
  PROVE  Ms(x) \in Nat
BY Remainder, YawAssumption DEF Ms

LEMMA TurnIsInt ==
  ASSUME imu' \in Gyros, now \in Nat, orientation \in Orientations
  PROVE  Turned \in Int /\ Magnitude(Turned) \in Nat
<1>1. Ms(now) \in Int /\ Ms(orientation.last_update_ms) \in Int
  BY MsIsNat DEF Orientations
<1>2. imu'.gyro_z \in Int
  BY DEF Gyros
<1>3. Turned \in Int
  BY <1>1, <1>2 DEF Turned
<1> QED
  BY <1>3 DEF Magnitude

LEMMA EstimateOfThisPass ==
  ASSUME now \in Nat, NEW angle \in Angles,
         orientation' = [initialized |-> TRUE, last_update_ms |-> now, yaw_rad |-> angle]
  PROVE  orientation' \in Orientations /\ orientation'.last_update_ms = now
<1> now \in 0 .. now
  OBVIOUS
<1> QED
  BY DEF Orientations

\* Each way updateYawEstimate ends leaves an angle, and an estimate that is
\* not of this pass only when the clock has turned since it was made.
LEMMA UpdateHolds ==
  ASSUME imu' \in Gyros, now \in Nat, orientation \in Orientations,
         outage \in BOOLEAN, held \in Histories, FieldFits',
         UpdateYawEstimate
  PROVE  /\ orientation' \in Orientations
         /\ outage' \in BOOLEAN
         /\ held' \in Histories
         /\ orientation'.initialized /\ ~outage' =>
              \/ orientation'.last_update_ms = now
              \/ /\ now \div CLOCK_WRAP > orientation'.last_update_ms \div CLOCK_WRAP
                 /\ Ms(now) <= Ms(orientation'.last_update_ms)
<1> USE DEF Orientations
<1>1. valid' => HeadingOf[mag'] \in Angles
  BY YawAssumption DEF FieldFits
<1>2. CASE ThereIsNoSensor
  BY <1>2 DEF ThereIsNoSensor
<1>3. CASE InitializeYaw
  <2> DEFINE angle == IF valid' THEN HeadingOf[mag'] ELSE orientation.yaw_rad
  <2>1. angle \in Angles
    BY <1>1
  <2>2. orientation' = [initialized |-> TRUE, last_update_ms |-> now, yaw_rad |-> angle]
    BY <1>3 DEF InitializeYaw
  <2>3. outage' = FALSE /\ held' = held
    BY <1>3 DEF InitializeYaw
  <2> HIDE DEF angle
  <2> QED
    BY <2>1, <2>2, <2>3, EstimateOfThisPass
<1>4. CASE ClockIsNotAhead
  BY <1>4, EarlierLaterInTurns DEF ClockIsNotAhead
<1>5. CASE BlendYaw
  <2> DEFINE pred    == Normalized(orientation.yaw_rad + Turned)
             heading == HeadingOf[mag']
  <2>1. Turned \in Int /\ Magnitude(Turned) \in Nat
    BY TurnIsInt
  <2>2. pred \in Angles
    <3>1. orientation.yaw_rad + Turned \in Int
      BY <2>1 DEF Angles
    <3> QED
      BY <3>1, NormalizedIsAngle
  <2>3. valid' => Blended(pred, heading) \in Angles
    BY <1>1, <2>2, BlendIsAngle
  <2> DEFINE angle == IF valid' THEN Blended(pred, heading) ELSE pred
  <2>4. /\ orientation' = [initialized |-> TRUE, last_update_ms |-> now, yaw_rad |-> angle]
        /\ angle \in Angles
    BY <1>5, <2>2, <2>3 DEF BlendYaw, Updated
  <2>5. held' \in Histories
    <3>1. MeetHeading(heading) /\ SETTLE \in Nat \ {0}
      BY <1>5, YawAssumption DEF BlendYaw
    <3>2. CASE ~valid'
      BY <3>1, <3>2 DEF MeetHeading
    <3>3. CASE valid'
      <4>1. heading \in Angles
        BY <1>1, <3>3
      <4> DEFINE size == Magnitude(Turned)
                 run  == Lower(held.times + 1, SETTLE)
                 far  == Greater(held.turn, size)
      <4>2. held' \in {[held EXCEPT !.times = run, !.turn = far],
                       [times |-> 1, heading |-> heading, turn |-> size]}
        BY <3>1, <3>3 DEF MeetHeading
      <4>3. held.times \in 0 .. SETTLE /\ held.turn \in Nat /\ size \in Nat
        BY <2>1 DEF Histories
      <4> HIDE DEF heading, size
      <4>4. run \in 0 .. SETTLE /\ far \in Nat /\ 1 \in 0 .. SETTLE
        BY <3>1, <4>3 DEF Lower, Greater
      <4> HIDE DEF run, far
      <4>5. CASE held' = [held EXCEPT !.times = run, !.turn = far]
        BY <4>4, <4>5, Zenon DEF Histories
      <4>6. CASE held' = [times |-> 1, heading |-> heading, turn |-> size]
        BY <4>1, <4>3, <4>4, <4>6 DEF Histories
      <4> QED
        BY <4>2, <4>5, <4>6
    <3> QED
      BY <3>2, <3>3
  <2>6. outage' = FALSE
    BY <1>5 DEF BlendYaw
  <2> HIDE DEF angle
  <2> QED
    BY <2>4, <2>5, <2>6, EstimateOfThisPass
<1> QED
  BY <1>2, <1>3, <1>4, <1>5 DEF UpdateYawEstimate

-----------------------------------------------------------------------------

LEMMA LoopInitHolds == LoopInit => YawInv
<1> SUFFICES ASSUME LoopInit PROVE YawInv
  OBVIOUS
<1>1. IInv /\ TypeOK
  BY InitHolds DEF LoopInit, IInv
<1>2. OffsetFits /\ FieldFits
  BY DEF LoopInit, Init, OffsetFits, FieldFits, Offsets
<1>3. 0 \in Angles /\ 0 \in 0 .. now /\ 0 \in 0 .. SETTLE
  BY <1>1, YawAssumption DEF Angles, TypeOK
<1>4. /\ sensors \in [imu : BOOLEAN, compass : BOOLEAN, qmc : BOOLEAN]
      /\ swept = FALSE /\ outage \in BOOLEAN
  <2>1. PICK imu_ok, hmc_ok, qmc_ok \in BOOLEAN : InitSensors(imu_ok, hmc_ok, qmc_ok)
    BY DEF LoopInit
  <2>2. (hmc_ok \/ qmc_ok) \in BOOLEAN /\ (~hmc_ok /\ qmc_ok) \in BOOLEAN
    BY Zenon
  <2>3. sensors \in [imu : BOOLEAN, compass : BOOLEAN, qmc : BOOLEAN]
    BY <2>1, <2>2 DEF InitSensors
  <2> QED
    BY <2>3 DEF LoopInit
<1>5. /\ imu \in [valid : BOOLEAN, gyro_z : Int, last_read_ms : 0 .. now]
      /\ orientation \in [initialized : BOOLEAN, yaw_rad : Angles, last_update_ms : 0 .. now]
      /\ held \in [times : 0 .. SETTLE, heading : Angles, turn : Nat]
  BY <1>3 DEF LoopInit
<1> QED
  BY <1>1, <1>2, <1>4, <1>5 DEF YawInv, YawTypeOK, FrozenOnlyByWrap

LEMMA SensorCallsHold ==
  ASSUME YawInv, SensorCalls
  PROVE  YawInv'
<1>1. now \in Nat /\ now' = now
  BY DEF YawInv, IInv, TypeOK, SensorCalls
<1>2. IInv' /\ OffsetFits' /\ FieldFits'
  BY <1>1, ReadCompassHolds DEF YawInv, SensorCalls
<1>3. imu' \in Gyros
  BY <1>1, ReadImuHolds DEF YawInv, YawTypeOK, Gyros, SensorCalls
<1>4. /\ orientation' \in Orientations
      /\ outage' \in BOOLEAN
      /\ held' \in Histories
      /\ orientation'.initialized /\ ~outage' =>
           \/ orientation'.last_update_ms = now
           \/ /\ now \div CLOCK_WRAP > orientation'.last_update_ms \div CLOCK_WRAP
              /\ Ms(now) <= Ms(orientation'.last_update_ms)
  <2>1. /\ orientation \in Orientations /\ outage \in BOOLEAN
        /\ held \in Histories
    BY DEF YawInv, YawTypeOK, Orientations, Histories
  <2>2. UpdateYawEstimate
    BY DEF SensorCalls
  <2> QED
    BY <1>1, <1>2, <1>3, <2>1, <2>2, UpdateHolds
<1>5. FrozenOnlyByWrap'
  BY <1>1, <1>4 DEF FrozenOnlyByWrap, Ms
<1>6. TypeOK' /\ swept' = TRUE /\ sensors' = sensors
  BY <1>2 DEF IInv, SensorCalls
<1>7. YawTypeOK'
  BY <1>1, <1>3, <1>4, <1>6
  DEF YawInv, YawTypeOK, Orientations, Gyros, Histories
<1> QED
  BY <1>2, <1>5, <1>7 DEF YawInv

LEMMA NextPassHolds ==
  ASSUME YawInv, NEW ms \in 1 .. MaxPassMs, NextPass(ms)
  PROVE  YawInv'
<1>1. IInv' /\ TypeOK'
  BY PassStep DEF YawInv, NextPass, IInv
<1>2. now \in Nat /\ now' \in Nat /\ now <= now'
  BY ReadingAssumption DEF YawInv, IInv, TypeOK, NextPass, Pass
<1>3. OffsetFits' /\ FieldFits' /\ FrozenOnlyByWrap'
  BY DEF YawInv, OffsetFits, FieldFits, FrozenOnlyByWrap, NextPass, Pass,
         compassVars, calVars
<1>4. YawTypeOK'
  <2>1. UNCHANGED <<sensors, imu, orientation, outage, held>> /\ swept' = FALSE
    BY DEF NextPass, yawVars
  <2>2. 0 .. now \subseteq 0 .. now'
    BY <1>2
  <2>3. imu' \in Gyros' /\ orientation' \in Orientations'
    BY <2>1, <2>2 DEF YawInv, YawTypeOK, Gyros, Orientations
  <2> QED
    BY <1>1, <2>1, <2>3 DEF YawInv, YawTypeOK, Gyros, Orientations
<1> QED
  BY <1>1, <1>3, <1>4 DEF YawInv

LEMMA CalibrateHolds ==
  ASSUME YawInv, Calibrate
  PROVE  YawInv'
<1>1. IInv' /\ TypeOK'
  BY StartStep, FinishStep DEF YawInv, Calibrate, IInv
<1>2. UNCHANGED <<now, yawVars, swept, compassVars>>
  BY DEF Calibrate, StartMagCalibration, FinishMagCalibration
<1>3. OffsetFits'
  <2>1. CASE StartMagCalibration
    <3>1. cal \in Calibrations
      BY DEF YawInv, IInv, TypeOK, Calibrations
    <3> QED
      BY <2>1, <3>1 DEF YawInv, OffsetFits, StartMagCalibration, StartedAfresh,
                        Calibrations
  <2>2. CASE FinishMagCalibration
    BY <2>2, OffsetOfSamples DEF YawInv
  <2> QED
    BY <2>1, <2>2 DEF Calibrate
<1>4. FieldFits' /\ FrozenOnlyByWrap'
  BY <1>2 DEF YawInv, FieldFits, FrozenOnlyByWrap, compassVars, yawVars, Ms
<1>5. YawTypeOK'
  BY <1>1, <1>2 DEF YawInv, YawTypeOK, yawVars
<1> QED
  BY <1>1, <1>3, <1>4, <1>5 DEF YawInv

THEOREM YawInductive == LoopSpec => []YawInv
<1>1. YawInv /\ [LoopNext]_loopVars => YawInv'
  <2> SUFFICES ASSUME YawInv, [LoopNext]_loopVars PROVE YawInv'
    OBVIOUS
  <2>1. CASE SensorCalls
    BY <2>1, SensorCallsHold
  <2>2. CASE \E ms \in 1 .. MaxPassMs : NextPass(ms)
    BY <2>2, NextPassHolds
  <2>3. CASE Calibrate
    BY <2>3, CalibrateHolds
  <2>4. CASE UNCHANGED loopVars
    <3> USE <2>4 DEF loopVars, vars, compassVars, calVars, yawVars
    <3>1. IInv'
      BY DEF YawInv, IInv, TypeOK, ExtremesOfSamples, DoneIsOver,
             OffsetCentres, NoChangeBeforeReading, StaleIsElapsed
    <3>2. OffsetFits' /\ FieldFits' /\ FrozenOnlyByWrap'
      BY DEF YawInv, OffsetFits, FieldFits, FrozenOnlyByWrap, Ms
    <3>3. YawTypeOK'
      BY <3>1 DEF YawInv, YawTypeOK, IInv
    <3> QED
      BY <3>1, <3>2, <3>3 DEF YawInv
  <2> QED
    BY <2>1, <2>2, <2>3, <2>4 DEF LoopNext
<1> QED
  BY <1>1, LoopInitHolds, PTL DEF LoopSpec

\* Whatever the sensors deliver and however the passes fall, the estimate is
\* an angle between minus half a turn and half a turn, and no time is later
\* than the pass.
THEOREM YawTypeCorrect == LoopSpec => []YawTypeOK
BY YawInductive, PTL DEF YawInv

\* With a valid sensor only a turn of the millisecond clock keeps a pass from
\* bringing the estimate up to date.
THEOREM OnlyWrapFreezes == LoopSpec => []FrozenOnlyByWrap
BY YawInductive, PTL DEF YawInv

-----------------------------------------------------------------------------

\* A factor keeps an inequality.
LEMMA Scaled ==
  ASSUME NEW a \in Int, NEW b \in Int, NEW k \in Nat, a <= b
  PROVE  k * a <= k * b
OBVIOUS

LEMMA MagnitudeBounds ==
  ASSUME NEW x \in Int
  PROVE  /\ Magnitude(x) \in Nat
         /\ -Magnitude(x) <= x /\ x <= Magnitude(x)
         /\ \A b \in Int : -b <= x /\ x <= b => Magnitude(x) <= b
BY DEF Magnitude

\* A quotient by k is at least whatever k times is not more.
LEMMA AtMostQuotient ==
  ASSUME NEW x \in Int, NEW m \in Int, NEW k \in Nat \ {0}, k * m <= x
  PROVE  m <= x \div k
<1>1. x % k \in 0 .. (k - 1) /\ x = k * (x \div k) + (x % k) /\ x \div k \in Int
  BY Remainder
<1>2. SUFFICES ASSUME m >= (x \div k) + 1 PROVE FALSE
  BY <1>1
<1>3. k * ((x \div k) + 1) <= k * m
  BY <1>1, <1>2, Scaled
<1>4. k * ((x \div k) + 1) = k * (x \div k) + k
  BY <1>1
<1> QED
  BY <1>1, <1>3, <1>4

\* What the filter makes of a prediction and a heading lies between them, but
\* for a rounding of less than a unit.
LEMMA BlendBounds ==
  ASSUME NEW a \in Nat, NEW d \in Nat \ {0}, NEW k \in Nat \ {0},
         NEW pred \in Int, NEW h \in Int
  PROVE  /\ (a * pred + d * h) \div k \in Int
         /\ k * ((a * pred + d * h) \div k) <= a * pred + d * h
         /\ a * pred + d * h <= k * ((a * pred + d * h) \div k) + (k - 1)
<1> DEFINE x == a * pred + d * h
<1>1. x \in Int
  OBVIOUS
<1> HIDE DEF x
<1>2. x % k \in 0 .. (k - 1) /\ x = k * (x \div k) + (x % k) /\ x \div k \in Int
  BY <1>1, Remainder
<1>3. k * (x \div k) \in Int
  BY <1>1, <1>2
<1>4. x \div k \in Int /\ k * (x \div k) <= x /\ x <= k * (x \div k) + (k - 1)
  BY <1>1, <1>2, <1>3
<1> QED
  BY <1>4 DEF x

\* An update brings the estimate nearer to the heading by the filter's weight,
\* up to the rounding.
LEMMA BlendContracts ==
  ASSUME NEW a \in Nat, NEW d \in Nat \ {0}, NEW k \in Nat \ {0}, k = a + d,
         NEW pred \in Int, NEW h \in Int, NEW turn \in Nat, NEW excess \in Nat,
         d * Magnitude(pred - h) <= k * turn + (k - 1) + excess
  PROVE  d * Magnitude(((a * pred + d * h) \div k) - h)
           <= a * turn + (k - 1) + ((a * excess) \div k)
<1> DEFINE b    == (a * pred + d * h) \div k
           off  == Magnitude(pred - h)
           off2 == Magnitude(b - h)
<1>1. /\ b \in Int
      /\ k * b <= a * pred + d * h
      /\ a * pred + d * h <= k * b + (k - 1)
  BY BlendBounds, Zenon
<1>2. d * off <= k * turn + (k - 1) + excess
  OBVIOUS
<1> HIDE DEF b
<1>3. off \in Nat /\ -off <= pred - h /\ pred - h <= off
  BY MagnitudeBounds
<1>4. off2 \in Nat /\ (off2 = b - h \/ off2 = h - b)
  BY <1>1 DEF Magnitude
<1> HIDE DEF off, off2
<1>5. a * (pred - h) <= a * off /\ a * (-off) <= a * (pred - h)
  BY <1>3, Scaled
<1>6. a * (pred - h) = a * pred - a * h /\ a * (-off) = -(a * off)
  BY <1>3
<1>7. k * (b - h) = k * b - (a * h + d * h) /\ k * (h - b) = (a * h + d * h) - k * b
  BY <1>1
<1>8. k * off2 <= a * off + (k - 1)
  <2>1. a * pred \in Int /\ d * h \in Int /\ a * h \in Int /\ k * b \in Int /\ a * off \in Int
    BY <1>1, <1>3
  <2> QED
    BY <1>1, <1>4, <1>5, <1>6, <1>7, <2>1
<1>9. d * (k * off2) <= d * (a * off + (k - 1))
  BY <1>8, <1>4, <1>3, Scaled
<1>10. a * (d * off) <= a * (k * turn + (k - 1) + excess)
  BY <1>2, <1>3, Scaled
<1>11. /\ d * (a * off + (k - 1)) = a * (d * off) + d * (k - 1)
       /\ a * (k * turn + (k - 1) + excess) = k * (a * turn) + a * (k - 1) + a * excess
       /\ a * (k - 1) + d * (k - 1) = k * (k - 1)
       /\ d * (k * off2) = k * (d * off2)
  <2>1. d * (a * off + (k - 1)) = a * (d * off) + d * (k - 1)
    BY <1>3
  <2>2. a * (k * turn + (k - 1) + excess) = k * (a * turn) + a * (k - 1) + a * excess
    OBVIOUS
  <2>3. a * (k - 1) + d * (k - 1) = k * (k - 1)
    OBVIOUS
  <2>4. d * (k * off2) = k * (d * off2)
    BY <1>4
  <2> QED
    BY <2>1, <2>2, <2>3, <2>4
<1>12. k * (d * off2 - a * turn - (k - 1)) <= a * excess
  <2>1. k * (d * off2 - a * turn - (k - 1)) = k * (d * off2) - k * (a * turn) - k * (k - 1)
    BY <1>4
  <2>2. /\ k * (d * off2) \in Int /\ k * (a * turn) \in Int /\ k * (k - 1) \in Int
        /\ a * (k - 1) \in Int /\ d * (k - 1) \in Int /\ a * excess \in Int /\ a * (d * off) \in Int
    BY <1>3, <1>4
  <2> QED
    BY <1>9, <1>10, <1>11, <2>1, <2>2
<1>13. d * off2 - a * turn - (k - 1) <= (a * excess) \div k
  <2>1. d * off2 - a * turn - (k - 1) \in Int /\ a * excess \in Int
    BY <1>4
  <2> QED
    BY <2>1, <1>12, AtMostQuotient
<1>14. d * off2 <= a * turn + (k - 1) + ((a * excess) \div k)
  <2>1. d * off2 \in Int /\ a * turn \in Int /\ (a * excess) \div k \in Int
    BY <1>4, Remainder
  <2> QED
    BY <1>13, <2>1
<1> QED
  BY <1>14 DEF off2, b


-----------------------------------------------------------------------------

Weight      == ALPHA_OF - ALPHA
Slack(turn) == ALPHA * turn + ALPHA_OF - 1

\* Turning this fast, an estimate near the heading does not reach the seam.
Gentle(heading, turn) == turn = 0 \/ Magnitude(heading) + Slack(turn) + turn <= HALF

\* How far beyond Slack the estimate may be after n updates with one heading.
Shrinks(excess) ==
  /\ excess[0] + ALPHA_OF - 1 >= 2 * HALF * (ALPHA_OF - ALPHA)
  /\ \A n \in 1 .. SETTLE : excess[n] = (ALPHA * excess[n - 1]) \div ALPHA_OF
  /\ excess[SETTLE] = 0

Excess == CHOOSE excess \in [0 .. SETTLE -> 0 .. 2 * HALF * (ALPHA_OF - ALPHA)] :
            Shrinks(excess)

\* An estimate that has been blended with a heading: even after one update
\* the heading has pulled it off the seam.
Pulled(yaw, heading) ==
  LET reach == ALPHA * HALF + Weight * Magnitude(heading)
  IN  /\ ALPHA_OF * yaw <= reach
      /\ -reach <= ALPHA_OF * yaw + (ALPHA_OF - 1)

\* Each update with the held heading brings the estimate nearer, and a held
\* heading is of a valid reading and of an estimate that has begun.
HeldInv ==
  held.times > 0 =>
    /\ valid /\ orientation.initialized
    /\ Pulled(orientation.yaw_rad, held.heading)
    /\ Gentle(held.heading, held.turn) =>
         Weight * Magnitude(orientation.yaw_rad - held.heading)
           <= Slack(held.turn) + Excess[held.times]

-----------------------------------------------------------------------------

LEMMA Weights ==
  /\ HALF \in Nat \ {0} /\ ALPHA \in Nat /\ ALPHA_OF \in Nat \ {0}
  /\ Weight \in Nat \ {0} /\ ALPHA_OF = ALPHA + Weight
  /\ SETTLE \in Nat \ {0}
BY YawAssumption DEF Weight

LEMMA ExcessShrinks ==
  /\ \A n \in 0 .. SETTLE : Excess[n] \in Nat
  /\ 2 * HALF * Weight <= (ALPHA_OF - 1) + Excess[0]
  /\ \A n \in 1 .. SETTLE : Excess[n] = (ALPHA * Excess[n - 1]) \div ALPHA_OF
  /\ Excess[SETTLE] = 0
<1> DEFINE top == 2 * HALF * (ALPHA_OF - ALPHA)
<1>1. \E excess \in [0 .. SETTLE -> 0 .. top] : Shrinks(excess)
  BY SettleAssumption DEF Shrinks
<1>2. Excess \in [0 .. SETTLE -> 0 .. top] /\ Shrinks(Excess)
  BY <1>1, Zenon DEF Excess
<1>3. top \in Int /\ top = 2 * HALF * Weight
  BY Weights DEF Weight
<1> HIDE DEF top
<1>4. \A n \in 0 .. SETTLE : Excess[n] \in Nat
  BY <1>2, <1>3
<1>5. 0 \in 0 .. SETTLE
  BY Weights
<1>6. top <= (ALPHA_OF - 1) + Excess[0]
  <2>1. Excess[0] + ALPHA_OF - 1 >= top
    BY <1>2 DEF Shrinks, top
  <2> QED
    BY <2>1, <1>3, <1>4, <1>5, Weights
<1> QED
  BY <1>2, <1>3, <1>4, <1>6 DEF Shrinks

\* What an update does to an estimate: the blend stays on the circle without
\* being normalised, and is pulled.
LEMMA BlendIsPulled ==
  ASSUME NEW pred \in Angles, NEW heading \in Angles
  PROVE  LET b == (ALPHA * pred + Weight * heading) \div ALPHA_OF
         IN  Blended(pred, heading) = b /\ b \in Angles /\ Pulled(b, heading)
<1> DEFINE b   == (ALPHA * pred + Weight * heading) \div ALPHA_OF
           far == Magnitude(heading)
<1>1. pred \in Int /\ heading \in Int /\ -HALF <= pred /\ pred <= HALF
  BY Weights DEF Angles
<1>2. /\ b \in Int
      /\ ALPHA_OF * b <= ALPHA * pred + Weight * heading
      /\ ALPHA * pred + Weight * heading <= ALPHA_OF * b + (ALPHA_OF - 1)
  BY <1>1, Weights, BlendBounds
<1> HIDE DEF b
<1>3. far \in Nat /\ -far <= heading /\ heading <= far /\ far <= HALF
  BY <1>1, Weights, MagnitudeBounds DEF Magnitude, Angles
<1> HIDE DEF far
<1>4. /\ ALPHA * pred <= ALPHA * HALF /\ ALPHA * (-HALF) <= ALPHA * pred
      /\ Weight * heading <= Weight * far /\ Weight * (-far) <= Weight * heading
      /\ Weight * far <= Weight * HALF
  BY <1>1, <1>3, Weights, Scaled
<1>5. /\ ALPHA * (-HALF) = -(ALPHA * HALF) /\ Weight * (-far) = -(Weight * far)
      /\ ALPHA * HALF + Weight * HALF = ALPHA_OF * HALF
  BY <1>3, Weights
<1>6. /\ ALPHA * pred \in Int /\ ALPHA * HALF \in Int /\ Weight * heading \in Int
      /\ Weight * far \in Int /\ Weight * HALF \in Int /\ ALPHA_OF * b \in Int
      /\ ALPHA_OF * HALF \in Int
  BY <1>1, <1>2, <1>3, Weights
<1>7. /\ ALPHA_OF * b <= ALPHA * HALF + Weight * far
      /\ -(ALPHA * HALF + Weight * far) <= ALPHA_OF * b + (ALPHA_OF - 1)
  BY <1>2, <1>4, <1>5, <1>6, Weights
<1>8. b <= HALF
  <2>1. SUFFICES ASSUME HALF + 1 <= b PROVE FALSE
    BY <1>2, Weights
  <2>2. ALPHA_OF * (HALF + 1) <= ALPHA_OF * b
    BY <1>2, <2>1, Weights, Scaled
  <2>3. ALPHA_OF * (HALF + 1) = ALPHA_OF * HALF + ALPHA_OF
    BY Weights
  <2> QED
    BY <1>4, <1>5, <1>6, <1>7, <2>2, <2>3, Weights
<1>9. -HALF <= b
  <2>1. SUFFICES ASSUME b <= -HALF - 1 PROVE FALSE
    BY <1>2, Weights
  <2>2. ALPHA_OF * b <= ALPHA_OF * (-HALF - 1)
    BY <1>2, <2>1, Weights, Scaled
  <2>3. ALPHA_OF * (-HALF - 1) = -(ALPHA_OF * HALF) - ALPHA_OF
    BY Weights
  <2> QED
    BY <1>4, <1>5, <1>6, <1>7, <2>2, <2>3, Weights
<1>10. b \in Angles /\ Normalized(b) = b
  BY <1>2, <1>8, <1>9, Weights DEF Angles, Normalized
<1>11. Blended(pred, heading) = Normalized(b)
  BY DEF Blended, Weight, b
<1>12. Pulled(b, heading)
  BY <1>7 DEF Pulled, far
<1> QED
  BY <1>10, <1>11, <1>12 DEF b

\* A pulled estimate that turns gently does not cross the seam.
LEMMA GentleStaysOff ==
  ASSUME NEW yaw \in Angles, NEW heading \in Angles, Pulled(yaw, heading),
         NEW turn \in Nat, Gentle(heading, turn),
         NEW turned \in Int, Magnitude(turned) <= turn
  PROVE  Normalized(yaw + turned) = yaw + turned
<1>1. yaw \in Int /\ -HALF <= yaw /\ yaw <= HALF
  BY Weights DEF Angles
<1>2. -turn <= turned /\ turned <= turn
  BY MagnitudeBounds
<1>3. CASE turn = 0
  BY <1>1, <1>2, <1>3, Weights DEF Normalized
<1>4. CASE turn # 0
  <2> DEFINE far  == Magnitude(heading)
             room == HALF - turn
  <2>1. heading \in Int
    BY Weights DEF Angles
  <2>2. far \in Nat
    BY <2>1, MagnitudeBounds
  <2>3. /\ ALPHA_OF * yaw <= ALPHA * HALF + Weight * far
        /\ -(ALPHA * HALF + Weight * far) <= ALPHA_OF * yaw + (ALPHA_OF - 1)
    BY DEF Pulled
  <2>4. far + (ALPHA * turn + ALPHA_OF - 1) + turn <= HALF
    BY <1>4 DEF Gentle, Slack
  <2> HIDE DEF far
  <2>5. ALPHA * turn \in Nat /\ room \in Int
    BY Weights
  <2>6. far <= room - ALPHA * turn - (ALPHA_OF - 1)
    BY <2>2, <2>4, <2>5, Weights
  <2>7. Weight * far <= Weight * (room - ALPHA * turn - (ALPHA_OF - 1))
    BY <2>2, <2>5, <2>6, Weights, Scaled
  <2>8. Weight * (room - ALPHA * turn - (ALPHA_OF - 1))
          = Weight * room - Weight * (ALPHA * turn) - Weight * (ALPHA_OF - 1)
    BY <2>5, Weights
  <2>9. /\ ALPHA * turn <= Weight * (ALPHA * turn)
        /\ ALPHA_OF - 1 <= Weight * (ALPHA_OF - 1)
    BY <2>5, Weights
  <2>10. /\ ALPHA * HALF - ALPHA * turn = ALPHA * room
         /\ ALPHA * room + Weight * room = ALPHA_OF * room
    BY Weights
  <2>11. /\ Weight * far \in Int /\ Weight * room \in Int /\ Weight * (ALPHA * turn) \in Int
         /\ Weight * (ALPHA_OF - 1) \in Int /\ ALPHA * HALF \in Int /\ ALPHA * room \in Int
         /\ ALPHA_OF * room \in Int /\ ALPHA_OF * yaw \in Int
    BY <1>1, <2>2, <2>5, Weights
  <2>12. ALPHA_OF * yaw <= ALPHA_OF * room /\ -(ALPHA_OF * room) <= ALPHA_OF * yaw
    <3> HIDE DEF room
    <3> QED
      BY <2>3, <2>5, <2>7, <2>8, <2>9, <2>10, <2>11, Weights
  <2>13. yaw <= room /\ -room <= yaw
    <3> HIDE DEF room
    <3>1. ASSUME room + 1 <= yaw PROVE FALSE
      <4>1. ALPHA_OF * (room + 1) <= ALPHA_OF * yaw
        BY <1>1, <2>5, <3>1, Weights, Scaled
      <4>2. ALPHA_OF * (room + 1) = ALPHA_OF * room + ALPHA_OF
        BY <2>5, Weights
      <4> QED
        BY <2>11, <2>12, <4>1, <4>2, Weights
    <3>2. ASSUME yaw <= -room - 1 PROVE FALSE
      <4>1. ALPHA_OF * yaw <= ALPHA_OF * (-room - 1)
        BY <1>1, <2>5, <3>2, Weights, Scaled
      <4>2. ALPHA_OF * (-room - 1) = -(ALPHA_OF * room) - ALPHA_OF
        BY <2>5, Weights
      <4> QED
        BY <2>11, <2>12, <4>1, <4>2, Weights
    <3> QED
      BY <1>1, <2>5, <3>1, <3>2
  <2>14. -HALF <= yaw + turned /\ yaw + turned <= HALF /\ yaw + turned \in Int
    BY <1>1, <1>2, <2>13, Weights
  <2> QED
    BY <2>14, Weights DEF Normalized
<1> QED
  BY <1>3, <1>4

-----------------------------------------------------------------------------

\* The first update with a heading leaves at most the first excess.
LEMMA FirstMeeting ==
  ASSUME NEW pred \in Angles, NEW heading \in Angles, NEW turn \in Nat
  PROVE  Weight * Magnitude(((ALPHA * pred + Weight * heading) \div ALPHA_OF) - heading)
           <= Slack(turn) + Excess[1]
<1> DEFINE off == Magnitude(pred - heading)
<1>1. pred \in Int /\ heading \in Int
  BY Weights DEF Angles
<1>2. off \in Nat /\ off <= 2 * HALF
  BY Weights DEF Angles, Magnitude
<1>3. /\ 0 \in 0 .. SETTLE /\ 1 \in 1 .. SETTLE
      /\ Excess[0] \in Nat /\ Excess[1] = (ALPHA * Excess[0]) \div ALPHA_OF
      /\ 2 * HALF * Weight <= (ALPHA_OF - 1) + Excess[0]
  BY ExcessShrinks, Weights
<1>4. Weight * off <= ALPHA_OF * turn + (ALPHA_OF - 1) + Excess[0]
  <2> HIDE DEF off
  <2>1. Weight * off <= Weight * (2 * HALF)
    BY <1>2, Weights, Scaled
  <2>2. Weight * (2 * HALF) = 2 * HALF * Weight /\ ALPHA_OF * turn \in Nat
    BY Weights
  <2>3. Weight * off \in Int /\ 2 * HALF * Weight \in Int
    BY <1>2, Weights
  <2> QED
    BY <1>3, <2>1, <2>2, <2>3, Weights
<1>5. Weight * Magnitude(((ALPHA * pred + Weight * heading) \div ALPHA_OF) - heading)
        <= ALPHA * turn + (ALPHA_OF - 1) + ((ALPHA * Excess[0]) \div ALPHA_OF)
  BY <1>1, <1>3, <1>4, Weights, BlendContracts
<1>6. ALPHA * turn + (ALPHA_OF - 1) = Slack(turn)
  BY Weights DEF Slack
<1> QED
  BY <1>3, <1>5, <1>6

\* Another update with it leaves at most the next one.
LEMMA NextMeeting ==
  ASSUME NEW yaw \in Angles, NEW heading \in Angles, NEW n \in 1 .. SETTLE,
         NEW turn \in Nat, NEW turned \in Int, NEW far \in Nat,
         Magnitude(turned) <= far, turn <= far,
         Weight * Magnitude(yaw - heading) <= Slack(turn) + Excess[n]
  PROVE  Weight * Magnitude(
             ((ALPHA * (yaw + turned) + Weight * heading) \div ALPHA_OF) - heading)
           <= Slack(far) + Excess[Lower(n + 1, SETTLE)]
<1> DEFINE pred == yaw + turned
           off  == Magnitude(yaw - heading)
           off2 == Magnitude(pred - heading)
<1>1. yaw \in Int /\ heading \in Int /\ pred \in Int
  BY Weights DEF Angles
<1>2. off \in Nat /\ off2 \in Nat /\ off2 <= off + far
  BY <1>1 DEF Magnitude
<1>3. Excess[n] \in Nat
  BY ExcessShrinks, Weights
<1>4. Weight * off2 <= ALPHA_OF * far + (ALPHA_OF - 1) + Excess[n]
  <2>1. Weight * off <= ALPHA * turn + ALPHA_OF - 1 + Excess[n]
    BY DEF Slack
  <2> HIDE DEF off, off2
  <2>2. Weight * off2 <= Weight * (off + far)
    BY <1>2, Weights, Scaled
  <2>3. Weight * (off + far) = Weight * off + Weight * far
    BY <1>2, Weights
  <2>4. ALPHA * turn <= ALPHA * far
    BY Weights, Scaled
  <2>5. ALPHA * far + Weight * far = ALPHA_OF * far
    BY Weights
  <2>6. /\ Weight * off \in Int /\ Weight * off2 \in Int /\ Weight * far \in Int
        /\ ALPHA * turn \in Int /\ ALPHA * far \in Int /\ ALPHA_OF * far \in Int
    BY <1>2, Weights
  <2> QED
    BY <1>3, <2>1, <2>2, <2>3, <2>4, <2>5, <2>6, Weights
<1>5. Weight * Magnitude(((ALPHA * pred + Weight * heading) \div ALPHA_OF) - heading)
        <= ALPHA * far + (ALPHA_OF - 1) + ((ALPHA * Excess[n]) \div ALPHA_OF)
  <2> HIDE DEF pred
  <2> QED
    BY <1>1, <1>3, <1>4, Weights, BlendContracts
<1>6. (ALPHA * Excess[n]) \div ALPHA_OF = Excess[Lower(n + 1, SETTLE)]
  <2>1. CASE n = SETTLE
    <3>1. Lower(n + 1, SETTLE) = SETTLE /\ Excess[n] = 0 /\ Excess[SETTLE] = 0
      BY <2>1, ExcessShrinks, Weights DEF Lower
    <3>2. ALPHA * 0 = 0 /\ 0 \div ALPHA_OF = 0
      BY Weights
    <3> QED
      BY <3>1, <3>2
  <2>2. CASE n # SETTLE
    <3>1. Lower(n + 1, SETTLE) = n + 1 /\ n + 1 \in 1 .. SETTLE /\ (n + 1) - 1 = n
      BY <2>2, Weights DEF Lower
    <3> QED
      BY <3>1, ExcessShrinks
  <2> QED
    BY <2>1, <2>2
<1>7. ALPHA * far + (ALPHA_OF - 1) = Slack(far)
  BY Weights DEF Slack
<1> QED
  BY <1>5, <1>6, <1>7

-----------------------------------------------------------------------------

LEMMA BlendHolds ==
  ASSUME imu' \in Gyros, now \in Nat, orientation \in Orientations,
         held \in Histories, FieldFits', HeldInv, valid => valid', BlendYaw
  PROVE  HeldInv'
<1> DEFINE heading == HeadingOf[mag']
           pred    == Normalized(orientation.yaw_rad + Turned)
           size    == Magnitude(Turned)
<1>1. orientation.yaw_rad \in Angles /\ held.turn \in Nat /\ held.times \in 0 .. SETTLE
  BY DEF Orientations, Histories
<1>2. Turned \in Int /\ size \in Nat
  BY TurnIsInt
<1>3. CASE ~valid'
  <2>1. held' = held
    BY <1>3 DEF BlendYaw, MeetHeading
  <2>2. held.times = 0
    BY <1>1, <1>3, Weights DEF HeldInv
  <2> QED
    BY <2>1, <2>2 DEF HeldInv
<1>4. CASE valid'
  <2>1. heading \in Angles
    BY <1>4, YawAssumption DEF FieldFits
  <2>2. pred \in Angles
    <3>1. orientation.yaw_rad + Turned \in Int
      BY <1>1, <1>2, Weights DEF Angles
    <3> QED
      BY <3>1, NormalizedIsAngle
  <2> DEFINE b == (ALPHA * pred + Weight * heading) \div ALPHA_OF
  <2>3. orientation'.initialized /\ orientation'.yaw_rad = Blended(pred, heading)
    BY <1>4 DEF BlendYaw
  <2>4. Blended(pred, heading) = b /\ Pulled(b, heading)
    BY <2>1, <2>2, BlendIsPulled
  <2>5. orientation'.yaw_rad = b
    BY <2>3, <2>4
  <2>6. CASE held.times > 0 /\ held.heading = heading
    <3> DEFINE run == Lower(held.times + 1, SETTLE)
               far == Greater(held.turn, size)
    <3>1. held' = [held EXCEPT !.times = run, !.turn = far]
      BY <1>4, <2>6 DEF BlendYaw, MeetHeading
    <3>2. held'.times = run /\ held'.turn = far /\ held'.heading = heading
      BY <2>6, <3>1 DEF Histories
    <3>3. /\ far \in Nat /\ size <= far /\ held.turn <= far
          /\ held.times \in 1 .. SETTLE
      BY <1>1, <1>2, <2>6, Weights DEF Greater
    <3>4. ASSUME Gentle(heading, far)
          PROVE  Weight * Magnitude(b - heading) <= Slack(far) + Excess[run]
      <4>1. Gentle(heading, held.turn)
        <5>1. Magnitude(heading) \in Nat
          BY <2>1, Weights, MagnitudeBounds DEF Angles
        <5>2. ALPHA * held.turn <= ALPHA * far
          BY <1>1, <3>3, Weights, Scaled
        <5>3. ALPHA * held.turn \in Int /\ ALPHA * far \in Int
          BY <1>1, <3>3, Weights
        <5> HIDE DEF heading, far
        <5> QED
          BY <1>1, <3>3, <3>4, <5>1, <5>2, <5>3, Weights DEF Gentle, Slack
      <4>2. /\ Pulled(orientation.yaw_rad, heading)
            /\ Weight * Magnitude(orientation.yaw_rad - heading)
                 <= Slack(held.turn) + Excess[held.times]
        BY <2>6, <4>1 DEF HeldInv
      <4>3. pred = orientation.yaw_rad + Turned
        <5> HIDE DEF heading, far
        <5> QED
          BY <1>1, <1>2, <2>1, <3>3, <3>4, <4>2, GentleStaysOff
      <4>4. Weight * Magnitude(
                ((ALPHA * (orientation.yaw_rad + Turned) + Weight * heading) \div ALPHA_OF)
                  - heading)
              <= Slack(far) + Excess[Lower(held.times + 1, SETTLE)]
        <5> HIDE DEF heading, far
        <5> QED
          BY <1>1, <1>2, <2>1, <3>3, <4>2, NextMeeting
      <4> QED
        BY <4>3, <4>4
    <3> HIDE DEF b, run, far, heading
    <3> QED
      BY <1>4, <2>3, <2>4, <2>5, <3>2, <3>4 DEF HeldInv
  <2>7. CASE ~(held.times > 0 /\ held.heading = heading)
    <3>1. held' = [times |-> 1, heading |-> heading, turn |-> size]
      BY <1>4, <2>7 DEF BlendYaw, MeetHeading
    <3>2. held'.times = 1 /\ held'.turn = size /\ held'.heading = heading
      BY <3>1
    <3>3. Weight * Magnitude(b - heading) <= Slack(size) + Excess[1]
      <4> HIDE DEF heading, pred, size
      <4> QED
        BY <1>2, <2>1, <2>2, FirstMeeting
    <3> HIDE DEF b, heading, size
    <3> QED
      BY <1>4, <2>3, <2>4, <2>5, <3>2, <3>3 DEF HeldInv
  <2> QED
    BY <2>6, <2>7
<1> QED
  BY <1>3, <1>4

LEMMA HeldHolds ==
  ASSUME YawInv, HeldInv, [LoopNext]_loopVars
  PROVE  HeldInv'
<1>1. CASE SensorCalls
  <2>1. now \in Nat /\ now' = now
    BY <1>1 DEF YawInv, IInv, TypeOK, SensorCalls
  <2>2. FieldFits' /\ (valid => valid')
    <3>1. FieldFits'
      BY <1>1, <2>1, ReadCompassHolds DEF YawInv, SensorCalls
    <3>2. valid => valid'
      BY <1>1 DEF SensorCalls, ReadCompass, ReadCompassData, compassVars
    <3> QED
      BY <3>1, <3>2
  <2>3. imu' \in Gyros
    BY <1>1, <2>1, ReadImuHolds DEF YawInv, YawTypeOK, Gyros, SensorCalls
  <2>4. orientation \in Orientations /\ held \in Histories
    BY DEF YawInv, YawTypeOK, Orientations, Histories
  <2>5. CASE ThereIsNoSensor
    BY <2>2, <2>5 DEF ThereIsNoSensor, HeldInv
  <2>6. CASE InitializeYaw
    BY <2>2, <2>4, <2>6, Weights DEF InitializeYaw, HeldInv, Histories
  <2>7. CASE ClockIsNotAhead
    BY <2>2, <2>7 DEF ClockIsNotAhead, HeldInv
  <2>8. CASE BlendYaw
    BY <2>1, <2>2, <2>3, <2>4, <2>8, BlendHolds
  <2> QED
    BY <1>1, <2>5, <2>6, <2>7, <2>8 DEF SensorCalls, UpdateYawEstimate
<1>2. CASE \E ms \in 1 .. MaxPassMs : NextPass(ms)
  BY <1>2 DEF NextPass, Pass, yawVars, compassVars, HeldInv
<1>3. CASE Calibrate
  BY <1>3 DEF Calibrate, StartMagCalibration, FinishMagCalibration, yawVars,
              compassVars, HeldInv
<1>4. CASE UNCHANGED loopVars
  BY <1>4 DEF loopVars, vars, yawVars, compassVars, HeldInv
<1> QED
  BY <1>1, <1>2, <1>3, <1>4 DEF LoopNext

\* For every weight of the filter, every circle and every rate: after as many
\* updates with one heading as SettleAssumption asks for, the estimate is
\* pinned to that heading, over the seam at half a turn too.
THEOREM HeadingPins == LoopSpec => []HeldHeadingPins
<1>1. LoopInit => HeldInv
  BY DEF LoopInit, HeldInv
<1>2. YawInv /\ HeldInv => HeldHeadingPins
  <2> SUFFICES ASSUME YawInv, HeldInv, held.times = SETTLE,
                      Gentle(held.heading, held.turn)
               PROVE  Weight * Magnitude(orientation.yaw_rad - held.heading)
                        <= Slack(held.turn)
    BY DEF HeldHeadingPins, Weight, Slack, Gentle
  <2>1. Weight * Magnitude(orientation.yaw_rad - held.heading)
          <= Slack(held.turn) + Excess[SETTLE]
    BY Weights DEF HeldInv
  <2>2. Slack(held.turn) \in Int
    <3>1. held.turn \in Nat
      BY DEF YawInv, YawTypeOK
    <3>2. ALPHA * held.turn \in Int
      BY <3>1, Weights
    <3> QED
      BY <3>2, Weights DEF Slack
  <2> QED
    BY <2>1, <2>2, ExcessShrinks
<1>3. YawInv /\ HeldInv /\ [LoopNext]_loopVars => HeldInv'
  BY HeldHolds
<1> QED
  BY <1>1, <1>2, <1>3, YawInductive, PTL DEF LoopSpec

=============================================================================
