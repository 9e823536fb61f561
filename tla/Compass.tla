------------------------------ MODULE Compass ------------------------------
(***************************************************************************)
(* The magnetometer and its calibration (firmware/src/imu.cpp): the        *)
(* periodic reading, the offsets that correct it, the calibration that     *)
(* collects the extremes of the raw readings while it is active, and the   *)
(* counter behind the warning of a compass that no longer changes.         *)
(*                                                                         *)
(* Data.  One axis; the code treats the three alike.  A reading is an      *)
(* integer, and whatever carries an offset is twice as large, so that half *)
(* of a sum is an integer.  A reading that fails (only the QMC5883's can)  *)
(* changes nothing, so it is a pass without a reading.  How long a         *)
(* calibration lasts and who ends it is ControlLoop's; here it may end in  *)
(* any pass.                                                               *)
(***************************************************************************)
EXTENDS Integers

CONSTANTS
  Readings,                \* what the sensor may deliver
  COMPASS_READ_PERIOD_MS,
  MaxPassMs,               \* longest pass of loop()
  MaxTimeMs                \* bound: length of a behaviour

ASSUME ReadingAssumption ==
  /\ Readings \subseteq Int
  /\ COMPASS_READ_PERIOD_MS \in Nat \ {0}
  /\ MaxPassMs \in Nat \ {0}
  /\ MaxTimeMs \in Nat

VARIABLES
  now,          \* now, the time the pass of loop() began
  last_read_ms, \* g_compass_data.last_read_ms, 0 before the first reading
  mag,          \* g_compass_data.mag_x, doubled
  valid,        \* g_compass_data_valid
  stale_ms,     \* g_compass_stale_ms
  cal,          \* g_mag_calibration
  samples,      \* history: raw readings taken since the calibration began
  changed_at    \* history: time of the first of the equal readings

compassVars == <<last_read_ms, mag, valid, stale_ms, changed_at>>
calVars     == <<cal, samples>>
vars == <<now, compassVars, calVars>>

Init ==  \* after setup(), with the offset of an earlier calibration
  /\ now = COMPASS_READ_PERIOD_MS
  /\ last_read_ms = 0
  /\ mag = 0
  /\ valid = FALSE
  /\ stale_ms = 0
  /\ \E lo, hi \in Readings, done \in BOOLEAN :
       /\ cal = [active |-> FALSE, done |-> done, has_samples |-> FALSE,
                 min |-> 0, max |-> 0, offset |-> lo + hi]
       /\ samples = {lo, hi}
  /\ changed_at = 0

-----------------------------------------------------------------------------

Pass(ms) ==
  /\ now + ms <= MaxTimeMs
  /\ now' = now + ms
  /\ UNCHANGED <<compassVars, calVars>>

Lower(a, b)   == IF b < a THEN b ELSE a
Greater(a, b) == IF b > a THEN b ELSE a

\* What a raw reading adds to the calibration.
Collected(raw) ==
  IF ~cal.active THEN cal
  ELSE IF cal.has_samples
    THEN [cal EXCEPT !.min = Lower(@, raw), !.max = Greater(@, raw)]
    ELSE [cal EXCEPT !.min = raw, !.max = raw, !.has_samples = TRUE]

\* The time an unchanged reading adds.  Variant: the nominal period.
UnchangedPeriod == IF last_read_ms > 0 THEN COMPASS_READ_PERIOD_MS ELSE 0
UnchangedFor    == IF last_read_ms > 0 THEN now - last_read_ms ELSE 0

\* When a reading was taken.  Variant: millis() after it, not the pass's now.
StampAfterwards == now + 1
Stamp           == now

\* The reading that is published.
Corrected(raw) == 2 * raw - cal.offset

\* The register values are integers and the offsets finite, so the exit for a
\* field that is nan or inf cannot be taken.
ReadCompassData(raw) ==
  /\ now - last_read_ms >= COMPASS_READ_PERIOD_MS
  /\ cal' = Collected(raw)
  /\ samples' = IF cal.active THEN samples \cup {raw} ELSE samples
  /\ mag' = Corrected(raw)
  /\ valid' = TRUE
  /\ last_read_ms' = Stamp
  /\ stale_ms' = IF mag' = mag THEN stale_ms + UnchangedFor ELSE 0
  /\ changed_at' = IF mag' = mag /\ last_read_ms > 0 THEN changed_at ELSE now
  /\ UNCHANGED now

\* What a start resets.  Variant: the samples of the last one are kept.
StartedOver   == [cal EXCEPT !.active = TRUE, !.done = FALSE]
StartedAfresh == [cal EXCEPT !.active = TRUE, !.done = FALSE, !.has_samples = FALSE]

StartMagCalibration ==
  /\ cal' = StartedAfresh
  /\ samples' = {}
  /\ UNCHANGED <<now, compassVars>>

FinishMagCalibration ==
  /\ cal.active
  /\ cal' = IF cal.has_samples
              THEN [cal EXCEPT !.active = FALSE, !.done = TRUE,
                               !.offset = cal.min + cal.max]
              ELSE [cal EXCEPT !.active = FALSE, !.done = FALSE]
  /\ UNCHANGED <<now, compassVars, samples>>

Next ==
  \/ \E ms \in 1 .. MaxPassMs : Pass(ms)
  \/ \E raw \in Readings : ReadCompassData(raw)
  \/ StartMagCalibration
  \/ FinishMagCalibration

Spec == Init /\ [][Next]_vars

-----------------------------------------------------------------------------

\* Every variable holds a value of its kind; times are not in the future.
TypeOK ==
  /\ now \in Nat
  /\ last_read_ms \in 0 .. now
  /\ changed_at \in 0 .. last_read_ms
  /\ mag \in Int
  /\ valid \in BOOLEAN
  /\ stale_ms \in Nat
  /\ cal \in [active : BOOLEAN, done : BOOLEAN, has_samples : BOOLEAN,
              min : Int, max : Int, offset : Int]
  /\ samples \subseteq Readings

\* A finished calibration centres the raw readings taken since its own start,
\* restarts included, whatever the offset was before and whatever earlier
\* calibrations saw.
OffsetCentres ==
  cal.done =>
    \E lo, hi \in samples :
      /\ cal.offset = lo + hi
      /\ \A s \in samples : lo <= s /\ s <= hi

\* The counter behind the "compass unchanged" warning is real time: it spans
\* the equal readings from the first to the last, however late the passes
\* took them and however many readings failed in between.
StaleIsElapsed == last_read_ms > 0 => stale_ms = last_read_ms - changed_at

=============================================================================
