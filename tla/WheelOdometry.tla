--------------------------- MODULE WheelOdometry ---------------------------
(***************************************************************************)
(* One wheel's speed measurement: the encoder interrupt counts edges into  *)
(* an int32 at any moment (firmware/src/encoders.cpp), the control step    *)
(* takes the difference since its last snapshot, drops it when it is more  *)
(* than the wheel can do in dt, and estimates the speed over a window      *)
(* (firmware/src/odometry.cpp).  The other wheel's code is the same.       *)
(*                                                                         *)
(* dt is the difference of two `now`s, but the counts are read later, when *)
(* the control step runs: `lag` is that delay, as in ControlLoop, and the  *)
(* edges of the delay belong to the next dt.                               *)
(*                                                                         *)
(* Units.  Time in ms, travel in encoder counts, speed in counts per ms    *)
(* times SCALE, rounded to the nearest integer.                            *)
(***************************************************************************)
EXTENDS Integers

CONSTANTS
  CONTROL_PERIOD_MS, RPM_ESTIMATION_WINDOW_MS,
  MAX_COUNTS,     \* MAX_PLAUSIBLE_RPM, in counts per ms
  RPM_NOISE_EPS,
  SCALE,
  TO_CONTROL_MS,  \* longest time from `now` to the control step
  PASS_MS,        \* longest pass of loop()
  HALF            \* 2^31: the counter's values are -HALF .. HALF - 1

ASSUME SpeedAssumption ==
  /\ CONTROL_PERIOD_MS \in Nat \ {0}
  /\ RPM_ESTIMATION_WINDOW_MS \in Nat
  /\ MAX_COUNTS \in Nat \ {0}
  /\ RPM_NOISE_EPS \in Nat
  /\ SCALE \in Nat \ {0}
  /\ TO_CONTROL_MS \in Nat
  /\ PASS_MS \in Nat /\ TO_CONTROL_MS <= PASS_MS
  /\ HALF \in Nat

\* The longest time between two snapshots (ControlLoop's CONTROL_GAP_MS).
GAP_MS == (CONTROL_PERIOD_MS - 1) + PASS_MS + TO_CONTROL_MS

\* The counter cannot go half way round between two snapshots.
ASSUME CounterAssumption == MAX_COUNTS * GAP_MS < HALF

VARIABLES
  turning,    \* edges per ms the wheel is giving now, signed
  phase,      \* "early" before the control step of this pass, "late" after it
  lag,        \* millis() - now
  age,        \* millis() - last_control_ms
  count,      \* g_m1_encoder_count
  prev,       \* prev_m1_count
  accum,      \* accum_m1_delta
  accum_dt,   \* accum_dt_ms
  speed,      \* g_m1_measured_rpm
  unread,     \* history: edges since the last snapshot
  snap_lag,   \* history: lag of the last control step
  window_lag  \* history: lag of the control step that opened the window

loopVars == <<phase, lag, age>>
history  == <<unread, snap_lag, window_lag>>
measured == <<prev, accum, accum_dt, speed>>
vars == <<turning, loopVars, count, measured, history>>

Abs(x) == IF x >= 0 THEN x ELSE -x

\* int32 arithmetic, as the build does it, for one addition or subtraction.
\* Variants: an overflow that saturates, and a wider counter.
Widen(x)    == x
Saturate(x) == IF x >= HALF THEN HALF - 1 ELSE IF x < -HALF THEN -HALF ELSE x
Wrap(x)     == IF x >= HALF THEN x - 2 * HALF
               ELSE IF x < -HALF THEN x + 2 * HALF ELSE x

\* Nearest integer to a / b, b > 0.
Rounded(a, b) == IF a >= 0 THEN (2 * a + b) \div (2 * b)
                 ELSE -((b - 2 * a) \div (2 * b))

MAX_SPEED == MAX_COUNTS * SCALE

Init ==
  /\ turning = 0
  /\ phase = "early"
  /\ lag = 0
  /\ age = 0
  /\ count \in {0, HALF - 1}   \* at boot, and after a long way
  /\ prev = count
  /\ accum = 0
  /\ accum_dt = 0
  /\ speed = 0
  /\ unread = 0
  /\ snap_lag = 0
  /\ window_lag = 0

-----------------------------------------------------------------------------

\* The wheel changes its speed, within what MAX_PLAUSIBLE_RPM allows.
TurnAt(n) ==
  /\ turning' = n
  /\ UNCHANGED <<loopVars, count, measured, history>>

\* A millisecond passes, and the interrupt handler counts its edges: a whole
\* number of them, so that the speed of a window is never one edge above the
\* wheel's.
Elapse ==
  /\ lag < IF phase = "early" THEN TO_CONTROL_MS ELSE PASS_MS
  /\ lag' = lag + 1
  /\ age' = age + 1
  /\ count' = Wrap(count + turning)
  /\ unread' = unread + turning
  /\ UNCHANGED <<turning, phase, measured, snap_lag, window_lag>>

BeginPass ==
  /\ phase = "late"
  /\ phase' = "early"
  /\ lag' = 0
  /\ UNCHANGED <<turning, age, count, measured, history>>

SkipControlStep ==
  /\ phase = "early"
  /\ age - lag < CONTROL_PERIOD_MS
  /\ phase' = "late"
  /\ UNCHANGED <<turning, lag, age, count, measured, history>>

\* The control step's inputs: dt, and the counts read with interrupts off.
Dt    == age - lag
Delta == Wrap(count - prev)

\* max_delta_counts: half as much again as the wheel can do, and one.
\* Variant: exactly what it can do.
TightMaxDelta == MAX_COUNTS * Dt
MaxDelta      == (3 * MAX_COUNTS * Dt) \div 2 + 1

Accepted == IF Abs(Delta) > MaxDelta THEN 0 ELSE Delta

\* The window's estimate.
WindowDone == accum_dt + Dt >= RPM_ESTIMATION_WINDOW_MS
Raw        == Rounded((accum + Accepted) * SCALE, accum_dt + Dt)
Plausible  == IF Abs(Raw) > MAX_SPEED THEN 0 ELSE Raw
Filtered   == IF WindowDone THEN Rounded(3 * Plausible + 7 * speed, 10) ELSE speed

\* What the next window starts from.
NextAccum == IF WindowDone THEN 0 ELSE accum + Accepted

\* Variant: no dead zone around zero.
NoDeadZone(s) == s
DeadZone(s)   == IF Abs(s) < RPM_NOISE_EPS THEN 0 ELSE s

RunControlStep ==
  /\ phase = "early"
  /\ Dt >= CONTROL_PERIOD_MS
  /\ phase' = "late"
  /\ age' = lag
  /\ prev' = count
  /\ accum' = NextAccum
  /\ accum_dt' = IF WindowDone THEN 0 ELSE accum_dt + Dt
  /\ speed' = DeadZone(Filtered)
  /\ unread' = 0
  /\ snap_lag' = lag
  /\ window_lag' = IF WindowDone THEN lag ELSE window_lag
  /\ UNCHANGED <<turning, lag, count>>

LoopStep == BeginPass \/ SkipControlStep \/ RunControlStep

Next ==
  \/ \E n \in (-MAX_COUNTS) .. MAX_COUNTS : TurnAt(n)
  \/ Elapse
  \/ LoopStep

Spec == Init /\ [][Next]_vars

\* The loop task runs, and time diverges.
FairSpec == Spec /\ WF_vars(LoopStep) /\ SF_vars(Elapse)

-----------------------------------------------------------------------------

TypeOK ==
  /\ turning \in (-MAX_COUNTS) .. MAX_COUNTS
  /\ phase \in {"early", "late"}
  /\ lag \in 0 .. PASS_MS
  /\ age \in 0 .. GAP_MS
  /\ count \in (-HALF) .. (HALF - 1)
  /\ prev \in (-HALF) .. (HALF - 1)
  /\ accum \in Int
  /\ accum_dt \in Nat
  /\ speed \in (-MAX_SPEED) .. MAX_SPEED
  /\ unread \in Int
  /\ snap_lag \in 0 .. TO_CONTROL_MS
  /\ window_lag \in 0 .. TO_CONTROL_MS

\* The difference of the two snapshots is the number of edges between them,
\* also when the int32 counter has wrapped in between.
DeltaIsTravel == Delta = unread

DropsOnlyWhenLate   == Accepted # Delta => 2 * (lag - snap_lag) > Dt
ZeroesOnlyWhenLate  == WindowDone /\ Plausible # Raw => lag > window_lag

\* A wheel within MAX_PLAUSIBLE_RPM loses counts to the plausibility check
\* only when this control step ran later after its `now` than the last one
\* did, by more than half its dt; and a whole window is zeroed only when the
\* step that closes it ran later after its `now` than the one that opened it.
DiscardsOnlyWhenLate ==
  [][RunControlStep => DropsOnlyWhenLate /\ ZeroesOnlyWhenLate]_vars

\* A wheel that stands still is reported as standing still: the filter's
\* tail does not survive the dead zone.
StandstillSeen == <>[](turning = 0) => <>[](speed = 0)

=============================================================================
