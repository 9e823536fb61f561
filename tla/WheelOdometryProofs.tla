------------------------ MODULE WheelOdometryProofs ------------------------
(***************************************************************************)
(* The speed measurement for a counter of any width, any periods and any   *)
(* wheel within MAX_PLAUSIBLE_RPM.  The argument: the edges since a        *)
(* snapshot are at most those of the time since it (TravelBound), which is *)
(* the pass's dt and the difference of two lags; GAP_MS bounds that time   *)
(* (PassBound), so the counter is at most one turn away from what has been *)
(* travelled (CounterTurns).  WindowBound adds the same up over a window.  *)
(***************************************************************************)
EXTENDS WheelOdometry, TLAPS

\* What the wheel can travel in that time.
Travel(ms) == MAX_COUNTS * ms

PassBound ==
  /\ lag <= age /\ snap_lag <= age
  /\ phase = "early" => /\ lag <= TO_CONTROL_MS
                        /\ age - lag <= CONTROL_PERIOD_MS - 1 + PASS_MS
  /\ phase = "late"  => age - lag <= CONTROL_PERIOD_MS - 1

TravelBound ==
  /\ -Travel(age - snap_lag) <= unread
  /\ unread <= Travel(age - snap_lag)

CounterTurns == count - prev \in {unread, unread - 2 * HALF, unread + 2 * HALF}

WindowBound ==
  /\ -Travel(accum_dt + snap_lag - window_lag) <= accum
  /\ accum <= Travel(accum_dt + snap_lag - window_lag)

SpeedInv ==
  /\ TypeOK
  /\ PassBound
  /\ TravelBound
  /\ CounterTurns
  /\ WindowBound

-----------------------------------------------------------------------------

LEMMA TravelFacts ==
  ASSUME NEW a \in Int, NEW b \in Int
  PROVE  /\ Travel(a) \in Int
         /\ Travel(a + b) = Travel(a) + Travel(b)
         /\ a <= b => Travel(a) <= Travel(b)
         /\ Travel(0) = 0 /\ Travel(1) = MAX_COUNTS
<1>1. MAX_COUNTS \in Nat /\ MAX_COUNTS \in Int
  BY SpeedAssumption
<1>2. MAX_COUNTS * a \in Int /\ MAX_COUNTS * b \in Int
  BY <1>1
<1>3. MAX_COUNTS * (a + b) = MAX_COUNTS * a + MAX_COUNTS * b
  BY <1>1
<1>4. ASSUME a <= b PROVE MAX_COUNTS * a <= MAX_COUNTS * b
  <2>1. MAX_COUNTS * (b - a) >= 0
    BY <1>1, <1>4
  <2>2. MAX_COUNTS * (b - a) = MAX_COUNTS * b - MAX_COUNTS * a
    BY <1>1
  <2> QED
    BY <1>2, <2>1, <2>2
<1>5. MAX_COUNTS * 0 = 0 /\ MAX_COUNTS * 1 = MAX_COUNTS
  BY <1>1
<1> QED
  BY <1>2, <1>3, <1>4, <1>5 DEF Travel

LEMMA Division ==
  ASSUME NEW x \in Int, NEW k \in Nat \ {0}
  PROVE  x \div k \in Int /\ k * (x \div k) <= x /\ x < k * (x \div k) + k
OBVIOUS

\* A quotient of what is travelled, rounded, is no more than the speed.
LEMMA RoundedIsInt ==
  ASSUME NEW a \in Int, NEW b \in Nat \ {0}
  PROVE  Rounded(a, b) \in Int
<1>1. 2 * b \in Nat \ {0} /\ 2 * a + b \in Int /\ b - 2 * a \in Int
  OBVIOUS
<1>2. (2 * a + b) \div (2 * b) \in Int /\ (b - 2 * a) \div (2 * b) \in Int
  BY <1>1, Division
<1> QED
  BY <1>2 DEF Rounded

LEMMA QuotientBound ==
  ASSUME NEW c \in Int, NEW b \in Nat \ {0}, NEW m \in Nat, c <= m * b
  PROVE  (2 * c + b) \div (2 * b) <= m
<1> DEFINE k == 2 * b
           q == (2 * c + b) \div k
<1>1. k \in Nat \ {0} /\ 2 * c + b \in Int
  OBVIOUS
<1>2. q \in Int /\ k * q <= 2 * c + b
  BY <1>1, Division
<1>3. SUFFICES ASSUME q >= m + 1 PROVE FALSE
  BY <1>2
<1>4. k * (m + 1) <= k * q
  <2> HIDE DEF k, q
  <2>1. k * (q - (m + 1)) >= 0
    BY <1>1, <1>2, <1>3
  <2>2. k * (q - (m + 1)) = k * q - k * (m + 1)
    BY <1>1, <1>2
  <2>3. k * q \in Int /\ k * (m + 1) \in Int
    BY <1>1, <1>2
  <2> QED
    BY <2>1, <2>2, <2>3
<1>5. k * (m + 1) = 2 * (m * b) + 2 * b
  OBVIOUS
<1>6. m * b \in Int /\ k * q \in Int /\ k * (m + 1) \in Int
  BY <1>1, <1>2
<1> HIDE DEF q
<1>7. k * (m + 1) <= 2 * c + b
  BY <1>1, <1>2, <1>4, <1>6
<1> HIDE DEF k
<1> QED
  BY <1>5, <1>6, <1>7

LEMMA RoundedBound ==
  ASSUME NEW a \in Int, NEW b \in Nat \ {0}, NEW m \in Nat,
         a <= m * b, -a <= m * b
  PROVE  -m <= Rounded(a, b) /\ Rounded(a, b) <= m
<1>1. Rounded(a, b) \in Int
  BY RoundedIsInt
<1>2. CASE a >= 0
  <2>1. Rounded(a, b) = (2 * a + b) \div (2 * b)
    BY <1>2 DEF Rounded
  <2>2. Rounded(a, b) <= m
    BY <2>1, QuotientBound
  <2>3. Rounded(a, b) >= 0
    BY <1>2, <2>1
  <2> QED
    BY <1>1, <2>2, <2>3
<1>3. CASE a < 0
  <2>1. (2 * (-a) + b) \div (2 * b) <= m
    BY QuotientBound
  <2>2. b - 2 * a = 2 * (-a) + b
    OBVIOUS
  <2>3. Rounded(a, b) = -((2 * (-a) + b) \div (2 * b))
    BY <1>3, <2>2 DEF Rounded
  <2>4. (2 * (-a) + b) \div (2 * b) >= 0 /\ (2 * (-a) + b) \div (2 * b) \in Int
    BY <1>3
  <2> QED
    BY <2>1, <2>3, <2>4
<1> QED
  BY <1>2, <1>3

-----------------------------------------------------------------------------

LEMMA Constants ==
  /\ CONTROL_PERIOD_MS \in Nat /\ CONTROL_PERIOD_MS >= 1
  /\ PASS_MS \in Nat /\ TO_CONTROL_MS \in Nat /\ TO_CONTROL_MS <= PASS_MS
  /\ GAP_MS = (CONTROL_PERIOD_MS - 1) + PASS_MS + TO_CONTROL_MS
  /\ HALF \in Nat /\ Travel(GAP_MS) < HALF /\ HALF >= 1
  /\ MAX_COUNTS \in Nat /\ MAX_SPEED \in Nat
<1>1. /\ CONTROL_PERIOD_MS \in Nat /\ CONTROL_PERIOD_MS >= 1
      /\ PASS_MS \in Nat /\ TO_CONTROL_MS \in Nat /\ TO_CONTROL_MS <= PASS_MS
      /\ HALF \in Nat /\ MAX_COUNTS \in Nat
  BY SpeedAssumption
<1>2. GAP_MS = (CONTROL_PERIOD_MS - 1) + PASS_MS + TO_CONTROL_MS
  BY DEF GAP_MS
<1>3. 0 <= Travel(GAP_MS) /\ Travel(GAP_MS) \in Int /\ Travel(GAP_MS) < HALF
  <2>1. 0 \in Int /\ GAP_MS \in Int /\ 0 <= GAP_MS
    BY <1>1, <1>2
  <2>2. Travel(0) = 0 /\ Travel(0) <= Travel(GAP_MS) /\ Travel(GAP_MS) \in Int
    BY <2>1, TravelFacts
  <2>3. Travel(GAP_MS) < HALF
    BY CounterAssumption DEF Travel
  <2> QED
    BY <2>2, <2>3
<1>4. MAX_SPEED \in Nat
  BY SpeedAssumption DEF MAX_SPEED
<1> QED
  BY <1>1, <1>2, <1>3, <1>4

LEMMA WrapFacts ==
  ASSUME NEW x \in (-3 * HALF) .. (3 * HALF - 1)
  PROVE  /\ Wrap(x) \in {x, x - 2 * HALF, x + 2 * HALF}
         /\ Wrap(x) \in (-HALF) .. (HALF - 1)
<1> HALF \in Nat /\ HALF >= 1
  BY Constants
<1> QED
  BY DEF Wrap

\* Less than half a turn is travelled between two snapshots.
LEMMA ShortTravel ==
  ASSUME NEW after \in Int, NEW from \in Nat, NEW edges \in Int, after <= GAP_MS,
         -Travel(after - from) <= edges, edges <= Travel(after - from)
  PROVE  -HALF < edges /\ edges < HALF
<1>1. GAP_MS \in Int /\ after - from \in Int /\ after - from <= GAP_MS
  BY Constants
<1>2. /\ Travel(after - from) <= Travel(GAP_MS)
      /\ Travel(after - from) \in Int /\ Travel(GAP_MS) \in Int
  BY <1>1, TravelFacts
<1> QED
  BY <1>2, Constants

LEMMA TravelIsDelta ==
  ASSUME SpeedInv
  PROVE  DeltaIsTravel
<1>1. -HALF < unread /\ unread < HALF /\ unread \in Int
  <2>1. age \in Int /\ age <= GAP_MS /\ snap_lag \in Nat /\ unread \in Int
    BY Constants DEF SpeedInv, TypeOK
  <2> QED
    BY <2>1, ShortTravel DEF SpeedInv, TravelBound
<1>2. HALF \in Nat
  BY Constants
<1>3. count - prev \in {unread, unread - 2 * HALF, unread + 2 * HALF}
  BY DEF SpeedInv, CounterTurns
<1> QED
  BY <1>1, <1>2, <1>3 DEF DeltaIsTravel, Delta, Wrap

LEMMA InitHolds == Init => SpeedInv
<1> SUFFICES ASSUME Init PROVE SpeedInv
  OBVIOUS
<1> USE Constants
<1>1. TypeOK
  <2>1. count \in (-HALF) .. (HALF - 1) /\ prev \in (-HALF) .. (HALF - 1)
    BY DEF Init
  <2>2. /\ turning \in (-MAX_COUNTS) .. MAX_COUNTS /\ phase \in {"early", "late"}
        /\ lag \in 0 .. PASS_MS /\ age \in 0 .. GAP_MS
        /\ accum \in Int /\ accum_dt \in Nat /\ unread \in Int
        /\ speed \in (-MAX_SPEED) .. MAX_SPEED
        /\ snap_lag \in 0 .. TO_CONTROL_MS /\ window_lag \in 0 .. TO_CONTROL_MS
    BY DEF Init
  <2> QED
    BY <2>1, <2>2 DEF TypeOK
<1>2. PassBound
  BY DEF Init, PassBound
<1>3. Travel(0) = 0
  BY TravelFacts
<1>4. TravelBound /\ WindowBound
  BY <1>3 DEF Init, TravelBound, WindowBound
<1>5. CounterTurns
  BY <1>1 DEF Init, CounterTurns, TypeOK
<1> QED
  BY <1>1, <1>2, <1>4, <1>5 DEF SpeedInv

\* A millisecond adds what the wheel travels in it, and the counter goes
\* round at most once more.
LEMMA ElapseHolds ==
  ASSUME SpeedInv, Elapse
  PROVE  SpeedInv'
<1> USE Constants
<1>1. /\ lag < PASS_MS /\ (phase = "early" => lag < TO_CONTROL_MS)
      /\ lag' = lag + 1 /\ age' = age + 1 /\ count' = Wrap(count + turning)
      /\ unread' = unread + turning
      /\ UNCHANGED <<turning, phase, measured, snap_lag, window_lag>>
  BY DEF Elapse, SpeedInv, TypeOK
<1> USE <1>1 DEF measured
<1>2. /\ turning \in Int /\ -MAX_COUNTS <= turning /\ turning <= MAX_COUNTS
      /\ phase \in {"early", "late"}
      /\ lag \in Nat /\ age \in Nat /\ snap_lag \in Nat /\ unread \in Int
      /\ count \in Int /\ -HALF <= count /\ count < HALF
      /\ prev \in Int /\ -HALF <= prev /\ prev < HALF
  BY DEF SpeedInv, TypeOK
<1>3. PassBound'
  BY <1>2 DEF SpeedInv, PassBound
<1>4. TravelBound'
  <2>1. age - snap_lag \in Int /\ 1 \in Int /\ age' - snap_lag' = (age - snap_lag) + 1
    BY <1>2
  <2>2. /\ Travel(age - snap_lag) \in Int
        /\ Travel((age - snap_lag) + 1) = Travel(age - snap_lag) + MAX_COUNTS
    BY <2>1, TravelFacts
  <2>3. /\ -Travel(age - snap_lag) <= unread /\ unread <= Travel(age - snap_lag)
    BY DEF SpeedInv, TravelBound
  <2>4. Travel(age' - snap_lag') = Travel(age - snap_lag) + MAX_COUNTS
    BY <2>1, <2>2
  <2> QED
    BY <1>2, <2>2, <2>3, <2>4 DEF TravelBound
<1>5. MAX_COUNTS < HALF
  <2>1. 1 \in Int /\ GAP_MS \in Int /\ 1 <= GAP_MS
    BY <1>2
  <2>2. Travel(1) = MAX_COUNTS /\ Travel(1) <= Travel(GAP_MS) /\ Travel(GAP_MS) \in Int
    BY <2>1, TravelFacts
  <2> QED
    BY <2>2
<1>6. count' \in (-HALF) .. (HALF - 1)
      /\ count' \in {count + turning, count + turning - 2 * HALF, count + turning + 2 * HALF}
  <2>1. count + turning \in (-3 * HALF) .. (3 * HALF - 1)
    BY <1>2, <1>5
  <2>2. PICK x \in (-3 * HALF) .. (3 * HALF - 1) : x = count + turning
    BY <2>1, Zenon
  <2>3. /\ Wrap(x) \in (-HALF) .. (HALF - 1)
        /\ Wrap(x) \in {x, x - 2 * HALF, x + 2 * HALF}
    BY WrapFacts, Zenon
  <2>4. count' = Wrap(x)
    BY <2>2
  <2>5. count' \in (-HALF) .. (HALF - 1)
    BY <2>3, <2>4, Zenon
  <2>6. count' \in {x, x - 2 * HALF, x + 2 * HALF}
    BY <2>3, <2>4, Zenon
  <2> QED
    BY <1>2, <2>2, <2>5, <2>6
<1>7. TypeOK'
  <2>1. age' \in 0 .. GAP_MS
    BY <1>2, <1>3 DEF PassBound
  <2>2. lag' \in 0 .. PASS_MS /\ unread' \in Int
    BY <1>2
  <2> QED
    BY <1>6, <2>1, <2>2 DEF SpeedInv, TypeOK
<1>8. CounterTurns'
  <2>1. -HALF < unread' /\ unread' < HALF
    <3>1. age + 1 \in Int /\ age + 1 <= GAP_MS /\ unread + turning \in Int
      BY <1>2, <1>7 DEF TypeOK
    <3>2. /\ -Travel((age + 1) - snap_lag) <= unread + turning
          /\ unread + turning <= Travel((age + 1) - snap_lag)
      BY <1>4 DEF TravelBound
    <3> QED
      BY <1>2, <3>1, <3>2, ShortTravel
  <2>2. count - prev \in {unread, unread - 2 * HALF, unread + 2 * HALF}
    BY DEF SpeedInv, CounterTurns
  <2>3. count' - prev \in {unread', unread' - 2 * HALF, unread' + 2 * HALF}
    BY <1>2, <1>6, <2>1, <2>2
  <2> QED
    BY <2>3 DEF CounterTurns
<1>9. WindowBound'
  BY DEF SpeedInv, WindowBound
<1> QED
  BY <1>3, <1>4, <1>7, <1>8, <1>9 DEF SpeedInv

-----------------------------------------------------------------------------

\* The control step's own: dt is a number of ms, the difference it takes is
\* what was travelled, and what it adds to the window is no more than that.
LEMMA StepFacts ==
  ASSUME SpeedInv, RunControlStep
  PROVE  /\ phase = "early" /\ lag \in 0 .. TO_CONTROL_MS
         /\ Dt \in Nat \ {0} /\ Delta = unread
         /\ Delta \in Int /\ Accepted \in Int
         /\ -Travel(age - snap_lag) <= Delta /\ Delta <= Travel(age - snap_lag)
         /\ -Travel(age - snap_lag) <= Accepted /\ Accepted <= Travel(age - snap_lag)
         /\ age - snap_lag = Dt + lag - snap_lag
<1> USE Constants
<1>1. phase = "early" /\ Dt >= CONTROL_PERIOD_MS
  BY DEF RunControlStep
<1>2. /\ lag \in 0 .. TO_CONTROL_MS /\ lag \in Nat /\ age \in Nat /\ snap_lag \in Nat
      /\ snap_lag <= age /\ unread \in Int
  BY <1>1 DEF SpeedInv, TypeOK, PassBound
<1>3. Dt \in Nat \ {0}
  BY <1>1, <1>2 DEF Dt
<1>4. Delta = unread
  BY TravelIsDelta DEF DeltaIsTravel
<1>5. /\ age - snap_lag \in Int /\ 0 \in Int /\ 0 <= age - snap_lag
      /\ age - snap_lag = Dt + lag - snap_lag
  BY <1>2 DEF Dt
<1>6. 0 <= Travel(age - snap_lag) /\ Travel(age - snap_lag) \in Int
  <2>1. /\ Travel(age - snap_lag) \in Int /\ Travel(0) = 0
        /\ Travel(0) <= Travel(age - snap_lag)
    BY <1>5, TravelFacts
  <2> QED
    BY <2>1
<1>7. -Travel(age - snap_lag) <= Delta /\ Delta <= Travel(age - snap_lag)
  BY <1>4 DEF SpeedInv, TravelBound
<1>8. Accepted \in {0, Delta}
  BY DEF Accepted
<1> QED
  BY <1>1, <1>2, <1>3, <1>4, <1>5, <1>6, <1>7, <1>8

\* Together with what the window had before.
LEMMA WindowSum ==
  ASSUME SpeedInv, RunControlStep
  PROVE  LET since == accum_dt + Dt + lag - window_lag
         IN  -Travel(since) <= accum + Accepted /\ accum + Accepted <= Travel(since)
<1> DEFINE before == accum_dt + snap_lag - window_lag
           step   == age - snap_lag
           since  == accum_dt + Dt + lag - window_lag
<1>1. /\ accum_dt \in Int /\ snap_lag \in Int /\ window_lag \in Int /\ accum \in Int
      /\ age \in Int /\ lag \in Int
  BY Constants DEF SpeedInv, TypeOK
<1>2. before \in Int /\ step \in Int /\ since = before + step
  BY <1>1 DEF Dt
<1>3. -Travel(before) <= accum /\ accum <= Travel(before)
  BY DEF SpeedInv, WindowBound
<1>4. Accepted \in Int /\ -Travel(step) <= Accepted /\ Accepted <= Travel(step)
  BY StepFacts
<1> HIDE DEF before, step, since
<1>5. /\ Travel(before) \in Int /\ Travel(step) \in Int
      /\ Travel(since) = Travel(before) + Travel(step)
  BY <1>2, TravelFacts
<1>6. -Travel(since) <= accum + Accepted /\ accum + Accepted <= Travel(since)
  BY <1>1, <1>3, <1>4, <1>5
<1> QED
  BY <1>6 DEF since

\* The filter stays within the fastest speed: its weights add up to one.
LEMMA SpeedIsPlausible ==
  ASSUME SpeedInv, RunControlStep
  PROVE  DeadZone(Filtered) \in (-MAX_SPEED) .. MAX_SPEED
<1> USE Constants
<1>1. speed \in (-MAX_SPEED) .. MAX_SPEED /\ speed \in Int
  BY DEF SpeedInv, TypeOK
<1>2. Plausible \in (-MAX_SPEED) .. MAX_SPEED
  <2>1. Raw \in Int
    <3>1. (accum + Accepted) * SCALE \in Int
      <4>1. accum + Accepted \in Int /\ SCALE \in Int
        BY StepFacts, SpeedAssumption DEF SpeedInv, TypeOK
      <4> QED
        BY <4>1
    <3>2. accum_dt + Dt \in Nat \ {0}
      BY StepFacts DEF SpeedInv, TypeOK
    <3> QED
      BY <3>1, <3>2, RoundedIsInt DEF Raw
  <2> QED
    BY <2>1 DEF Plausible, Abs
<1>3. Filtered \in (-MAX_SPEED) .. MAX_SPEED
  <2>1. CASE ~WindowDone
    BY <1>1, <2>1 DEF Filtered
  <2>2. CASE WindowDone
    <3> DEFINE mix == 3 * Plausible + 7 * speed
    <3>1. mix \in Int /\ mix <= MAX_SPEED * 10 /\ -mix <= MAX_SPEED * 10
      BY <1>1, <1>2
    <3>2. Filtered = Rounded(mix, 10)
      BY <2>2 DEF Filtered
    <3> HIDE DEF mix
    <3>3. Rounded(mix, 10) \in Int
      BY <3>1, RoundedIsInt
    <3>4. -MAX_SPEED <= Rounded(mix, 10) /\ Rounded(mix, 10) <= MAX_SPEED
      BY <3>1, RoundedBound
    <3> QED
      BY <3>2, <3>3, <3>4
  <2> QED
    BY <2>1, <2>2
<1> QED
  BY <1>3 DEF DeadZone

LEMMA RunHolds ==
  ASSUME SpeedInv, RunControlStep
  PROVE  SpeedInv'
<1> USE Constants
<1>1. /\ phase' = "late" /\ age' = lag /\ lag' = lag /\ snap_lag' = lag
      /\ prev' = count /\ count' = count /\ turning' = turning /\ unread' = 0
      /\ accum' = NextAccum /\ speed' = DeadZone(Filtered)
      /\ accum_dt' = IF WindowDone THEN 0 ELSE accum_dt + Dt
      /\ window_lag' = IF WindowDone THEN lag ELSE window_lag
  BY DEF RunControlStep
<1>2. /\ lag \in Int /\ lag \in 0 .. TO_CONTROL_MS /\ lag \in 0 .. PASS_MS /\ lag \in 0 .. GAP_MS
      /\ Dt \in Nat /\ Accepted \in Int
  BY StepFacts
<1>3. /\ accum \in Int /\ accum_dt \in Nat /\ window_lag \in 0 .. TO_CONTROL_MS
      /\ window_lag \in Int /\ count \in Int /\ count \in (-HALF) .. (HALF - 1)
      /\ turning \in (-MAX_COUNTS) .. MAX_COUNTS
  BY DEF SpeedInv, TypeOK
<1>4. accum' \in Int /\ accum_dt' \in Nat /\ window_lag' \in 0 .. TO_CONTROL_MS
  BY <1>1, <1>2, <1>3 DEF NextAccum
<1>5. speed' \in (-MAX_SPEED) .. MAX_SPEED
  BY <1>1, SpeedIsPlausible
<1>6. TypeOK'
  BY <1>1, <1>2, <1>3, <1>4, <1>5 DEF TypeOK
<1>7. PassBound'
  BY <1>1, <1>2 DEF PassBound
<1>8. Travel(0) = 0
  BY TravelFacts
<1>9. TravelBound'
  <2>1. age' - snap_lag' = 0
    BY <1>1, <1>2
  <2> QED
    BY <1>1, <1>8, <2>1 DEF TravelBound
<1>10. CounterTurns'
  BY <1>1, <1>3 DEF CounterTurns
<1>11. WindowBound'
  <2>1. CASE WindowDone
    <3>1. accum' = 0 /\ accum_dt' + snap_lag' - window_lag' = 0
      BY <1>1, <1>2, <2>1 DEF NextAccum
    <3> QED
      BY <1>8, <3>1 DEF WindowBound
  <2>2. CASE ~WindowDone
    <3>1. /\ accum' = accum + Accepted
          /\ accum_dt' + snap_lag' - window_lag' = accum_dt + Dt + lag - window_lag
      BY <1>1, <2>2 DEF NextAccum
    <3> QED
      BY <3>1, WindowSum DEF WindowBound
  <2> QED
    BY <2>1, <2>2
<1> QED
  BY <1>6, <1>7, <1>9, <1>10, <1>11 DEF SpeedInv

LEMMA OtherStepsHold ==
  ASSUME SpeedInv,
         (\E n \in (-MAX_COUNTS) .. MAX_COUNTS : TurnAt(n)) \/ BeginPass \/ SkipControlStep
           \/ UNCHANGED vars
  PROVE  SpeedInv'
<1> USE Constants DEF measured, history
<1>1. /\ UNCHANGED <<age, count, measured, history>>
      /\ turning' \in (-MAX_COUNTS) .. MAX_COUNTS
      /\ \/ phase' = phase /\ lag' = lag
         \/ phase = "late" /\ phase' = "early" /\ lag' = 0
         \/ /\ phase = "early" /\ phase' = "late" /\ lag' = lag
            /\ age - lag < CONTROL_PERIOD_MS
  BY DEF TurnAt, BeginPass, SkipControlStep, vars, loopVars, SpeedInv, TypeOK
<1>2. TypeOK'
  BY <1>1 DEF SpeedInv, TypeOK
<1>3. PassBound'
  BY <1>1 DEF SpeedInv, TypeOK, PassBound
<1>4. TravelBound' /\ CounterTurns' /\ WindowBound'
  BY <1>1 DEF SpeedInv, TravelBound, CounterTurns, WindowBound
<1> QED
  BY <1>2, <1>3, <1>4 DEF SpeedInv

-----------------------------------------------------------------------------

THEOREM SpeedInductive == Spec => []SpeedInv
<1>1. SpeedInv /\ [Next]_vars => SpeedInv'
  <2> SUFFICES ASSUME SpeedInv, [Next]_vars PROVE SpeedInv'
    OBVIOUS
  <2>1. CASE Elapse
    BY <2>1, ElapseHolds
  <2>2. CASE RunControlStep
    BY <2>2, RunHolds
  <2>3. CASE (\E n \in (-MAX_COUNTS) .. MAX_COUNTS : TurnAt(n)) \/ BeginPass
               \/ SkipControlStep \/ UNCHANGED vars
    BY <2>3, OtherStepsHold
  <2> QED
    BY <2>1, <2>2, <2>3 DEF Next, LoopStep
<1> QED
  BY <1>1, InitHolds, PTL DEF Spec

\* Every variable keeps a value of its kind; the speed never leaves what
\* MAX_PLAUSIBLE_RPM allows.
THEOREM SpeedTypeCorrect == Spec => []TypeOK
BY SpeedInductive, PTL DEF SpeedInv

\* A wrap of the int32 counter is never seen by the control step.
THEOREM WrapIsUnseen == Spec => []DeltaIsTravel
BY SpeedInductive, TravelIsDelta, PTL

\* The plausibility check on the difference: half as much again as a wheel
\* can do in dt is only reached with a lag that grew by more than half of dt.
LEMMA DropsWhenLate ==
  ASSUME SpeedInv, RunControlStep
  PROVE  DropsOnlyWhenLate
<1> DEFINE later == lag - snap_lag
<1>1. lag \in Int /\ snap_lag \in Int /\ Dt \in Nat /\ Delta \in Int /\ MAX_COUNTS \in Nat
  BY StepFacts, Constants DEF SpeedInv, TypeOK
<1>2. SUFFICES ASSUME 2 * later <= Dt, Accepted # Delta PROVE FALSE
  BY <1>1 DEF DropsOnlyWhenLate
<1>3. Abs(Delta) > MaxDelta
  BY <1>2 DEF Accepted
<1>4. later \in Int /\ age - snap_lag = Dt + later
  BY <1>1, StepFacts
<1> HIDE DEF later
<1>5. /\ Travel(Dt) \in Int /\ Travel(later) \in Int
      /\ Travel(Dt + later) = Travel(Dt) + Travel(later)
      /\ Travel(2 * later) = 2 * Travel(later) /\ Travel(2 * later) <= Travel(Dt)
  <2>1. later + later = 2 * later /\ 2 * later \in Int
    BY <1>4
  <2>8. Dt \in Int /\ later \in Int
    BY <1>1, <1>4
  <2>2. Travel(Dt) \in Int /\ Travel(later) \in Int
    BY ONLY <2>8, TravelFacts
  <2>3. Travel(Dt + later) = Travel(Dt) + Travel(later)
    BY <1>1, <1>4, TravelFacts
  <2>4. Travel(later + later) = Travel(later) + Travel(later)
    BY <1>4, TravelFacts
  <2>5. 2 * later <= Dt /\ Dt \in Int
    BY <1>1, <1>2
  <2>6. Travel(2 * later) <= Travel(Dt)
    BY <2>1, <2>5, TravelFacts
  <2>7. Travel(2 * later) = 2 * Travel(later)
    BY <2>1, <2>2, <2>4
  <2> QED
    BY <2>2, <2>3, <2>6, <2>7
<1>6. 2 * Abs(Delta) <= 3 * Travel(Dt)
  <2>1. -Travel(Dt + later) <= Delta /\ Delta <= Travel(Dt + later)
    BY <1>4, StepFacts
  <2> QED
    BY <1>1, <1>5, <2>1 DEF Abs
<1>7. MaxDelta = (3 * Travel(Dt)) \div 2 + 1
  BY <1>1, <1>5 DEF MaxDelta, Travel
<1>8. Abs(Delta) \in Int
  BY <1>1 DEF Abs
<1> QED
  BY <1>3, <1>5, <1>6, <1>7, <1>8

\* The one on the window: a mean above the fastest speed takes a window that
\* lasted longer than its dt says.
LEMMA ZeroesWhenLate ==
  ASSUME SpeedInv, RunControlStep
  PROVE  ZeroesOnlyWhenLate
<1> DEFINE b == accum_dt + Dt
           sum == accum + Accepted
<1>1. /\ lag \in Int /\ window_lag \in Int /\ b \in Nat \ {0} /\ sum \in Int
      /\ SCALE \in Nat /\ MAX_COUNTS \in Nat /\ accum_dt \in Int /\ Dt \in Int
  BY StepFacts, Constants, SpeedAssumption DEF SpeedInv, TypeOK
<1>2. SUFFICES ASSUME lag <= window_lag, Plausible # Raw PROVE FALSE
  BY <1>1 DEF ZeroesOnlyWhenLate
<1>3. -Travel(b) <= sum /\ sum <= Travel(b)
  <2> DEFINE since == accum_dt + Dt + lag - window_lag
  <2>1. since \in Int /\ since <= b /\ b \in Int
    BY <1>1, <1>2
  <2>2. -Travel(since) <= sum /\ sum <= Travel(since)
    BY WindowSum
  <2> HIDE DEF since, b, sum
  <2>3. Travel(since) <= Travel(b) /\ Travel(since) \in Int /\ Travel(b) \in Int
    BY <2>1, TravelFacts
  <2> QED
    BY <1>1, <2>2, <2>3
<1>4. Raw = Rounded(sum * SCALE, b)
  BY DEF Raw
<1> HIDE DEF b, sum
<1>5. /\ sum * SCALE \in Int /\ MAX_SPEED \in Nat
      /\ sum * SCALE <= MAX_SPEED * b /\ -(sum * SCALE) <= MAX_SPEED * b
  <2>1. sum * SCALE \in Int /\ Travel(b) * SCALE \in Int /\ Travel(b) \in Int
    BY <1>1 DEF Travel
  <2>2. sum * SCALE <= Travel(b) * SCALE /\ -(sum * SCALE) <= Travel(b) * SCALE
    <3>1. (Travel(b) - sum) * SCALE >= 0 /\ (Travel(b) + sum) * SCALE >= 0
      BY <1>1, <1>3, <2>1
    <3>2. /\ (Travel(b) - sum) * SCALE = Travel(b) * SCALE - sum * SCALE
          /\ (Travel(b) + sum) * SCALE = Travel(b) * SCALE + sum * SCALE
      BY <1>1, <2>1
    <3> QED
      BY <2>1, <3>1, <3>2
  <2>3. Travel(b) * SCALE = MAX_SPEED * b
    BY <1>1 DEF Travel, MAX_SPEED
  <2> QED
    BY <2>1, <2>2, <2>3, Constants
<1>6. -MAX_SPEED <= Raw /\ Raw <= MAX_SPEED /\ Raw \in Int
  BY <1>1, <1>4, <1>5, RoundedBound, RoundedIsInt
<1>7. Abs(Raw) <= MAX_SPEED /\ Abs(Raw) \in Int
  BY <1>5, <1>6 DEF Abs
<1> QED
  BY <1>2, <1>5, <1>7 DEF Plausible

\* For any wheel within MAX_PLAUSIBLE_RPM the plausibility checks throw away
\* counts only because the control step ran late after its `now`.
THEOREM OnlyLatenessDiscards == Spec => DiscardsOnlyWhenLate
<1>1. SpeedInv /\ [Next]_vars =>
        [RunControlStep => DropsOnlyWhenLate /\ ZeroesOnlyWhenLate]_vars
  BY DropsWhenLate, ZeroesWhenLate
<1> QED
  BY <1>1, SpeedInductive, PTL DEF Spec, DiscardsOnlyWhenLate

=============================================================================
