--------------------------- MODULE RosClockProofs ---------------------------
(***************************************************************************)
(* The entities and the clock of the stamps, for pools of any size, any    *)
(* period and any number of failures.  The argument has two parts.  What   *)
(* the loop holds: connected is created, and an entity holds a place for   *)
(* each failed creation at most, besides that of the session.  How old the *)
(* clock is: of a session with a clock the uint32 age is the real one      *)
(* (AgeIsReal), so the check in "sync" bounds it; without one, the age     *)
(* bounds how long the good link has been waited for (WaitsNoLonger).      *)
(***************************************************************************)
EXTENDS RosClock, TLAPS

ConnectedIsCreated == (agent = "Connected") = created

HandlesAndPlaces ==
  /\ created => handles = Entities
  /\ \A e \in Entities : /\ held[e] \in Nat
                         /\ held[e] <= failures + (IF created THEN 1 ELSE 0)
                         /\ created => held[e] >= 1

EntityInv ==
  /\ TypeOK
  /\ ConnectedIsCreated
  /\ HandlesAndPlaces

\* The loop synchronises and publishes only with a session.
OnlyWithSession == phase \in {"sync", "publish"} => created

\* The age the code computes, and its bound in each part of the pass.
AgeIsReal ==
  created /\ synced =>
    /\ sync_age = IF since < 0 THEN since + CLOCK_WRAP ELSE since
    /\ since < ROS_TIME_SYNC_PERIOD_MS
         + (IF phase \in {"check", "sync"} THEN MaxPassMs ELSE 0)

\* A session whose clock is not in use has seen a synchronisation fail.
LostByFailure == stamp = "epoch" /\ created /\ ~failed => synced

WaitsNoLonger ==
  waited > 0 =>
    /\ link = "good"
    /\ agent = "Connected"
    /\ phase \in {"check", "sync"} => waited <= sync_age + MaxPassMs
    /\ phase \in {"publish", "end"} /\ ~synced =>
         waited <= sync_age + MaxPassMs /\ sync_age < ROS_TIME_SYNC_PERIOD_MS

ClockInv ==
  /\ ClockTypeOK
  /\ OnlyWithSession
  /\ AgeIsReal
  /\ LostByFailure
  /\ WaitsNoLonger

-----------------------------------------------------------------------------

\* Every step of the loop is a step of RosEntities, or leaves it alone.
LEMMA LoopStepIsEntityStep ==
  ASSUME [LoopNext]_loopVars
  PROVE  [Next]_vars
<1>1. CASE CheckAgent
  BY <1>1 DEF CheckAgent, Next, AgentCheck
<1>2. CASE SkipCheck \/ Resync \/ PublishWheelSpeeds \/ SkipTelemetry
  BY <1>2 DEF SkipCheck, Resync, PublishWheelSpeeds, SkipTelemetry
<1>3. CASE \E ms \in 1 .. MaxPassMs : NextPass(ms)
  BY <1>3 DEF NextPass
<1>4. CASE LinkChanges
  BY <1>4 DEF LinkChanges, Next
<1>5. CASE UNCHANGED loopVars
  BY <1>5 DEF loopVars
<1> QED
  BY <1>1, <1>2, <1>3, <1>4, <1>5 DEF LoopNext, LoopStep

\* The loop with its clock implements the creation and the destruction of the
\* entities as RosEntities has them.
THEOREM ImplementsEntities == LoopSpec => Spec
<1>1. LoopInit => Init
  BY DEF LoopInit
<1> QED
  BY <1>1, LoopStepIsEntityStep, PTL DEF LoopSpec, Spec

-----------------------------------------------------------------------------

\* The creation has its session and its node before anything else.
LEMMA StepsOfCreation ==
  /\ Steps \in Nat
  /\ Steps >= 2
  /\ FirstSteps[Steps] = Entities
  /\ FirstSteps[0] = {}
  /\ \A n \in 0 .. Steps : FirstSteps[n] \subseteq Entities
<1>1. Steps \in Nat /\ Steps >= 2
  BY EntityAssumption DEF Steps, CreationOrder
<1> HIDE DEF Steps, CreationOrder
<1>2. 0 \in 0 .. Steps /\ Steps \in 0 .. Steps /\ 1 .. 0 = {}
  BY <1>1
<1>3. FirstSteps[Steps] = Entities /\ FirstSteps[0] = {}
  BY <1>2 DEF FirstSteps, Entities
<1>4. \A n \in 0 .. Steps : 1 .. n \subseteq 1 .. Steps
  BY <1>1
<1>5. \A n \in 0 .. Steps : FirstSteps[n] \subseteq Entities
  BY <1>4 DEF FirstSteps, Entities
<1> QED
  BY <1>1, <1>3, <1>5

LEMMA EntityInitHolds == Init => EntityInv
<1> SUFFICES ASSUME Init PROVE EntityInv
  OBVIOUS
<1>1. TypeOK
  <2>1. held \in [Entities -> 0 .. (failures + 1)]
    BY DEF Init
  <2> QED
    BY <2>1 DEF Init, TypeOK
<1>2. ConnectedIsCreated
  BY DEF Init, ConnectedIsCreated
<1>3. HandlesAndPlaces
  BY DEF Init, HandlesAndPlaces
<1> QED
  BY <1>1, <1>2, <1>3 DEF EntityInv

\* The bounds of HandlesAndPlaces are stronger than those of the type.
LEMMA PlacesAreTyped ==
  ASSUME NEW h \in [Entities -> Int], NEW f \in Nat, NEW c \in BOOLEAN,
         \A e \in Entities : h[e] \in Nat /\ h[e] <= f + (IF c THEN 1 ELSE 0)
  PROVE  h \in [Entities -> 0 .. (f + 1)]
<1>1. \A e \in Entities : h[e] \in 0 .. (f + 1)
  BY SMT
<1> QED
  BY <1>1

LEMMA CreateHolds ==
  ASSUME EntityInv, NEW n \in 0 .. Steps, CreateRosEntities(n)
  PROVE  EntityInv'
<1> USE DEF EntityInv, CreateRosEntities
<1>1. ~created
  BY DEF ConnectedIsCreated
<1>2. created' \in BOOLEAN /\ agent' \in {"Waiting", "Connected"} /\ link' = link
  OBVIOUS
<1>3. ConnectedIsCreated'
  BY <1>2 DEF ConnectedIsCreated
<1>4. handles' \subseteq Entities /\ (created' => handles' = Entities)
  BY StepsOfCreation DEF TypeOK
<1>5. failures \in Nat /\ failures' \in Nat
  BY DEF TypeOK
<1>6. \A e \in Entities : /\ held'[e] \in Nat
                          /\ held'[e] <= failures' + (IF created' THEN 1 ELSE 0)
                          /\ created' => held'[e] >= 1
  <2> SUFFICES ASSUME NEW e \in Entities
               PROVE  /\ held'[e] \in Nat
                      /\ held'[e] <= failures' + (IF created' THEN 1 ELSE 0)
                      /\ created' => held'[e] >= 1
    OBVIOUS
  <2>1. held[e] \in Nat /\ held[e] <= failures
    BY <1>1, <1>5 DEF HandlesAndPlaces
  <2>2. held'[e] = IF e \in FirstSteps[n] THEN held[e] + 1 ELSE held[e]
    OBVIOUS
  <2>3. Steps \in Nat /\ Steps >= 2 /\ n \in Int /\ 0 <= n /\ n <= Steps
    BY StepsOfCreation
  <2>4. /\ created' = (n = Steps)
        /\ failures' = IF n \in 1 .. (Steps - 1) THEN failures + 1 ELSE failures
    OBVIOUS
  <2>5. CASE n = Steps
    <3>1. created'
      BY <2>4, <2>5, Zenon
    <3>2. failures' = failures
      BY <2>3, <2>4, <2>5
    <3>3. e \in FirstSteps[n]
      BY <2>5, StepsOfCreation
    <3> QED
      BY <1>5, <2>1, <2>2, <3>1, <3>2, <3>3
  <2>6. CASE n = 0
    <3>1. n # Steps
      BY <2>3, <2>6
    <3>2. ~created'
      BY <2>4, <3>1, Zenon
    <3>3. failures' = failures
      BY <2>4, <2>6
    <3>4. e \notin FirstSteps[n]
      BY <2>6, StepsOfCreation
    <3> QED
      BY <1>5, <2>1, <2>2, <3>2, <3>3, <3>4
  <2>7. CASE n \in 1 .. (Steps - 1)
    <3>1. n # Steps
      BY <2>3, <2>7
    <3>2. ~created'
      BY <2>4, <3>1, Zenon
    <3>3. failures' = failures + 1
      BY <2>4, <2>7
    <3> QED
      BY <1>5, <2>1, <2>2, <3>2, <3>3
  <2> QED
    BY <2>3, <2>5, <2>6, <2>7
<1>7. held' \in [Entities -> 0 .. (failures' + 1)]
  <2>1. held' \in [Entities -> Int]
    <3>1. \A e \in Entities : held'[e] \in Int
      BY <1>6
    <3> QED
      BY <3>1, Zenon
  <2> QED
    BY <1>2, <1>5, <1>6, <2>1, PlacesAreTyped
<1>8. TypeOK'
  BY <1>2, <1>4, <1>5, <1>7 DEF TypeOK
<1>9. HandlesAndPlaces'
  BY <1>4, <1>6 DEF HandlesAndPlaces
<1> QED
  BY <1>3, <1>8, <1>9

LEMMA DestroyHolds ==
  ASSUME EntityInv, DestroyRosEntities
  PROVE  EntityInv'
<1> USE DEF EntityInv, DestroyRosEntities, Finished
<1>1. /\ created /\ ~created' /\ agent' = "Waiting"
      /\ link' = link /\ failures' = failures
      /\ handles' = {}
      /\ held' = [e \in Entities |-> held[e] - 1]
  BY DEF ConnectedIsCreated, HandlesAndPlaces
<1>2. \A e \in Entities : held'[e] \in Nat /\ held'[e] <= failures
  BY <1>1 DEF HandlesAndPlaces, TypeOK
<1>3. held' \in [Entities -> 0 .. (failures' + 1)]
  <2>1. \A e \in Entities : held'[e] \in 0 .. (failures + 1)
    BY <1>2 DEF TypeOK
  <2> QED
    BY <1>1, <2>1, Zenon
<1>4. TypeOK'
  BY <1>1, <1>3 DEF TypeOK
<1>5. ConnectedIsCreated'
  BY <1>1 DEF ConnectedIsCreated
<1>6. HandlesAndPlaces'
  BY <1>1, <1>2 DEF HandlesAndPlaces, TypeOK
<1> QED
  BY <1>4, <1>5, <1>6

LEMMA EntityStepHolds ==
  ASSUME EntityInv, [Next]_vars
  PROVE  EntityInv'
<1>1. CASE DestroyRosEntities
  BY <1>1, DestroyHolds
<1>2. CASE \E n \in 0 .. Steps : CreateRosEntities(n)
  BY <1>2, CreateHolds
<1>3. CASE \E quality \in {"down", "lossy", "good"} : LinkBecomes(quality)
  BY <1>3 DEF LinkBecomes, EntityInv, TypeOK, ConnectedIsCreated, HandlesAndPlaces
<1>4. CASE UNCHANGED vars
  BY <1>4 DEF vars, EntityInv, TypeOK, ConnectedIsCreated, HandlesAndPlaces
<1> QED
  BY <1>1, <1>2, <1>3, <1>4 DEF Next, AgentCheck

THEOREM EntityInductive == Spec => []EntityInv
BY EntityInitHolds, EntityStepHolds, PTL DEF Spec

\* However creations fail and links come and go, connected means complete,
\* and only failures leak.
THEOREM EntitiesAreAccounted == LoopSpec => []EntitiesAccounted
<1>1. EntityInv => EntitiesAccounted
  BY DEF EntityInv, EntitiesAccounted, ConnectedIsComplete, OnlyFailuresLeak,
         ConnectedIsCreated, HandlesAndPlaces
<1> QED
  BY <1>1, ImplementsEntities, EntityInductive, PTL

-----------------------------------------------------------------------------

\* A difference of two times less than a turn apart, as a uint32.
LEMMA DifferenceOfTimes ==
  /\ \A x \in Int : Difference(x) \in 0 .. (CLOCK_WRAP - 1)
  /\ \A x \in 0 .. (CLOCK_WRAP - 1) : Difference(x) = x
  /\ \A x \in CLOCK_WRAP .. (2 * CLOCK_WRAP - 1) : Difference(x) = x - CLOCK_WRAP
  /\ \A x \in (-CLOCK_WRAP) .. (-1) : Difference(x) = x + CLOCK_WRAP
<1>1. CLOCK_WRAP \in Nat \ {0}
  BY ClockAssumption
<1>2. ASSUME NEW x \in Int PROVE Difference(x) \in 0 .. (CLOCK_WRAP - 1)
  BY <1>1 DEF Difference
<1>3. ASSUME NEW x \in 0 .. (CLOCK_WRAP - 1) PROVE Difference(x) = x
  BY <1>1 DEF Difference
<1>4. ASSUME NEW x \in CLOCK_WRAP .. (2 * CLOCK_WRAP - 1)
      PROVE  Difference(x) = x - CLOCK_WRAP
  BY <1>1 DEF Difference
<1>5. ASSUME NEW x \in (-CLOCK_WRAP) .. (-1) PROVE Difference(x) = x + CLOCK_WRAP
  BY <1>1 DEF Difference
<1> QED
  BY <1>2, <1>3, <1>4, <1>5

\* How old a success at `late` is: none, or of a time to come.
LEMMA AgeOfSuccess ==
  ASSUME NEW late \in 0 .. MaxPassMs
  PROVE  /\ -late \in (-MaxPassMs) .. Enough
         /\ -late <= 0
         /\ Difference(-late) = IF -late < 0 THEN (-late) + CLOCK_WRAP ELSE -late
         /\ Difference(-late) \in 0 .. (CLOCK_WRAP - 1)
<1>1. /\ Enough \in Nat /\ MaxPassMs \in Nat
      /\ MaxPassMs < CLOCK_WRAP /\ CLOCK_WRAP \in Nat
  BY ClockAssumption DEF Enough
<1>2. -late \in Int /\ -MaxPassMs <= -late /\ -late <= 0
  BY <1>1
<1>3. CASE late = 0
  BY <1>1, <1>3, DifferenceOfTimes
<1>4. CASE late > 0
  <2>1. -late \in (-CLOCK_WRAP) .. (-1)
    BY <1>1, <1>4
  <2>2. Difference(-late) = (-late) + CLOCK_WRAP
    BY <2>1, DifferenceOfTimes
  <2>3. Difference(-late) \in 0 .. (CLOCK_WRAP - 1)
    BY <1>2, DifferenceOfTimes
  <2> QED
    BY <1>1, <1>2, <1>4, <2>2, <2>3
<1> QED
  BY <1>3, <1>4

\* What a synchronisation leaves, done anywhere in the pass.
LEMMA SyncLeaves ==
  ASSUME SyncRosClock, lag' \in 0 .. MaxPassMs,
         sync_age \in 0 .. (CLOCK_WRAP - 1), since \in (-MaxPassMs) .. Enough,
         failed \in BOOLEAN
  PROVE  /\ synced' \in BOOLEAN
         /\ failed' \in BOOLEAN
         /\ sync_age' \in 0 .. (CLOCK_WRAP - 1)
         /\ since' \in (-MaxPassMs) .. Enough
         /\ synced' =>
              /\ sync_age' = IF since' < 0 THEN since' + CLOCK_WRAP ELSE since'
              /\ since' <= 0
         /\ ~synced' => failed' /\ link # "good"
<1> USE ClockAssumption
<1>1. CASE synced' = TRUE /\ sync_age' = Difference(-lag') /\ since' = -lag' /\ UNCHANGED failed
  <2>1. PICK late \in 0 .. MaxPassMs : late = lag'
    OBVIOUS
  <2>2. sync_age' = Difference(-late) /\ since' = -late
    BY <1>1, <2>1
  <2>3. /\ since' \in (-MaxPassMs) .. Enough /\ since' <= 0
        /\ sync_age' = IF since' < 0 THEN since' + CLOCK_WRAP ELSE since'
        /\ sync_age' \in 0 .. (CLOCK_WRAP - 1)
    BY <2>2, AgeOfSuccess, Zenon
  <2>4. synced' /\ synced' \in BOOLEAN /\ failed' = failed
    BY <1>1
  <2> QED
    BY <2>3, <2>4
<1>2. CASE link # "good" /\ synced' = FALSE /\ failed' = TRUE /\ UNCHANGED <<sync_age, since>>
  BY <1>2
<1> QED
  BY <1>1, <1>2 DEF SyncRosClock

LEMMA ClockInitHolds == LoopInit => ClockInv
<1> SUFFICES ASSUME LoopInit PROVE ClockInv
  OBVIOUS
<1>1. TypeOK
  BY EntityInitHolds DEF LoopInit, EntityInv
<1>2. /\ sync_age \in 0 .. (CLOCK_WRAP - 1) /\ since \in (-MaxPassMs) .. Enough
      /\ lag \in 0 .. MaxPassMs /\ waited \in 0 .. Enough
  BY ClockAssumption DEF LoopInit, Enough
<1>3. ClockTypeOK
  BY <1>1, <1>2 DEF ClockTypeOK, LoopInit
<1>4. OnlyWithSession /\ LostByFailure
  BY DEF LoopInit, OnlyWithSession, LostByFailure
<1>5. AgeIsReal
  BY DEF LoopInit, AgeIsReal
<1>6. WaitsNoLonger
  BY DEF LoopInit, WaitsNoLonger
<1> QED
  BY <1>3, <1>4, <1>5, <1>6 DEF ClockInv

\* Whoever waits is connected over a good link, so a check that acts finds
\* nobody waiting.
LEMMA CheckAgentHolds ==
  ASSUME EntityInv, EntityInv', ClockInv, CheckAgent
  PROVE  ClockInv'
<1> USE DEF ClockInv
<1>1. phase' \in {"sync", "end"} /\ (phase' = "sync" => created')
  BY DEF CheckAgent, EntityInv, ConnectedIsCreated
<1>2. /\ lag' \in 0 .. MaxPassMs /\ sync_age \in 0 .. (CLOCK_WRAP - 1)
      /\ since \in (-MaxPassMs) .. Enough /\ failed \in BOOLEAN
      /\ synced \in BOOLEAN
  BY DEF CheckAgent, ClockTypeOK
<1>3. stamp' = stamp /\ waited' = waited
  BY DEF CheckAgent
<1>4. waited = 0
  <2>1. agent = "Waiting" \/ link # "good"
    BY DEF CheckAgent, DestroyRosEntities, CreateRosEntities
  <2> QED
    BY <2>1 DEF WaitsNoLonger, ClockTypeOK
<1>5. /\ synced' \in BOOLEAN /\ failed' \in BOOLEAN
      /\ sync_age' \in 0 .. (CLOCK_WRAP - 1)
      /\ since' \in (-MaxPassMs) .. Enough
      /\ created' /\ synced' =>
           /\ sync_age' = IF since' < 0 THEN since' + CLOCK_WRAP ELSE since'
           /\ since' <= 0
      /\ created' /\ ~synced' => failed'
  <2>1. CASE DestroyRosEntities /\ DestroySetsClock
    <3>1. ~created'
      BY <2>1 DEF DestroyRosEntities, EntityInv, ConnectedIsCreated
    <3>2. synced' \in BOOLEAN
      BY <1>2, <2>1 DEF DestroySetsClock
    <3>3. UNCHANGED <<sync_age, failed, since>>
      BY <2>1 DEF DestroySetsClock
    <3> QED
      BY <1>2, <3>1, <3>2, <3>3
  <2>2. ASSUME NEW n \in 0 .. Steps, CreateRosEntities(n), CreationSetsClock(n)
        PROVE  /\ synced' \in BOOLEAN /\ failed' \in BOOLEAN
               /\ sync_age' \in 0 .. (CLOCK_WRAP - 1)
               /\ since' \in (-MaxPassMs) .. Enough
               /\ created' /\ synced' =>
                    /\ sync_age' = IF since' < 0 THEN since' + CLOCK_WRAP ELSE since'
                    /\ since' <= 0
               /\ created' /\ ~synced' => failed'
    <3>1. CASE n >= 2
      <4>1. SyncRosClock
        BY <2>2, <3>1 DEF CreationSetsClock
      <4> QED
        BY <1>2, <4>1, SyncLeaves, Zenon
    <3>2. CASE ~(n >= 2)
      <4>1. n # Steps
        BY <3>2, StepsOfCreation
      <4>2. ~created'
        BY <2>2, <4>1, Zenon DEF CreateRosEntities
      <4>3. UNCHANGED clockVars
        BY <2>2, <3>2 DEF CreationSetsClock
      <4> QED
        BY <1>2, <4>2, <4>3 DEF clockVars
    <3> QED
      BY <3>1, <3>2
  <2> QED
    BY <2>1, <2>2 DEF CheckAgent
<1>6. ClockTypeOK'
  BY <1>1, <1>2, <1>3, <1>5 DEF ClockTypeOK, EntityInv
<1>7. AgeIsReal'
  <2> SUFFICES ASSUME created', synced'
               PROVE  /\ sync_age' = IF since' < 0 THEN since' + CLOCK_WRAP ELSE since'
                      /\ since' < ROS_TIME_SYNC_PERIOD_MS
                           + (IF phase' \in {"check", "sync"} THEN MaxPassMs ELSE 0)
    BY DEF AgeIsReal
  <2>1. since' <= 0 /\ since' \in Int
    BY <1>2, <1>5, ClockAssumption
  <2> DEFINE bound == ROS_TIME_SYNC_PERIOD_MS
                        + (IF phase' \in {"check", "sync"} THEN MaxPassMs ELSE 0)
  <2>2. 0 < bound /\ bound \in Int
    BY ClockAssumption
  <2> HIDE DEF bound
  <2>3. since' < bound
    BY <2>1, <2>2
  <2> QED
    BY <1>5, <2>3 DEF bound
<1>8. OnlyWithSession' /\ LostByFailure' /\ WaitsNoLonger'
  BY <1>1, <1>3, <1>4, <1>5 DEF OnlyWithSession, LostByFailure, WaitsNoLonger
<1> QED
  BY <1>6, <1>7, <1>8

LEMMA SkipCheckHolds ==
  ASSUME EntityInv, ClockInv, SkipCheck
  PROVE  ClockInv'
<1> USE DEF ClockInv
<1>1. /\ UNCHANGED <<vars, lag, clockVars, stamp, waited>> /\ phase = "check"
      /\ phase' \in {"sync", "end"} /\ (phase' = "sync" <=> created)
  BY DEF SkipCheck, EntityInv, ConnectedIsCreated, TypeOK
<1> USE <1>1 DEF vars, clockVars
<1>2. ClockTypeOK'
  BY DEF ClockTypeOK, TypeOK
<1>3. OnlyWithSession' /\ LostByFailure'
  BY DEF OnlyWithSession, LostByFailure
<1>4. AgeIsReal'
  BY DEF AgeIsReal
<1>5. WaitsNoLonger'
  BY DEF WaitsNoLonger, EntityInv, ConnectedIsCreated
<1> QED
  BY <1>2, <1>3, <1>4, <1>5

\* A synchronisation that is not due is younger than the period; one that is
\* due succeeds if the link is good.
LEMMA ResyncHolds ==
  ASSUME EntityInv, ClockInv, Resync
  PROVE  ClockInv'
<1> USE DEF ClockInv
<1>1. /\ UNCHANGED <<vars, stamp, waited>> /\ phase = "sync" /\ phase' = "publish"
      /\ created /\ agent = "Connected"
  BY DEF Resync, OnlyWithSession, EntityInv, ConnectedIsCreated
<1>2. /\ sync_age \in 0 .. (CLOCK_WRAP - 1) /\ since \in (-MaxPassMs) .. Enough
      /\ failed \in BOOLEAN /\ synced \in BOOLEAN /\ lag \in 0 .. MaxPassMs
      /\ waited \in 0 .. Enough /\ stamp \in {"none", "uptime", "epoch"}
  BY DEF ClockTypeOK
<1>3. /\ lag' \in 0 .. MaxPassMs
      /\ synced' \in BOOLEAN /\ failed' \in BOOLEAN
      /\ sync_age' \in 0 .. (CLOCK_WRAP - 1)
      /\ since' \in (-MaxPassMs) .. Enough
      /\ synced' => /\ sync_age' = IF since' < 0 THEN since' + CLOCK_WRAP ELSE since'
                    /\ since' < ROS_TIME_SYNC_PERIOD_MS
      /\ stamp = "epoch" /\ ~failed' => synced'
      /\ ~synced' /\ link = "good" =>
           sync_age' = sync_age /\ sync_age < ROS_TIME_SYNC_PERIOD_MS
  <2>1. CASE Due
    <3>1. lag' \in 0 .. MaxPassMs /\ SyncRosClock
      BY <1>2, <2>1 DEF Resync
    <3> QED
      BY <1>2, <3>1, SyncLeaves, ClockAssumption
  <2>2. CASE ~Due
    <3>1. UNCHANGED <<lag, clockVars>> /\ sync_age < ROS_TIME_SYNC_PERIOD_MS
      BY <1>2, <2>2, ClockAssumption DEF Resync, Due
    <3>2. stamp = "epoch" /\ ~failed => synced
      BY <1>1 DEF LostByFailure
    <3>3. synced => /\ sync_age = IF since < 0 THEN since + CLOCK_WRAP ELSE since
                    /\ since < ROS_TIME_SYNC_PERIOD_MS
      <4>1. synced => sync_age = IF since < 0 THEN since + CLOCK_WRAP ELSE since
        BY <1>1 DEF AgeIsReal
      <4> QED
        BY <1>2, <3>1, <4>1, ClockAssumption
    <3> QED
      BY <1>2, <3>1, <3>2, <3>3 DEF clockVars
  <2> QED
    BY <2>1, <2>2
<1>4. ClockTypeOK'
  BY <1>1, <1>2, <1>3 DEF ClockTypeOK, TypeOK, vars
<1>5. OnlyWithSession' /\ LostByFailure'
  BY <1>1, <1>3 DEF OnlyWithSession, LostByFailure, vars
<1>6. AgeIsReal'
  <2> SUFFICES ASSUME created', synced'
               PROVE  /\ sync_age' = IF since' < 0 THEN since' + CLOCK_WRAP ELSE since'
                      /\ since' < ROS_TIME_SYNC_PERIOD_MS
                           + (IF phase' \in {"check", "sync"} THEN MaxPassMs ELSE 0)
    BY DEF AgeIsReal
  <2>1. (IF phase' \in {"check", "sync"} THEN MaxPassMs ELSE 0) = 0
    BY <1>1
  <2>2. ROS_TIME_SYNC_PERIOD_MS + 0 = ROS_TIME_SYNC_PERIOD_MS
    BY ClockAssumption
  <2> QED
    BY <1>3, <2>1, <2>2
<1>7. WaitsNoLonger'
  BY <1>1, <1>2, <1>3 DEF WaitsNoLonger, vars
<1> QED
  BY <1>4, <1>5, <1>6, <1>7

LEMMA TelemetryHolds ==
  ASSUME EntityInv, ClockInv, PublishWheelSpeeds \/ SkipTelemetry
  PROVE  ClockInv'
<1> USE DEF ClockInv
<1>1. /\ UNCHANGED <<vars, lag, synced, sync_age, since, waited>>
      /\ phase = "publish" /\ phase' = "end"
  BY DEF PublishWheelSpeeds, SkipTelemetry, clockVars
<1>2. /\ stamp' \in {"none", "uptime", "epoch"} /\ failed' \in BOOLEAN
      /\ stamp' = "epoch" /\ ~failed' /\ created => synced
  BY DEF PublishWheelSpeeds, SkipTelemetry, clockVars, ClockTypeOK, LostByFailure
<1>3. ClockTypeOK'
  BY <1>1, <1>2 DEF ClockTypeOK, TypeOK, vars
<1>4. OnlyWithSession' /\ LostByFailure'
  BY <1>1, <1>2 DEF OnlyWithSession, LostByFailure, vars
<1>5. AgeIsReal'
  BY <1>1 DEF AgeIsReal, vars
<1>6. WaitsNoLonger'
  BY <1>1 DEF WaitsNoLonger, vars
<1> QED
  BY <1>3, <1>4, <1>5, <1>6

\* The ages grow by the pass, and none of them can wrap: the clock's is below
\* the period, and so is the one that is waited for.
LEMMA NextPassHolds ==
  ASSUME EntityInv, ClockInv, NEW ms \in 1 .. MaxPassMs, NextPass(ms)
  PROVE  ClockInv'
<1> USE DEF ClockInv
<1>1. /\ UNCHANGED <<vars, synced, stamp, failed>>
      /\ phase = "end" /\ phase' = "check" /\ lag' = 0
      /\ sync_age' = Difference(sync_age + ms)
      /\ since' = Capped(since + ms)
      /\ waited' = IF agent = "Connected" /\ link = "good" /\ ~synced
                     THEN Capped(waited + ms) ELSE 0
  BY DEF NextPass
<1>2. /\ sync_age \in 0 .. (CLOCK_WRAP - 1) /\ since \in (-MaxPassMs) .. Enough
      /\ waited \in 0 .. Enough
      /\ CLOCK_WRAP \in Nat /\ MaxPassMs \in Nat /\ ROS_TIME_SYNC_PERIOD_MS \in Nat
      /\ Enough = ROS_TIME_SYNC_PERIOD_MS + 2 * MaxPassMs /\ Enough <= CLOCK_WRAP
  BY ClockAssumption DEF ClockTypeOK, Enough
<1> HIDE DEF Enough
<1>3. /\ sync_age' \in 0 .. (CLOCK_WRAP - 1)
      /\ since' \in (-MaxPassMs) .. Enough
      /\ Capped(waited + ms) \in 0 .. Enough /\ Capped(waited + ms) <= waited + ms
  BY <1>1, <1>2, DifferenceOfTimes DEF Capped
<1>4. ClockTypeOK'
  <2>1. lag' \in 0 .. MaxPassMs /\ waited' \in 0 .. Enough
    BY <1>1, <1>2, <1>3
  <2> QED
    BY <1>1, <1>3, <2>1 DEF ClockTypeOK, TypeOK, vars
<1>5. OnlyWithSession' /\ LostByFailure'
  BY <1>1 DEF OnlyWithSession, LostByFailure, vars
<1>6. AgeIsReal'
  <2> SUFFICES ASSUME created, synced
               PROVE  /\ sync_age' = IF since' < 0 THEN since' + CLOCK_WRAP ELSE since'
                      /\ since' < ROS_TIME_SYNC_PERIOD_MS + MaxPassMs
    BY <1>1 DEF AgeIsReal, vars
  <2>1. /\ sync_age = IF since < 0 THEN since + CLOCK_WRAP ELSE since
        /\ since < ROS_TIME_SYNC_PERIOD_MS
    BY <1>1, <1>2 DEF AgeIsReal
  <2>2. since' = since + ms /\ since' < ROS_TIME_SYNC_PERIOD_MS + MaxPassMs
    BY <1>1, <1>2, <2>1 DEF Capped
  <2>3. sync_age' = IF since' < 0 THEN since' + CLOCK_WRAP ELSE since'
    <3>1. CASE since < 0 /\ since + ms >= 0
      <4>1. sync_age + ms \in CLOCK_WRAP .. (2 * CLOCK_WRAP - 1)
        BY <1>2, <2>1, <3>1
      <4>2. Difference(sync_age + ms) = (sync_age + ms) - CLOCK_WRAP
        BY <4>1, DifferenceOfTimes, Zenon
      <4>3. sync_age' = (sync_age + ms) - CLOCK_WRAP
        BY <1>1, <4>2, Zenon
      <4> QED
        BY <1>2, <2>1, <2>2, <3>1, <4>3
    <3>2. CASE since >= 0 \/ since + ms < 0
      <4>1. sync_age + ms \in 0 .. (CLOCK_WRAP - 1)
        BY <1>2, <2>1, <3>2
      <4>2. sync_age' = sync_age + ms
        BY <1>1, <4>1, DifferenceOfTimes
      <4> QED
        BY <1>2, <2>1, <2>2, <3>2, <4>2
    <3> QED
      BY <1>2, <3>1, <3>2
  <2> QED
    BY <2>2, <2>3
<1>7. WaitsNoLonger'
  <2> SUFFICES ASSUME waited' > 0
               PROVE  /\ link = "good" /\ agent = "Connected"
                      /\ waited' <= sync_age' + MaxPassMs
    BY <1>1 DEF WaitsNoLonger, vars
  <2>1. link = "good" /\ agent = "Connected" /\ ~synced /\ waited' = Capped(waited + ms)
    BY <1>1
  <2>2. CASE waited = 0
    BY <1>2, <1>3, <2>1, <2>2
  <2>3. CASE waited > 0
    <3>1. waited <= sync_age + MaxPassMs /\ sync_age < ROS_TIME_SYNC_PERIOD_MS
      BY <1>1, <2>1, <2>3 DEF WaitsNoLonger
    <3>2. sync_age + ms \in 0 .. (CLOCK_WRAP - 1)
      BY <1>2, <3>1
    <3>3. sync_age' = sync_age + ms
      BY <1>1, <3>2, DifferenceOfTimes
    <3> QED
      BY <1>2, <1>3, <2>1, <3>1, <3>3
  <2> QED
    BY <1>2, <2>1, <2>2, <2>3
<1> QED
  BY <1>4, <1>5, <1>6, <1>7

LEMMA LinkChangesHolds ==
  ASSUME EntityInv, EntityInv', ClockInv, LinkChanges
  PROVE  ClockInv'
<1> USE DEF ClockInv
<1>1. /\ UNCHANGED <<phase, lag, clockVars, stamp, created>> /\ waited' = 0
  BY DEF LinkChanges, LinkBecomes
<1> USE <1>1 DEF clockVars
<1>2. ClockTypeOK'
  BY ClockAssumption DEF ClockTypeOK, EntityInv, Enough
<1>3. OnlyWithSession' /\ LostByFailure'
  BY DEF OnlyWithSession, LostByFailure
<1>4. AgeIsReal'
  BY DEF AgeIsReal
<1>5. WaitsNoLonger'
  BY DEF WaitsNoLonger
<1> QED
  BY <1>2, <1>3, <1>4, <1>5

-----------------------------------------------------------------------------

THEOREM ClockInductive == LoopSpec => [](EntityInv /\ ClockInv)
<1>1. EntityInv /\ EntityInv' /\ ClockInv /\ [LoopNext]_loopVars => ClockInv'
  <2> SUFFICES ASSUME EntityInv, EntityInv', ClockInv, [LoopNext]_loopVars
               PROVE  ClockInv'
    OBVIOUS
  <2>1. CASE CheckAgent
    BY <2>1, CheckAgentHolds
  <2>2. CASE SkipCheck
    BY <2>2, SkipCheckHolds
  <2>3. CASE Resync
    BY <2>3, ResyncHolds
  <2>4. CASE PublishWheelSpeeds \/ SkipTelemetry
    BY <2>4, TelemetryHolds
  <2>5. CASE \E ms \in 1 .. MaxPassMs : NextPass(ms)
    BY <2>5, NextPassHolds
  <2>6. CASE LinkChanges
    BY <2>6, LinkChangesHolds
  <2>7. CASE UNCHANGED loopVars
    <3> USE <2>7 DEF loopVars, vars, clockVars, ClockInv
    <3>1. ClockTypeOK'
      BY DEF ClockTypeOK, TypeOK
    <3>2. OnlyWithSession' /\ LostByFailure' /\ AgeIsReal' /\ WaitsNoLonger'
      BY DEF OnlyWithSession, LostByFailure, AgeIsReal, WaitsNoLonger
    <3> QED
      BY <3>1, <3>2
  <2> QED
    BY <2>1, <2>2, <2>3, <2>4, <2>5, <2>6, <2>7 DEF LoopNext, LoopStep
<1> QED
  BY <1>1, ClockInitHolds, ImplementsEntities, EntityInductive, PTL DEF LoopSpec

\* Every variable of the clock keeps a value of its kind.
THEOREM ClockTypeCorrect == LoopSpec => []ClockTypeOK
BY ClockInductive, PTL DEF ClockInv

\* No stamp of the epoch is reckoned from a synchronisation older than the
\* period: the age may turn over, but never unseen.
THEOREM EpochStaysFresh == LoopSpec => []EpochIsFresh
<1>1. ClockInv => EpochIsFresh
  BY ClockAssumption DEF ClockInv, ClockTypeOK, OnlyWithSession, AgeIsReal, EpochIsFresh
<1> QED
  BY <1>1, ClockInductive, PTL

\* Over a good link the robot is without a clock for a period and a pass at
\* most.
THEOREM UptimeStaysBrief == LoopSpec => []UptimeIsBrief
<1>1. ClockInv => UptimeIsBrief
  BY ClockAssumption DEF ClockInv, ClockTypeOK, WaitsNoLonger, UptimeIsBrief
<1> QED
  BY <1>1, ClockInductive, PTL

\* A telemetry that falls back to the uptime follows a synchronisation that
\* failed.
THEOREM FallsBackByFailure == LoopSpec => FallsBackOnlyByFailure
<1>1. ClockInv /\ [LoopNext]_loopVars =>
        [stamp = "epoch" /\ stamp' = "uptime" => failed]_loopVars
  <2> SUFFICES ASSUME ClockInv, LoopNext, stamp = "epoch", stamp' = "uptime"
               PROVE  failed
    OBVIOUS
  <2>1. CASE PublishWheelSpeeds
    BY <2>1 DEF PublishWheelSpeeds, ClockInv, LostByFailure
  <2>2. CASE CheckAgent \/ SkipCheck \/ Resync \/ SkipTelemetry \/ LinkChanges
    BY <2>2 DEF CheckAgent, SkipCheck, Resync, SkipTelemetry, LinkChanges
  <2>3. CASE \E ms \in 1 .. MaxPassMs : NextPass(ms)
    BY <2>3 DEF NextPass
  <2> QED
    BY <2>1, <2>2, <2>3 DEF LoopNext, LoopStep
<1> QED
  BY <1>1, ClockInductive, PTL DEF LoopSpec, FallsBackOnlyByFailure

=============================================================================
