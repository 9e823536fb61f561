------------------------------ MODULE RosClock ------------------------------
(***************************************************************************)
(* The clock behind the telemetry's stamps (firmware/src/main.cpp,         *)
(* syncRosClock and setRosTimeFromMillis), on top of RosEntities: the      *)
(* session is synchronised while the entities are created, again when the  *)
(* last success is ROS_TIME_SYNC_PERIOD_MS ago, and a failure falls back   *)
(* to stamps of the uptime.                                                *)
(*                                                                         *)
(* Time.  `lag` is millis() - now: the blocking calls of a pass make it    *)
(* grow, and a synchronisation is dated with millis(), so its age, a       *)
(* uint32, may be that of a time after `now`.                              *)
(***************************************************************************)
EXTENDS RosEntities, Integers

CONSTANTS
  ROS_TIME_SYNC_PERIOD_MS,
  BOOT_MS,      \* setup() has taken this long
  MaxPassMs,    \* longest pass of loop()
  CLOCK_WRAP    \* 2^32

ASSUME ClockAssumption ==
  /\ ROS_TIME_SYNC_PERIOD_MS \in Nat \ {0}
  /\ BOOT_MS \in Nat
  /\ MaxPassMs \in Nat \ {0}
  /\ CLOCK_WRAP \in Nat \ {0}
  /\ BOOT_MS < CLOCK_WRAP
  /\ ROS_TIME_SYNC_PERIOD_MS + 2 * MaxPassMs <= CLOCK_WRAP

VARIABLES
  phase,     \* the part of the pass to come: "check", "sync", "publish", "end"
  lag,
  synced,    \* g_ros_time_synced
  sync_age,  \* now - g_last_ros_time_sync_ms, as the code computes it
  stamp,     \* history: the last telemetry's stamp: "none", "uptime" or "epoch"
  failed,    \* history: has a synchronisation failed since that stamp?
  since,     \* history: the real time from the last success to `now`
  waited     \* history: time connected over a good link without a clock

clockVars == <<synced, sync_age, failed, since>>
loopVars  == <<vars, phase, lag, clockVars, stamp, waited>>

\* The histories stop counting here: two passes after all is decided.
Enough == ROS_TIME_SYNC_PERIOD_MS + 2 * MaxPassMs

LoopInit ==
  /\ Init
  /\ phase = "check"
  /\ lag = 0
  /\ synced = FALSE
  /\ sync_age = BOOT_MS
  /\ stamp = "none"
  /\ failed = FALSE
  /\ since = Enough
  /\ waited = 0

-----------------------------------------------------------------------------

\* The difference of two millis(), as a uint32.  Variant: a wider integer.
WideDifference(x) == x
Difference(x)     == x % CLOCK_WRAP

\* syncRosClock, done at lag'.  A failure forgets that there was a clock.
SyncRosClock ==
  \/ /\ link # "down"
     /\ synced' = TRUE
     /\ sync_age' = Difference(-lag')
     /\ since' = -lag'
     /\ UNCHANGED failed
  \/ /\ link # "good"
     /\ synced' = FALSE
     /\ failed' = TRUE
     /\ UNCHANGED <<sync_age, since>>

\* What a creation that reaches its first n entities does to the clock: the
\* session is synchronised after the node.  Variant: it is not.
CreationLeavesClock(n) == UNCHANGED clockVars
CreationSetsClock(n)   == IF n >= 2 THEN SyncRosClock ELSE UNCHANGED clockVars

DestroySetsClock ==
  /\ synced' = (synced /\ ~created)
  /\ UNCHANGED <<sync_age, failed, since>>

CheckAgent ==
  /\ phase = "check"
  /\ lag' \in lag .. MaxPassMs
  /\ \/ DestroyRosEntities /\ DestroySetsClock
     \/ \E n \in 0 .. Steps : CreateRosEntities(n) /\ CreationSetsClock(n)
  /\ phase' = IF agent' = "Connected" THEN "sync" ELSE "end"
  /\ UNCHANGED <<stamp, waited>>

\* The check is not due, or changes nothing.
SkipCheck ==
  /\ phase = "check"
  /\ phase' = IF agent = "Connected" THEN "sync" ELSE "end"
  /\ UNCHANGED <<vars, lag, clockVars, stamp, waited>>

\* When the session is synchronised again.  Variants: later; only while it
\* still is.
DueAfter    == sync_age > ROS_TIME_SYNC_PERIOD_MS
DueIfSynced == synced /\ sync_age >= ROS_TIME_SYNC_PERIOD_MS
Due         == sync_age >= ROS_TIME_SYNC_PERIOD_MS

Resync ==
  /\ phase = "sync"
  /\ phase' = "publish"
  /\ IF Due THEN lag' \in lag .. MaxPassMs /\ SyncRosClock
            ELSE UNCHANGED <<lag, clockVars>>
  /\ UNCHANGED <<vars, stamp, waited>>

\* setRosTimeFromMillis, for all the stamps of one telemetry.  A session in
\* synchrony with an agent has a positive epoch_ms: the agent's Unix time.
PublishWheelSpeeds ==
  /\ phase = "publish"
  /\ created
  /\ phase' = "end"
  /\ stamp' = IF synced THEN "epoch" ELSE "uptime"
  /\ failed' = FALSE
  /\ UNCHANGED <<vars, lag, synced, sync_age, since, waited>>

SkipTelemetry ==
  /\ phase = "publish"
  /\ phase' = "end"
  /\ UNCHANGED <<vars, lag, clockVars, stamp, waited>>

Capped(t) == IF t > Enough THEN Enough ELSE t

NextPass(ms) ==
  /\ phase = "end"
  /\ ms >= lag
  /\ phase' = "check"
  /\ lag' = 0
  /\ sync_age' = Difference(sync_age + ms)
  /\ since' = Capped(since + ms)
  /\ waited' = IF agent = "Connected" /\ link = "good" /\ ~synced
                 THEN Capped(waited + ms) ELSE 0
  /\ UNCHANGED <<vars, synced, stamp, failed>>

\* The link changes at any moment; the waiting starts over.
LinkChanges ==
  /\ \E quality \in {"down", "lossy", "good"} : LinkBecomes(quality)
  /\ waited' = 0
  /\ UNCHANGED <<phase, lag, clockVars, stamp>>

LoopStep ==
  \/ CheckAgent
  \/ SkipCheck
  \/ Resync
  \/ PublishWheelSpeeds
  \/ SkipTelemetry
  \/ \E ms \in 1 .. MaxPassMs : NextPass(ms)

LoopNext == LoopStep \/ LinkChanges

LoopSpec == LoopInit /\ [][LoopNext]_loopVars

\* The loop task runs, and a check that would act comes round every 500 ms.
FairLoopSpec == LoopSpec /\ WF_loopVars(LoopStep) /\ SF_loopVars(CheckAgent)

-----------------------------------------------------------------------------

\* The entities are as RosEntities has them; the age is a uint32.
ClockTypeOK ==
  /\ TypeOK
  /\ phase \in {"check", "sync", "publish", "end"}
  /\ lag \in 0 .. MaxPassMs
  /\ synced \in BOOLEAN
  /\ sync_age \in 0 .. (CLOCK_WRAP - 1)
  /\ stamp \in {"none", "uptime", "epoch"}
  /\ failed \in BOOLEAN
  /\ since \in (-MaxPassMs) .. Enough
  /\ waited \in 0 .. Enough

\* A stamp of the epoch is reckoned from a synchronisation younger than the
\* period, whatever disconnections, failed creations and turns of the uint32
\* lie between; also in the pass that has just created the entities, where
\* the synchronisation is newer than `now`.
EpochIsFresh == phase = "publish" /\ synced => since < ROS_TIME_SYNC_PERIOD_MS

\* Over a good link a connected robot stamps with its uptime for less than
\* the period and the pass that created the entities.  It comes to that when
\* the second synchronisation of that pass, due because the first one is newer
\* than `now`, fails: the first one's date puts off the next.
UptimeIsBrief ==
  phase = "publish" /\ ~synced => waited < ROS_TIME_SYNC_PERIOD_MS + MaxPassMs

\* The stamps jump back from the epoch to the uptime only if a
\* synchronisation has failed in between: a reconnection alone never does it.
FallsBackOnlyByFailure ==
  [][stamp = "epoch" /\ stamp' = "uptime" => failed]_loopVars

\* If the link is good from some time on, so is the clock.
ClockRecovers == <>[](link = "good") => <>[]synced

=============================================================================
