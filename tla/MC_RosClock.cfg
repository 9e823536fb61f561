SPECIFICATION FairLoopSpec
CONSTANTS
  PUBLISH_RAW_ODOM_TF = FALSE
  Capacity <- MCCapacity
  MaxFailures = 1
  ROS_TIME_SYNC_PERIOD_MS = 3
  BOOT_MS = 1
  MaxPassMs = 2
  CLOCK_WRAP = 8
INVARIANTS
  ClockTypeOK
  EntitiesAccounted
  EpochIsFresh
  UptimeIsBrief
PROPERTIES
  Reconnects
  FallsBackOnlyByFailure
  ClockRecovers
