SPECIFICATION FairSpec
CONSTANTS
  CONTROL_PERIOD_MS = 2
  CMD_TIMEOUT_MS = 2
  AGENT_CHECK_MS = 3
  MAG_CALIBRATION_DURATION_MS = 4
  KICKSTART_DURATION_MS = 1
  SENSOR_MS = 1
  LOG_MS = 1
  PING_MS = 1
  CREATE_MS = 2
  DESTROY_MS = 2
  COMMS_MS = 1
  UINT32 = 16
INVARIANTS
  TypeOK
  StopBound
  RestWhenWaiting
  KickEnds
  CalibrationOwnsTargets
PROPERTIES
  CalibrationBounded
  DeadManSwitch
  AgentLossRest
