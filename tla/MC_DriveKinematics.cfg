SPECIFICATION DriveSpec
CONSTANTS
  ZERO_CMD_RPM_EPS = 1
  ZERO_CMD_MPS_EPS = 2
  ZERO_CMD_RADPS_EPS = 2
  MaxSpeed = 3
INVARIANTS
  CommandMoves
  LinearFollowsCommand
