SPECIFICATION FairSpec
CONSTANTS
  Rpms <- MCRpms
  KP = 2
  KI = 1
  KD = 2
  FF = 3
  SCALE = 2
  INTEGRAL_MAX = 14
  PWM_MAX = 6
  PWM_DEADBAND = 2
  MIN_PWM_START = 4
  KICKSTART = 2
  MaxDt = 2
INVARIANTS
  TypeOK
  OneChannelOn
PROPERTIES
  NeverPushedBack
  StuckWheelPushed
