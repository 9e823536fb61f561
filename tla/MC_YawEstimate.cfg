SPECIFICATION LoopSpec
CONSTANTS
  Readings <- MCReadings
  COMPASS_READ_PERIOD_MS = 2
  MaxPassMs = 2
  MaxTimeMs = 8
  Rates <- MCRates
  HALF = 4
  ALPHA = 1
  ALPHA_OF = 2
  HeadingOf <- MCHeadingOf
  IMU_READ_PERIOD_MS = 1
  CLOCK_WRAP = 6
  SETTLE = 3
INVARIANTS
  YawTypeOK
  OffsetCentres
  StaleIsElapsed
  FrozenOnlyByWrap
  HeldHeadingPins
CHECK_DEADLOCK FALSE
