SPECIFICATION FairSpec
CONSTANTS
  CONTROL_PERIOD_MS = 2
  RPM_ESTIMATION_WINDOW_MS = 4
  MAX_COUNTS = 1
  RPM_NOISE_EPS = 2
  SCALE = 3
  TO_CONTROL_MS = 3
  PASS_MS = 3
  HALF = 8
INVARIANTS
  TypeOK
  DeltaIsTravel
PROPERTIES
  DiscardsOnlyWhenLate
  StandstillSeen
