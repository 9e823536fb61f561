SPECIFICATION Spec
CONSTANTS
  TOTAL_SAMPLES = 2
  MaxLines = 6
INVARIANT
  ScanIsOneRotation
CHECK_DEADLOCK FALSE
