SPECIFICATION FairSpec
CONSTANTS
  TOTAL_SAMPLES = 3
  MaxLines = 5
INVARIANT
  ScansMatchStream
PROPERTY
  MarksAnswered
CHECK_DEADLOCK FALSE
