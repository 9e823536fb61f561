SPECIFICATION FairSpec
CONSTANTS
  SEQ_MAX = 8
  RELIABLE_STREAM_DEPTH = 2
  NACKS = 2
  DATA_MAX = 2
  ACKNACK_MAX = 1
  MaxFragments = 2
  MaxRemains = 1
INVARIANT
  StreamsAgree
PROPERTIES
  ImplementsReliableStream
  WholeButByReset
  NeverStuck
