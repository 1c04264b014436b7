CONSTANTS
  Stream <- ShortStreams
  Waiting = TRUE
  MAXLENGTH = 5
  INT_MAX = 3
  LONG_MAX = 31
SPECIFICATION FairSpec
PROPERTY EveryRequestParsed
CHECK_DEADLOCK FALSE
