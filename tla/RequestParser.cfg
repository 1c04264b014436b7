CONSTANTS
  Stream <- Streams
  Waiting = TRUE
  MAXLENGTH = 5
  INT_MAX = 3
  LONG_MAX = 31
SPECIFICATION FairSpec
INVARIANTS
  TypeOK
  AnswerFollowsRequest
  LengthsAddUp
PROPERTY RequestsParsed
CHECK_DEADLOCK FALSE
