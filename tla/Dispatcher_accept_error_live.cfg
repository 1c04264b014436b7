CONSTANTS
  Worker = {w1, w2}
  Fd = {f1, f2}
  Main = main
  Nobody = nobody
  Failed = failed
  EMPTY_QUEUE = empty
  MAX_QUEUE_SIZE = 1
  AcceptFails = TRUE
  MaxSpurious = 0
SPECIFICATION FairSpec
PROPERTY EveryConnectionClosed
CHECK_DEADLOCK FALSE
