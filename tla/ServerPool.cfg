CONSTANTS
  Worker = {w1, w2}
  Fd = {f1, f2, f3}
  Main = main
  Nobody = nobody
  Failed = failed
  EMPTY_QUEUE = empty
  MAX_QUEUE_SIZE = 0
  AcceptFails = FALSE
  MaxSpurious = 1
SPECIFICATION PoolSpec
INVARIANT RestsWhenDone
PROPERTIES
  OthersAreServed
  AcceptsAgain
CHECK_DEADLOCK FALSE
