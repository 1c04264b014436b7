CONSTANTS
  Worker = {w1, w2, w3}
  Fd = {f1, f2, f3, f4, f5}
  Main = main
  Nobody = nobody
  Failed = failed
  EMPTY_QUEUE = empty
  MAX_QUEUE_SIZE = 1
  AcceptFails = TRUE
  MaxSpurious = 1
SPECIFICATION Spec
SYMMETRY Symmetry
INVARIANTS
  TypeOK
  LockDiscipline
  NoConnectionLost
  NoConnectionShared
  QueueBound
  NoLostRoom
  NoIdleWorker
CHECK_DEADLOCK FALSE
