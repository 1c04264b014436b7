CONSTANTS
  Value = {4, 5, 6}
  EMPTY_QUEUE <- MCEmptyQueue
  Node = {n1, n2, n3, n4}
  NULL = null
SPECIFICATION Spec
INVARIANTS
  TypeOK
  WellLinked
  NoLeak
PROPERTY ImplementsFifo
