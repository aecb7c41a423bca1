SPECIFICATION FairSpec
CONSTANTS
  c1 = c1
  c2 = c2
  c3 = c3
  c4 = c4
  p1 = p1
  p2 = p2
  Nobody = nobody
  Null = null
  Closed = closed
  NoValue = none
  v1 = v1
  v2 = v2
INVARIANTS
  TypeOK
  ReleasedAtZero
  PermitsConserved
  WriterAlone
  AwaitersLinked
PROPERTIES
  EveryWaitEnds
  ImplementsBoundedQueue
CHECK_DEADLOCK FALSE
