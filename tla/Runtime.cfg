SPECIFICATION RuntimeFairSpec
CONSTANTS
  c1 = c1
  c2 = c2
  c3 = c3
  Coros <- ThreeCoros
  Nobody = nobody
  Unlocking = unlocking
  Locking = locking
  SqSize = 2
  SubmitInterval = 2
  Batch = 1
  TicksPerMs = 1
  MaxTime = 1
  MaxOps = 2
  MaxQueued = 0
  Null = null
  Main = main
  Tasks = {main, t1, t2}
  io_interval = 2
  global_queue_interval = 2
  NoTask = noTask
  Capacity = 3
  Sizes = {1, 2, 4}
  MaxErrors = 1
  WCapacity = 3
  WSizes = {1, 2, 5}
  MaxWritten = 9
  MaxFaults = 1
  MaxMessages = 4
  PerBuffer = 1
  max_buffer_list_size = 2
  NumWorkers = 2
INVARIANTS
  MutualExclusion
  AwaitersQueued
  ThreadKeepsItsTasks
  
  WriterIsFaithful
  LoggerIsFaithful
  WorkersAreThere
PROPERTIES
  ImplementsFifoLock
  TimeoutsSettleOnce
  WhatIsBegunEnds
CHECK_DEADLOCK FALSE
