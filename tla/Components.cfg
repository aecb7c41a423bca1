SPECIFICATION ComponentsSpec
CONSTANTS
  s1 = s1
  s2 = s2
  r1 = r1
  r2 = r2
  Senders = {s1,s2}
  Receivers = {r1,r2}
  First = {s1,r1}
  Closers = {s1,s2,r1,r2}
  Caps = {0, 1}
  MaxSends = 2
  Nobody = nobody
  Closed = closedChannel
  Entries = {e1, e2}
  SLOT_SIZE = 2
  MAX_LEVEL = 2
  TicksPerMs = 2
  MaxTime = 18
  NoWheel = noWheel
  f1 = f1
  Frames = {f1, f2, f3, f4}
  NoFrame = noFrame
  Objects = {o1, o2}
  Fds = {0, 1}
  SqCapacity = 1
  MaxOpens = 2
  MaxMishaps = 1
  Period = 3
  MaxClock = 12
  RADIX = 8
  FIXED_LEN = 2
  BufSize = 6
  MaxCalls = 2
  MaxFaults = 1
  Files = {file1, file2}
  OldLens = {1}
  MaxBytes = 2
  MaxSeeks = 1
  Lens = {1, 3}
  Limits = {2, 3}
  MaxSeconds = 3
  MaxWrites = 3
  MaxRestarts = 1
  MaxCommands = 4
INVARIANTS
  ChannelTellsTheTruth
  WaitersHaveReason
  TimersAreFound
  FilesAreOwned
  CallsAreAnswered
  FileDoesAsAsked
  LogFilesRoll
  RepliesInStep
PROPERTIES
  ImplementsTimerQueue
  FramesAreOwned
  IntervalKeepsTime
CHECK_DEADLOCK FALSE
