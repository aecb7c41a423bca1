SPECIFICATION FairSpec
CONSTANTS
  s1 = s1
  s2 = s2
  r1 = r1
  r2 = r2
  Senders = {s1}
  Receivers = {r1,r2}
  First = {s1,r1}
  Closers = {s1}
  Caps = {1}
  MaxSends = 1
  Nobody = nobody
  Closed = closed
PROPERTIES
  EveryRecvReturns
CHECK_DEADLOCK FALSE
