SPECIFICATION TrySpec
CONSTANTS
  c1 = c1
  c2 = c2
  c3 = c3
  Coros <- ThreeCoros
  Nobody = nobody
  Unlocking = unlocking
  Locking = locking
INVARIANTS
  MutualExclusion
