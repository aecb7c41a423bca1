SPECIFICATION Spec
CONSTANTS
  w1 = w1
  w2 = w2
  w3 = w3
  w4 = w4
  r1 = r1
  Writers = {w1}
  Readers = {r1}
  Nobody = nobody
  READER_MASK = 3
INVARIANTS
  UnlocksWhatIsLocked
