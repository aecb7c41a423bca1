SPECIFICATION Spec
CONSTANTS
  w1 = w1
  w2 = w2
  w3 = w3
  Workers <- TwoWorkers
  CAP = 4
  WIDTH = 8
  MaxTasks = 6
SYMMETRY Symmetry
INVARIANTS
  RingBounds
  BatchNeverOverflows
  TasksConserved
