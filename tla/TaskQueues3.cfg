SPECIFICATION Spec
CONSTANTS
  w1 = w1
  w2 = w2
  w3 = w3
  Workers <- ThreeWorkers
  CAP = 2
  WIDTH = 4
  MaxTasks = 3
SYMMETRY Symmetry
INVARIANTS
  OneThief
  TasksConserved
