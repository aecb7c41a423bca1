SPECIFICATION Spec
CONSTANTS
  w1 = w1
  w2 = w2
  main = main
  t1 = t1
  t2 = t2
  Workers <- TwoWorkers
  Ext = ext
  Tasks = {main, t1, t2}
  Main = main
  Programs <- SafetyPrograms
  NoTask = none
SYMMETRY Symmetry
INVARIANTS
  TypeOK
  IdleCounts
  NoStrandedTask
  WakeUpsArrive
  NoWakeOfDestroyed
CHECK_DEADLOCK FALSE
