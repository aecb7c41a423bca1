SPECIFICATION FairSpec
CONSTANTS
  w1 = w1
  w2 = w2
  main = main
  t1 = t1
  t2 = t2
  Workers <- TwoWorkers
  Ext = ext
  Tasks = {main}
  Main = main
  Programs <- LivePrograms
  NoTask = none
PROPERTIES
  EveryTaskRuns
  ShutdownCompletes
CHECK_DEADLOCK FALSE
