SPECIFICATION ResizeSpec
CONSTANTS
  Values = {v1, v2}
  Capacities <- SmallCapacities
  NoValue = none
PROPERTIES
  ImplementsBoundedQueue
