SPECIFICATION Spec
CONSTANTS
  a1 = a1
  a2 = a2
  waiter = waiter
  counter = counter
  Coros <- Everybody
  Update <- Updates
  Waits <- WhoWaits
  Expected = 4
INVARIANTS
  ResumedOnce
CHECK_DEADLOCK FALSE
