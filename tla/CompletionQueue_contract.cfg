SPECIFICATION FairSpec
CONSTANTS
  t1 = t1
  t2 = t2
  Threads <- TwoThreads
  K = 2
  Posted = 4
  Args = {0, 1, 3}
  TryArgs = {0, 1, 2}
  Statuses <- Both
  MaxFails = 0
PROPERTY MeetsContract
PROPERTY CallsReturn
CHECK_DEADLOCK FALSE
