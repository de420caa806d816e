SPECIFICATION Spec
CONSTANTS
  t1 = t1
  t2 = t2
  Threads <- TwoThreads
  K = 2
  Posted = 4
  Args = {0, 1, 3}
  TryArgs = {2, 3}
  Statuses <- Both
  MaxFails = 1
INVARIANT TypeOK
INVARIANT Accounted
INVARIANT TakesOnlyItsOwn
INVARIANT ReturnsWhatItTook
INVARIANT OverrunExplained
PROPERTY GivesUpOnlyWhenEmpty
CHECK_DEADLOCK FALSE
