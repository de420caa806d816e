SPECIFICATION FairSpec
CONSTANTS
  q1 = q1
  q2 = q2
  shared = shared
  own = own
  QueuePairs <- TwoQps
  Cqs <- TwoCqs
  SendCq <- SendsTo
  RecvCq <- RecvsTo
  Careful <- OnlyQ1
  QpDepth = 3
  CqDepth = 3
INVARIANT TypeOK
INVARIANT OverrunExplained
PROPERTY FullDrains
\* the process ends in a panic or an overrun, and a full queue may wait
CHECK_DEADLOCK FALSE
