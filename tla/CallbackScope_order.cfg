SPECIFICATION Spec
CONSTANTS
  rc = rc
  ud1 = ud1
  ud2 = ud2
  cq1 = cq1
  cq2 = cq2
  SendCq = send_cq
  RecvCq = recv_cq
  Qp = qp
  CqPlaces <- AllCqs
  QpPlaces <- AllQps
  Type <- Types
  NPorts = 2
  PortArgs = {0, 2, 3}
  Hints = {TRUE, FALSE}
  Handles = {1, 2, 3, 4, 5, 6, 7, 8, 9, 10, 11}
  MaxLeaked = 3
SYMMETRY Symmetry
VIEW View
CONSTRAINT Bounded
INVARIANT TypeOK
INVARIANT OwnedOnce
INVARIANT OrderlyClean
INVARIANT PortTold
CHECK_DEADLOCK FALSE
