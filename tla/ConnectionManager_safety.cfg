SPECIFICATION Spec
CONSTANTS
  c1 = c1
  c2 = c2
  s1 = s1
  s2 = s2
  Server = Server
  NoQp = NoQp
  Clients <- TwoClients
  ServerQps <- TwoServerQps
  Ports = {1, 2}
  MayCrash <- Everybody
  CallbackKeeps <- EitherWay
  WithStop = FALSE
  MaxRecv = 1
  MaxSend = 1
SYMMETRY Symmetry
VIEW View
INVARIANT TypeOK
INVARIANT PairedWithReadyPeer
INVARIANT CallbackIsolated
INVARIANT ReachableIffPort1
INVARIANT SendFailureExplained
PROPERTY MeetsRendezvous
CHECK_DEADLOCK FALSE
