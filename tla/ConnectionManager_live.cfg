SPECIFICATION FairSpec
CONSTANTS
  c1 = c1
  c2 = c2
  s1 = s1
  s2 = s2
  Server = Server
  NoQp = NoQp
  Clients <- TwoClients
  ServerQps <- TwoServerQps
  Ports = {1}
  MayCrash <- Everybody
  CallbackKeeps <- EitherWay
  WithStop = TRUE
  MaxRecv = 0
  MaxSend = 1
PROPERTY ConnectReturns
CHECK_DEADLOCK FALSE
