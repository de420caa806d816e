SPECIFICATION Spec
CONSTANTS
  c1 = c1
  c2 = c2
  s1 = s1
  s2 = s2
  Server = Server
  NoQp = NoQp
  Clients <- OneClient
  ServerQps <- OneServerQp
  Ports = {1}
  MayCrash <- Nobody
  CallbackKeeps <- NeverKept
  WithStop = FALSE
  MaxRecv = 1
  MaxSend = 1
INVARIANT SendWorksNormally
CHECK_DEADLOCK FALSE
