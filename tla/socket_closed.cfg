SPECIFICATION Spec
CONSTANTS
  r1 = r1
  r2 = r2
  s1 = s1
  s2 = s2
  NoRpc = NoRpc
  NoSock = NoSock
  Rpc <- NoCalls
  Sock = {s1}
  PongLimit = 1
  MaxQueue = 1
INVARIANTS
  ClosedStaysClosed
