SPECIFICATION FairSpec
CONSTANTS
  a1 = a1
  a2 = a2
  NoAcc = NoAcc
  Acc = {a1, a2}
  Size = 1
  MaxNotices = 1
  MaxQueue = 1
INVARIANTS
  TypeOK
  
PROPERTIES
  Reconnects
  SendEnds
