SPECIFICATION FairSpec
CONSTANTS
  o1 = o1
  o2 = o2
  o3 = o3
  b1 = b1
  b2 = b2
  b3 = b3
  b4 = b4
  NoObj = NoObj
  NoBtn = NoBtn
  Obj = {o1, o2}
  Btn = {b1}
  ID <- TwoID
  Builtin <- TwoBuiltin
  Refreshing <- Live
  WithSubPage <- Live
  SwallowIds <- Edit
  MaxButtons = 0
  MaxQueue = 2
INVARIANTS
  WaiterReachable
PROPERTIES
  RefreshReturns
  AnswerEndsShow
