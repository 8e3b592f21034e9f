SPECIFICATION Spec
CONSTANTS
  o1 = o1
  o2 = o2
  o3 = o3
  b1 = b1
  b2 = b2
  b3 = b3
  b4 = b4
  NoObj = NoObj
  NoBtn = NoBtn
  Obj = {o1, o2}
  Btn = {b1, b2}
  ID <- BoxID
  Builtin <- BoxBuiltin
  Refreshing <- None
  WithSubPage <- None
  SwallowIds <- None
  MaxButtons = 1
  MaxQueue = 2
INVARIANTS
  TypeOK
  AnswerIsFresh
  ScreenMatchesModel
PROPERTIES
  StaleAnswerDropped
  ImplementsDialog
SYMMETRY Symmetry
VIEW View
