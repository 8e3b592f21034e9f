SPECIFICATION Spec
CONSTANTS
  title = title
  row = row
  w1 = w1
  w2 = w2
  long = long
  r1 = r1
  r2 = r2
  Texts = {title, row}
  Title = title
  Words = {w1, w2, long}
  Says <- TitleAndRow
  LongWords = {long}
  MaxItems = 2
  Requests = {r1, r2}
  Delegates <- Either
INVARIANTS TypeOK Aligned CacheEmptied
PROPERTIES AskedIsTranslated
SYMMETRY Taps
