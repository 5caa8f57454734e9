SPECIFICATION FairSpec
CONSTANTS
  g = g
  Glyph = {g}
  Tab = Tab
  NUL = NUL
  Cols = 3
  Rows = 2
  BufSize = 3
  LineSize = 3
  MaxOut = 2
INVARIANTS
  TypeOK
  CursorAtRest
PROPERTY ImplementsLineEditor
