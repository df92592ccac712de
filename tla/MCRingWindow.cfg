CONSTANTS
  N = 3
  d1 = d1
  d2 = d2
  Data = {d1, d2}
  Length <- Lengths
  Buf = {b1, b2, b3, b4, b5}
  NULL = NULL
  Free = Free
  MaxAppends = 6
  AllocMayFail = TRUE
SPECIFICATION Spec
INVARIANT WindowSound
INVARIANT UndefinedExplained
INVARIANT BuffersOwned
PROPERTY ImplementsWindow
SYMMETRY Symmetry
