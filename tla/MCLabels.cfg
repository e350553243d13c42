SPECIFICATION Spec
CONSTANTS
  Client = {c1, c2, c3, c4}
  Titles <- TwoTitles
  Untitled <- noname
  NULL = NULL
  MaxWindows = 5
SYMMETRY Symmetry
INVARIANT RingsInOrder
