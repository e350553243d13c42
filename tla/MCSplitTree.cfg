CONSTANTS
  Frame = {f1, f2, f3, f4}
  Split = {p1, p2, p3}
  ScreenW = 3
  ScreenH = 5
  MinW = 1
  MinH = 2
  NULL = NULL
SYMMETRY Symmetric
SPECIFICATION Spec
INVARIANTS LayoutSound RubberBandTrue SizesAreBest NeighbourAdjacent
PROPERTIES CurrentStays RestartKeepsLayout
