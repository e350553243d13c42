SPECIFICATION Spec
CONSTANTS
  Win = {w1, w2}
  Client = {c1, c2}
  Frame = {f1, f2}
  Ws = {ws1, ws2}
  Screen = Screen
  NULL = NULL
SYMMETRY Symmetry
INVARIANTS TypeOK TreeConsistent ExactlyCurrentShown PointersSound
PROPERTIES NewClientGetsFocus KeepsPlacement
