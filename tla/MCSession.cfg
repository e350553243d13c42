SPECIFICATION Spec
CONSTANTS
  Frame = {f1, f2, f3}
  FRAME_ID_START_CLIENT = 9
  FRAME_ID_REORDER_INTERVAL = 4
  INT_MAX = 14
  w1 = w1
  w2 = w2
  Window = {w1, w2}
  TransientFor <- Transients
  NULL = NULL
  Screens = 2
  HandMade <- Texts
  MaxDepth = 2
  MaxFrames <- OneScreenLarge
  MaxStarts = 3
  MaxCommands = 2
SYMMETRY Symmetry
INVARIANTS IdsDistinct FramesKnown ComesBack
PROPERTY IdsSpec
