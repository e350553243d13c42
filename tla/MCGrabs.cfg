SPECIFICATION Spec
CONSTANTS
  Frame = {f1, f2}
  Edln = {}
  Cwin = {c}
  Screen = scr
  Cut = {k1, k2}
  NULL = NULL
  MaxGrabs = 3
  MaxCommands = 2
SYMMETRY Symmetry
INVARIANTS TypeOK ShortcutsMatch KeyboardFreed TopUnmarked ModesHeld
PROPERTY OnlyOwnGrabRemoved
