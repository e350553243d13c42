SPECIFICATION Spec
CONSTANTS
  Frame = {f1, f2}
  Edln = {e}
  Cwin = {c}
  Screen = scr
  Cut = {k1}
  NULL = NULL
  MaxGrabs = 4
  MaxCommands = 1
SYMMETRY Symmetry
PROPERTY SubmapKeys
