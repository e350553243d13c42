SPECIFICATION BindingsSpec
CONSTANTS
  Keycode <- Keys
  NumLock = 13
  ScrollLock = 15
  Modifier <- Masks
  LockMask = 2
  Modmaps <- Mappings
  Action = {0, 1}
  Binding <- Some
  MaxBindings = 3
INVARIANT BindingsFound
PROPERTY WaitEnds
