SPECIFICATION Spec
CONSTANTS
  Screen = {s1}
  MAX_TOKENS = 3
  MAX_NEST = 3
  MaxErrors = 2
  MaxFiles = 2
INVARIANTS SectionsMatch HandlersFollow
