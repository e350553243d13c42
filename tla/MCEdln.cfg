SPECIFICATION Spec
CONSTANTS
  a = a
  dot = dot
  NUL = NUL
  Junk = Junk
  None = None
  Alnum <- AlnumChars
  Other <- OtherChars
  Strings <- ShortTexts
  AllocUnit = 2
  HistorySize = 2
  MaxLine = 2
  MaxUnsound = 1
CHECK_DEADLOCK FALSE
INVARIANT SavedLineWhileBrowsing
PROPERTIES EditsKeepLineSound HistoryIsNewestFirst
