SPECIFICATION Spec
CONSTANTS
  Char = {1, 2}
  Strings <- Texts
  Sizes <- TheSizes
  COL_SPACING = 1
  Prompt = 1
  MaxLine = 3
  Answers <- TheAnswers
CHECK_DEADLOCK FALSE
PROPERTIES PictureTrue CompletionRight
INVARIANT ListingScrolls
