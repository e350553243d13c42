SPECIFICATION TokzSpec
CONSTANTS
  Char <- Chars
  Bits = 5
  MaxText = 10
INVARIANTS LinesCounted NumberExact
PROPERTY EndsAtEof
