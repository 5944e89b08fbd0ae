SPECIFICATION CSpec
CONSTANTS
  Word = 2
  BufLen = 10
  MaxMem = 5
  StrLens = {1, 2, 3, 5, 10}
  BufLens = {0, 1, 3, 4, 7}
INVARIANT
  TruncationIsShown
