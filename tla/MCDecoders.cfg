SPECIFICATION DSpec
CONSTANTS
  Word = 2
  BufLen = 10
  MaxMem = 5
  StrLens = {1, 2, 3, 5, 10}
  BufLens = {0, 1, 3, 4, 7}
  Decoder <- ValueDecoder
  Call <- MCCall
  Buffers <- MCBuffers
  Cap = 2
  Header = 2
  MaxBytes = 10
  MaxBits = 4
  OutSize = 14
  List <- MCList
  LongSize = 8
  StructCall <- MCStructCall
  CmsgBuf = 160
  MaxControl = 64
  Controls = {0, 12, 16, 40, 64, 100}
  Lengths = {0, 16, 20, 28, 48}
  Digits = {3, 10}
INVARIANTS
  ShowsOnlyTheArgument QuotedAndTerminated UnmarkedCutsAreFull ShowsAllItCan
  ReadsBack WidestFirst WritesInside EveryTextFits
  ShowsThePrefix DotsMeanMore DropsOnlyWhenFull PrintsWhatWasRead
PROPERTY
  DecodersReturn
