SPECIFICATION PSpec
CONSTANTS
  Pids = {p1, p2, p3}
  NoPid = nopid
  MaxTracees = 2
  Names = {}
  NoName = noname
  IndexKinds = {"wait_status"}
  PointerKinds = {}
  CallNames = {"read", "write", "close", "mmap"}
  MaxEntries = 3
  Elapsed = {0, 1}
  MaxFolds = 4
  Words <- MCWords
  MaxWords = 5
  NumberOf <- MCNumberOf
  SetOf <- MCSetOf
  FilterNames <- MCFilterNames
  BufLen = 7
  DefaultLen = 2
  MaxTokens = 3
  PidHalf = 5
INVARIANTS
  RowsAreExact DroppedOnlyWhenFull SlowestFirst
  ProgramIsWhatFollows FilterMeansUnion SizeWithinBuffer
PROPERTY
  ImplementsMap
