SPECIFICATION RSpec
CONSTANTS
  CallNames <- MCCallNames
  Returns <- MCReturns
INVARIANT DirfdsResolved
