SPECIFICATION RSpec
CONSTANTS
  CallNames <- MCCallNames
  Returns <- MCReturns
INVARIANTS
  EveryClaimHonoured
  OneLinePerCall
  SiblingsAreRight
  ClaimsAreShown
  DescriptorsResolved
  OutputsWereWritten
