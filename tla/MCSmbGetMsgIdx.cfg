CONSTANTS
  MaxNumber = 5
  MaxLen = 5
  IndexFiles <- MCIndexFiles
  Targets <- MCTargets
SPECIFICATION FairSpec
INVARIANTS NotFoundIsRight OffsetAddressesMessage
PROPERTIES SearchReturns
