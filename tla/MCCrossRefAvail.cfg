CONSTANTS
  Offset <- MCOffset
  None = None
  Kind <- MCKind
  Items <- MCItems
  Prev <- MCPrev
  XRefStm <- MCXRefStm
  First <- MCFirst
  Last <- MCLast
  Starts <- MCStarts
  MaxErrors = 1
  BlockSize = 2
  FileSize = 35
  MaxOffset = 36
SPECIFICATION FairSpec
INVARIANTS TypeOK AvailableIsComplete ErrorHasReason
PROPERTIES WaitsForAsked ImplementsCheck CallReturns EventuallyAvailable
