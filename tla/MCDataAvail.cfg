CONSTANTS
  Root = Root
  left = left
  a = a
  b = b
  c = c
  d = d
  None = None
  Branch <- MCBranch
  Page <- MCPage
  Files <- AskedFiles
  Early <- EarlyForPages
  MaxErrors = 1
  MaxOpens = 2
SPECIFICATION InTurnSpec
INVARIANTS PageListIsRight PageAvailableIsComplete PageErrorHasReason DocumentOpens
CHECK_DEADLOCK FALSE
