CONSTANTS
  Root = Root
  left = left
  a = a
  b = b
  c = c
  d = d
  None = None
  Branch <- MCBranch
  Page <- MCPage
  Files <- PolledFiles
  Early <- EarlyForPolling
  MaxErrors = 0
  MaxOpens = 1
SPECIFICATION FairSpec
INVARIANTS TypeOK
PROPERTIES EventuallyDocAvail EventuallyPagesAvail
CHECK_DEADLOCK FALSE
