CONSTANTS
  Root = Root
  left = left
  a = a
  b = b
  c = c
  d = d
  None = None
  Branch <- MCBranch
  Page <- MCPage
  Files <- LinearFile
  Early <- EarlyButForm
  MaxErrors = 0
  MaxOpens = 2
SPECIFICATION Spec
INVARIANTS PageAvailableIsComplete
CHECK_DEADLOCK FALSE
