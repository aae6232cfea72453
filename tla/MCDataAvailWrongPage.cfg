CONSTANTS
  Root = Root
  left = left
  a = a
  b = b
  c = c
  d = d
  None = None
  Branch <- MCBranch
  Page <- MCPage
  Files <- LinearDeep
  Early <- EarlyButForm
  MaxErrors = 0
  MaxOpens = 1
SPECIFICATION Spec
INVARIANTS PageListIsRight
CHECK_DEADLOCK FALSE
