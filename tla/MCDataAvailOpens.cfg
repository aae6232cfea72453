CONSTANTS
  Root = Root
  left = left
  a = a
  b = b
  c = c
  d = d
  None = None
  Branch <- MCBranch
  Page <- MCPage
  Files <- Uncounted
  Early <- EarlyForOpening
  MaxErrors = 0
  MaxOpens = 1
SPECIFICATION Spec
INVARIANTS DocumentOpens
CHECK_DEADLOCK FALSE
