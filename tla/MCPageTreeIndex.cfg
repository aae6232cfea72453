CONSTANTS
  Root = Root
  left = left
  inner = inner
  a = a
  b = b
  c = c
  d = d
  e = e
  None = None
  Branch <- MCBranch
  Page <- MCPage
  Files <- MCFiles
  Linearized = TRUE
  MaxPages = 5
  MoveMax = 2
  MaxEdits = 2
SPECIFICATION IndexSpec

PROPERTIES IndexIsThatOfThePage
CHECK_DEADLOCK FALSE
