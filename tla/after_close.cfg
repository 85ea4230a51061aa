SPECIFICATION Spec
CONSTANTS
  First = h1
  Handles = {h1, h2}
  Calls = {1, 2, 3}
  ChanCap = 2
  NoExec = NoExec
  NoTask = NoTask
INVARIANTS NothingRunsAfterClose
CHECK_DEADLOCK FALSE
