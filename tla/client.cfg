SPECIFICATION FairSpec
CONSTANTS
  First = h1
  Handles = {h1, h2}
  Calls = {1, 2, 3}
  ChanCap = 2
  NoExec = NoExec
  NoTask = NoTask
INVARIANTS TypeOK OneExecutorPerHandle CloseIsFinal ClosedExecutorIsEmpty AcceptedIsFound
PROPERTIES SubmittedIsAdmitted Settles
CHECK_DEADLOCK FALSE
