SPECIFICATION Spec
CONSTANTS
  Runs = {1, 2}
  Size = 2
  MaxRetries = 1
  NoRun = NoRun
INVARIANTS TypeOK CompletedIsStored NeverAhead
PROPERTY ImplementsRunGroup
CHECK_DEADLOCK FALSE
