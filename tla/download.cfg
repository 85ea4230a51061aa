SPECIFICATION Spec
CONSTANTS
  Runs = {1, 2}
  Size = 2
  Beyond = 1
  MaxRetries = 1
  NoRun = NoRun
INVARIANTS TypeOK ContentIsRight NoGapAhead CompletedLandsWhole
PROPERTY ImplementsRunGroup
CHECK_DEADLOCK FALSE
