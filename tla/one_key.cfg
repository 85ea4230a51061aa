SPECIFICATION FairSpec
CONSTANTS
  t1 = t1  t2 = t2  t3 = t3
  u1 = u1  u2 = u2  u3 = u3  d1 = d1
  Keys = {d1}
  TaskIds = {t1, t2}
  RunIds = {1, 2, 3}
  KeyOf <- SharedDownload
  Direction <- DirectionOf
  MaxUpload = 1
  MaxDownload = 1
  Size = 2
  Beyond = 1
  MaxRetries = 1
  CmdCap = 1
  EventCap = 2
  NoTask = NoTask  NoKey = NoKey  NoRun = NoRun
INVARIANTS
  TypeOK
  SlotIsBacked
  CancelledIffPaused
PROPERTIES
  
  Settles
