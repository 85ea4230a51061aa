SPECIFICATION FairSpec
CONSTANTS
  t1 = t1  t2 = t2  t3 = t3
  u1 = u1  u2 = u2  u3 = u3  d1 = d1
  Keys = {u1, u2, u3}
  TaskIds = {t1, t2, t3}
  RunIds = {1, 2, 3}
  KeyOf <- ThreeUploads
  Direction <- DirectionOf
  MaxUpload = 1
  MaxDownload = 1
  Size = 0
  Beyond = 0
  MaxRetries = 0
  CmdCap = 1
  EventCap = 1
  NoTask = NoTask  NoKey = NoKey  NoRun = NoRun
PROPERTIES
  ServedInOrder
  Settles
