SPECIFICATION FairSpec
CONSTANTS
  d1 = d1
  Reader = Reader
  None = None
  Dispatchers = {d1}
  WriteCap = 2
  MaxFrames = 6
  Ids = {1}
  PerQueue = 1
PROPERTIES TeardownRequeues
CHECK_DEADLOCK FALSE
