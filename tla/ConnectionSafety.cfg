SPECIFICATION FairSpec
CONSTANTS
  d1 = d1  d2 = d2
  Reader = Reader
  None = None
  Dispatchers = {d1, d2}
  WriteCap = 2
  MaxFrames = 8
  Ids = {1, 2}
  PerQueue = 2
INVARIANTS TypeOK RequestsAccounted HandshakeFirst RegisteredIsOwned
PROPERTIES SendReturns TornDownUnlessStranded
CHECK_DEADLOCK FALSE
