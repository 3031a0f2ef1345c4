SPECIFICATION FairSpec
CONSTANTS
  Publishers = {p1, p2}
  Consumers = {c1, c2}
  Msgs = 1
  Clients = 2
  MaxDup = 1
  MaxTick = 1
  Options <- MixedOptions
INVARIANTS TypeOK MeasuredExact WindowsConserve   NothingLeaks
PROPERTIES RunReturns
CHECK_DEADLOCK FALSE
