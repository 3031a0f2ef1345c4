SPECIFICATION FairSpec
CONSTANTS
  m1 = m1  m2 = m2
  c1 = c1
  None = None
  Msgs = {m1, m2}
  Consumers = {c1}
  Fragile = {}
  Prefetch = 1
  TagMod = 4
  Replies = {"drop"}
  Repeats = FALSE
PROPERTIES QueueDrains
CHECK_DEADLOCK FALSE
