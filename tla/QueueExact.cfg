SPECIFICATION Spec
CONSTANTS
  m1 = m1  m2 = m2  m3 = m3
  c1 = c1  c2 = c2
  None = None
  Msgs = {m1, m2, m3}
  Consumers = {c1, c2}
  Fragile = {}
  Prefetch = 2
  TagMod = 4
  Replies = {"ack", "requeue", "drop"}
  Repeats = TRUE
SYMMETRY Symmetry
INVARIANTS ExactlyOneCopy InflightExact
PROPERTIES ImplementsDelivery
CHECK_DEADLOCK FALSE
