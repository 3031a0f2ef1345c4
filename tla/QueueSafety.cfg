SPECIFICATION Spec
CONSTANTS
  m1 = m1  m2 = m2  m3 = m3
  c1 = c1  c2 = c2
  None = None
  Msgs = {m1, m2, m3}
  Consumers = {c1, c2}
  Fragile = {c1}
  Prefetch = 1
  TagMod = 2
  Replies = {"ack", "requeue", "drop"}
  Repeats = FALSE
INVARIANTS TypeOK PrefetchRespected PendingIsRegistered FirstDispatchInOrder
PROPERTIES NoLossUnlessTagClash
CHECK_DEADLOCK FALSE
