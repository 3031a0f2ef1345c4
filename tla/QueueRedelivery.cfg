SPECIFICATION Spec
CONSTANTS
  m1 = m1  m2 = m2
  c1 = c1  c2 = c2
  None = None
  Msgs = {m1, m2}
  Consumers = {c1, c2}
  Fragile = {c1}
  Prefetch = 2
  TagMod = 4
  Replies = {"ack"}
  Repeats = FALSE
SYMMETRY MessageSymmetry
INVARIANTS ExactlyOneCopy
CHECK_DEADLOCK FALSE
