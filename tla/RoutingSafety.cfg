SPECIFICATION Spec
CONSTANTS
  s1 = s1  s2 = s2
  q1 = q1  q2 = q2
  None = None
  Sessions = {s1, s2}
  Exchanges = {"x"}
  Queues = {q1, q2}
  Keys = {"k", "dead"}
  DeadLetters <- ThreeKinds
  MaxPublish = 1
  MaxDead = 1
SYMMETRY Symmetry
INVARIANTS TypeOK  FanOutComplete
CHECK_DEADLOCK FALSE
