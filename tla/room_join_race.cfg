SPECIFICATION Spec
CONSTANTS
  w1 = w1
  w2 = w2
  Workers <- TwoWorkers
  MaxIds = 3
SYMMETRY Symmetric
INVARIANT HostSeated
CHECK_DEADLOCK FALSE
