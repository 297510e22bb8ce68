CONSTANTS
  m1 = m1
  m2 = m2
  r1 = r1
  r2 = r2
  Messages = {m1}
  Replicas = {r1}
  Prefetch = 100
  MaxRetries = 3
  MaxFaults = 0
SPECIFICATION Spec
INVARIANT UpToThreeAttempts
CHECK_DEADLOCK FALSE
