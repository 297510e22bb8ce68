CONSTANTS
  m1 = m1
  m2 = m2
  r1 = r1
  r2 = r2
  Messages = {m1, m2}
  Replicas = {r1, r2}
  Prefetch = 2
  MaxRetries = 1
  MaxFaults = 2
SPECIFICATION FairSpec
INVARIANTS TypeOK Conserved TasksMatchDeliveries RedeliveredOnlyByFaults RunsBounded
PROPERTIES SettlesOnceForCause EventuallySettled
CHECK_DEADLOCK FALSE
