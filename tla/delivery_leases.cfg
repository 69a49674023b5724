CONSTANTS
  e1 = e1  c1 = c1  c2 = c2  p1 = p1  p2 = p2  w1 = w1  w2 = w2
  Events <- OneEvent
  Consumers <- OneConsumer
  Processes <- TwoProcesses
  Workers <- TwoWorkers
  ProcessOf <- Apart
  Wants <- WantAll
  WiredAtStart <- Wired
  MaxAttempts = 2
  LeaseTicks = 1
  MaxBatch = 1
  MaxCrashes = 1
  MaxReplays = 1
SPECIFICATION FairSpec
INVARIANTS
  TypeOK
  ClaimableHasAttempts
  AuditTellsTruth
  DuplicatesHaveCauses
PROPERTIES
  ImplementsLedger
  EventuallySettled
