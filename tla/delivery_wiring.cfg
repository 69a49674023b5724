CONSTANTS
  e1 = e1  c1 = c1  c2 = c2  p1 = p1  p2 = p2  w1 = w1  w2 = w2
  Events <- OneEvent
  Consumers <- TwoConsumers
  Processes <- TwoProcesses
  Workers <- TwoWorkers
  ProcessOf <- Apart
  Wants <- WantAll
  WiredAtStart <- Wired
  MaxAttempts = 2
  LeaseTicks = 0
  MaxBatch = 1
  MaxCrashes = 1
  MaxReplays = 0
SPECIFICATION Spec
INVARIANT DeliveredReachedEveryone
