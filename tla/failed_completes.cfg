CONSTANTS
  h1 = h1  h2 = h2  c1 = c1  c2 = c2  c3 = c3
  Hosts <- OneHost
  Calls <- TwoCalls
  HostOf <- AllOnOne
  NSteps = 2
  Attempts <- FirstRetried
  Declared <- ButLast
  Hooks <- HooksEverywhere
  MaxOverlaps = 0
  MaxResumes = 1
  MaxThrows = 1
  MaxCrashes = 0
SPECIFICATION Spec
INVARIANTS
  FailedNeverCompletes
