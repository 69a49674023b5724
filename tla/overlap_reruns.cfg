CONSTANTS
  h1 = h1  h2 = h2  c1 = c1  c2 = c2  c3 = c3
  Hosts <- TwoHosts
  Calls <- TwoCalls
  HostOf <- AllOnOne
  NSteps = 2
  Attempts <- FirstRetried
  Declared <- ButLast
  Hooks <- HooksEverywhere
  MaxOverlaps = 1
  MaxResumes = 1
  MaxThrows = 0
  MaxCrashes = 0
SPECIFICATION Spec
PROPERTIES
  CompletedNeverRerun
