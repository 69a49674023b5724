CONSTANTS
  h1 = h1  h2 = h2  c1 = c1  c2 = c2  c3 = c3
  Hosts <- OneHost
  Calls <- TwoCalls
  HostOf <- AllOnOne
  NSteps = 4
  Attempts <- FirstRetried
  Declared <- ButLast
  Hooks <- HooksEverywhere
  MaxOverlaps = 0
  MaxResumes = 3
  MaxThrows = 0
  MaxCrashes = 0
SPECIFICATION FairSpec
INVARIANTS
  TypeOK
  PausedMeansQuiet
  AuditTellsStory
PROPERTIES
  ImplementsSaga
  EventuallyRests
