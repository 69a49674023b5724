CONSTANTS
  h1 = h1  h2 = h2  c1 = c1  c2 = c2  c3 = c3
  Hosts <- TwoHosts
  Calls <- ThreeCalls
  HostOf <- ThirdApart
  NSteps = 3
  Attempts <- FirstRetried
  Declared <- ButLast
  Hooks <- HooksOnFirst
  MaxOverlaps = 1
  MaxResumes = 3
  MaxThrows = 1
  MaxCrashes = 1
SPECIFICATION Spec
INVARIANTS
  DependenciesFirst
  UndoneInReverse
PROPERTIES
  RerunsNeedOverlap
  TerminalIsFinal
SYMMETRY FirstTwoAlike
VIEW WhatIsRead
