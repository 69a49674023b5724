CONSTANTS
  p1 = p1  p2 = p2  e1 = e1  e2 = e2
  Processes = {p1, p2}
  Versions = {1, 2}
  Definitions <- Policies
  Valid <- validateRuleSet
  Absent = Absent
  MaxPuts = 2
  Evaluations = {e1}
  Inputs <- SomeInputs
  Evaluate <- pureEvaluate
  Malformed <- Throws
  MAX_DEPTH = 3
  Levels <- Nested
  MaxRestarts = 1
SPECIFICATION Spec
SYMMETRY AlikeProcesses
INVARIANTS
  TypeOK
  LogIsAudited
  ReplayMatchesUnlessForked
  FirstRuleDecides
  RefusedForWantOfInput
PROPERTIES
  RowsAreImmutable
