CONSTANTS
  p1 = p1  p2 = p2  e1 = e1  e2 = e2
  Processes = {p1}
  Versions = {1}
  Definitions <- Policies
  Valid <- validateRuleSet
  Absent = Absent
  MaxPuts = 1
  Evaluations = {e1}
  Inputs <- SomeInputs
  Evaluate <- pureEvaluate
  Malformed <- Throws
  MAX_DEPTH = 3
  Levels <- Nested
  MaxRestarts = 0
SPECIFICATION Spec
INVARIANTS
  EvaluationsAreRecorded
