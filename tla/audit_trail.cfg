CONSTANTS
  k1 = k1  k2 = k2  c1 = c1  c2 = c2  p = p
  Principals = {p}
  Granted <- SomeGrants
  Unknown = Unknown
  MaxGrants = 2
  Filters = {"any", "event"}
  Readers <- SomeReaders
  Callers = {c1, c2}
  Keys = {k1, k2}
  EntityOf <- Entities
  Unnamed = Unnamed
  Batches <- SomeBatches
  Malformed = Malformed
  Correlation <- OneCorrelation
  Nil = Nil
  Earlier = 8
  Limit = 5
  MaxClock = 1
SPECIFICATION Spec
INVARIANTS
  TypeOK
  PagingMissesNothing
  WritesAreWhole
