CONSTANTS
  a = a  b = b  c = c  p = p  o = o  k = k
  Principals = {p}
  Granted <- SomeGrants
  Unknown = Unknown
  MaxGrants = 2
  Kinds = {"agent", "human", "ai"}
  Outcomes = {o}
  EventTypes = {"load.accepted", "load.offered"}
  EventKeys = {k}
  Versions <- SomeVersions
  Plans <- AllPlans
  None = None
  MaxRequests = 2
  MaxWiring = 3
SPECIFICATION Spec
CHECK_DEADLOCK FALSE
INVARIANTS
  TypeOK
  ServedInRole
  PlansRunInOrder
PROPERTIES
  RetriesAgree
