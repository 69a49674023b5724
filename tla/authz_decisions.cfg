CONSTANTS
  d1 = d1  d2 = d2  standing = standing  eligibility = eligibility
  registry = registry  governance = governance
  s1 = s1  e1 = e1  e2 = e2  g1 = g1
  Decisions = {d1, d2}
  FactTypes = {standing, eligibility}
  Producers = {registry, governance}
  Providers = {s1, e1, e2, g1}
  FactOf <- Reports
  ProducerOf <- Owner
  Nobody = Nobody
  Wired <- EligibilityWired
  Definitions <- Installed
  Undefined = Undefined
  Values = {"good", "bad"}
  Initially <- EligibleOnly
  Unparsable = Unparsable
  Unread = Unread
  Compose <- AllGood
  MaxStaleness <- NoSlack
  Skew = 1
  MaxChanges = 2
  MaxFaults = 1
SPECIFICATION FairSpec
INVARIANTS
  TypeOK
  AllowIsEarned
  RevocationSeen
  AnswersAreOnRecord
  FactsHaveOneSource
PROPERTIES
  VerdictIsFinal
  EveryDecisionEnds
