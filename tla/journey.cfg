CONSTANTS
  maria = maria  james = james  new = new
  defy = defy  fortune = fortune
  l1 = l1  l2 = l2  l3 = l3
  None = None
  Ids = {maria, james, new}
  Seeded <- FirstDay
  Partners = {defy, fortune}
  Names = {"Maria Rodriguez", "James Carter"}
  mariaName = "Maria Rodriguez"
  Loads = {l1, l2, l3}
  Compatible = {l1, l2}
  DemoLoad = l2
  MaxPending = 2
  MaxCalls = 8
SPECIFICATION Spec
INVARIANTS
  TypeOK
  OperatingIsEquipped
  RecordedOncePerPartner
  OneHaulerPerLoad
