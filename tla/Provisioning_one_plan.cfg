\* One plan, reconciled by two administrators at once.
SPECIFICATION FairSpec
CONSTANTS
  acct = acct
  p1 = p1
  p2 = p2
  east = east
  west = west
  Plans <- OnePlan
  Accounts = {acct}
  AccountOf <- SameAccount
  Admins = {admin1, admin2}
  Diligent = {admin1}
  NoPlan = NoPlan
  Regions <- OneRegion
  RegionOf <- OneRegionEach
  RegionSets <- AllRegions
  MaxInstances = 1
  ExpiryTicks = 1
  SessionTicks = 2
  WaitTicks = 5
  VisibleTicks = 1
  LagTicks = 1
  Removable <- OnePlan
  Disconnectable = {acct}
INVARIANTS
  FailedHasNothing
  SucceededIsComplete
PROPERTIES
  ReservationEnds
