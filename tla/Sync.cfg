\* One task and one resource, which provisioning records as well, a job claimed twice; two tasks of a job claimed once;
\* two plans of one account, in two regions, with room for one resource; three
\* runs over three days of costs.
SPECIFICATION PartsSpec
CONSTANTS
  r1 = r1
  r2 = r2
  regional = regional
  global = global
  Resources <- OneResource
  Tasks <- OneTask
  TaskOf <- SameTask
  Regional <- OneTask
  Provisionable <- OneResource
  Account = acct
  Type = inventory
  MaxJobs = 1
  MaxClaims = 2
  acct = acct
  p1 = p1
  p2 = p2
  east = east
  west = west
  Plans <- TwoPlans
  Accounts = {acct}
  AccountOf <- SameAccount
  Admins = {admin}
  Diligent = {admin}
  NoPlan = NoPlan
  Regions <- TwoRegions
  RegionOf <- OneRegionEach
  RegionSets <- Narrowed
  MaxInstances = 1
  ExpiryTicks = 1
  SessionTicks = 2
  WaitTicks = 4
  VisibleTicks = 1
  LagTicks = 0
  Removable = {}
  Disconnectable = {}
  CostPlan <- ThreeSeries
  MonthStart <- Months
  ShortBack <- Back2
  LongBack <- Back3
  Restatable <- Back1
  MaxGap = 1
  CostErrors <- SomeCostErrors
  FirstDay = 6
  LastDay = 8
  MaxRestates = 1
  MaxCostRuns = 3
INVARIANTS
  
  HistoryTold
  WithinLimit
  OneCreation
  AvailableIsComplete
PROPERTIES
  DeletionIsTruthful
CHECK_DEADLOCK FALSE
