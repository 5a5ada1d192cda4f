\* AWS prepares the data of the account between two series of one run: zeros stay and pass for totals.
SPECIFICATION CostSpec
CONSTANTS
  CostPlan <- ThreeSeries
  MonthStart <- Months
  ShortBack <- Back2
  LongBack <- Back3
  Restatable <- Back1
  MaxGap = 1
  CostErrors <- SomeCostErrors
  FirstDay = 6
  LastDay = 8
  MaxRestates = 1
  MaxCostRuns = 3
INVARIANTS
  NoMisleadingZero

CHECK_DEADLOCK FALSE
