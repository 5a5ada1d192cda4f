\* The status of the account after a reclaimed run.
SPECIFICATION SyncSpec
CONSTANTS
  r1 = r1
  r2 = r2
  regional = regional
  global = global
  Resources <- OneResource
  Tasks <- OneTask
  TaskOf <- SameTask
  Regional <- OneTask
  Provisionable = {}
  Account = acct
  Type = inventory
  MaxJobs = 1
  MaxClaims = 2
PROPERTIES
  ResultKept
