\* One row, of a type with a handler or of one without, two workers with skewed clocks of which one may die or stop: every
\* job and every shutdown ends, and the queue implements the abstract lease.
SPECIFICATION FairSpec
CONSTANTS
  w1 = w1
  w2 = w2
  MaxJobs = 1
  Accounts = {acct}
  Types = {inventory, export}
  HandledTypes = {inventory}
  Workers <- TwoWorkers
  Callers = {c1}
  NoWorker = NoWorker
  Skew <- SkewedClocks
  LeaseTicks = 1
  BackoffTicks = {0}
  MaxAttempts = 2
  Concurrency = 1
  MaxClaims = 3
  Outcomes = {"SUCCEEDED"}
  MaxDown = 1
  Deletable = {acct}
  Floor <- OldestInstant
PROPERTIES
  JobsEnd
  StopTerminates
  ImplementsLease
