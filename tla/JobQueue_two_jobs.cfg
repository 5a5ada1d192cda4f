\* Two rows of one key, two interchangeable workers: runs of an older job against a newer one.
\* MCTwoJobs says how retries, deletion of the account and runs side by side share the run.
SPECIFICATION TwoJobsSpec
CONSTANTS
  w1 = w1
  w2 = w2
  MaxJobs = 2
  Accounts = {acct}
  Types = {inventory}
  HandledTypes = {inventory}
  Workers <- TwoWorkers
  Callers = {c1}
  NoWorker = NoWorker
  Skew <- FairClocks
  LeaseTicks = 1
  BackoffTicks = {0}
  MaxAttempts = 2
  Concurrency = 2
  MaxClaims = 2
  Outcomes = {"SUCCEEDED"}
  MaxDown = 0
  Deletable = {acct}
  Floor <- OldestInstant
INVARIANTS
  OneWriterPerKey
PROPERTIES
  NoStaleOverwrite
SYMMETRY WorkerSymmetry
