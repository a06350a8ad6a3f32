SPECIFICATION Spec
CONSTANTS
  th = th
  Process = {p1}
  Task = {t1,t2}
  Thread = {th}
  ThreadOf <- MCThreadOf
  Once = {}
  Later = {}
  Invalid = {t2}
  MaxRows = 2
  MaxAttempts = 2
  MaxConcurrent = 2
  MaxRequests = 1
  Mortal = {}
  Stoppable = {p1}
  Lease = 1
  Grace = 1
  RetryDelay = 1
  Retention = 0
  MaxPerTask = 1
  Period = 1
  Skew = 1
  SlotSkew = 0
  Horizon = 2
INVARIANT RetryMeansQuiet NoStrandedWork PauseReachesRuns
