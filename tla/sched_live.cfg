SPECIFICATION LiveSpec
CONSTANTS
  th = th
  Process = {p1}
  Task = {t1,t2}
  Thread = {th}
  ThreadOf <- MCThreadOf
  Once = {t1,t2}
  Later = {t2}
  Invalid = {}
  MaxRows = 2
  MaxAttempts = 2
  MaxConcurrent = 1
  MaxRequests = 0
  Mortal = {p1}
  Stoppable = {p1}
  Lease = 1
  Grace = 1
  RetryDelay = 1
  Retention = 1
  MaxPerTask = 1
  Period = 1
  Skew = 0
  SlotSkew = 1
  Horizon = 2
PROPERTY EventuallyClosed
