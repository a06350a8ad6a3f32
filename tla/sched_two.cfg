SPECIFICATION Spec
CONSTANTS
  th = th
  Process = {p1, p2}
  Task = {t1, t2}
  Thread = {th}
  ThreadOf <- MCThreadOf
  Once = {t1, t2}
  Later = {t2}
  Invalid = {}
  MaxRows = 2
  MaxAttempts = 2
  MaxConcurrent = 1
  MaxRequests = 0
  Mortal = {p1, p2}
  Stoppable = {}
  Lease = 1
  Grace = 1
  RetryDelay = 0
  Retention = 1
  MaxPerTask = 1
  Period = 2
  Skew = 1
  SlotSkew = 2
  Horizon = 3
SYMMETRY Symmetry
INVARIANT SerializedThreads LeaseholderFirst
PROPERTY TerminalIsFinal ImplementsContract
