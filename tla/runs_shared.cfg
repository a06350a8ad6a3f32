SPECIFICATION Spec
CONSTANTS
  Run = {r1,r2}
  Thread = {t1,t2}
  Key = {k1}
  Reader = {}
  MaxEntries = 1
  Bridges = {"memory","redis"}
  NoRun = NoRun
  NoKey = NoKey
SYMMETRY Symmetry
INVARIANT Exclusion MarksCounted
PROPERTY KeysOutliveRuns InterruptedStands
CHECK_DEADLOCK FALSE
