SPECIFICATION FairSpec
CONSTANTS
  Run = {r1}
  Thread = {t1}
  Key = {}
  Reader = {c1,c2}
  MaxEntries = 1
  Bridges = {"memory"}
  NoRun = NoRun
  NoKey = NoKey
INVARIANT ReadersAreFed
PROPERTY RunsAreRetired ReadersAreReleased
CHECK_DEADLOCK FALSE
