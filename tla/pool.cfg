SPECIFICATION FairPoolSpec
CONSTANTS
  Caller = {c1, c2, c3}
  Slot = {s1, s2}
  Catalog = s1
  Server = {g1, g2}
  MaxCalls = 4
  NoServer = NoServer
INVARIANT OneServer HeldIsCurrent WaitersAreWoken
PROPERTY CallsEnd
CHECK_DEADLOCK FALSE
