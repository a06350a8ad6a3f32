SPECIFICATION Spec
CONSTANTS
  s1 = s1
  s2 = s2
  b0 = b0
  b1 = b1
  b2 = b2
  Session = {s1, s2}
  Body <- MCBody
  MaxMessages <- MCMaxMessages
  MaxJobs = 1
  NoTask = NoTask
  NoDetail = NoDetail
SYMMETRY Symmetry
INVARIANT NothingForgotten AcknowledgedIsStored RemovedStayOut
