SPECIFICATION FairStreamSpec
CONSTANTS
  d1 = d1
  d2 = d2
  Desktop = {d1, d2}
  MaxEvents = 3
  JournalCap = 2
  QueueCap = 2
  BufferCap = 2
  MaxLinks <- MCMaxLinks
INVARIANT InOrder NoFalseExit
PROPERTY HandoverEnds
CHECK_DEADLOCK FALSE
