SPECIFICATION FairSpec
CONSTANTS
  MaxPrompts <- MCMaxPrompts
  MaxAsks <- MCMaxAsks
  MaxQueue = 2
INVARIANT RunsAsAnnounced SuccessMeansQuiet
PROPERTY CancelledTurnsEnd ChangesSettle
CHECK_DEADLOCK FALSE
