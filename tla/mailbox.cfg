SPECIFICATION FairSpec
CONSTANTS
  Session = {s1}
  Runtime = {r1, r2}
  Request = {q1, q2, q3}
  Mailbox = {m1, m2, m3}
  MaxPanics = 1
  MaxResends = 1
  NoSession = NoSession
  NoRuntime = NoRuntime
  NilRuntime = NilRuntime
  NoBox = NoBox
  NoCall = NoCall
INVARIANT OneWorker LiveIsHeard QuietWhenRetired
PROPERTY ImplementsActor EveryCommandServed
CHECK_DEADLOCK FALSE
