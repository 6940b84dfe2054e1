SPECIFICATION FairSpec
CONSTANTS
  Requests = {r1, r2, r3}
  Forgets = {r3}
  MaxMsgs = 3
  QueueDepth = 2
  None = None
INVARIANTS OwnResponseOnce MsgsExclusive
PROPERTIES ForwardedAreCompleted
CHECK_DEADLOCK FALSE
