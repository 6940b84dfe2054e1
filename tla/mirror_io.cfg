SPECIFICATION FairSpec
CONSTANTS
  Size = 4
  Consumers = {p1}
  Producers = {q1}
  Requests = {r1, r2, r3, r4}
  Backends = {"uring", "aio"}
  None = None
INVARIANTS IoTypeOK OnceUnlessFault ChunksAccounted
PROPERTIES PoolSpec DeferredAreCompleted
CHECK_DEADLOCK FALSE
