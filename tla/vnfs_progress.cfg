\* One slot, so that requests wait for each other, and fair threads.
CONSTANTS
  Threads = {t1}
  Requests = {r1, r2, r3}
  Chunks = {c1, c2}
  NSlots = 1
  Files = {root, f1}
  Root = root
  Ops = {"lookup"}
  None = None
SPECIFICATION FairSpec
PROPERTY AnsweredUnlessLeaked
CHECK_DEADLOCK FALSE
