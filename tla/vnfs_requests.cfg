\* One thread, two slots, two chunks: slots, pool and completions when
\* callbacks run while the poller handles the next request.
CONSTANTS
  Threads = {t1}
  Requests = {r1, r2, r3}
  Chunks = {c1, c2}
  NSlots = 2
  Files = {root, f1}
  Root = root
  Ops = {"lookup", "getattr", "statfs", "fsync"}
  None = None
SPECIFICATION Spec
INVARIANTS TypeOK SlotExclusive SequenceInOrder CbDataExclusive
PROPERTY HalSpec
SYMMETRY RequestsAndChunks
CHECK_DEADLOCK FALSE
