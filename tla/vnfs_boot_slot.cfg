\* Does the handshake share a slot with a request?
CONSTANTS
  NThreads = 2
  Threads = {0, 1}
  Requests = {r1, r2}
  Chunks = {c1}
  NSlots = 1
  Files = {root, f1}
  Root = root
  Ops = {"statfs", "getattr"}
  None = None
SPECIFICATION BootSpec
INVARIANT BootSlotExclusive
SYMMETRY RequestsAndChunks
CHECK_DEADLOCK FALSE
