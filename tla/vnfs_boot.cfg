\* Two connections come up while the host already sends requests.
CONSTANTS
  NThreads = 2
  Threads = {0, 1}
  Requests = {r1, r2}
  Chunks = {c1, c2}
  NSlots = 1
  Files = {root, f1}
  Root = root
  Ops = {"statfs", "getattr"}
  None = None
SPECIFICATION BootSpec
INVARIANTS BootTypeOK CbDataExclusive EstablishedInOrder
PROPERTY HalSpec
SYMMETRY RequestsAndChunks
CHECK_DEADLOCK FALSE
