\* Two threads with a connection each and the files they share.
CONSTANTS
  Threads = {t1, t2}
  Requests = {r1, r2, r3}
  Chunks = {c1, c2}
  NSlots = 1
  Files = {root, f1}
  Root = root
  Ops = {"lookup", "open", "release", "read", "write"}
  None = None
SPECIFICATION Spec
INVARIANTS NopenCoversHandles KnownFileHasFh
SYMMETRY RequestsAndThreads
CHECK_DEADLOCK FALSE
