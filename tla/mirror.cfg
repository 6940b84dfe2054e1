SPECIFICATION Spec
CONSTANTS
  Threads = {t1, t2}
  Names = {n1, n2}
  Inos = {i1, i2, i3}
  Foreign = {i3}
  Ops = {"lookup", "unlink", "create", "mknod", "readdirplus", "open", "setattr", "forget", "release", "destroy", "rename", "enomem"}
  Cached = FALSE
  NBuckets = 2
  Hash <- MCHash
  NFds = 2
  MaxRequests = 4
  None = None
INVARIANTS TypeOK CountsExact NodeidsAlive EndsOnlyByRace FdsNameTheirFiles SomeThreadRuns
SYMMETRY Interchangeable
CHECK_DEADLOCK FALSE
