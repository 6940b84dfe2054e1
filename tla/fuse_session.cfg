\* One device (sessions are independent); a kernel that offers everything, one without MAX_PAGES and an
\* old one; a file system that may ask for more than the kernel can do.
SPECIFICATION Spec
CONSTANTS
  Devices = {d1}
  QueueDepth = 2
  Offers <- KernelOffers
  Minors = {5, 31}
  Readaheads = {32, 128}
  Opcodes = {"LOOKUP", "SETLK", "RENAME2", "FORGET", "BATCH_FORGET", "STATFS",
             "READDIRPLUS", "READ", "WRITE", "LSEEK", "INVALID"}
  FsOps = {"LOOKUP", "FLOCK", "READDIR", "READ", "WRITE", "FORGET"}
  FsAsks <- Asks
INVARIANTS TypeOK InitReplySound InitOnce ServedAfterInit
PROPERTY LimitsNeverGrow
CHECK_DEADLOCK FALSE
