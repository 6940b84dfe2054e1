SPECIFICATION FairSpec
CONSTANTS
  f1 = f1
  f2 = f2
  f3 = f3
  Files = {f1, f2, f3}
  Requests = {1, 2}
  Sizes = {1, 2}
  NPollers = 2
  None = None
  Workloads <- MCWorkloads
  DirentLen <- MCDirentLen
  Iovecs <- MCIovecs
INVARIANTS QuietFilesExact DirentsIntact ListingLosesOnlyCut
PROPERTIES HalSpec DeferredAreCompleted
CHECK_DEADLOCK FALSE
