\* Two threads call shutdown() and a third one submits a task after one of them.
SPECIFICATION FairSyncSpec
CONSTANTS
  Jobs = {j1}
  Cancellers = {}
  Closers = {c1, c2}
  Firers <- MCFirers
  Ops = {"try_call"}
  NoJob = NoJob
  Shutdown = Shutdown
  Capacity = 2
PROPERTY NothingAfterShutdown
CHECK_DEADLOCK FALSE
