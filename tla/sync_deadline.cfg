\* call_timeout on a closure that goes on until it is interrupted.
SPECIFICATION HeedfulSyncSpec
CONSTANTS
  Jobs = {j1}
  Cancellers = {}
  Closers = {}
  Firers <- MCFirers
  Ops = {"call_timeout"}
  NoJob = NoJob
  Shutdown = Shutdown
  Capacity = 1
PROPERTY DeadlineReturns
CHECK_DEADLOCK FALSE
