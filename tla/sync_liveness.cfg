\* Calls, shutdowns and drops come to an end.
SPECIFICATION FairSyncSpec
CONSTANTS
  Jobs = {j1, j2}
  Cancellers = {}
  Closers = {c1}
  Firers <- MCFirers
  Ops = {"call_timeout", "spawn_call"}
  NoJob = NoJob
  Shutdown = Shutdown
  Capacity = 1
PROPERTIES
  CallsReturn
  ShutdownReturns
  DropEndsThread
  PollsEnd
CHECK_DEADLOCK FALSE
