\* Calls and shutdowns come to an end, and an isle nobody holds does too;
\* and IsleThread allows it all.
SPECIFICATION FairAsyncSpec
CONSTANTS
  Jobs = {j1, j2}
  Cancellers = {}
  Firers <- MCFirers
  Ops = {"call"}
  NoJob = NoJob
  Shutdown = Shutdown
  Capacity = 1
PROPERTIES
  CallsReturn
  DriverReturns
  AbandonedIsleEnds
  ThreadSpec
CHECK_DEADLOCK FALSE
