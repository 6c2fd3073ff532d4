\* Two callers with every kind of call, a canceller and two closers on one
\* Isle: what the callers are told, and that IsleThread allows it all.
SPECIFICATION SyncSpec
CONSTANTS
  Jobs = {j1, j2}
  Cancellers = {k1}
  Closers = {c1, c2}
  Firers <- MCFirers
  Ops = {"call", "call_timeout", "try_call"}
  NoJob = NoJob
  Shutdown = Shutdown
  Capacity = 2
SYMMETRY SyncSymmetry
INVARIANTS
  SyncTypeOK
  RefusedNeverRuns
  ReasonFitsCall
  GracefulDrain
  AliveIfUnborrowed
  NobodyWaitsInVain
PROPERTIES
  ThreadSpec
\* Every thread may be done for good.
CHECK_DEADLOCK FALSE
