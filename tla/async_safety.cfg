\* Two callers, one with a deadline and one with a task, a canceller and the
\* driver: what they are told, what shutdown and a dropped task promise.
SPECIFICATION AsyncSpec
CONSTANTS
  Jobs = {j1, j2}
  Cancellers = {k1}
  Firers <- MCFirers
  Ops = {"call_timeout", "try_call"}
  NoJob = NoJob
  Shutdown = Shutdown
  Capacity = 1
CONSTRAINT MixedCalls
SYMMETRY AsyncSymmetry
INVARIANTS
  AsyncTypeOK
  RefusedNeverRuns
  ReasonFitsCall
  GracefulDrain
  NobodyWaitsInVain
PROPERTIES
  ShutdownIsFinal
  DroppedStaysOut
\* Every thread and every future may be done for good.
CHECK_DEADLOCK FALSE
