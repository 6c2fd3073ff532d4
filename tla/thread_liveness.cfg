\* The SQLite thread: answers arrive, and queued jobs that are cancelled or
\* aborted stay out of the connection.
SPECIFICATION FairThreadSpec
CONSTANTS
  Jobs = {j1, j2}
  Firers = {f1}
  NoJob = NoJob
  Shutdown = Shutdown
  Capacity = 1
PROPERTIES
  EveryJobAnswered
  QueuedCancelNeverRuns
  AbortDropsQueued
CHECK_DEADLOCK FALSE
