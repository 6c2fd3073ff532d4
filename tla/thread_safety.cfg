\* The SQLite thread against every environment: safety.
SPECIFICATION ThreadSpec
CONSTANTS
  Jobs = {j1, j2, j3}
  Firers = {f1}
  NoJob = NoJob
  Shutdown = Shutdown
  Capacity = 2
SYMMETRY ThreadSymmetry
INVARIANTS
  ThreadTypeOK
  NoStrayInterrupt
  AnswersExplained
  DroppedNeverRan
PROPERTIES
  CancelReaches
  HealthGate
  ImplementsService
\* The thread ends, and then no step is left once every token is at rest.
CHECK_DEADLOCK FALSE
