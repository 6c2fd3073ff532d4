\* The claim of the comment on CancelToken::attach.
SPECIFICATION FairThreadSpec
CONSTANTS
  Jobs = {j1}
  Firers = {f1}
  NoJob = NoJob
  Shutdown = Shutdown
  Capacity = 1
PROPERTY RaceWindowClosed
CHECK_DEADLOCK FALSE
