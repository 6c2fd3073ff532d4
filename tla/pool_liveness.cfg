\* Three threads on a pool of one isle: calls return and isles stop.
SPECIFICATION FairSpec
CONSTANTS
  Threads = {t1, t2, t3}
  Isles = {i1, i2}
  NoIsle = NoIsle
  NoThread = NoThread
  MaxSize = 1
  Ops = {"checkout", "checkout_timeout", "shutdown"}
  FactoryOutcomes = {"ok", "error"}
PROPERTIES
  CallsReturn
  ShutdownStopsAll
CHECK_DEADLOCK FALSE
