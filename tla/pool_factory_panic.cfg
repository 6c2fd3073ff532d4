\* A factory that panics.
SPECIFICATION Spec
CONSTANTS
  Threads = {t1, t2}
  Isles = {i1, i2}
  NoIsle = NoIsle
  NoThread = NoThread
  MaxSize = 1
  Ops = {"checkout", "checkout_timeout", "shutdown"}
  FactoryOutcomes = {"ok", "error", "panic"}
INVARIANT ActiveIsExact
CHECK_DEADLOCK FALSE
