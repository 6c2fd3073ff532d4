\* Four threads, two isles at most, every call and every failure.
SPECIFICATION Spec
CONSTANTS
  Threads = {t1, t2, t3, t4}
  Isles = {i1, i2, i3}
  NoIsle = NoIsle
  NoThread = NoThread
  MaxSize = 2
  Ops = {"checkout", "try_checkout", "checkout_timeout", "checkout_overlong", "shutdown"}
  FactoryOutcomes = {"ok", "error", "panic"}
SYMMETRY PoolSymmetry
INVARIANTS
  PoolTypeOK
  LiveBound
  SlotsAccounted
  NoLostWakeup
PROPERTIES
  RefusedOnlyWhenFull
  ImplementsLeases
\* Every thread has made its call in the end.
CHECK_DEADLOCK FALSE
