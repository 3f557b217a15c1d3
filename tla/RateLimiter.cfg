SPECIFICATION Spec
CONSTANTS
  Threads = {t1, t2}
  Free = Free
  Quota = 2
  MaxBalanceSeconds = 1
  UnitsPerRequest = 2
  Horizon = 6
INVARIANTS TypeOK WindowBound
PROPERTIES BucketSpec
