SPECIFICATION Spec
CONSTANTS
  Threads = {t1, t2}
  MaxAcquires = 2
INVARIANT NoStaleOutput
CHECK_DEADLOCK FALSE
