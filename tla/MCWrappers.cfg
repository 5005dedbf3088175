SPECIFICATION WrappersSpec
CONSTANTS
  Threads = {t1, t2, t3}
  Devices = {d1}
  Blocks = {b1, b2, b3}
  NoBlock = NoBlock
  Effects = {e1}
  MaxRefs = 1
  MaxAcquires = 3
INVARIANTS DeviceRefsExact OneIdentity EffectRefsExact StopsAreExact
CHECK_DEADLOCK FALSE
