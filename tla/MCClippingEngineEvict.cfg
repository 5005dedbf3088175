SPECIFICATION Spec
CONSTANTS
  Keys = {k1, k2}
  Conns = {c1, c2, c3}
  Effects <- EngineEffects
  Frames <- FewFrames
  MaximumSources = 1
  MaximumDevices = 1
  MaximumEffects = 2
  MaximumQueuedTransitions = 2
  NoKey = NoKey
SYMMETRY Symmetry
INVARIANT UnreliableUntilNewSession
CHECK_DEADLOCK FALSE
