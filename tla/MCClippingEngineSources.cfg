SPECIFICATION Spec
CONSTANTS
  Keys = {k1, k2, k3}
  Conns = {c1, c2, c3, c4}
  Effects <- EngineEffects
  Frames <- FewFrames
  MaximumSources = 2
  MaximumDevices = 1
  MaximumEffects = 2
  MaximumQueuedTransitions = 1
  NoKey = NoKey
SYMMETRY Symmetry
INVARIANTS ReliableIsTrue QueueCountExact
PROPERTY EdgesTellClipping
CHECK_DEADLOCK FALSE
