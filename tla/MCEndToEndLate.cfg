SPECIFICATION E2ESpec
CONSTANTS
  Keys = {k1}
  Session = k1
  Conns = {c1, c2, c3}
  Effects <- MCEffects
  Frames <- NoFrames
  Commands <- MCCommands
  MaximumSources = 1
  MaximumDevices = 1
  MaximumEffects = 2
  MaximumQueuedTransitions = 0
  QueueCapacity = 2
  MaxEmits = 3
  MaxFaults = 0
  NoKey = NoKey
  NoConn = NoConn
SYMMETRY Symmetry
INVARIANT AlwaysFailClosed
CHECK_DEADLOCK FALSE
