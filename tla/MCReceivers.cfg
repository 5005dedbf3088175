SPECIFICATION ReceiversSpec
CONSTANTS
  Keys = {k1}
  Session = k1
  Conns = {c1, c2, c3}
  Effects <- MCEffects
  Frames <- NoFrames
  Commands <- MCCommands
  MaximumSources = 1
  MaximumDevices = 1
  MaximumEffects = 2
  MaximumQueuedTransitions = 0
  QueueCapacity = 2
  MaxEmits = 3
  MaxFaults = 2
  NoKey = NoKey
  NoConn = NoConn
  Streams <- MCStreams
  HeaderSize = 2
  MaximumFrameSize = 5
  ReadBufferSize = 5
  Clients = {v1, v2}
  MaxClients = 2
  QueueSize = 1
  StoreCapacity = 2
  MaxFrames = 3
SYMMETRY Symmetry
INVARIANTS FailClosed NoFalseAlarm FramesAreWhole WindowTellsTheTruth
CHECK_DEADLOCK FALSE
