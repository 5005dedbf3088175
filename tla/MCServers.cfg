SPECIFICATION ServersSpec
CONSTANTS
  Pipes = {p1, p2}
  Acceptors = {a1, a2}
  None = None
  MaximumClients = 2
  Clients = {c1, c2}
  MaxClients = 1
  QueueSize = 1
  StoreCapacity = 2
  Wakes = 2
  MaxFrames = 1
INVARIANT StopsAreSound
PROPERTIES GoneAreForgotten AcceptsAgain StopEndsThreads
