SPECIFICATION SenderSpec
CONSTANTS
  Threads = {t1, t2}
  kSinkCount = 1
  Nodes = {n1, n2}
  kNoticeMax = 2
  NoThread = NoThread
  NoNode = NoNode
  MaxEmits = 3
  MaxStarts = 2
  MaxFaults = 2
  WideThreads = {t1}
  WideNodes = {n1}
INVARIANTS OneWorker NodesConserved LossAccounted NoticeExact
PROPERTIES ImplementsLossyLog EmitsReturn AllLossesDisclosed
CHECK_DEADLOCK FALSE
