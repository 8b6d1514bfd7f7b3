CONSTANTS
  o1 = o1
  o2 = o2
  Objs = {o1, o2}
  IDs = {i1, i2}
  None = None
  MaxSessions = 2
  Workers = {w1, w2}
  QueueSize = 1
  AudioQueueSize = 1
  ChunkPackets = 2
  MaxPackets <- MCPackets
  Silent <- MCSilent
SPECIFICATION QuietSpec
INVARIANTS WorkerPoolInv
PROPERTIES CleanupEnds JobsTaken
CHECK_DEADLOCK FALSE
