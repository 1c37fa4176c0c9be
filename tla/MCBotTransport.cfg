SPECIFICATION FairSpec
CONSTANTS
  BlockCount = 5
  ChunkSectors = 2
  Commands <- MCCommands
  FifoPackets = 2
  MaxTag = 2
  MaxResets = 1
INVARIANTS
  BlocksStayInPlace
  InSync
PROPERTIES
  StatusIsTrue
  BackEndsTheSession
