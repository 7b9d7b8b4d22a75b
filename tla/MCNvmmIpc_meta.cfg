CONSTANTS
  c1 = c1
  c2 = c2
  PoolSize = 3
  ReleaseDelay = 2
  Readers <- OneReader
  MaxFrames = 3
SPECIFICATION Spec
PROPERTIES MetaPinned
