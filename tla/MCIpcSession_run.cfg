CONSTANTS
  c1 = c1
  c2 = c2
  Producer = Producer
  Consumers <- TwoConsumers
  Crashing <- Anybody
  PoolSize = 2
  ReleaseDelay = 1
  MaxStarts = 2
  MaxFrames = 2
  MaxCrashes = 1
SPECIFICATION FairSpec
CHECK_DEADLOCK FALSE
INVARIANTS RefsAccounted
PROPERTIES EosOnStop StartEnds
