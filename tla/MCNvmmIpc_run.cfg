CONSTANTS
  c1 = c1
  c2 = c2
  PoolSize = 2
  ReleaseDelay = 1
  Readers <- TwoReaders
  MaxFrames = 4
SPECIFICATION FairSpec
INVARIANTS RefCountsExact WindowStable FreshDelivery SlotAvailable
PROPERTIES MonotoneDelivery SinkProgress ImplementsPool
