CONSTANTS
  MaxFrames = 6
  Stamped <- MostStamped
  QueueSize = 2
  PadSize = 2
  MaxLost = 2
SPECIFICATION FairSpec
INVARIANTS JoinComplete FusedExact
PROPERTIES StreamEnds
CHECK_DEADLOCK FALSE
