CONSTANTS
  Interval = 6
  GateFrames = 4
  Ring = 2
  Ptrs = 3
  MaxCalls = 7
  MaxViews = 4
  Memories = {m1, m2, m3}
  Planes = {p1, p2}
  None = None
  MaxPictures = 6
  Proposals <- SomeProposals
  Pads <- TwoPads
  MaxArrivals = 2
  MaxTime = 2
  MaxQueued = 2
  MaxShort = 2
  MaxStarts = 2
  MaxObjects = 2
  Points <- ThreePoints
  AssocDist = 2
  MinAge = 3
  MinSupport = 2
  MaxMissed = 1
  MaxBoxes = 2
  MaxUpdates = 4
  Spans <- SomeSpans
  Labels <- TwoLabels
  Scores <- SomeScores
  ConfThreshold = 0
  IouPercent = 30
  PadX = 1
  InvScale = 2
  FrameW = 8
  MaxKept = 2
  MaxProposals = 3
SPECIFICATION Spec
SYMMETRY Interchangeable
CONSTRAINT FewMapped
INVARIANTS
  SkipsBounded MemoryExact MotionsApplied SurfacesReachable TurnsKeepWrites
  FlowExact NeverStarved PadsInStep NothingElseLeft NoOrphans GateEarned ParsedExact
PROPERTIES
  HoldEarned OutputsAdvance
CHECK_DEADLOCK FALSE
