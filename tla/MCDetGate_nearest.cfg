CONSTANTS
  Places <- FourPlaces
  Border = {}
  Dist = 2
  Amin = 2
  Ksup = 2
  MaxLost = 1
  SeedOnMotion = FALSE
  MotionSilent = 1
  MaxDets = 2
  MaxObjects = 2
  MaxSup = 3
SPECIFICATION DetGateSpec
INVARIANTS NearestToLock
