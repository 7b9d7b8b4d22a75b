CONSTANTS
  Places <- ThreePlaces
  Border = {0}
  Dist = 2
  Amin = 2
  Ksup = 1
  MaxLost = 1
  SeedOnMotion = TRUE
  MotionSilent = 2
  MaxDets = 1
  MaxObjects = 2
  MaxSup = 2
SPECIFICATION DetGateSpec
INVARIANTS LockOnTime
PROPERTIES LockEarned EmitsTheLock
