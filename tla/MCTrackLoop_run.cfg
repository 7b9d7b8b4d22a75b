\* The shortest cooldown that serves a queue of two and one Kalman step; seed-delay outlasts max-lost.
SPECIFICATION Spec
CONSTANTS
  Targets = {t1, t2}
  NoTarget = NoTarget
  MaxKf = 1
  SeedDelay = 3
  Roi = t1
  MaxLost = 1
  Cooldown = 3
  QueueSize = 2
INVARIANTS RoiIntact CadenceBounded
PROPERTIES NoStaleReseed LossAnswered
