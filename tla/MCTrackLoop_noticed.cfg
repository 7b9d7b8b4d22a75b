\* A target that is gone for more than max-lost inferences.
SPECIFICATION Spec
CONSTANTS
  Targets = {t1, t2}
  NoTarget = NoTarget
  MaxKf = 1
  SeedDelay = 3
  Roi = NoTarget
  MaxLost = 1
  Cooldown = 3
  QueueSize = 2
PROPERTIES LossNoticed
