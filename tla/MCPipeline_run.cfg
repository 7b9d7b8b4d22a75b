CONSTANTS
  Ids <- ThreeIds
  Classes = {cat, dog}
  NoLabel = none
  InferInterval = 2
  MaxAge = 1
  MaxFrames = 4
  Places <- ThreePlaces
  DetClasses = {object}
  Width = 2
  MinOverlap = 1
  MaxTrackAge = 1
  MaxId = 3
SYMMETRY Things
SPECIFICATION PipelineSpec
INVARIANTS AgesOrdered FreshEnough LabelsFollow
PROPERTIES ImplementsMemory IdentityKept NoEarlyExpiry
