\* Default thresholds, all three flows, both providers.
CONSTANTS
  AcceptThreshold = 80
  ReviewThreshold = 50
  DocumentReviewThreshold = 60
  LivenessThreshold = 70
  FaceMatchThreshold = 80
  Today <- MCToday
SPECIFICATION Spec
INVARIANTS
  RejectionNamesFailure
  ReadingIsSound
PROPERTIES
  BetterIsNeverWorse
