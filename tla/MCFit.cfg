SPECIFICATION Spec
CONSTANTS
  DimensionMax = 4
  WordMax = 60
  SizeMax = 60
  FocusOne = 2
  SpanBytes = 3
  TapBytes = 2
  Sources <- MCSources
  Destinations <- MCDestinations
  FocalPoints <- MCFocalPoints
  LimitSet <- MCLimits
INVARIANTS
  FitComplete
  NothingSkipped
  StorageAdmitted
  ErrorsAreTheCallers
CHECK_DEADLOCK FALSE
