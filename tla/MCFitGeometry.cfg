SPECIFICATION PlanSpec
CONSTANTS
  DimensionMax = 5
  WordMax = 25
  SizeMax = 25
  FocusOne = 4
  PlanFocalPoints <- MCFocalPoints
INVARIANTS
  PlanSound
  AxesAlike
  AspectKept
  SamplesSound
CHECK_DEADLOCK FALSE
