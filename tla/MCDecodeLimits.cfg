SPECIFICATION Spec
CONSTANTS
  DimensionMax = 7
  WordMax = 63
  SizeMax = 47
  PixelLimits = {0, 5, 6, 7, 15, 16, 49, 63}
  OutputLimits = {0, 23, 24, 25, 47, 48, 60, 63}
  DimensionLimits = {0, 2, 3, 4, 7}
INVARIANTS
  LayoutSound
  LayoutComplete
CHECK_DEADLOCK FALSE
