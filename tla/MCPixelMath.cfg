SPECIFICATION SampleSpec
CONSTANTS
  MixSides = {1, 2, 3}
  MixImages <- MCImages
  DimensionMax = 12
  WordMax = 200
  SizeMax = 200
  SpanBytes = 3
  TapBytes = 2
  ChannelMax = 15
  FactorOne = 8
INVARIANTS
  WeightsExact
  SourceOverExact
  TransformsExact
  HiddenColorsStayHidden
  MixesWithinColors
CHECK_DEADLOCK FALSE
