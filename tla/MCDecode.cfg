SPECIFICATION Spec
CONSTANTS
  DimensionMax = 3
  WordMax = 14
  SizeMax = 14
  Inputs <- MCInputs
  OptionSet <- MCOptions
  CodecExtents <- MCExtents
  MetadataFound <- MCMetadata
  MaxRecords = 2
  RequestSizes = {0, 5}
  PngPasses = {1, 2}
  JpegControlBytes = 3
  JpegRowMultiplier = 1
  UnsignedLongMax = 2
  WebpControlBytes = 2
  WebpBytesPerPixel = 4
  WebpBytesPerInputByte = 1
  RowBytesMax = 7
  RunFormats = {"png", "jpeg", "webp"}
  TemporaryLimits = {1, 7, 13}
INVARIANTS
  TypeOK
  Inv
  StorageWithinLimits
  NoPartialImage
  OrientationHonest
  ValidatedUnlessJpeg
  FirstFailureReported
PROPERTIES
  Contract
  Termination
CHECK_DEADLOCK FALSE
