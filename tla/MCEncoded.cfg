SPECIFICATION EncodedSpec
CONSTANTS
  DimensionMax = 4
  WordMax = 63
  SizeMax = 63
INVARIANTS
  TiffExact
  ScanExact
  MarkerExactly
  SignatureExact
  UprightExactly
CHECK_DEADLOCK FALSE
