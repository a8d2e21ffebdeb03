SPECIFICATION Spec
CONSTANTS
  DimensionMax = 3
  WordMax = 63
  SizeMax = 63
  ImageSlots = {i1, i2}
  DecodedSlots = {d1, d2}
  ViewSlots = {v1}
  CopySlots = {c1, c2}
  Buffers = {b1, b2, b3}
  NoBuffer = NoBuffer
  RequestExtents <- MCExtents
  CallLimits <- MCLimits
  MaxWrites = 1
SYMMETRY Interchangeable
INVARIANTS
  OwnersSound
  ViewsInside
  NoRowFails
  ExternalExact
PROPERTIES
  NothingLost
CHECK_DEADLOCK FALSE
