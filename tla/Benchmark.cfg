SPECIFICATION BenchmarkSpec
CONSTANTS
  CounterMax = 15
  GenerationMax = 2
  SizeLimit = 7
  HeaderBytes = 4
  Sizes = {0, 2, 5}
  Blocks = {b1, b2, b3}
  MaxCalls = 3
  DefaultTemporary = 3
INVARIANTS
  SampleExact
  FloorExact
CHECK_DEADLOCK FALSE
