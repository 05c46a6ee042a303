\* Making and closing a tracer, twice, of the same objects.
SPECIFICATION FairSpec
CONSTANTS
  s1 = s1
  Reporter = {"logging", "udp", "http", "own", "slow"}
  Remote = {"udp", "http", "own", "slow"}
  OwnReporters = {"logging", "own", "slow"}
  RepeatsCallback = {"http"}
  Span = {s1}
  MaxClose = 2
  MaxCalls = 2
  Environment <- MCEnvironment
  Config <- MCConfig
  Options <- MCOptions
INVARIANTS
  BarrierWaitsForAll
  NothingStranded
  FailureLeavesLittle
PROPERTIES
  CloseCompletes
  ReadIsKept
CHECK_DEADLOCK FALSE
