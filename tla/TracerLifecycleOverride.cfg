\* Settings of the program and of the environment.
SPECIFICATION Spec
CONSTANTS
  s1 = s1
  Reporter = {"logging", "udp", "http", "own", "slow"}
  Remote = {"udp", "http", "own", "slow"}
  OwnReporters = {"logging", "own", "slow"}
  RepeatsCallback = {"http"}
  Span = {s1}
  MaxClose = 2
  MaxCalls = 2
  Environment <- MCEnvironment
  Config <- MCConfig
  Options <- MCOptions
PROPERTIES
  ConfigOverridesEnv
CHECK_DEADLOCK FALSE
