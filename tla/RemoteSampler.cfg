\* The polling loop and the strategies it puts in force.
SPECIFICATION FairSpec
CONSTANTS
  x = x
  y = y
  missing = missing
  Operation = {x, y}
  MaxOperations = 1
  MaxRate = 3
  NoNumber = missing
  Answer <- MCAnswer
  MaxOutstanding = 2
INVARIANTS
  TypeOK
  UseBounded
PROPERTIES
  UpdatesCounted
  FailureKeepsSampler
  EventuallyInForce
