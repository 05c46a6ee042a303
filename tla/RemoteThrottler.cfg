\* Credits of the remote throttler, with overlapping fetches.
SPECIFICATION ThrottlerFairSpec
CONSTANTS
  get = get
  constructor = constructor
  proto = proto
  Operation = {get, constructor, proto}
  Inherited = {constructor, proto}
  Accessor = {proto}
  Unit = 2
  Balance = {0, 1, 3}
  MaxOutstanding = 2
  MaxGranted = 4
  MaxFree = 2
INVARIANTS
  CreditsConserved
  DebugWithinGrant
PROPERTIES
  CreditsAreFetched
