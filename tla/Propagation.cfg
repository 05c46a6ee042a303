\* One request through several processes and codecs.
SPECIFICATION Spec
CONSTANTS
  user = user
  User = User
  tenant = tenant
  constructor = constructor
  plain = plain
  escape = escape
  long = long
  half = half
  Key = {user, User, tenant, constructor}
  Inherited = {constructor}
  Normalized <- MCNormalized
  Lowered <- MCNormalized
  Value = {plain, escape, long, half}
  Unencodable = {half}
  Unescaped <- MCUnescaped
  Truncated <- MCTruncated
  Foreign <- MCForeign
  Other <- MCOther
  MaxSpans = 4
INVARIANTS
  OneTrace
  TypeOK
  DecisionTravels
  BaggageReaches
