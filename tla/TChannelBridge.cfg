\* Calls within handlers, with headers passed on or shared.
SPECIFICATION FairSpec
CONSTANTS
  c1 = c1
  c2 = c2
  k1 = k1
  Call = {c1, c2}
  Key = {k1}
  MaxLocal = 2
INVARIANT
  OwnCaller
PROPERTIES
  BaggageOfItsCaller
  EveryCallFinishes
CHECK_DEADLOCK FALSE
