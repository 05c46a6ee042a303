\* Sampling decisions of spans: consistency, completeness, counters.
SPECIFICATION Spec
CONSTANTS
  s1 = s1
  s2 = s2
  Span = {s1, s2}
  MaxContexts = 2
SYMMETRY Symmetry
INVARIANTS
  ChildrenAgree
  InjectedAgrees
  ReportsAreComplete
  OneCreditPerSpan
  MetricsMatch
