\* The HTTP reporter with encoding errors and connections that fail late.
SPECIFICATION FairSpec
CONSTANTS
  a = a
  b = b
  c = c
  d = d
  e = e
  bad = bad
  Span = {a, b, c, d, bad}
  MaxSpanBatchSize = 2
  Unencodable = {bad}
  LateErrors = TRUE
  MaxFailures = 4
INVARIANTS
  TypeOK
  NoSpanForgotten
  MetricsAddUp
PROPERTIES
  EventuallyCounted
  CloseCompletes
