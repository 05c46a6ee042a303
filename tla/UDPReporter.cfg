\* The UDP reporter: safety, refinement of SpanDelivery, liveness.
SPECIFICATION FairSpec
CONSTANTS
  a = a
  b = b
  c = c
  d = d
  e = e
  bad = bad
  big = big
  Span = {a, b, c, d, e, bad, big}
  SpanSize <- MCSpanSize
  MaxPacketSize = 5
  EmitSpanBatchOverhead = 1
  Unconvertible = {bad}
  Unwritable = {d}
INVARIANTS
  MetricsCountEachSpanOnce
  NoSpanForgotten
  OnePlaceEach
  BytesMatchBatch
  ClosingWaitsForItsFlush
PROPERTIES
  ImplementsDelivery
  EventuallyCounted
  CloseCompletes
