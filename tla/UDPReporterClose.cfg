\* Violated: close() calls back while a continuation still holds a span.
SPECIFICATION Spec
CONSTANTS
  a = a
  b = b
  c = c
  d = d
  e = e
  bad = bad
  big = big
  Span = {a, b, c, d, e, bad, big}
  SpanSize <- MCSpanSize
  MaxPacketSize = 5
  EmitSpanBatchOverhead = 1
  Unconvertible = {bad}
  Unwritable = {d}
INVARIANTS
  CloseFlushesBuffer
