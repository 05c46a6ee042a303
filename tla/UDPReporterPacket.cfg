\* Violated: a span that waits for its flush is added to what was appended since.
SPECIFICATION Spec
CONSTANTS
  a = a
  b = b
  c = c
  d = d
  e = e
  bad = bad
  big = big
  Span = {a, b, c, d, e, bad, big}
  SpanSize <- MCSpanSize
  MaxPacketSize = 5
  EmitSpanBatchOverhead = 1
  Unconvertible = {bad}
  Unwritable = {d}
INVARIANTS
  PacketFits
