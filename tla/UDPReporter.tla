------------------------------ MODULE UDPReporter ------------------------------
(***************************************************************************)
(* RemoteReporter with the UDP sender (src/reporters/udp_sender.js).       *)
(*                                                                         *)
(* Spans wait in _batch until it is full or the timer flushes it.  flush() *)
(* empties the batch and hands one datagram to the socket; the answer      *)
(* comes back later, in any order.  An append that does not fit flushes    *)
(* the batch and keeps its own span in the continuation of that flush: the *)
(* span is in no batch until the socket answers, and other spans may be    *)
(* appended in the meantime.                                               *)
(*                                                                         *)
(* A batch is a set of spans: the order in a datagram does not matter to   *)
(* any property.  A span is reported once (Span.finish guards it).         *)
(***************************************************************************)
EXTENDS RemoteReporter

CONSTANTS
  SpanSize,             \* bytes of each span as Thrift, _calcSpanSize
  MaxPacketSize,        \* option maxPacketSize
  EmitSpanBatchOverhead, \* bytes of an empty batch with its process
  Unconvertible,        \* spans whose size cannot be computed
  Unwritable            \* spans whose size can be, but writeInto() fails

ASSUME SizesAssumption ==
  /\ SpanSize \in [Span -> Nat \ {0}]
  /\ MaxPacketSize \in Nat
  /\ EmitSpanBatchOverhead \in Nat
  /\ EmitSpanBatchOverhead <= MaxPacketSize
  /\ Unconvertible \subseteq Span
  /\ Unwritable \subseteq Span

VARIABLES
  batch,                \* _batch.spans
  totalSpanBytes,       \* _totalSpanBytes
  sends                 \* datagrams given to client.send, not yet answered

vars == <<reporterVars, batch, totalSpanBytes, sends>>

MaxSpanBytes == MaxPacketSize - EmitSpanBatchOverhead

\* A datagram in flight: its spans, their bytes, the reporter's callback and
\* the span, if any, that the continuation will put in the batch.
Datagram == [spans : SUBSET Span, bytes : Nat, via : Via,
             held : {h \in SUBSET Span : \A x, y \in h : x = y}]

\* The bytes of the spans S, one by one, and their number.
Bytes(S)  == UNION {{s} \X (1..SpanSize[s]) : s \in S}
SizeOf(S) == Cardinality(Bytes(S))

\* Mutant: the continuation pushes the span and forgets its size.
HeldBytes_Zero(held) == 0

HeldBytes(held) ==
  IF held = {} THEN 0 ELSE SpanSize[CHOOSE s \in held : TRUE]

-------------------------------------------------------------------------------

\* Mutant: the spans stay in the batch that was sent.
Reset_KeepsSpans(b) == b

\* _reset: what is left of batch b once its datagram is written.
Reset(b) == {}

\* flush() of a batch b of the given size: nothing to send, or a datagram
\* that cannot be written (batch reset, callback at once), or a datagram
\* given to the socket (batch reset, callback when it answers).
\* accepted: the span of the append that led here, if any.
FlushBatch(b, bytes, via, held, accepted) ==
  \/ /\ b = {}
     /\ Callback(via, {}, TRUE, accepted)
     /\ batch' = held
     /\ totalSpanBytes' = HeldBytes(held)
     /\ UNCHANGED sends
  \/ /\ b # {}
     /\ b \cap Unwritable # {}
     /\ Callback(via, b, FALSE, accepted)
     /\ batch' = held
     /\ totalSpanBytes' = HeldBytes(held)
     /\ UNCHANGED sends
  \/ /\ b # {}
     /\ b \cap Unwritable = {}
     /\ batch' = Reset(b)
     /\ totalSpanBytes' = 0
     /\ sends' = sends \cup
          {[spans |-> b, bytes |-> bytes, via |-> via, held |-> held]}
     /\ CallbackLater(via, accepted)

\* Tracer's constructor calls reporter.setProcess; no span exists before.
SetProcess ==
  /\ phase = "open"
  /\ ~processSet
  /\ processSet' = TRUE
  /\ UNCHANGED <<phase, reporterSuccess, reporterFailure, reporterDropped,
                 outcome, batch, totalSpanBytes, sends>>

\* Mutant: the tracer keeps reporting to a reporter it has closed.
CanReport_AfterClose(s) == processSet /\ outcome[s] = "new"

\* report() is called on a new span, through a tracer that is not closed.
CanReport(s) == phase = "open" /\ processSet /\ outcome[s] = "new"

\* append(): the span cannot be converted, or is too large by itself.
AppendRefused(s) ==
  /\ CanReport(s)
  /\ s \in Unconvertible \/ SpanSize[s] > MaxSpanBytes
  /\ Callback("append", {s}, FALSE, {})
  /\ UNCHANGED <<processSet, batch, totalSpanBytes, sends>>

Appendable(s) ==
  CanReport(s) /\ s \notin Unconvertible /\ SpanSize[s] <= MaxSpanBytes

\* Space is left when s is added.
Fits(s) == totalSpanBytes + SpanSize[s] < MaxSpanBytes

\* append(): the span fits and space is left.
AppendBuffered(s) ==
  /\ Appendable(s)
  /\ Fits(s)
  /\ batch' = batch \cup {s}
  /\ totalSpanBytes' = totalSpanBytes + SpanSize[s]
  /\ Callback("append", {}, TRUE, {s})
  /\ UNCHANGED <<processSet, sends>>

\* append(): the span fills the batch exactly, which is flushed.
AppendFills(s) ==
  /\ Appendable(s)
  /\ totalSpanBytes + SpanSize[s] = MaxSpanBytes
  /\ FlushBatch(batch \cup {s}, MaxSpanBytes, "append", {}, {s})
  /\ UNCHANGED processSet

\* append(): the span does not fit; the batch is flushed and the span is
\* put in the batch by the continuation of that flush.
AppendOverflows(s) ==
  /\ Appendable(s)
  /\ totalSpanBytes + SpanSize[s] > MaxSpanBytes
  /\ FlushBatch(batch, totalSpanBytes, "append", {s}, {s})
  /\ UNCHANGED processSet

\* Mutant: the timer waits for a full batch.
Flush_OnlyWhenFull ==
  /\ phase = "open"
  /\ processSet
  /\ totalSpanBytes >= MaxSpanBytes \/ batch = {}
  /\ FlushBatch(batch, totalSpanBytes, "flush", {}, {})
  /\ UNCHANGED processSet

\* flush() on the interval timer, or called by the program.
Flush ==
  /\ phase = "open"
  /\ processSet
  /\ FlushBatch(batch, totalSpanBytes, "flush", {}, {})
  /\ UNCHANGED processSet

\* close(): the timer is cleared and the batch flushed; the sender is closed
\* in the callback of that flush, at once when there is nothing to wait for.
Close ==
  /\ phase = "open"
  /\ IF processSet
     THEN FlushBatch(batch, totalSpanBytes, "close", {}, {})
     ELSE /\ phase' = "closed"
          /\ UNCHANGED <<reporterSuccess, reporterFailure, reporterDropped,
                         outcome, batch, totalSpanBytes, sends>>
  /\ UNCHANGED processSet

\* Mutant: the continuation gives up its span when the socket fails.
Continued_OnSuccess(p, ok) == IF ok THEN p.held ELSE {}

\* The continuation of the append puts its span in the batch in any case.
Continued(p, ok) == p.held

\* It adds the span's size, without a look at what the batch holds by then.
BytesAfter(p) == totalSpanBytes + HeldBytes(p.held)

\* The socket answers for datagram p: the continuation of an append runs, and
\* the reporter's callback counts the spans of p.
SendDone(p, ok) ==
  /\ p \in sends
  /\ sends' = sends \ {p}
  /\ batch' = batch \cup Continued(p, ok)
  /\ totalSpanBytes' = BytesAfter(p)
  /\ Callback(p.via, p.spans, ok, {})
  /\ UNCHANGED processSet

\* The socket was closed while p was being sent: node's dgram drops a
\* datagram whose address is still being looked up, without calling back.
SendLost(p) ==
  /\ phase = "closed"
  /\ p \in sends
  /\ sends' = sends \ {p}
  /\ UNCHANGED <<reporterVars, batch, totalSpanBytes>>

\* Nothing is left to happen once the sender is closed.
Finished == phase = "closed" /\ sends = {} /\ UNCHANGED vars

-------------------------------------------------------------------------------

Init ==
  /\ ReporterInit
  /\ batch = {}
  /\ totalSpanBytes = 0
  /\ sends = {}

Append(s) ==
  AppendRefused(s) \/ AppendBuffered(s) \/ AppendFills(s) \/ AppendOverflows(s)

Answer == \E p \in sends, ok \in BOOLEAN : SendDone(p, ok)

Next ==
  \/ SetProcess
  \/ \E s \in Span : Append(s)
  \/ Flush
  \/ Close
  \/ Answer
  \/ \E p \in sends : SendLost(p)
  \/ Finished

Spec == Init /\ [][Next]_vars

\* setInterval keeps calling flush() until close() clears it, and an open
\* socket answers every send.
Fairness ==
  /\ WF_vars(Flush)
  /\ \A s \in Span : WF_vars(\E p \in sends, ok \in BOOLEAN :
                               s \in p.spans /\ SendDone(p, ok))

FairSpec == Spec /\ Fairness

-------------------------------------------------------------------------------

TypeOK ==
  /\ ReporterTypeOK
  /\ batch \subseteq Span
  /\ totalSpanBytes \in Nat
  /\ sends \subseteq Datagram

\* As long as the socket is open no accepted span is forgotten: it is in the
\* batch, in a datagram in flight or held by the continuation of one, even
\* while appends, timer flushes and answers overlap (udp_sender.js append).
NoSpanForgotten ==
  phase # "closed" => \A s \in Span : outcome[s] = "pending" =>
    s \in batch \/ \E p \in sends : s \in p.spans \cup p.held

\* A span is in one place only, and no longer once it is counted, so that it
\* is sent once: flush() resets the batch before the socket answers, and no
\* continuation brings back a span that is batched, in flight or counted
\* (udp_sender.js flush, _reset).
OnePlaceEach ==
  /\ batch \subseteq Pending
  /\ \A p \in sends : p.spans \cup p.held \subseteq Pending
  /\ \A p \in sends : /\ p.spans \cap p.held = {}
                      /\ (p.spans \cup p.held) \cap batch = {}
  /\ \A p, q \in sends : p # q =>
       (p.spans \cup p.held) \cap (q.spans \cup q.held) = {}

\* _totalSpanBytes is the size of the spans in _batch whenever the event loop
\* is between two handlers, and a datagram was given a buffer of the size of
\* its spans: flush() allocates it from _totalSpanBytes, and writeInto() fails
\* in one that is too small (udp_sender.js flush).
BytesMatchBatch ==
  /\ totalSpanBytes = SizeOf(batch)
  /\ \A p \in sends : p.bytes = SizeOf(p.spans)

\* The close callback waits for the flush that close() started, and for no
\* other: one datagram of that flush is in flight exactly while the reporter
\* is closing (remote_reporter.js close).
ClosingWaitsForItsFlush ==
  /\ phase = "closing" <=> \E p \in sends : p.via = "close"
  /\ \A p, q \in sends : p.via = "close" /\ q.via = "close" => p = q

\* A datagram is no larger than maxPacketSize, what _maxSpanBytes is computed
\* for (udp_sender.js setProcess).  The code breaks this: see the README.
PacketFits ==
  \A p \in sends : p.bytes + EmitSpanBatchOverhead <= MaxPacketSize

\* When close() calls back, nothing that was reported is left unsent
\* (CHANGELOG.md 3.9.0).  The code breaks this: see the README.
CloseFlushesBuffer ==
  phase = "closed" => batch = {} /\ \A p \in sends : p.held = {}

\* Every accepted span is counted in the end, unless the reporter is closed
\* first: full batches, the timer and the answers of the socket see to it.
EventuallyCounted ==
  \A s \in Span :
    outcome[s] = "pending" ~> (outcome[s] \in Verdict \/ phase # "open")

\* The callback given to close() is called in the end (remote_reporter.js).
CloseCompletes == phase = "closing" ~> phase = "closed"

\* What the reporter promises whatever its sender.
ImplementsDelivery == Delivery!Spec

===============================================================================
