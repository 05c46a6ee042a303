-------------------------- MODULE UDPReporterProofs ---------------------------
(***************************************************************************)
(* Proofs about UDPReporter, for any finite set of spans, any sizes and    *)
(* any limits.                                                             *)
(*                                                                         *)
(* The metrics and the places of the spans are one inductive invariant: an *)
(* answer counts the spans of its datagram once because they are pending,  *)
(* which they are because they are in no other place.                      *)
(***************************************************************************)
EXTENDS UDPReporter, ReporterProofs

\* What every step preserves; checked by TLC in the run udp_reporter as the
\* conjunction of its parts.
IInv ==
  /\ TypeOK
  /\ MetricsCountEachSpanOnce
  /\ NoSpanForgotten
  /\ OnePlaceEach
  /\ ClosingWaitsForItsFlush

-------------------------------------------------------------------------------

LEMMA HeldBytesType ==
  ASSUME NEW held \in SUBSET Span
  PROVE  HeldBytes(held) \in Nat
<1>1. CASE held = {}
  BY <1>1 DEF HeldBytes
<1>2. CASE held # {}
  <2>1. (CHOOSE s \in held : TRUE) \in Span
    BY <1>2
  <2> QED
    BY <1>2, <2>1, SizesAssumption DEF HeldBytes
<1> QED
  BY <1>1, <1>2

\* flush() of the batch and of the span just accepted keeps the invariant.
LEMMA FlushKeepsInv ==
  ASSUME IInv, UNCHANGED processSet, phase = "open",
         NEW via \in Via, NEW bytes \in Nat,
         NEW accepted \in SUBSET Span, NEW held \in SUBSET accepted,
         \A s \in accepted : outcome[s] = "new",
         \A x, y \in held : x = y,
         NEW b, b = batch \cup (accepted \ held),
         FlushBatch(b, bytes, via, held, accepted)
  PROVE  IInv'
<1> USE DEF IInv
<1>1. /\ ReporterTypeOK
      /\ processSet' \in BOOLEAN
      /\ b \in SUBSET Span
      /\ held \in SUBSET Span
      /\ sends \subseteq Datagram
      /\ outcome \in [Span -> Outcome]
  BY DEF TypeOK, ReporterTypeOK
<1>2. \A s \in batch : outcome[s] = "pending"
  BY DEF OnePlaceEach, Pending
<1>3. \A p \in sends : \A s \in p.spans \cup p.held :
        s \in Span /\ outcome[s] = "pending" /\ s \notin batch
  BY DEF OnePlaceEach, Pending
<1>4. \A p \in sends : p.via # "close"
  BY DEF ClosingWaitsForItsFlush
<1>5. ASSUME NEW ok \in BOOLEAN, Callback(via, b, ok, accepted),
             batch' = held, totalSpanBytes' = HeldBytes(held), UNCHANGED sends
      PROVE  IInv'
  <2>1. ReporterTypeOK' /\ MetricsCountEachSpanOnce'
    BY <1>1, <1>2, <1>5, CallbackCounts
  <2>2. \A s \in Span : outcome'[s] =
          IF s \in b THEN VerdictOf(via, ok)
          ELSE IF s \in accepted THEN "pending" ELSE outcome[s]
    BY <1>5 DEF Callback, AfterCallback
  <2>3. VerdictOf(via, ok) # "pending"
    BY DEF VerdictOf
  <2>4. TypeOK'
    BY <1>1, <1>5, <2>1, HeldBytesType DEF TypeOK
  <2>5. \A s \in held : outcome'[s] = "pending"
    BY <1>1, <1>2, <2>2
  <2>6. \A p \in sends : \A s \in p.spans \cup p.held :
          outcome'[s] = "pending" /\ s \notin held
    BY <1>1, <1>3, <2>2
  <2>7. OnePlaceEach'
    BY <1>1, <1>3, <1>5, <2>5, <2>6 DEF OnePlaceEach, Pending
  <2>8. NoSpanForgotten'
    BY <1>1, <1>5, <2>2, <2>3 DEF NoSpanForgotten
  <2>9. ClosingWaitsForItsFlush'
    BY <1>4, <1>5 DEF ClosingWaitsForItsFlush, Callback, AfterCallback
  <2> QED
    BY <2>1, <2>4, <2>7, <2>8, <2>9
<1>6. ASSUME CallbackLater(via, accepted), batch' = {}, totalSpanBytes' = 0,
             sends' = sends \cup
               {[spans |-> b, bytes |-> bytes, via |-> via, held |-> held]}
      PROVE  IInv'
  <2> DEFINE q == [spans |-> b, bytes |-> bytes, via |-> via, held |-> held]
  <2>1. ReporterTypeOK' /\ MetricsCountEachSpanOnce'
    BY <1>1, <1>6, LaterCounts
  <2>2. \A s \in Span : outcome'[s] =
          IF s \in accepted THEN "pending" ELSE outcome[s]
    BY <1>6 DEF CallbackLater, Waiting
  <2>3. q \in Datagram
    BY <1>1 DEF Datagram
  <2>4. q.spans = b /\ q.held = held /\ q.via = via
    OBVIOUS
  <2> HIDE DEF q
  <2>5. sends' = sends \cup {q}
    BY <1>6 DEF q
  <2>6. TypeOK'
    BY <1>1, <1>6, <2>1, <2>3, <2>5 DEF TypeOK
  <2>7. \A s \in b \cup held : s \in Span /\ outcome'[s] = "pending"
    BY <1>1, <1>2, <2>2
  <2>8. \A p \in sends : \A s \in p.spans \cup p.held :
          s \in Span /\ outcome'[s] = "pending" /\ s \notin b \cup held
    BY <1>1, <1>3, <2>2
  <2>9. OnePlaceEach'
    <3>1. batch' \subseteq Pending'
      BY <1>6
    <3>2. \A p \in sends' : p.spans \cup p.held \subseteq Pending'
      BY <2>4, <2>5, <2>7, <2>8 DEF Pending
    <3>3. \A p \in sends' : /\ p.spans \cap p.held = {}
                            /\ (p.spans \cup p.held) \cap batch' = {}
      <4>1. b \cap held = {}
        BY <1>2
      <4> QED
        BY <1>6, <2>4, <2>5, <4>1 DEF OnePlaceEach
    <3>4. \A p, r \in sends' : p # r =>
            (p.spans \cup p.held) \cap (r.spans \cup r.held) = {}
      BY <2>4, <2>5, <2>8 DEF OnePlaceEach
    <3> QED
      BY <3>1, <3>2, <3>3, <3>4 DEF OnePlaceEach
  <2>10. NoSpanForgotten'
    BY <2>2, <2>4, <2>5 DEF NoSpanForgotten
  <2>11. ClosingWaitsForItsFlush'
    BY <1>4, <1>6, <2>4, <2>5 DEF ClosingWaitsForItsFlush, CallbackLater, Waiting, Via
  <2> QED
    BY <2>1, <2>6, <2>9, <2>10, <2>11
<1> QED
  BY <1>5, <1>6 DEF FlushBatch, Reset

-------------------------------------------------------------------------------

LEMMA InitEstablishesInv == Init => IInv
<1> SUFFICES ASSUME Init PROVE IInv
  OBVIOUS
<1> USE DEF Init, ReporterInit
<1>1. TypeOK
  BY DEF TypeOK, ReporterTypeOK, Outcome, Phase
<1>2. MetricsCountEachSpanOnce
  <2>1. \A v \in Verdict : CountedAs(v) = {}
    BY DEF CountedAs, Verdict
  <2> QED
    BY <2>1, FS_EmptySet DEF MetricsCountEachSpanOnce, Verdict
<1>3. NoSpanForgotten /\ OnePlaceEach /\ ClosingWaitsForItsFlush
  BY DEF NoSpanForgotten, OnePlaceEach, ClosingWaitsForItsFlush
<1> QED
  BY <1>1, <1>2, <1>3 DEF IInv

\* A refused span is counted at once and goes nowhere.
LEMMA RefuseKeepsInv ==
  ASSUME IInv, NEW s \in Span, AppendRefused(s)
  PROVE  IInv'
<1> USE DEF IInv
<1>1. /\ outcome[s] = "new"
      /\ Callback("append", {s}, FALSE, {})
      /\ UNCHANGED <<processSet, batch, totalSpanBytes, sends>>
  BY DEF AppendRefused, CanReport
<1>2. ReporterTypeOK' /\ MetricsCountEachSpanOnce'
  <2>1. /\ "append" \in Via
        /\ \A x \in {s} \cup {} : outcome[x] \in {"new", "pending"}
        /\ processSet' \in BOOLEAN
        /\ ReporterTypeOK
    BY <1>1 DEF Via, TypeOK, ReporterTypeOK
  <2>2. {s} \in SUBSET Span /\ {} \in SUBSET Span /\ FALSE \in BOOLEAN
    OBVIOUS
  <2>3. Callback("append", {s}, FALSE, {}) /\ MetricsCountEachSpanOnce
    BY <1>1
  <2> QED
    BY ONLY <2>1, <2>2, <2>3, CallbackCounts
<1>3. \A x \in Span : outcome'[x] = IF x = s THEN "dropped" ELSE outcome[x]
  BY <1>1 DEF Callback, AfterCallback, VerdictOf
<1>4. TypeOK'
  BY <1>1, <1>2 DEF TypeOK
<1>5. \A x \in Span : x \in Pending' <=> x \in Pending
  BY <1>1, <1>3 DEF Pending
<1>6. OnePlaceEach'
  <2>1. Pending' = Pending
    BY <1>5 DEF Pending
  <2> QED
    BY <1>1, <2>1 DEF OnePlaceEach
<1>7. NoSpanForgotten' /\ ClosingWaitsForItsFlush'
  BY <1>1, <1>3 DEF NoSpanForgotten, ClosingWaitsForItsFlush, Callback, AfterCallback
<1> QED
  BY <1>2, <1>4, <1>6, <1>7

\* A buffered span joins the batch.
LEMMA BufferKeepsInv ==
  ASSUME IInv, NEW s \in Span, AppendBuffered(s)
  PROVE  IInv'
<1> USE DEF IInv
<1>1. /\ outcome[s] = "new"
      /\ Callback("append", {}, TRUE, {s})
      /\ batch' = batch \cup {s}
      /\ totalSpanBytes' = totalSpanBytes + SpanSize[s]
      /\ UNCHANGED <<processSet, sends>>
  BY DEF AppendBuffered, Fits, Appendable, CanReport
<1>2. ReporterTypeOK' /\ MetricsCountEachSpanOnce'
  <2>1. /\ "append" \in Via
        /\ \A x \in {} \cup {s} : outcome[x] \in {"new", "pending"}
        /\ processSet' \in BOOLEAN
        /\ ReporterTypeOK
    BY <1>1 DEF Via, TypeOK, ReporterTypeOK
  <2> QED
    BY <1>1, <2>1, CallbackCounts
<1>3. \A x \in Span : outcome'[x] = IF x = s THEN "pending" ELSE outcome[x]
  BY <1>1 DEF Callback, AfterCallback
<1>4. TypeOK'
  BY <1>1, <1>2, SizesAssumption DEF TypeOK
<1>5. \A p \in sends : s \notin p.spans \cup p.held
  BY <1>1 DEF OnePlaceEach, Pending
<1>6. OnePlaceEach'
  <2>1. Pending' = Pending \cup {s}
    BY <1>3 DEF Pending
  <2> QED
    BY <1>1, <1>5, <2>1 DEF OnePlaceEach
<1>7. NoSpanForgotten' /\ ClosingWaitsForItsFlush'
  BY <1>1, <1>3 DEF NoSpanForgotten, ClosingWaitsForItsFlush, Callback, AfterCallback
<1> QED
  BY <1>2, <1>4, <1>6, <1>7

\* An answer counts the spans of its datagram, and the span the continuation
\* held joins the batch.
LEMMA AnswerKeepsInv ==
  ASSUME IInv, NEW p \in sends, NEW ok \in BOOLEAN, SendDone(p, ok)
  PROVE  IInv'
<1> USE DEF IInv
<1>1. /\ sends' = sends \ {p}
      /\ batch' = batch \cup p.held
      /\ totalSpanBytes' = totalSpanBytes + HeldBytes(p.held)
      /\ Callback(p.via, p.spans, ok, {})
      /\ UNCHANGED processSet
  BY DEF SendDone, Continued, BytesAfter
<1>2. p \in Datagram
  BY DEF TypeOK
<1>3. /\ p.via \in Via
      /\ p.spans \in SUBSET Span
      /\ p.held \in SUBSET Span
  BY <1>2 DEF Datagram
<1>4. \A x \in p.spans \cup p.held : outcome[x] = "pending"
  BY DEF OnePlaceEach, Pending
<1>5. ReporterTypeOK' /\ MetricsCountEachSpanOnce'
  <2>1. /\ \A x \in p.spans \cup {} : outcome[x] \in {"new", "pending"}
        /\ processSet' \in BOOLEAN
        /\ ReporterTypeOK
    BY <1>1, <1>4 DEF TypeOK, ReporterTypeOK
  <2> QED
    BY <1>1, <1>3, <2>1, CallbackCounts
<1>6. /\ \A x \in Span : outcome'[x] =
           IF x \in p.spans THEN VerdictOf(p.via, ok) ELSE outcome[x]
      /\ VerdictOf(p.via, ok) # "pending"
      /\ phase' = IF p.via = "close" THEN "closed" ELSE phase
  BY <1>1 DEF Callback, AfterCallback, VerdictOf
<1>7. TypeOK'
  BY <1>1, <1>3, <1>5, HeldBytesType DEF TypeOK
<1>8. OnePlaceEach'
  <2>1. \A x \in Span : x \in Pending' <=> x \in Pending /\ x \notin p.spans
    BY <1>6 DEF Pending
  <2>2. batch' \subseteq Pending'
    <3>1. \A x \in batch : x \in Pending /\ x \notin p.spans
      BY DEF OnePlaceEach
    <3>2. \A x \in p.held : x \in Pending /\ x \notin p.spans
      BY DEF OnePlaceEach
    <3> QED
      BY <1>1, <1>3, <2>1, <3>1, <3>2 DEF Pending
  <2>3. \A r \in sends' : r.spans \cup r.held \subseteq Pending'
    BY <1>1, <2>1 DEF OnePlaceEach, Pending
  <2>4. \A r \in sends' : /\ r.spans \cap r.held = {}
                         /\ (r.spans \cup r.held) \cap batch' = {}
    BY <1>1 DEF OnePlaceEach
  <2>5. \A q, r \in sends' : q # r =>
          (q.spans \cup q.held) \cap (r.spans \cup r.held) = {}
    BY <1>1 DEF OnePlaceEach
  <2> QED
    BY <2>2, <2>3, <2>4, <2>5 DEF OnePlaceEach
<1>9. NoSpanForgotten'
  BY <1>1, <1>6 DEF NoSpanForgotten
<1>10. ClosingWaitsForItsFlush'
  BY <1>1, <1>6 DEF ClosingWaitsForItsFlush
<1> QED
  BY <1>5, <1>7, <1>8, <1>9, <1>10

LEMMA NextKeepsInv == IInv /\ [Next]_vars => IInv'
<1> SUFFICES ASSUME IInv, [Next]_vars PROVE IInv'
  OBVIOUS
<1>1. CASE SetProcess
  <2>1. /\ processSet' = TRUE
        /\ UNCHANGED <<phase, reporterSuccess, reporterFailure, reporterDropped,
                        outcome, batch, totalSpanBytes, sends>>
    BY <1>1 DEF SetProcess
  <2>2. Pending' = Pending /\ \A v \in Verdict : CountedAs(v)' = CountedAs(v)
    BY <2>1 DEF Pending, CountedAs
  <2> QED
    BY <2>1, <2>2 DEF IInv, TypeOK, ReporterTypeOK, OnePlaceEach, NoSpanForgotten,
                      MetricsCountEachSpanOnce, ClosingWaitsForItsFlush, Verdict
<1>2. ASSUME NEW s \in Span, Append(s) PROVE IInv'
  <2>1. CASE AppendRefused(s)
    BY <2>1, RefuseKeepsInv
  <2>2. CASE AppendBuffered(s)
    BY <2>2, BufferKeepsInv
  <2>3. CASE AppendFills(s)
    <3>1. /\ UNCHANGED processSet
          /\ phase = "open"
          /\ outcome[s] = "new"
          /\ FlushBatch(batch \cup {s}, MaxSpanBytes, "append", {}, {s})
          /\ totalSpanBytes + SpanSize[s] = MaxSpanBytes
      BY <2>3 DEF AppendFills, Appendable, CanReport
    <3>2. MaxSpanBytes \in Nat
      BY SizesAssumption DEF MaxSpanBytes
    <3>3. /\ "append" \in Via
          /\ {s} \in SUBSET Span
          /\ {} \in SUBSET {s}
          /\ batch \cup {s} = batch \cup ({s} \ {})
          /\ \A x \in {s} : outcome[x] = "new"
          /\ \A x, y \in {} : x = y
      BY <3>1 DEF Via
    <3> QED
      BY ONLY IInv, <3>1, <3>2, <3>3, FlushKeepsInv
  <2>4. CASE AppendOverflows(s)
    <3>1. /\ UNCHANGED processSet
          /\ phase = "open"
          /\ outcome[s] = "new"
          /\ FlushBatch(batch, totalSpanBytes, "append", {s}, {s})
      BY <2>4 DEF AppendOverflows, Appendable, CanReport
    <3>2. totalSpanBytes \in Nat
      BY DEF IInv, TypeOK
    <3>3. /\ "append" \in Via
          /\ {s} \in SUBSET Span
          /\ {s} \in SUBSET {s}
          /\ batch = batch \cup ({s} \ {s})
          /\ \A x \in {s} : outcome[x] = "new"
          /\ \A x, y \in {s} : x = y
      BY <3>1 DEF Via
    <3> QED
      BY ONLY IInv, <3>1, <3>2, <3>3, FlushKeepsInv
  <2> QED
    BY <1>2, <2>1, <2>2, <2>3, <2>4 DEF Append
<1>3. ASSUME NEW via \in Via, UNCHANGED processSet, phase = "open",
             FlushBatch(batch, totalSpanBytes, via, {}, {})
      PROVE  IInv'
  <2>1. totalSpanBytes \in Nat
    BY DEF IInv, TypeOK
  <2>2. /\ {} \in SUBSET Span
        /\ {} \in SUBSET {}
        /\ batch = batch \cup ({} \ {})
        /\ \A x \in {} : outcome[x] = "new"
        /\ \A x, y \in {} : x = y
    OBVIOUS
  <2> QED
    BY ONLY IInv, <1>3, <2>1, <2>2, FlushKeepsInv
<1>4. CASE Flush
  BY <1>3, <1>4 DEF Flush, Via
<1>5. CASE Close
  <2>1. CASE processSet
    BY <1>3, <1>5, <2>1 DEF Close, Via
  <2>2. CASE ~processSet
    <3>1. /\ phase = "open" /\ phase' = "closed"
          /\ UNCHANGED <<processSet, reporterSuccess, reporterFailure,
                         reporterDropped, outcome, batch, totalSpanBytes, sends>>
      BY <1>5, <2>2 DEF Close
    <3>2. Pending' = Pending /\ \A v \in Verdict : CountedAs(v)' = CountedAs(v)
      BY <3>1 DEF Pending, CountedAs
    <3> QED
      BY <3>1, <3>2 DEF IInv, TypeOK, ReporterTypeOK, Phase, OnePlaceEach, NoSpanForgotten,
                        MetricsCountEachSpanOnce, ClosingWaitsForItsFlush, Verdict
  <2> QED
    BY <2>1, <2>2
<1>6. CASE Answer
  BY <1>6, AnswerKeepsInv DEF Answer
<1>7. ASSUME NEW p \in sends, SendLost(p) PROVE IInv'
  <2>1. /\ phase = "closed"
        /\ sends' = sends \ {p}
        /\ UNCHANGED <<reporterVars, batch, totalSpanBytes>>
    BY <1>7 DEF SendLost
  <2>2. Pending' = Pending /\ \A v \in Verdict : CountedAs(v)' = CountedAs(v)
    BY <2>1 DEF Pending, CountedAs, reporterVars
  <2> QED
    BY <2>1, <2>2 DEF IInv, TypeOK, ReporterTypeOK, reporterVars, OnePlaceEach, NoSpanForgotten,
                      MetricsCountEachSpanOnce, ClosingWaitsForItsFlush, Verdict
<1>8. CASE UNCHANGED vars
  <2>1. Pending' = Pending /\ \A v \in Verdict : CountedAs(v)' = CountedAs(v)
    BY <1>8 DEF Pending, CountedAs, vars, reporterVars
  <2> QED
    BY <1>8, <2>1 DEF vars, reporterVars, IInv, TypeOK, ReporterTypeOK, OnePlaceEach,
                      NoSpanForgotten, MetricsCountEachSpanOnce,
                      ClosingWaitsForItsFlush, Verdict
<1> QED
  BY <1>1, <1>2, <1>4, <1>5, <1>6, <1>7, <1>8 DEF Next, Finished

-------------------------------------------------------------------------------

\* Bytes of different spans are different bytes, so that sizes add up.
LEMMA SizesAdd ==
  ASSUME NEW S \in SUBSET Span, NEW T \in SUBSET Span, S \cap T = {}
  PROVE  /\ SizeOf(S) \in Nat
         /\ SizeOf(T) \in Nat
         /\ SizeOf(S \cup T) = SizeOf(S) + SizeOf(T)
<1>1. ASSUME NEW U \in SUBSET Span PROVE IsFiniteSet(Bytes(U))
  <2> DEFINE Of(s) == {s} \X (1..SpanSize[s])
             All == {Of(s) : s \in U}
  <2>1. IsFiniteSet(All)
    <3> DEFINE f == [s \in U |-> Of(s)]
    <3>1. IsFiniteSet(U)
      BY SpanFinite, FS_Subset
    <3>2. f \in Surjection(U, All)
      <4> HIDE DEF Of
      <4> QED
        BY DEF Surjection
    <3> HIDE DEF f, All
    <3> QED
      BY <3>1, <3>2, FS_Surjection
  <2>2. \A B \in All : IsFiniteSet(B)
    <3> SUFFICES ASSUME NEW s \in U PROVE IsFiniteSet(Of(s))
      OBVIOUS
    <3>1. 1 \in Int /\ SpanSize[s] \in Int
      BY SizesAssumption
    <3>2. IsFiniteSet(1..SpanSize[s])
      BY <3>1, FS_Interval
    <3> QED
      BY <3>2, FS_Singleton, FS_Product
  <2>3. Bytes(U) = UNION All
    BY DEF Bytes
  <2> HIDE DEF All
  <2> QED
    BY <2>1, <2>2, <2>3, FS_UNION
<1>2. Bytes(S \cup T) = Bytes(S) \cup Bytes(T)
  BY DEF Bytes
<1>3. Bytes(S) \cap Bytes(T) = {}
  BY DEF Bytes
<1>4. Cardinality(Bytes(S) \cap Bytes(T)) = 0
  BY <1>3, FS_EmptySet
<1>5. IsFiniteSet(Bytes(S)) /\ IsFiniteSet(Bytes(T))
  BY <1>1
<1>6. Cardinality(Bytes(S)) \in Nat /\ Cardinality(Bytes(T)) \in Nat
  BY <1>5, FS_CardinalityType
<1>7. Cardinality(Bytes(S) \cup Bytes(T)) =
        Cardinality(Bytes(S)) + Cardinality(Bytes(T))
        - Cardinality(Bytes(S) \cap Bytes(T))
  BY <1>5, FS_Union
<1>8. Cardinality(Bytes(S) \cup Bytes(T)) =
        Cardinality(Bytes(S)) + Cardinality(Bytes(T))
  BY <1>4, <1>6, <1>7
<1> QED
  BY <1>2, <1>6, <1>8, Zenon DEF SizeOf

\* The size of a span is SpanSize, and the size of what a continuation holds
\* is what the continuation adds to _totalSpanBytes.
LEMMA SizeOfSpan ==
  ASSUME NEW s \in Span
  PROVE  SizeOf({s}) = SpanSize[s]
<1>1. Bytes({s}) = {s} \X (1..SpanSize[s])
  BY DEF Bytes
<1>2. SpanSize[s] \in Nat /\ SpanSize[s] >= 1 /\ 1 \in Int
  BY SizesAssumption
<1>3. IsFiniteSet(1..SpanSize[s]) /\ Cardinality(1..SpanSize[s]) = SpanSize[s]
  BY <1>2, FS_Interval
<1>4. IsFiniteSet({s}) /\ Cardinality({s}) = 1
  BY FS_Singleton
<1>5. Cardinality({s} \X (1..SpanSize[s])) = 1 * SpanSize[s]
  BY <1>3, <1>4, FS_Product
<1>6. 1 * SpanSize[s] = SpanSize[s]
  BY <1>2
<1> QED
  BY <1>1, <1>5, <1>6, Zenon DEF SizeOf

LEMMA SizeOfNone == SizeOf({}) = 0
<1>1. Bytes({}) = {}
  BY DEF Bytes
<1> QED
  BY <1>1, FS_EmptySet DEF SizeOf

LEMMA SizeOfHeld ==
  ASSUME NEW held \in SUBSET Span, \A x, y \in held : x = y
  PROVE  SizeOf(held) = HeldBytes(held)
<1>1. CASE held = {}
  BY <1>1, SizeOfNone DEF HeldBytes
<1>2. CASE held # {}
  <2> DEFINE h == CHOOSE s \in held : TRUE
  <2>1. h \in held
    BY <1>2
  <2>2. held = {h}
    BY <2>1
  <2>3. HeldBytes(held) = SpanSize[h]
    BY <1>2 DEF HeldBytes
  <2> HIDE DEF h
  <2> QED
    BY <2>1, <2>2, <2>3, SizeOfSpan
<1> QED
  BY <1>1, <1>2

\* flush() of a batch keeps the sizes: what it leaves is the continuation's.
LEMMA FlushKeepsBytes ==
  ASSUME BytesMatchBatch, NEW b, NEW bytes, bytes = SizeOf(b), NEW via,
         NEW held \in SUBSET Span, \A x, y \in held : x = y, NEW accepted,
         FlushBatch(b, bytes, via, held, accepted)
  PROVE  BytesMatchBatch'
<1>1. ASSUME batch' = held, totalSpanBytes' = HeldBytes(held), UNCHANGED sends
      PROVE  BytesMatchBatch'
  BY <1>1, SizeOfHeld DEF BytesMatchBatch
<1>2. ASSUME batch' = {}, totalSpanBytes' = 0,
             sends' = sends \cup
               {[spans |-> b, bytes |-> bytes, via |-> via, held |-> held]}
      PROVE  BytesMatchBatch'
  <2>1. \A p \in sends' : p.bytes = SizeOf(p.spans)
    BY <1>2 DEF BytesMatchBatch
  <2> QED
    BY <1>2, <2>1, SizeOfNone DEF BytesMatchBatch
<1> QED
  BY <1>1, <1>2 DEF FlushBatch, Reset

\* Every step does: a span that is added to the batch was not in it.
LEMMA NextKeepsBytes == IInv /\ BytesMatchBatch /\ [Next]_vars => BytesMatchBatch'
<1> SUFFICES ASSUME IInv, BytesMatchBatch, [Next]_vars PROVE BytesMatchBatch'
  OBVIOUS
<1>1. /\ batch \in SUBSET Span
      /\ \A s \in batch : outcome[s] = "pending"
      /\ sends \subseteq Datagram
  BY DEF IInv, TypeOK, OnePlaceEach, Pending
<1>2. ASSUME UNCHANGED <<batch, totalSpanBytes>>, sends' \subseteq sends
      PROVE  BytesMatchBatch'
  BY <1>2 DEF BytesMatchBatch
<1>3. ASSUME NEW s \in Span, CanReport(s)
      PROVE  SizeOf(batch \cup {s}) = totalSpanBytes + SpanSize[s]
  <2>1. batch \cap {s} = {}
    BY <1>1, <1>3 DEF CanReport
  <2>2. SizeOf(batch \cup {s}) = SizeOf(batch) + SizeOf({s})
    BY <1>1, <2>1, SizesAdd
  <2> QED
    BY <2>2, SizeOfSpan DEF BytesMatchBatch
<1>4. CASE SetProcess
  BY <1>2, <1>4 DEF SetProcess
<1>5. ASSUME NEW s \in Span, Append(s) PROVE BytesMatchBatch'
  <2>1. CASE AppendRefused(s)
    BY <1>2, <2>1 DEF AppendRefused
  <2>2. CASE AppendBuffered(s)
    <3>1. /\ CanReport(s)
          /\ batch' = batch \cup {s}
          /\ totalSpanBytes' = totalSpanBytes + SpanSize[s]
          /\ UNCHANGED sends
      BY <2>2 DEF AppendBuffered, Appendable
    <3> QED
      BY <1>3, <3>1 DEF BytesMatchBatch
  <2>3. CASE AppendFills(s)
    <3>1. /\ CanReport(s)
          /\ totalSpanBytes + SpanSize[s] = MaxSpanBytes
          /\ FlushBatch(batch \cup {s}, MaxSpanBytes, "append", {}, {s})
      BY <2>3 DEF AppendFills, Appendable
    <3>2. MaxSpanBytes = SizeOf(batch \cup {s})
      BY <1>3, <3>1
    <3>3. {} \in SUBSET Span /\ \A x, y \in {} : x = y
      OBVIOUS
    <3> QED
      BY ONLY BytesMatchBatch, <3>1, <3>2, <3>3, FlushKeepsBytes
  <2>4. CASE AppendOverflows(s)
    <3>1. FlushBatch(batch, totalSpanBytes, "append", {s}, {s})
      BY <2>4 DEF AppendOverflows
    <3>2. /\ totalSpanBytes = SizeOf(batch)
          /\ {s} \in SUBSET Span /\ \A x, y \in {s} : x = y
      BY DEF BytesMatchBatch
    <3> QED
      BY ONLY BytesMatchBatch, <3>1, <3>2, FlushKeepsBytes
  <2> QED
    BY <1>5, <2>1, <2>2, <2>3, <2>4 DEF Append
<1>6. ASSUME NEW via, FlushBatch(batch, totalSpanBytes, via, {}, {})
      PROVE  BytesMatchBatch'
  <2>1. /\ totalSpanBytes = SizeOf(batch)
        /\ {} \in SUBSET Span /\ \A x, y \in {} : x = y
    BY DEF BytesMatchBatch
  <2> QED
    BY ONLY BytesMatchBatch, <1>6, <2>1, FlushKeepsBytes
<1>7. CASE Flush
  BY <1>6, <1>7 DEF Flush
<1>8. CASE Close
  BY <1>2, <1>6, <1>8 DEF Close
<1>9. ASSUME NEW p \in sends, NEW ok \in BOOLEAN, SendDone(p, ok)
      PROVE  BytesMatchBatch'
  <2>1. /\ sends' = sends \ {p}
        /\ batch' = batch \cup p.held
        /\ totalSpanBytes' = totalSpanBytes + HeldBytes(p.held)
    BY <1>9 DEF SendDone, Continued, BytesAfter
  <2>2. p.held \in SUBSET Span /\ \A x, y \in p.held : x = y
    BY <1>1 DEF Datagram
  <2>3. batch \cap p.held = {}
    BY DEF IInv, OnePlaceEach
  <2>4. SizeOf(batch \cup p.held) = SizeOf(batch) + SizeOf(p.held)
    BY <1>1, <2>2, <2>3, SizesAdd
  <2>5. SizeOf(p.held) = HeldBytes(p.held)
    BY <2>2, SizeOfHeld
  <2>6. totalSpanBytes' = SizeOf(batch')
    BY <2>1, <2>4, <2>5 DEF BytesMatchBatch
  <2> QED
    BY <2>1, <2>6 DEF BytesMatchBatch
<1>10. ASSUME NEW p \in sends, SendLost(p) PROVE BytesMatchBatch'
  BY <1>2, <1>10 DEF SendLost
<1>11. CASE UNCHANGED vars
  BY <1>2, <1>11 DEF vars
<1> QED
  BY <1>4, <1>5, <1>7, <1>8, <1>9, <1>10, <1>11 DEF Next, Answer, Finished

-------------------------------------------------------------------------------

\* The invariant holds in every reachable state.
THEOREM Invariance == Spec => []IInv
  BY InitEstablishesInv, NextKeepsInv, PTL DEF Spec

\* The variables keep their types (RemoteReporter and UDPSender fields).
THEOREM TypeCorrect == Spec => []TypeOK
  BY Invariance, PTL DEF IInv

\* The metrics count each span that reached a verdict once, however many
\* datagrams are in flight (remote_reporter.js _appendCallback, flush).
THEOREM MetricsExact == Spec => []MetricsCountEachSpanOnce
  BY Invariance, PTL DEF IInv

\* While the socket is open every accepted span is batched, in flight or held
\* by a continuation (udp_sender.js append, flush).
THEOREM NothingForgotten == Spec => []NoSpanForgotten
  BY Invariance, PTL DEF IInv

\* A span is in one place only, so it is sent at most once (udp_sender.js).
THEOREM SentOnce == Spec => []OnePlaceEach
  BY Invariance, PTL DEF IInv

\* The close callback waits for its own flush and for nothing else
\* (remote_reporter.js close).
THEOREM CloseWaits == Spec => []ClosingWaitsForItsFlush
  BY Invariance, PTL DEF IInv

\* _totalSpanBytes is the size of the batch, and a datagram's buffer the size
\* of its spans, whatever was appended or answered in between (udp_sender.js
\* append, flush).
THEOREM BytesMatch == Spec => []BytesMatchBatch
<1>1. Init => BytesMatchBatch
  BY SizeOfNone DEF Init, BytesMatchBatch
<1> QED
  BY <1>1, NextKeepsBytes, Invariance, PTL DEF Spec

-------------------------------------------------------------------------------

\* A flush moves spans forward.
LEMMA FlushMovesForward ==
  ASSUME IInv, IInv', phase = "open", NEW via \in Via, NEW bytes,
         NEW accepted \in SUBSET Span, NEW held \in SUBSET accepted,
         \A s \in accepted : outcome[s] = "new",
         NEW b, b = batch \cup (accepted \ held),
         FlushBatch(b, bytes, via, held, accepted)
  PROVE  Delivery!SpansMoveForward /\ Delivery!PhaseMovesForward
<1>1. /\ ReporterTypeOK /\ ReporterTypeOK'
      /\ b \in SUBSET Span
      /\ \A s \in b : outcome[s] = "pending" \/ s \in accepted
  BY DEF IInv, TypeOK, OnePlaceEach, Pending
<1>2. ASSUME NEW ok \in BOOLEAN, Callback(via, b, ok, accepted)
      PROVE  Delivery!SpansMoveForward /\ phase' \in {"open", "closed"}
  <2>1. VerdictOf(via, ok) \in Verdict
    BY DEF VerdictOf, Verdict
  <2>2. /\ outcome' = [s \in Span |-> IF s \in b THEN VerdictOf(via, ok)
                         ELSE IF s \in accepted THEN "pending" ELSE outcome[s]]
        /\ phase' \in {"open", "closed"}
    BY <1>2 DEF Callback, AfterCallback
  <2> QED
    BY <1>1, <2>1, <2>2, OutcomesMoveForward
<1>3. ASSUME CallbackLater(via, accepted)
      PROVE  Delivery!SpansMoveForward /\ phase' \in {"open", "closing"}
  <2>1. /\ outcome' = [s \in Span |-> IF s \in {} THEN "success"
                         ELSE IF s \in accepted THEN "pending" ELSE outcome[s]]
        /\ phase' \in {"open", "closing"}
    BY <1>3 DEF CallbackLater, Waiting
  <2>2. "success" \in Verdict /\ {} \in SUBSET Span
    BY DEF Verdict
  <2> QED
    BY <1>1, <2>1, <2>2, OutcomesMoveForward
<1> QED
  BY <1>2, <1>3 DEF FlushBatch, Reset, Delivery!PhaseMovesForward

\* A step that leaves the outcomes and the metrics alone is a step of
\* SpanDelivery if the phase moves forward.
LEMMA QuietStep ==
  ASSUME IInv, UNCHANGED outcome
  PROVE  Delivery!SpansMoveForward
  BY DEF IInv, TypeOK, ReporterTypeOK, Outcome, Verdict, Delivery!SpansMoveForward,
         Delivery!Outcome, Delivery!Verdict

LEMMA NextMovesForward ==
  ASSUME IInv, IInv', Next
  PROVE  Delivery!SpansMoveForward /\ Delivery!PhaseMovesForward
<1>0. phase \in Phase /\ ReporterTypeOK /\ ReporterTypeOK'
  BY DEF IInv, TypeOK, ReporterTypeOK
<1>1. CASE UNCHANGED <<outcome, phase>>
  BY <1>0, <1>1, QuietStep DEF Phase, Delivery!PhaseMovesForward
<1>2. ASSUME NEW s \in Span, Append(s)
      PROVE  Delivery!SpansMoveForward /\ Delivery!PhaseMovesForward
  <2>1. phase = "open" /\ outcome[s] = "new"
    BY <1>2 DEF Append, AppendRefused, AppendBuffered, Fits, AppendFills,
                AppendOverflows, Appendable, CanReport
  <2>2. "append" \in Via /\ "dropped" \in Verdict /\ "success" \in Verdict
    BY DEF Via, Verdict
  <2>3. CASE AppendRefused(s)
    <3>1. /\ outcome' = [x \in Span |-> IF x \in {s} THEN "dropped"
                            ELSE IF x \in {s} THEN "pending" ELSE outcome[x]]
          /\ phase' = phase
      BY <2>3 DEF AppendRefused, Callback, AfterCallback, VerdictOf
    <3>2. Delivery!SpansMoveForward
      <4>1. /\ {s} \in SUBSET Span
            /\ {s} # {} => phase = "open"
            /\ \A x \in {s} : outcome[x] = "new"
            /\ \A x \in {s} : outcome[x] = "pending" \/ x \in {s}
        BY <2>1
      <4> QED
        BY ONLY <1>0, <2>2, <3>1, <4>1, OutcomesMoveForward
    <3> QED
      BY <2>1, <3>1, <3>2 DEF Delivery!PhaseMovesForward
  <2>4. CASE AppendBuffered(s)
    <3>1. /\ outcome' = [x \in Span |-> IF x \in {} THEN "success"
                            ELSE IF x \in {s} THEN "pending" ELSE outcome[x]]
          /\ phase' = phase
      BY <2>4 DEF AppendBuffered, Fits, Callback, AfterCallback
    <3>2. Delivery!SpansMoveForward
      <4>1. /\ {} \in SUBSET Span
            /\ {s} \in SUBSET Span
            /\ {s} # {} => phase = "open"
            /\ \A x \in {s} : outcome[x] = "new"
            /\ \A x \in {} : outcome[x] = "pending" \/ x \in {s}
        BY <2>1
      <4> QED
        BY ONLY <1>0, <2>2, <3>1, <4>1, OutcomesMoveForward
    <3> QED
      BY <2>1, <3>1, <3>2 DEF Delivery!PhaseMovesForward
  <2>5. CASE AppendFills(s)
    <3>1. FlushBatch(batch \cup {s}, MaxSpanBytes, "append", {}, {s})
      BY <2>5 DEF AppendFills
    <3>2. /\ {s} \in SUBSET Span
          /\ {} \in SUBSET {s}
          /\ batch \cup {s} = batch \cup ({s} \ {})
          /\ \A x \in {s} : outcome[x] = "new"
      BY <2>1
    <3> QED
      BY ONLY IInv, IInv', <2>1, <2>2, <3>1, <3>2, FlushMovesForward
  <2>6. CASE AppendOverflows(s)
    <3>1. FlushBatch(batch, totalSpanBytes, "append", {s}, {s})
      BY <2>6 DEF AppendOverflows
    <3>2. /\ {s} \in SUBSET Span
          /\ {s} \in SUBSET {s}
          /\ batch = batch \cup ({s} \ {s})
          /\ \A x \in {s} : outcome[x] = "new"
      BY <2>1
    <3> QED
      BY ONLY IInv, IInv', <2>1, <2>2, <3>1, <3>2, FlushMovesForward
  <2> QED
    BY <1>2, <2>3, <2>4, <2>5, <2>6 DEF Append
<1>3. ASSUME NEW via \in Via, phase = "open",
             FlushBatch(batch, totalSpanBytes, via, {}, {})
      PROVE  Delivery!SpansMoveForward /\ Delivery!PhaseMovesForward
  <2>1. /\ {} \in SUBSET Span
        /\ {} \in SUBSET {}
        /\ batch = batch \cup ({} \ {})
        /\ \A x \in {} : outcome[x] = "new"
    OBVIOUS
  <2> QED
    BY ONLY IInv, IInv', <1>3, <2>1, FlushMovesForward
<1>4. CASE Flush
  BY <1>3, <1>4 DEF Flush, Via
<1>5. CASE Close
  <2>1. CASE processSet
    BY <1>3, <1>5, <2>1 DEF Close, Via
  <2>2. CASE ~processSet
    BY <1>5, <2>2, QuietStep DEF Close, Delivery!PhaseMovesForward
  <2> QED
    BY <2>1, <2>2
<1>6. ASSUME NEW p \in sends, NEW ok \in BOOLEAN, SendDone(p, ok)
      PROVE  Delivery!SpansMoveForward /\ Delivery!PhaseMovesForward
  <2>1. p \in Datagram
    BY DEF IInv, TypeOK
  <2>2. /\ p.spans \in SUBSET Span
        /\ p.via = "close" => phase = "closing"
        /\ \A x \in p.spans : outcome[x] = "pending"
    BY <2>1 DEF Datagram, IInv, OnePlaceEach, Pending, ClosingWaitsForItsFlush
  <2>3. VerdictOf(p.via, ok) \in Verdict
    BY DEF VerdictOf, Verdict
  <2>4. /\ outcome' = [x \in Span |-> IF x \in p.spans THEN VerdictOf(p.via, ok)
                         ELSE IF x \in {} THEN "pending" ELSE outcome[x]]
        /\ phase' = IF p.via = "close" THEN "closed" ELSE phase
    BY <1>6 DEF SendDone, Continued, BytesAfter, Callback, AfterCallback
  <2>5. Delivery!SpansMoveForward
    <3>1. {} \in SUBSET Span /\ \A x \in {} : outcome[x] = "new"
      OBVIOUS
    <3> QED
      BY <1>0, <2>2, <2>3, <2>4, <3>1, OutcomesMoveForward
  <2> QED
    BY <1>0, <2>2, <2>4, <2>5 DEF Phase, Delivery!PhaseMovesForward
<1> QED
  BY <1>1, <1>2, <1>4, <1>5, <1>6
     DEF Next, SetProcess, Answer, SendLost, Finished, vars, reporterVars

\* The UDP reporter implements SpanDelivery: verdicts are final, each span is
\* counted once, nothing is accepted after close(), and the sender is closed
\* once (remote_reporter.js over udp_sender.js).
THEOREM DeliveryRefinement == Spec => ImplementsDelivery
<1>1. Init => Delivery!Init
  <2> SUFFICES ASSUME Init PROVE Delivery!Init
    OBVIOUS
  <2>1. \A v \in Verdict : Metric[v] = 0
    BY DEF Init, ReporterInit, Metric
  <2>2. Metric = [v \in Verdict |-> Metric[v]]
    BY DEF Metric
  <2>3. Metric = [v \in Verdict |-> 0]
    BY <2>1, <2>2
  <2>4. Verdict = Delivery!Verdict
    BY DEF Verdict, Delivery!Verdict
  <2> QED
    BY <2>3, <2>4 DEF Init, ReporterInit, Delivery!Init
<1>2. IInv /\ IInv' /\ [Next]_vars => [Delivery!Next]_(Delivery!vars)
  <2> SUFFICES ASSUME IInv, IInv', [Next]_vars
               PROVE  [Delivery!Next]_(Delivery!vars)
    OBVIOUS
  <2>1. CASE Next
    <3>1. Delivery!SpansMoveForward /\ Delivery!PhaseMovesForward
      BY <2>1, NextMovesForward
    <3>2. Delivery!CountsFollow
      BY <3>1, ExactCountsFollow DEF IInv
    <3> QED
      BY <3>1, <3>2 DEF Delivery!Next
  <2>2. CASE UNCHANGED vars
    BY <2>2 DEF vars, reporterVars, Delivery!vars, Metric
  <2> QED
    BY <2>1, <2>2
<1> QED
  BY <1>1, <1>2, Invariance, PTL DEF Spec, Delivery!Spec, ImplementsDelivery

===============================================================================
