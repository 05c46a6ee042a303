---------------------------- MODULE ReporterProofs ----------------------------
(***************************************************************************)
(* What the proofs about the two reporters have in common: how the         *)
(* callbacks of RemoteReporter change the metrics and the outcomes of the  *)
(* spans, and why exact metrics grow as SpanDelivery says.                 *)
(***************************************************************************)
EXTENDS RemoteReporter, FiniteSetTheorems, TLAPS

\* Moving the spans S, none of which has verdict v yet, to verdict v adds
\* |S| to the number of spans counted as v.
LEMMA CountGrows ==
  ASSUME NEW S \in SUBSET Span, NEW T \in SUBSET Span, S \cap T = {}
  PROVE  /\ Cardinality(S) \in Nat
         /\ Cardinality(T) \in Nat
         /\ Cardinality(T \cup S) = Cardinality(T) + Cardinality(S)
<1>1. IsFiniteSet(S) /\ IsFiniteSet(T)
  BY SpanFinite, FS_Subset
<1>2. Cardinality(S) \in Nat /\ Cardinality(T) \in Nat
  BY <1>1, FS_CardinalityType
<1>3. Cardinality(T \cap S) = 0
  <2>1. T \cap S = {}
    OBVIOUS
  <2> QED
    BY <2>1, FS_EmptySet
<1>4. Cardinality(T \cup S) = Cardinality(T) + Cardinality(S) - Cardinality(T \cap S)
  BY <1>1, FS_Union
<1>5. QED
  BY <1>2, <1>3, <1>4

\* A callback about pending or just accepted spans keeps the metrics exact.
LEMMA CallbackCounts ==
  ASSUME ReporterTypeOK, MetricsCountEachSpanOnce, processSet' \in BOOLEAN,
         NEW via \in Via, NEW S \in SUBSET Span, NEW ok \in BOOLEAN,
         NEW accepted \in SUBSET Span,
         \A s \in S \cup accepted : outcome[s] \in {"new", "pending"},
         Callback(via, S, ok, accepted)
  PROVE  ReporterTypeOK' /\ MetricsCountEachSpanOnce'
<1> DEFINE v == VerdictOf(via, ok)
<1>1. v \in Verdict
  BY DEF VerdictOf, Verdict
<1>2. outcome' = [s \in Span |-> IF s \in S THEN v
                    ELSE IF s \in accepted THEN "pending" ELSE outcome[s]]
  BY DEF Callback, AfterCallback
<1>3. outcome' \in [Span -> Outcome]
  BY <1>1, <1>2 DEF ReporterTypeOK, Outcome
<1>4. \A w \in Verdict : CountedAs(w)' = IF w = v THEN CountedAs(w) \cup S ELSE CountedAs(w)
  <2> SUFFICES ASSUME NEW w \in Verdict
               PROVE  CountedAs(w)' = IF w = v THEN CountedAs(w) \cup S
                                      ELSE CountedAs(w)
    OBVIOUS
  <2>1. w \notin {"new", "pending"}
    BY DEF Verdict
  <2> QED
    BY <1>2, <2>1 DEF CountedAs
<1>5. \A w \in Verdict : CountedAs(w) \in SUBSET Span /\ CountedAs(w) \cap S = {}
  BY DEF CountedAs, Verdict
<1>6. \A w \in Verdict :
        /\ Cardinality(S) \in Nat
        /\ Cardinality(CountedAs(w)) \in Nat
        /\ Cardinality(CountedAs(w) \cup S) = Cardinality(CountedAs(w)) + Cardinality(S)
  BY <1>5, CountGrows
<1> HIDE DEF v
<1>7. /\ reporterSuccess' = reporterSuccess + IF v = "success" THEN Cardinality(S) ELSE 0
      /\ reporterFailure' = reporterFailure + IF v = "failure" THEN Cardinality(S) ELSE 0
      /\ reporterDropped' = reporterDropped + IF v = "dropped" THEN Cardinality(S) ELSE 0
      /\ phase' = IF via = "close" THEN "closed" ELSE phase
  BY DEF Callback, AfterCallback, v
<1>8. MetricsCountEachSpanOnce'
  <2>1. \A w \in Verdict : Cardinality(CountedAs(w)') =
          Cardinality(CountedAs(w)) + IF v = w THEN Cardinality(S) ELSE 0
    <3> SUFFICES ASSUME NEW w \in Verdict
                 PROVE  Cardinality(CountedAs(w)') =
                   Cardinality(CountedAs(w)) + IF v = w THEN Cardinality(S) ELSE 0
      OBVIOUS
    <3>1. CASE v = w
      <4>1. CountedAs(w)' = CountedAs(w) \cup S
        BY <3>1, <1>4
      <4> QED
        BY <3>1, <4>1, <1>6
    <3>2. CASE v # w
      <4>1. CountedAs(w)' = CountedAs(w)
        BY <3>2, <1>4
      <4>2. Cardinality(CountedAs(w)') = Cardinality(CountedAs(w))
        BY <4>1
      <4>3. Cardinality(CountedAs(w)) \in Nat
        BY <1>6
      <4> QED
        BY <3>2, <4>2, <4>3
    <3> QED
      BY <3>1, <3>2
  <2> QED
    BY <2>1, <1>7 DEF MetricsCountEachSpanOnce, Verdict
<1>9. ReporterTypeOK'
  BY <1>3, <1>6, <1>7 DEF ReporterTypeOK, Verdict, Phase
<1> QED
  BY <1>8, <1>9

\* Accepting spans without an answer leaves the metrics as they are.
LEMMA LaterCounts ==
  ASSUME ReporterTypeOK, MetricsCountEachSpanOnce, processSet' \in BOOLEAN,
         NEW via \in Via, NEW accepted \in SUBSET Span,
         \A s \in accepted : outcome[s] = "new",
         CallbackLater(via, accepted)
  PROVE  ReporterTypeOK' /\ MetricsCountEachSpanOnce'
<1>1. outcome' = [s \in Span |-> IF s \in accepted THEN "pending" ELSE outcome[s]]
  BY DEF CallbackLater, Waiting
<1>2. \A w \in Verdict : CountedAs(w)' = CountedAs(w)
  BY <1>1 DEF CountedAs, Verdict
<1>3. MetricsCountEachSpanOnce'
  BY <1>2 DEF MetricsCountEachSpanOnce, CallbackLater, Waiting, Verdict
<1>4. ReporterTypeOK'
  BY <1>1 DEF ReporterTypeOK, CallbackLater, Waiting, Outcome, Phase
<1> QED
  BY <1>3, <1>4

-------------------------------------------------------------------------------

\* Spans move forward when the outcomes change as in Callback or
\* CallbackLater, about pending and just accepted spans only.
LEMMA OutcomesMoveForward ==
  ASSUME ReporterTypeOK, ReporterTypeOK', NEW S \in SUBSET Span,
         NEW accepted \in SUBSET Span, NEW v \in Verdict,
         accepted # {} => phase = "open",
         \A s \in accepted : outcome[s] = "new",
         \A s \in S : outcome[s] = "pending" \/ s \in accepted,
         outcome' = [s \in Span |-> IF s \in S THEN v
                       ELSE IF s \in accepted THEN "pending" ELSE outcome[s]]
  PROVE  Delivery!SpansMoveForward
<1>1. \A s \in Span : outcome'[s] = IF s \in S THEN v
                       ELSE IF s \in accepted THEN "pending" ELSE outcome[s]
  OBVIOUS
<1>2. v # "new" /\ v # "pending"
  BY DEF Verdict
<1>3. outcome' \in [Span -> Delivery!Outcome]
  BY DEF ReporterTypeOK, Outcome, Verdict, Delivery!Outcome, Delivery!Verdict
<1>4. \A s \in S : outcome[s] \notin Verdict
  BY DEF Verdict
<1>5. ASSUME NEW s \in Span
      PROVE  /\ outcome[s] \in Delivery!Verdict => outcome'[s] = outcome[s]
             /\ outcome[s] = "pending" => outcome'[s] # "new"
             /\ (outcome[s] = "new" /\ outcome'[s] # "new") => phase = "open"
  BY <1>1, <1>2, <1>4 DEF Verdict, Delivery!Verdict
<1> QED
  BY <1>3, <1>5 DEF Delivery!SpansMoveForward

\* When the metrics are exact on both sides of a step that moves spans
\* forward, they grew as SpanDelivery says.
LEMMA ExactCountsFollow ==
  ASSUME MetricsCountEachSpanOnce, MetricsCountEachSpanOnce',
         Delivery!SpansMoveForward
  PROVE  Delivery!CountsFollow
<1> DEFINE Joined(v) == {s \in Span : outcome'[s] = v /\ outcome[s] # v}
<1>1. ASSUME NEW v \in Verdict
      PROVE  Cardinality(CountedAs(v)') = Cardinality(CountedAs(v)) + Cardinality(Joined(v))
  <2>1. \A s \in Span : outcome[s] = v => outcome'[s] = v
    BY DEF Delivery!SpansMoveForward, Verdict, Delivery!Verdict
  <2>2. CountedAs(v)' = CountedAs(v) \cup Joined(v)
    BY <2>1 DEF CountedAs
  <2>3. /\ Joined(v) \in SUBSET Span
        /\ CountedAs(v) \in SUBSET Span
        /\ Joined(v) \cap CountedAs(v) = {}
    BY DEF CountedAs
  <2> HIDE DEF Joined
  <2>4. Cardinality(CountedAs(v) \cup Joined(v)) =
          Cardinality(CountedAs(v)) + Cardinality(Joined(v))
    BY <2>3, CountGrows
  <2> QED
    BY <2>2, <2>4
<1>2. /\ reporterSuccess' = reporterSuccess + Cardinality(Joined("success"))
      /\ reporterFailure' = reporterFailure + Cardinality(Joined("failure"))
      /\ reporterDropped' = reporterDropped + Cardinality(Joined("dropped"))
  <2> HIDE DEF Joined
  <2>1. "success" \in Verdict /\ "failure" \in Verdict /\ "dropped" \in Verdict
    BY DEF Verdict
  <2> QED
    BY <1>1, <2>1 DEF MetricsCountEachSpanOnce
<1>3. \A v \in Verdict : Metric'[v] = Metric[v] + Cardinality(Joined(v))
  BY <1>2 DEF Verdict, Metric
<1> HIDE DEF Joined
<1>4. Metric' = [v \in Verdict |-> Metric'[v]]
  BY DEF Metric
<1>5. Metric' = [v \in Verdict |-> Metric[v] + Cardinality(Joined(v))]
  BY <1>3, <1>4
<1>6. Verdict = Delivery!Verdict
  BY DEF Verdict, Delivery!Verdict
<1>7. Metric' = [v \in Delivery!Verdict |-> Metric[v] + Cardinality(Joined(v))]
  BY <1>5, <1>6
<1>8. \A S : Delivery!Cardinality(S) = Cardinality(S)
  BY Zenon DEF Cardinality, Delivery!Cardinality, IsFiniteSet, Delivery!IsFiniteSet
<1> QED
  BY <1>7, <1>8 DEF Delivery!CountsFollow, Joined

===============================================================================
