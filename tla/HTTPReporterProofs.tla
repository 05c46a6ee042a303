-------------------------- MODULE HTTPReporterProofs --------------------------
(***************************************************************************)
(* Proofs about HTTPReporter, for any finite set of spans, any size of a   *)
(* batch, any spans that cannot be encoded, with late errors or without.   *)
(*                                                                         *)
(* A poisoned batch and a late error count spans again.  The inductive     *)
(* invariant says which metrics are spoilt by that (Counts), and why       *)
(* nothing else is: a span that was counted is in no request that will be  *)
(* answered (Places).                                                      *)
(***************************************************************************)
EXTENDS HTTPReporter, ReporterProofs

\* A span is in one place: a batch that is not poisoned holds none that was
\* counted, and one whose connection failed late has no other place.
Places ==
  /\ \A s \in batch : outcome[s] \in {"pending", "failure", "dropped"}
  /\ ~Poisoned => \A s \in batch : outcome[s] = "pending"
  /\ \A r \in requests :
       /\ r.spans \cap (batch \cup twice) = {}
       /\ \A s \in r.spans : outcome[s] = IF r.answered THEN "success" ELSE "pending"
  /\ \A q, r \in requests : q # r => q.spans \cap r.spans = {}
  /\ twice \cap batch = {}
  /\ \A s \in twice : outcome[s] \in {"failure", "dropped"}

\* The metrics, one by one: only an encoding error spoils some of them.
Counts ==
  /\ reporterSuccess = Cardinality(CountedAs("success")) + Cardinality(twice)
  /\ ~Poisoned => /\ reporterFailure = Cardinality(CountedAs("failure"))
                    /\ reporterDropped = Cardinality(CountedAs("dropped"))

IInv == TypeOK /\ Places /\ Counts /\ NoSpanForgotten

LEMMA Sizes ==
  ASSUME NEW S \in SUBSET Span
  PROVE  /\ IsFiniteSet(S) /\ Cardinality(S) \in Nat
         /\ \A s \in Span \ S : Cardinality(S \cup {s}) = Cardinality(S) + 1
BY SpanFinite, FS_Subset, FS_CardinalityType, FS_AddElement

\* What a callback does to the outcomes and the metrics.
Outcomes(v, ok, S, accepted) ==
  /\ v \in {"success", "failure", "dropped"} /\ (v = "success" <=> ok)
  /\ \A s \in Span : outcome'[s] = IF s \in S THEN v
                                   ELSE IF s \in accepted THEN "pending" ELSE outcome[s]
  /\ \A w \in {"success", "failure", "dropped"} :
       CountedAs(w)' = IF w = v THEN CountedAs(w) \cup S ELSE CountedAs(w) \ S
  /\ reporterSuccess' = reporterSuccess + IF v = "success" THEN Cardinality(S) ELSE 0
  /\ reporterFailure' = reporterFailure + IF v = "failure" THEN Cardinality(S) ELSE 0
  /\ reporterDropped' = reporterDropped + IF v = "dropped" THEN Cardinality(S) ELSE 0

LEMMA CallbackOutcomes ==
  ASSUME ReporterTypeOK, NEW via, NEW ok \in BOOLEAN, NEW S \in SUBSET Span,
         NEW accepted \in SUBSET Span, \A s \in accepted : outcome[s] = "new",
         Callback(via, S, ok, accepted), processSet' \in BOOLEAN
  PROVE  ReporterTypeOK' /\ Outcomes(VerdictOf(via, ok), ok, S, accepted)
<1> DEFINE v == VerdictOf(via, ok)
<1>1. v \in {"success", "failure", "dropped"} /\ (v = "success" <=> ok)
  BY DEF VerdictOf
<1>2. outcome' = [s \in Span |-> IF s \in S THEN v
                    ELSE IF s \in accepted THEN "pending" ELSE outcome[s]]
  BY DEF Callback
<1>3. /\ reporterSuccess' = reporterSuccess + IF v = "success" THEN Cardinality(S) ELSE 0
      /\ reporterFailure' = reporterFailure + IF v = "failure" THEN Cardinality(S) ELSE 0
      /\ reporterDropped' = reporterDropped + IF v = "dropped" THEN Cardinality(S) ELSE 0
      /\ phase' = IF via = "close" THEN "closed" ELSE phase
  BY DEF Callback, AfterCallback
<1> HIDE DEF v
<1>4. \A s \in Span : outcome'[s] = IF s \in S THEN v
                                    ELSE IF s \in accepted THEN "pending" ELSE outcome[s]
  BY <1>2
<1>5. ASSUME NEW w \in {"success", "failure", "dropped"}
      PROVE  CountedAs(w)' = IF w = v THEN CountedAs(w) \cup S ELSE CountedAs(w) \ S
  <2>1. \A s \in Span : s \in CountedAs(w)' <=>
          IF s \in S THEN v = w ELSE s \in CountedAs(w)
    BY <1>4 DEF CountedAs
  <2>2. CountedAs(w)' \subseteq Span /\ CountedAs(w) \subseteq Span
    BY DEF CountedAs
  <2> QED
    BY <2>1, <2>2
<1>6. ReporterTypeOK'
  <2>1. outcome' \in [Span -> Outcome]
    BY <1>1, <1>2 DEF ReporterTypeOK, Outcome, Verdict
  <2>2. Cardinality(S) \in Nat
    BY SpanFinite, FS_Subset, FS_CardinalityType
  <2> QED
    BY <1>3, <2>1, <2>2 DEF ReporterTypeOK, Phase
<1> QED
  BY <1>1, <1>3, <1>4, <1>5, <1>6 DEF v, Outcomes

\* A callback that counts each span of S for the first time.
LEMMA CountedOnce ==
  ASSUME ReporterTypeOK, NEW via, NEW ok \in BOOLEAN, NEW S \in SUBSET Span,
         NEW accepted \in SUBSET Span, \A s \in accepted : outcome[s] = "new",
         \A s \in S : outcome[s] \in {"new", "pending"},
         Callback(via, S, ok, accepted), processSet' \in BOOLEAN,
         Counts, twice \in SUBSET Span, twice' = twice, ~Poisoned' => ~Poisoned
  PROVE  Counts'
<1> DEFINE v == VerdictOf(via, ok)
<1>0. Outcomes(v, ok, S, accepted)
  BY CallbackOutcomes
<1> HIDE DEF v
<1>1. /\ v \in {"success", "failure", "dropped"}
      /\ \A w \in {"success", "failure", "dropped"} :
           CountedAs(w)' = IF w = v THEN CountedAs(w) \cup S ELSE CountedAs(w) \ S
      /\ reporterSuccess' = reporterSuccess + IF v = "success" THEN Cardinality(S) ELSE 0
      /\ reporterFailure' = reporterFailure + IF v = "failure" THEN Cardinality(S) ELSE 0
      /\ reporterDropped' = reporterDropped + IF v = "dropped" THEN Cardinality(S) ELSE 0
  BY <1>0 DEF Outcomes
<1>2. \A w \in {"success", "failure", "dropped"} :
        /\ CountedAs(w) \in SUBSET Span /\ S \cap CountedAs(w) = {}
        /\ CountedAs(w) \ S = CountedAs(w)
  BY DEF CountedAs
<1>3. \A w \in {"success", "failure", "dropped"} :
        /\ Cardinality(S) \in Nat /\ Cardinality(CountedAs(w)) \in Nat
        /\ Cardinality(CountedAs(w) \cup S) = Cardinality(CountedAs(w)) + Cardinality(S)
  BY <1>2, CountGrows
<1>4. ASSUME NEW w \in {"success", "failure", "dropped"}
      PROVE  /\ Cardinality(CountedAs(w)') = Cardinality(CountedAs(w))
                                                + IF v = w THEN Cardinality(S) ELSE 0
             /\ Cardinality(CountedAs(w)) \in Nat
  <2>1. CASE v = w
    <3>1. CountedAs(w)' = CountedAs(w) \cup S
      BY <1>1, <2>1
    <3> QED
      BY <1>3, <2>1, <3>1
  <2>2. CASE v # w
    <3>1. CountedAs(w)' = CountedAs(w)
      BY <1>1, <1>2, <2>2
    <3>2. Cardinality(CountedAs(w)') = Cardinality(CountedAs(w))
      BY <3>1
    <3> QED
      BY <1>3, <2>2, <3>2
  <2> QED
    BY <2>1, <2>2
<1>6. /\ reporterSuccess' = Cardinality(CountedAs("success")') + Cardinality(twice')
      /\ Cardinality(twice') = Cardinality(twice)
  <2>1. Cardinality(CountedAs("success")') = Cardinality(CountedAs("success"))
                                               + IF v = "success" THEN Cardinality(S) ELSE 0
    BY <1>4
  <2>2. Cardinality(CountedAs("success")) \in Nat /\ Cardinality(S) \in Nat
    BY <1>3
  <2>3. reporterSuccess \in Nat
    BY DEF ReporterTypeOK
  <2>4. reporterSuccess = Cardinality(CountedAs("success")) + Cardinality(twice)
    BY DEF Counts
  <2> QED
    BY <1>1, <2>1, <2>2, <2>3, <2>4, Sizes
<1>7. ~Poisoned' => /\ reporterFailure' = Cardinality(CountedAs("failure")')
                      /\ reporterDropped' = Cardinality(CountedAs("dropped")')
  BY <1>1, <1>4 DEF Counts
<1> QED
  BY <1>6, <1>7 DEF Counts

\* Accepting spans without an answer leaves the metrics as they are.
LEMMA LaterOutcomes ==
  ASSUME ReporterTypeOK, NEW via \in Via, NEW accepted \in SUBSET Span,
         \A s \in accepted : outcome[s] = "new",
         CallbackLater(via, accepted), processSet' \in BOOLEAN
  PROVE  /\ ReporterTypeOK'
         /\ \A s \in Span : outcome'[s] = IF s \in accepted THEN "pending" ELSE outcome[s]
         /\ \A w \in {"success", "failure", "dropped"} : CountedAs(w)' = CountedAs(w)
         /\ UNCHANGED <<reporterSuccess, reporterFailure, reporterDropped>>
<1>1. /\ outcome' = [s \in Span |-> IF s \in accepted THEN "pending" ELSE outcome[s]]
      /\ phase' = IF via = "close" THEN "closing" ELSE phase
      /\ UNCHANGED <<reporterSuccess, reporterFailure, reporterDropped>>
  BY DEF CallbackLater, Waiting
<1>2. \A w \in {"success", "failure", "dropped"} : CountedAs(w)' = CountedAs(w)
  BY <1>1 DEF CountedAs
<1>3. ReporterTypeOK'
  BY <1>1 DEF ReporterTypeOK, Outcome, Phase
<1> QED
  BY <1>1, <1>2, <1>3

LEMMA InitEstablishesInv == Init => IInv
<1> SUFFICES ASSUME Init PROVE IInv
  OBVIOUS
<1> USE DEF Init, ReporterInit
<1>1. TypeOK
  <2>1. Cardinality(batch) = 0
    BY FS_EmptySet
  <2>2. ReporterTypeOK
    BY DEF ReporterTypeOK, Outcome, Phase
  <2> QED
    BY <2>1, <2>2, HTTPAssumption DEF TypeOK
<1>2. Counts
  <2>1. \A v \in {"success", "failure", "dropped"} : CountedAs(v) = {}
    BY DEF CountedAs
  <2>2. Cardinality({}) = 0
    BY FS_EmptySet
  <2> QED
    BY <2>1, <2>2 DEF Counts
<1>3. Places /\ NoSpanForgotten
  BY DEF Places, NoSpanForgotten, Pending
<1> QED
  BY <1>1, <1>2, <1>3 DEF IInv


LEMMA Unpoisoned == ~Poisoned <=> batch \cap Unencodable = {}
BY DEF Poisoned

LEMMA RequestType ==
  ASSUME IInv, NEW r \in requests
  PROVE  /\ r.spans \in SUBSET Span /\ r.spans # {}
         /\ Cardinality(r.spans) <= MaxSpanBatchSize
         /\ r.via \in Via /\ r.answered \in BOOLEAN /\ r \in Request
BY DEF IInv, TypeOK, Request, Posted

\* A flush of the batch, with the span that was just appended if there is one.
LEMMA FlushKeepsInv ==
  ASSUME IInv, UNCHANGED processSet, NEW via \in Via,
         NEW accepted \in SUBSET Span, \A s \in accepted : outcome[s] = "new",
         NEW b, b = batch \cup accepted,
         b \cap Unencodable = {} => Cardinality(b) <= MaxSpanBatchSize,
         FlushBatch(b, via, accepted)
  PROVE  IInv'
<1> USE DEF IInv
<1>1. /\ ReporterTypeOK /\ processSet' \in BOOLEAN /\ b \in SUBSET Span
      /\ batch \in SUBSET Span /\ twice \in SUBSET Span /\ requests \subseteq Request
  BY DEF TypeOK, ReporterTypeOK
<1>2. \A r \in requests : r.spans \subseteq Span
  BY RequestType
<1>3. \A s \in accepted : /\ s \notin batch /\ s \notin twice
                          /\ \A r \in requests : s \notin r.spans
  BY DEF Places
<1>4. CASE /\ b = {}
           /\ Callback(via, {}, TRUE, accepted)
           /\ UNCHANGED <<batch, requests, twice>>
  <2>1. accepted = {} /\ {} \in SUBSET Span /\ TRUE \in BOOLEAN
    BY <1>4
  <2>2. ReporterTypeOK' /\ Outcomes(VerdictOf(via, TRUE), TRUE, {}, accepted)
    BY <1>1, <1>4, <2>1, CallbackOutcomes
  <2>3. \A s \in Span : outcome'[s] = outcome[s]
    BY <2>1, <2>2 DEF Outcomes
  <2>4. Counts'
    BY <1>1, <1>4, <2>1, CountedOnce DEF Poisoned
  <2>5. TypeOK'
    BY <1>4, <2>2 DEF TypeOK, Poisoned
  <2>6. Places'
    BY <1>1, <1>2, <1>4, <2>3 DEF Places, Poisoned
  <2>7. NoSpanForgotten'
    BY <1>4, <2>3 DEF NoSpanForgotten, Pending, InFlight
  <2> QED
    BY <2>4, <2>5, <2>6, <2>7
<1>5. CASE /\ b \cap Unencodable # {}
           /\ Callback(via, b, FALSE, accepted)
           /\ batch' = b
           /\ UNCHANGED <<requests, twice>>
  <2> DEFINE v == VerdictOf(via, FALSE)
  <2>1. ReporterTypeOK' /\ Outcomes(v, FALSE, b, accepted)
    BY <1>1, <1>5, CallbackOutcomes
  <2> HIDE DEF v
  <2>2. /\ v \in {"failure", "dropped"}
        /\ \A s \in Span : outcome'[s] = IF s \in b THEN v ELSE outcome[s]
    BY <2>1 DEF Outcomes
  <2>3. Poisoned'
    BY <1>5 DEF Poisoned
  <2>4. Counts'
    <3>1. CountedAs("success")' = CountedAs("success")
      <4>1. \A s \in b : outcome[s] # "success"
        BY DEF Places
      <4>2. CountedAs("success")' = CountedAs("success") \ b
        BY <2>1, <2>2 DEF Outcomes
      <4> QED
        BY <4>1, <4>2 DEF CountedAs
    <3>2. reporterSuccess' = reporterSuccess
      BY <2>1, <2>2 DEF Outcomes, ReporterTypeOK, TypeOK
    <3> QED
      BY <1>5, <2>3, <3>1, <3>2 DEF Counts
  <2>5. TypeOK'
    BY <1>1, <1>5, <2>1, <2>3 DEF TypeOK
  <2>6. Places'
    <3>1. \A s \in batch' : outcome'[s] \in {"pending", "failure", "dropped"}
      BY <1>1, <1>5, <2>2
    <3>2. \A r \in requests : \A s \in r.spans : s \notin b /\ outcome'[s] = outcome[s]
      BY <1>2, <1>3, <2>2 DEF Places
    <3>3. \A s \in twice : s \notin b /\ outcome'[s] = outcome[s]
      BY <1>1, <1>3, <2>2 DEF Places
    <3> QED
      BY <1>5, <2>3, <3>1, <3>2, <3>3 DEF Places
  <2>7. NoSpanForgotten'
    BY <1>5, <2>2 DEF NoSpanForgotten, Pending, InFlight
  <2> QED
    BY <2>4, <2>5, <2>6, <2>7
<1>6. CASE /\ b # {}
           /\ b \cap Unencodable = {}
           /\ batch' = Reset(b)
           /\ requests' = requests \cup Post(b, via)
           /\ CallbackLater(via, accepted)
           /\ UNCHANGED twice
  <2> DEFINE q == [spans |-> b, via |-> via, answered |-> FALSE]
  <2>1. q \in Request /\ q.spans = b /\ q.via = via /\ q.answered = FALSE
    BY <1>1, <1>6 DEF Request, Posted
  <2>2. batch' = {} /\ requests' = requests \cup {q} /\ twice' = twice
    BY <1>6 DEF Reset, Post
  <2> HIDE DEF q
  <2>3. /\ ReporterTypeOK'
        /\ \A s \in Span : outcome'[s] = IF s \in accepted THEN "pending" ELSE outcome[s]
        /\ \A w \in {"success", "failure", "dropped"} : CountedAs(w)' = CountedAs(w)
        /\ UNCHANGED <<reporterSuccess, reporterFailure, reporterDropped>>
    BY <1>1, <1>6, LaterOutcomes
  <2>4. ~Poisoned /\ ~Poisoned'
    BY <1>6, <2>2 DEF Poisoned
  <2>5. Counts'
    BY <2>2, <2>3, <2>4 DEF Counts
  <2>6. TypeOK'
    <3>1. Cardinality(batch') = 0
      BY <2>2, FS_EmptySet
    <3> QED
      BY <1>1, <2>1, <2>2, <2>3, <3>1, HTTPAssumption DEF TypeOK
  <2>7. \A s \in b : s \in Span /\ outcome'[s] = "pending"
    BY <1>1, <2>3, <2>4 DEF Places
  <2>8. Places'
    <3>1. \A r \in requests : \A s \in r.spans : s \notin b /\ outcome'[s] = outcome[s]
      BY <1>2, <1>3, <2>3 DEF Places
    <3>2. \A s \in twice : s \notin b /\ outcome'[s] = outcome[s]
      BY <1>1, <1>3, <2>3 DEF Places
    <3>3. \A r \in requests' :
            /\ r.spans \cap (batch' \cup twice') = {}
            /\ \A s \in r.spans : outcome'[s] = IF r.answered THEN "success" ELSE "pending"
      BY <2>1, <2>2, <2>7, <3>1, <3>2 DEF Places
    <3>4. \A p, r \in requests' : p # r => p.spans \cap r.spans = {}
      BY <2>1, <2>2, <3>1 DEF Places
    <3> QED
      BY <2>2, <3>2, <3>3, <3>4 DEF Places
  <2>9. NoSpanForgotten'
    <3>1. \A s \in Pending' : s \in Pending \/ s \in accepted
      BY <2>3 DEF Pending
    <3>2. InFlight \subseteq InFlight' /\ b \subseteq InFlight'
      BY <2>1, <2>2 DEF InFlight
    <3> QED
      BY <3>1, <3>2 DEF NoSpanForgotten
  <2> QED
    BY <2>5, <2>6, <2>8, <2>9
<1> QED
  BY <1>4, <1>5, <1>6 DEF FlushBatch

LEMMA AppendKeepsInv ==
  ASSUME IInv, NEW s \in Span, Append(s)
  PROVE  IInv'
<1> USE DEF IInv
<1>1. processSet' = processSet /\ outcome[s] = "new"
  BY DEF Append
<1>2. /\ batch \in SUBSET Span /\ twice \in SUBSET Span /\ ReporterTypeOK
      /\ processSet' \in BOOLEAN /\ MaxSpanBatchSize \in Nat \ {0}
  BY <1>1, HTTPAssumption DEF TypeOK, ReporterTypeOK
<1>3. /\ s \notin batch /\ s \notin twice /\ \A r \in requests : s \notin r.spans
  BY <1>1 DEF Places
<1>4. CASE IsFull(batch \cup {s})
  <2>1. FlushBatch(batch \cup {s}, "append", {s})
    BY <1>4 DEF Append
  <2>2. ASSUME (batch \cup {s}) \cap Unencodable = {}
        PROVE  Cardinality(batch \cup {s}) <= MaxSpanBatchSize
    <3>1. Cardinality(batch) < MaxSpanBatchSize
      BY <2>2 DEF TypeOK, Poisoned
    <3>2. Cardinality(batch) \in Nat /\ Cardinality(batch \cup {s}) = Cardinality(batch) + 1
      BY <1>2, <1>3, Sizes
    <3> QED
      BY <1>2, <3>1, <3>2
  <2>3. "append" \in Via /\ {s} \in SUBSET Span /\ \A x \in {s} : outcome[x] = "new"
    BY <1>1 DEF Via
  <2> QED
    BY <1>1, <2>1, <2>2, <2>3, FlushKeepsInv
<1>5. CASE ~IsFull(batch \cup {s})
  <2>1. /\ batch' = batch \cup {s} /\ UNCHANGED <<requests, twice>>
        /\ Callback("append", {}, TRUE, {s})
    BY <1>5 DEF Append
  <2>2. {s} \in SUBSET Span /\ {} \in SUBSET Span /\ TRUE \in BOOLEAN /\ \A x \in {s} : outcome[x] = "new"
    BY <1>1
  <2>3. ReporterTypeOK' /\ Outcomes(VerdictOf("append", TRUE), TRUE, {}, {s})
    BY <1>2, <2>1, <2>2, CallbackOutcomes
  <2>4. \A x \in Span : outcome'[x] = IF x = s THEN "pending" ELSE outcome[x]
    BY <2>3 DEF Outcomes
  <2>5. ~Poisoned' => ~Poisoned
    BY <2>1 DEF Poisoned
  <2>6. Counts'
    BY <1>2, <2>1, <2>2, <2>5, CountedOnce
  <2>7. TypeOK'
    <3>1. Cardinality(batch') < MaxSpanBatchSize
      <4>1. Cardinality(batch \cup {s}) \in Nat
        BY <1>2, Sizes
      <4> QED
        BY <1>2, <1>5, <2>1, <4>1 DEF IsFull
    <3> QED
      BY <1>2, <2>1, <2>3, <3>1 DEF TypeOK
  <2>8. Places'
    <3>1. \A r \in requests : r.spans \subseteq Span
      BY RequestType
    <3>2. \A x \in batch' : outcome'[x] \in {"pending", "failure", "dropped"}
      BY <1>2, <2>1, <2>4 DEF Places
    <3>3. ~Poisoned' => \A x \in batch' : outcome'[x] = "pending"
      BY <1>2, <2>1, <2>4, <2>5 DEF Places
    <3>4. \A r \in requests : \A x \in r.spans : x # s /\ outcome'[x] = outcome[x]
      BY <1>3, <2>4, <3>1
    <3>5. \A x \in twice : x # s /\ outcome'[x] = outcome[x]
      BY <1>2, <1>3, <2>4
    <3> QED
      BY <1>3, <2>1, <3>2, <3>3, <3>4, <3>5 DEF Places
  <2>9. NoSpanForgotten'
    BY <2>1, <2>4 DEF NoSpanForgotten, Pending, InFlight
  <2> QED
    BY <2>6, <2>7, <2>8, <2>9
<1> QED
  BY <1>4, <1>5

\* The first answer counts the spans of its request; they were pending.
LEMMA AnswerKeepsInv ==
  ASSUME IInv, NEW r \in requests, ~r.answered, NEW ok \in BOOLEAN,
         NEW more \in SUBSET {[r EXCEPT !.answered = TRUE]}, ok \/ more = {},
         requests' = (requests \ {r}) \cup more,
         Callback(r.via, r.spans, ok, {}),
         UNCHANGED <<processSet, batch, twice>>
  PROVE  IInv'
<1> USE DEF IInv
<1>1. /\ ReporterTypeOK /\ processSet' \in BOOLEAN /\ twice \in SUBSET Span
      /\ batch \in SUBSET Span
  BY DEF TypeOK, ReporterTypeOK
<1>2. /\ r.spans \in SUBSET Span /\ {} \in SUBSET Span
      /\ \A s \in r.spans : outcome[s] = "pending" /\ s \notin batch /\ s \notin twice
  BY RequestType DEF Places
<1> DEFINE v == VerdictOf(r.via, ok)
<1>3. ReporterTypeOK' /\ Outcomes(v, ok, r.spans, {})
  BY <1>1, <1>2, CallbackOutcomes
<1> HIDE DEF v
<1>4. /\ v \in {"success", "failure", "dropped"} /\ (v = "success" <=> ok)
      /\ \A s \in Span : outcome'[s] = IF s \in r.spans THEN v ELSE outcome[s]
  BY <1>3 DEF Outcomes
<1>5. Counts'
  <2>1. /\ \A s \in r.spans : outcome[s] \in {"new", "pending"}
        /\ \A s \in {} : outcome[s] = "new"
        /\ ~Poisoned' => ~Poisoned
        /\ Counts /\ Callback(r.via, r.spans, ok, {}) /\ twice' = twice
    BY <1>2 DEF Poisoned
  <2> QED
    BY ONLY <1>1, <1>2, <2>1, CountedOnce
<1>6. \A p \in more : /\ p \in Request /\ p.spans = r.spans /\ p.answered = TRUE /\ ok
  <2>1. [r EXCEPT !.answered = TRUE] \in Request
    BY RequestType DEF Request
  <2>2. /\ [r EXCEPT !.answered = TRUE].spans = r.spans
        /\ [r EXCEPT !.answered = TRUE].answered = TRUE
    BY RequestType DEF Request
  <2> QED
    BY <2>1, <2>2
<1>7. TypeOK'
  BY <1>3, <1>6 DEF TypeOK, Poisoned
<1>8. \A p \in requests \ {r} : p.spans \in SUBSET Span /\ p.spans \cap r.spans = {}
  BY RequestType DEF Places
<1>9. Places'
  <2>1. \A s \in batch : outcome'[s] = outcome[s]
    BY <1>1, <1>2, <1>4
  <2>2. \A s \in twice : outcome'[s] = outcome[s]
    BY <1>1, <1>2, <1>4
  <2>3. \A p \in requests \ {r} : \A s \in p.spans : outcome'[s] = outcome[s]
    BY <1>4, <1>8
  <2>4. \A p \in requests' :
          /\ p.spans \cap (batch \cup twice) = {}
          /\ \A s \in p.spans : outcome'[s] = IF p.answered THEN "success" ELSE "pending"
    <3>1. ASSUME NEW p \in requests \ {r}
          PROVE  /\ p.spans \cap (batch \cup twice) = {}
                 /\ \A s \in p.spans : outcome'[s] = IF p.answered THEN "success" ELSE "pending"
      BY <2>3 DEF Places
    <3>2. ASSUME NEW p \in more
          PROVE  /\ p.spans \cap (batch \cup twice) = {}
                 /\ \A s \in p.spans : outcome'[s] = IF p.answered THEN "success" ELSE "pending"
      BY <1>2, <1>4, <1>6
    <3> QED
      BY <3>1, <3>2
  <2>5. \A p, q \in requests' : p # q => p.spans \cap q.spans = {}
    BY <1>6, <1>8 DEF Places
  <2> QED
    BY <2>1, <2>2, <2>4, <2>5 DEF Places, Poisoned
<1>10. NoSpanForgotten'
  <2>1. ASSUME NEW s \in Pending' PROVE s \in batch' \cup InFlight'
    <3>1. s \in Pending /\ s \notin r.spans
      BY <1>4 DEF Pending
    <3>2. CASE s \in batch
      BY <3>2
    <3>3. CASE s \notin batch
      <4>1. PICK p \in requests : s \in p.spans /\ ~p.answered
        BY <3>1, <3>3 DEF NoSpanForgotten, InFlight
      <4>2. p \in requests'
        BY <3>1, <4>1
      <4> QED
        BY <4>1, <4>2 DEF InFlight
    <3> QED
      BY <3>2, <3>3
  <2> QED
    BY <2>1 DEF NoSpanForgotten
<1> QED
  BY <1>5, <1>7, <1>9, <1>10

\* A connection that fails after its response moves spans from one metric's
\* count to another's, and is remembered.
LEMMA LateErrorKeepsInv ==
  ASSUME IInv, NEW r \in requests, r.answered, requests' = requests \ {r},
         Callback(r.via, r.spans, FALSE, {}), twice' = twice \cup r.spans,
         UNCHANGED <<processSet, batch>>
  PROVE  IInv'
<1> USE DEF IInv
<1>1. /\ ReporterTypeOK /\ processSet' \in BOOLEAN /\ twice \in SUBSET Span
      /\ batch \in SUBSET Span
  BY DEF TypeOK, ReporterTypeOK
<1>2. /\ r.spans \in SUBSET Span /\ {} \in SUBSET Span
      /\ \A s \in r.spans : outcome[s] = "success" /\ s \notin batch /\ s \notin twice
  BY RequestType DEF Places
<1> DEFINE v == VerdictOf(r.via, FALSE)
<1>3. ReporterTypeOK' /\ Outcomes(v, FALSE, r.spans, {})
  BY <1>1, <1>2, CallbackOutcomes
<1> HIDE DEF v
<1>4. /\ v \in {"failure", "dropped"}
      /\ \A s \in Span : outcome'[s] = IF s \in r.spans THEN v ELSE outcome[s]
      /\ \A w \in {"success", "failure", "dropped"} :
           CountedAs(w)' = IF w = v THEN CountedAs(w) \cup r.spans
                             ELSE CountedAs(w) \ r.spans
      /\ reporterSuccess' = reporterSuccess + 0
      /\ reporterFailure' = reporterFailure + IF v = "failure" THEN Cardinality(r.spans) ELSE 0
      /\ reporterDropped' = reporterDropped + IF v = "dropped" THEN Cardinality(r.spans) ELSE 0
  BY <1>3 DEF Outcomes
<1>5. TypeOK'
  BY <1>1, <1>2, <1>3 DEF TypeOK, Poisoned
<1>6. Counts'
  <2> DEFINE kept == CountedAs("success")'
  <2>1. /\ kept \in SUBSET Span /\ kept \cap r.spans = {} /\ twice \cap r.spans = {}
        /\ CountedAs("success") = kept \cup r.spans /\ twice' = twice \cup r.spans
    BY <1>2, <1>4 DEF CountedAs
  <2> HIDE DEF kept
  <2>2. /\ Cardinality(r.spans) \in Nat /\ Cardinality(kept) \in Nat /\ Cardinality(twice) \in Nat
        /\ Cardinality(kept \cup r.spans) = Cardinality(kept) + Cardinality(r.spans)
        /\ Cardinality(twice \cup r.spans) = Cardinality(twice) + Cardinality(r.spans)
    BY <1>1, <1>2, <2>1, CountGrows
  <2>3. reporterSuccess' = Cardinality(kept) + Cardinality(twice')
    <3>1. reporterSuccess = Cardinality(kept \cup r.spans) + Cardinality(twice)
      BY <2>1 DEF Counts
    <3>2. reporterSuccess' = reporterSuccess
      BY <1>1, <1>4 DEF ReporterTypeOK
    <3> QED
      BY <2>1, <2>2, <3>1, <3>2
  <2>4. ASSUME NEW w \in {"failure", "dropped"}
        PROVE  Cardinality(CountedAs(w)') = Cardinality(CountedAs(w))
                                              + IF v = w THEN Cardinality(r.spans) ELSE 0
    <3>1. CountedAs(w) \in SUBSET Span /\ r.spans \cap CountedAs(w) = {}
      BY <1>2 DEF CountedAs
    <3>2. /\ Cardinality(CountedAs(w)) \in Nat
          /\ Cardinality(CountedAs(w) \cup r.spans)
               = Cardinality(CountedAs(w)) + Cardinality(r.spans)
      BY <1>2, <3>1, CountGrows
    <3>3. CASE v = w
      <4>1. CountedAs(w)' = CountedAs(w) \cup r.spans
        BY <1>4, <3>3
      <4> QED
        BY <3>2, <3>3, <4>1
    <3>4. CASE v # w
      <4>1. CountedAs(w)' = CountedAs(w)
        <5>1. CountedAs(w) \ r.spans = CountedAs(w)
          BY <3>1
        <5> QED
          BY <1>4, <3>4, <5>1
      <4>2. Cardinality(CountedAs(w)') = Cardinality(CountedAs(w))
        BY <4>1
      <4> QED
        BY <3>2, <3>4, <4>2
    <3> QED
      BY <3>3, <3>4
  <2>5. Poisoned' = Poisoned
    BY DEF Poisoned
  <2> QED
    BY <1>4, <2>3, <2>4, <2>5 DEF Counts, kept
<1>7. \A p \in requests \ {r} : p.spans \in SUBSET Span /\ p.spans \cap r.spans = {}
  BY RequestType DEF Places
<1>8. Places'
  <2>1. \A s \in batch : outcome'[s] = outcome[s]
    BY <1>1, <1>2, <1>4
  <2>2. \A s \in twice' : outcome'[s] \in {"failure", "dropped"}
    BY <1>1, <1>2, <1>4 DEF Places
  <2>3. \A p \in requests' : \A s \in p.spans : outcome'[s] = outcome[s]
    BY <1>4, <1>7
  <2>4. \A p \in requests' : p.spans \cap (batch \cup twice') = {}
    BY <1>7 DEF Places
  <2>5. twice' \cap batch = {}
    BY <1>2 DEF Places
  <2> QED
    BY <2>1, <2>2, <2>3, <2>4, <2>5 DEF Places, Poisoned
<1>9. NoSpanForgotten'
  <2>1. InFlight' = InFlight
    BY DEF InFlight
  <2>2. Pending' \subseteq Pending
    BY <1>4 DEF Pending
  <2> QED
    BY <2>1, <2>2 DEF NoSpanForgotten
<1> QED
  BY <1>5, <1>6, <1>8, <1>9

LEMMA NextKeepsInv == IInv /\ [Next]_(vars) => IInv'
<1> SUFFICES ASSUME IInv, [Next]_(vars) PROVE IInv'
  OBVIOUS
<1> USE DEF IInv
\* What the invariant is about is unchanged, but for a request that is over.
<1>1. ASSUME UNCHANGED <<reporterSuccess, reporterFailure, reporterDropped, outcome,
                         batch, twice>>,
             NEW over \in SUBSET requests, \A r \in over : r.answered,
             requests' = requests \ over, processSet' \in BOOLEAN, phase' \in Phase
      PROVE  IInv'
  <2>1. \A w : CountedAs(w)' = CountedAs(w)
    BY <1>1 DEF CountedAs
  <2>2. Counts'
    BY <1>1, <2>1 DEF Counts, Poisoned
  <2>3. TypeOK'
    BY <1>1 DEF TypeOK, ReporterTypeOK, Poisoned
  <2>4. Places'
    BY <1>1 DEF Places, Poisoned
  <2>5. NoSpanForgotten'
    BY <1>1 DEF NoSpanForgotten, Pending, InFlight
  <2> QED
    BY <2>2, <2>3, <2>4, <2>5
<1>2. processSet \in BOOLEAN /\ phase \in Phase /\ {} \in SUBSET requests
  BY DEF TypeOK, ReporterTypeOK
<1>3. ASSUME NEW via \in Via, FlushBatch(batch, via, {}), UNCHANGED processSet
      PROVE  IInv'
  <2>1. ASSUME batch \cap Unencodable = {}
        PROVE  Cardinality(batch) <= MaxSpanBatchSize
    <3>1. Cardinality(batch) < MaxSpanBatchSize /\ Cardinality(batch) \in Nat
      BY <2>1, Sizes DEF TypeOK, Poisoned
    <3> QED
      BY <3>1, HTTPAssumption
  <2>2. batch = batch \cup {} /\ {} \in SUBSET Span
    OBVIOUS
  <2> QED
    BY <1>3, <2>1, <2>2, FlushKeepsInv
<1>4. CASE SetProcess
  <2>1. /\ processSet' = TRUE /\ requests' = requests \ {}
        /\ UNCHANGED <<phase, reporterSuccess, reporterFailure, reporterDropped, outcome,
                       batch, twice>>
    BY <1>4 DEF SetProcess
  <2> QED
    BY <1>1, <1>2, <2>1
<1>5. ASSUME NEW s \in Span, Append(s) PROVE IInv'
  BY <1>5, AppendKeepsInv
<1>6. CASE Flush
  BY <1>3, <1>6 DEF Flush, Via
<1>7. CASE Close
  <2>1. CASE processSet
    BY <1>3, <1>7, <2>1 DEF Close, Via
  <2>2. CASE ~processSet
    <3>1. /\ processSet' = processSet /\ phase' = "closed" /\ requests' = requests \ {}
          /\ UNCHANGED <<reporterSuccess, reporterFailure, reporterDropped, outcome,
                         batch, twice>>
      BY <1>7, <2>2 DEF Close
    <3> QED
      BY <1>1, <1>2, <3>1 DEF Phase
  <2> QED
    BY <2>1, <2>2
<1>8. ASSUME NEW r \in requests, Response(r) PROVE IInv'
  <2>1. /\ ~r.answered /\ requests' = (requests \ {r}) \cup AfterResponse(r)
        /\ Callback(r.via, r.spans, TRUE, {}) /\ UNCHANGED <<processSet, batch, twice>>
    BY <1>8 DEF Response
  <2>2. AfterResponse(r) \in SUBSET {[r EXCEPT !.answered = TRUE]}
    BY DEF AfterResponse
  <2> QED
    BY <2>1, <2>2, AnswerKeepsInv
<1>9. ASSUME NEW r \in requests, RequestError(r) PROVE IInv'
  <2>1. /\ requests' = requests \ {r} /\ Callback(r.via, r.spans, FALSE, {})
        /\ twice' = IF r.answered THEN twice \cup r.spans ELSE twice
        /\ UNCHANGED <<processSet, batch>>
    BY <1>9 DEF RequestError
  <2>2. CASE r.answered
    BY <2>1, <2>2, LateErrorKeepsInv
  <2>3. CASE ~r.answered
    <3>1. requests' = (requests \ {r}) \cup {} /\ twice' = twice
      BY <2>1, <2>3
    <3>2. {} \in SUBSET {[r EXCEPT !.answered = TRUE]} /\ FALSE \in BOOLEAN
      OBVIOUS
    <3> QED
      BY <2>1, <2>3, <3>1, <3>2, AnswerKeepsInv
  <2> QED
    BY <2>2, <2>3
<1>10. ASSUME NEW r \in requests, ResponseEnd(r) PROVE IInv'
  <2>1. /\ r.answered /\ requests' = requests \ {r}
        /\ UNCHANGED <<processSet, phase, reporterSuccess, reporterFailure,
                       reporterDropped, outcome, batch, twice>>
    BY <1>10 DEF ResponseEnd, reporterVars
  <2> QED
    BY <1>1, <1>2, <2>1
<1>11. CASE Finished \/ UNCHANGED vars
  <2>1. /\ requests' = requests \ {}
        /\ UNCHANGED <<processSet, phase, reporterSuccess, reporterFailure,
                       reporterDropped, outcome, batch, twice>>
    BY <1>11 DEF Finished, vars, reporterVars
  <2> QED
    BY <1>1, <1>2, <2>1
<1> QED
  BY <1>4, <1>5, <1>6, <1>7, <1>8, <1>9, <1>10, <1>11 DEF Next

\* What the metrics add up to, of which success is bounded in any case.
LEMMA AddsUp == IInv => MetricsAddUp
<1> SUFFICES ASSUME IInv PROVE MetricsAddUp
  OBVIOUS
<1> USE DEF IInv
<1> DEFINE C(w) == CountedAs(w)
           left == batch \cup InFlight
<1>1. /\ batch \in SUBSET Span /\ twice \in SUBSET Span /\ outcome \in [Span -> Outcome]
  BY DEF TypeOK, ReporterTypeOK
<1>2. \A s \in InFlight : s \in Span /\ outcome[s] = "pending" /\ s \notin twice
  BY RequestType DEF Places, InFlight
<1>3. \A w : C(w) \in SUBSET Span
  BY DEF CountedAs
<1>4. left \in SUBSET Span
  BY <1>1, <1>2
<1>5. /\ \A s \in left : outcome[s] \in {"pending", "failure", "dropped"} /\ s \notin twice
      /\ \A s \in twice : outcome[s] \in {"failure", "dropped"}
  BY <1>2 DEF Places
<1>6. reporterSuccess + Cardinality(left) <= Cardinality(Accepted)
  <2>1. C("success") \cap twice = {} /\ (C("success") \cup twice) \cap left = {}
    BY <1>5 DEF CountedAs
  <2>2. C("success") \cup twice \in SUBSET Span
    BY <1>1, <1>3
  <2>3. Cardinality(C("success") \cup twice) = Cardinality(C("success")) + Cardinality(twice)
    BY <1>1, <1>3, <2>1, CountGrows
  <2>4. Cardinality((C("success") \cup twice) \cup left)
          = Cardinality(C("success") \cup twice) + Cardinality(left)
    BY <1>4, <2>1, <2>2, CountGrows
  <2>5. (C("success") \cup twice) \cup left \subseteq Accepted
    BY <1>1, <1>4, <1>5 DEF Accepted, CountedAs
  <2>6. Accepted \in SUBSET Span
    BY DEF Accepted
  <2>7. Cardinality((C("success") \cup twice) \cup left) <= Cardinality(Accepted)
    BY <2>5, <2>6, Sizes, FS_Subset
  <2>8. reporterSuccess = Cardinality(C("success")) + Cardinality(twice)
    BY DEF Counts
  <2> HIDE DEF C, left
  <2> QED
    BY <2>3, <2>4, <2>7, <2>8
<1>7. ASSUME ~Poisoned
      PROVE  reporterSuccess + reporterFailure + reporterDropped
               = Cardinality(Accepted \ Pending) + Cardinality(twice)
  <2>1. Accepted \ Pending = (C("success") \cup C("failure")) \cup C("dropped")
    BY <1>1 DEF Accepted, Pending, CountedAs, Outcome, Verdict
  <2>2. /\ C("success") \cap C("failure") = {}
        /\ (C("success") \cup C("failure")) \cap C("dropped") = {}
    BY DEF CountedAs
  <2>3. /\ Cardinality(C("success") \cup C("failure"))
             = Cardinality(C("success")) + Cardinality(C("failure"))
        /\ Cardinality(C("success")) \in Nat /\ Cardinality(C("failure")) \in Nat
    BY <1>3, <2>2, CountGrows
  <2>4. C("success") \cup C("failure") \in SUBSET Span
    BY <1>3
  <2>5. /\ Cardinality((C("success") \cup C("failure")) \cup C("dropped"))
             = Cardinality(C("success") \cup C("failure")) + Cardinality(C("dropped"))
        /\ Cardinality(C("dropped")) \in Nat
    BY <1>3, <2>2, <2>4, CountGrows
  <2>6. /\ reporterSuccess = Cardinality(C("success")) + Cardinality(twice)
        /\ reporterFailure = Cardinality(C("failure"))
        /\ reporterDropped = Cardinality(C("dropped"))
    BY <1>7 DEF Counts
  <2>7. Cardinality(twice) \in Nat
    BY <1>1, Sizes
  <2>8. Cardinality(Accepted \ Pending)
          = Cardinality((C("success") \cup C("failure")) \cup C("dropped"))
    BY <2>1
  <2>9. Cardinality(twice) = Cardinality(twice)
    OBVIOUS
  <2> HIDE DEF C
  <2> QED
    BY <2>3, <2>5, <2>6, <2>7, <2>8, <2>9
<1> QED
  BY <1>6, <1>7 DEF MetricsAddUp

\* The types of the HTTP reporter's state; in particular a batch stays below
\* maxSpanBatchSize until a span that cannot be encoded is in it (append and
\* flush of http_sender.js).
THEOREM TypeCorrect == Spec => []TypeOK
<1>1. IInv => TypeOK
  BY DEF IInv
<1> QED
  BY <1>1, InitEstablishesInv, NextKeepsInv, PTL DEF Spec

\* No accepted span is forgotten: until it is counted it is in the batch or in
\* a request that is not answered (append, flush of http_sender.js).
THEOREM NothingForgotten == Spec => []NoSpanForgotten
<1>1. IInv => NoSpanForgotten
  BY DEF IInv
<1> QED
  BY <1>1, InitEstablishesInv, NextKeepsInv, PTL DEF Spec

\* A span is counted as sent at most once, whatever fails, and all of them are
\* counted, once, but for encoding errors and connections that fail late.
THEOREM MetricsTruthful == Spec => []MetricsAddUp
<1> QED
  BY AddsUp, InitEstablishesInv, NextKeepsInv, PTL DEF Spec

-------------------------------------------------------------------------------
(* Without errors of encoding and late ones it is a SpanDelivery           *)

\* The close callback waits for the request of its own flush.
CloseWaits ==
  /\ \A r \in requests : r.via = "close" => phase = "closing"
  /\ \A q, r \in requests : q.via = "close" /\ r.via = "close" => q = r

\* What holds then: a span is counted once, and no request is answered twice.
DeliveryInv ==
  /\ IInv /\ CloseWaits
  /\ twice = {} /\ \A r \in requests : ~r.answered

\* The metrics are exact, because nothing is counted again.
LEMMA ExactMetrics ==
  ASSUME Unencodable = {}, DeliveryInv
  PROVE  /\ MetricsCountEachSpanOnce /\ ReporterTypeOK
         /\ batch \in SUBSET Span /\ \A s \in batch : outcome[s] = "pending"
<1>1. ~Poisoned
  BY DEF Poisoned
<1>2. Cardinality(twice) = 0
  BY FS_EmptySet DEF DeliveryInv
<1>3. Cardinality(CountedAs("success")) \in Nat
  BY Sizes DEF CountedAs
<1>4. MetricsCountEachSpanOnce
  BY <1>1, <1>2, <1>3 DEF DeliveryInv, IInv, Counts, MetricsCountEachSpanOnce
<1> QED
  BY <1>1, <1>4 DEF DeliveryInv, IInv, TypeOK, Places

\* A flush moves spans and phase forward, and waits if it is that of close.
LEMMA FlushDelivers ==
  ASSUME Unencodable = {}, DeliveryInv, IInv', phase = "open",
         NEW via \in Via, NEW accepted \in SUBSET Span,
         \A s \in accepted : outcome[s] = "new",
         FlushBatch(batch \cup accepted, via, accepted)
  PROVE  /\ DeliveryInv'
         /\ Delivery!SpansMoveForward /\ Delivery!PhaseMovesForward
<1> DEFINE b == batch \cup accepted
<1>1. /\ ReporterTypeOK /\ ReporterTypeOK'
      /\ b \in SUBSET Span /\ \A s \in b : outcome[s] = "pending" \/ s \in accepted
  BY ExactMetrics DEF IInv, TypeOK
<1>2. \A r \in requests : r.via # "close" /\ ~r.answered
  BY DEF DeliveryInv, CloseWaits
<1> HIDE DEF b
<1>3. ASSUME Callback(via, {}, TRUE, accepted), UNCHANGED <<batch, requests, twice>>
      PROVE  /\ DeliveryInv'
             /\ Delivery!SpansMoveForward /\ Delivery!PhaseMovesForward
  <2>1. /\ outcome' = [s \in Span |-> IF s \in {} THEN "success"
                         ELSE IF s \in accepted THEN "pending" ELSE outcome[s]]
        /\ phase' \in {"open", "closed"}
    BY <1>3 DEF Callback, AfterCallback, VerdictOf
  <2>2. "success" \in Verdict /\ {} \in SUBSET Span
    BY DEF Verdict
  <2>3. Delivery!SpansMoveForward
    BY <1>1, <2>1, <2>2, OutcomesMoveForward
  <2>4. DeliveryInv'
    BY <1>2, <1>3 DEF DeliveryInv, CloseWaits
  <2> QED
    BY <2>1, <2>3, <2>4 DEF Delivery!PhaseMovesForward
<1>4. ASSUME CallbackLater(via, accepted), requests' = requests \cup Post(b, via),
             UNCHANGED twice
      PROVE  /\ DeliveryInv'
             /\ Delivery!SpansMoveForward /\ Delivery!PhaseMovesForward
  <2>1. /\ outcome' = [s \in Span |-> IF s \in {} THEN "success"
                         ELSE IF s \in accepted THEN "pending" ELSE outcome[s]]
        /\ phase' = IF via = "close" THEN "closing" ELSE phase
    BY <1>4 DEF CallbackLater, Waiting
  <2>2. "success" \in Verdict /\ {} \in SUBSET Span
    BY DEF Verdict
  <2>3. Delivery!SpansMoveForward
    BY <1>1, <2>1, <2>2, OutcomesMoveForward
  <2>4. DeliveryInv'
    <3> DEFINE new == [spans |-> b, via |-> via, answered |-> FALSE]
    <3>1. new.via = via /\ ~new.answered
      OBVIOUS
    <3> HIDE DEF new
    <3>2. requests' = requests \cup {new}
      BY <1>4 DEF Post, new
    <3>3. CloseWaits'
      BY <1>2, <2>1, <3>1, <3>2 DEF CloseWaits
    <3> QED
      BY <1>2, <1>4, <3>1, <3>2, <3>3 DEF DeliveryInv
  <2> QED
    BY <2>1, <2>3, <2>4 DEF Delivery!PhaseMovesForward
<1> QED
  BY <1>3, <1>4 DEF FlushBatch, b

\* An answer, whether good or bad, is the only one to its request.
LEMMA AnswerDelivers ==
  ASSUME Unencodable = {}, DeliveryInv, IInv', NEW r \in requests, NEW ok \in BOOLEAN,
         requests' = requests \ {r}, twice' = twice, Callback(r.via, r.spans, ok, {})
  PROVE  /\ DeliveryInv'
         /\ Delivery!SpansMoveForward /\ Delivery!PhaseMovesForward
<1>1. /\ ReporterTypeOK /\ ReporterTypeOK' /\ phase \in Phase
      /\ r.spans \in SUBSET Span
      /\ \A s \in r.spans : outcome[s] = "pending"
      /\ r.via = "close" => phase = "closing"
  BY RequestType DEF DeliveryInv, IInv, TypeOK, ReporterTypeOK, Places, CloseWaits
<1>2. VerdictOf(r.via, ok) \in Verdict /\ {} \in SUBSET Span
  BY DEF VerdictOf, Verdict
<1>3. /\ outcome' = [s \in Span |-> IF s \in r.spans THEN VerdictOf(r.via, ok)
                       ELSE IF s \in {} THEN "pending" ELSE outcome[s]]
      /\ phase' = IF r.via = "close" THEN "closed" ELSE phase
  BY DEF Callback, AfterCallback
<1>4. Delivery!SpansMoveForward
  BY <1>1, <1>2, <1>3, OutcomesMoveForward
<1>5. DeliveryInv'
  BY <1>3 DEF DeliveryInv, CloseWaits
<1> QED
  BY <1>1, <1>3, <1>4, <1>5 DEF Phase, Delivery!PhaseMovesForward

LEMMA StepDelivers ==
  ASSUME Unencodable = {}, ~LateErrors, DeliveryInv, Next
  PROVE  /\ DeliveryInv'
         /\ Delivery!SpansMoveForward /\ Delivery!PhaseMovesForward
<1>1. IInv /\ IInv'
  BY NextKeepsInv DEF DeliveryInv
<1>2. /\ phase \in Phase /\ ReporterTypeOK /\ ReporterTypeOK'
      /\ {} \in SUBSET Span
  BY <1>1 DEF IInv, TypeOK, ReporterTypeOK
\* The outcomes and the requests stay as they are.
<1>3. ASSUME UNCHANGED <<outcome, requests, twice>>,
             phase' = phase \/ (phase = "open" /\ phase' = "closed")
      PROVE  /\ DeliveryInv'
             /\ Delivery!SpansMoveForward /\ Delivery!PhaseMovesForward
  <2>1. Delivery!SpansMoveForward
    BY <1>2, <1>3 DEF ReporterTypeOK, Outcome, Verdict, Delivery!SpansMoveForward,
                      Delivery!Outcome, Delivery!Verdict
  <2>2. DeliveryInv'
    BY <1>1, <1>3 DEF DeliveryInv, CloseWaits
  <2> QED
    BY <1>2, <1>3, <2>1, <2>2 DEF Phase, Delivery!PhaseMovesForward
<1>4. ASSUME NEW s \in Span, Append(s)
      PROVE  /\ DeliveryInv'
             /\ Delivery!SpansMoveForward /\ Delivery!PhaseMovesForward
  <2>1. /\ phase = "open" /\ outcome[s] = "new" /\ UNCHANGED processSet
        /\ {s} \in SUBSET Span /\ \A x \in {s} : outcome[x] = "new"
    BY <1>4 DEF Append
  <2>2. CASE IsFull(batch \cup {s})
    <3>1. FlushBatch(batch \cup {s}, "append", {s}) /\ "append" \in Via
      BY <1>4, <2>2 DEF Append, Via
    <3> QED
      BY <1>1, <2>1, <3>1, FlushDelivers
  <2>3. CASE ~IsFull(batch \cup {s})
    <3>1. Callback("append", {}, TRUE, {s}) /\ UNCHANGED <<requests, twice>>
      BY <1>4, <2>3 DEF Append
    <3>2. /\ outcome' = [x \in Span |-> IF x \in {} THEN "success"
                           ELSE IF x \in {s} THEN "pending" ELSE outcome[x]]
          /\ phase' = phase
      BY <3>1 DEF Callback, AfterCallback, VerdictOf
    <3>3. Delivery!SpansMoveForward
      <4>1. /\ "success" \in Verdict
            /\ {s} # {} => phase = "open"
            /\ \A x \in {} : outcome[x] = "pending" \/ x \in {s}
        BY <2>1 DEF Verdict
      <4> QED
        BY ONLY <1>2, <2>1, <3>2, <4>1, OutcomesMoveForward
    <3>4. DeliveryInv'
      BY <1>1, <3>1, <3>2 DEF DeliveryInv, CloseWaits
    <3> QED
      BY <2>1, <3>2, <3>3, <3>4 DEF Delivery!PhaseMovesForward
  <2> QED
    BY <2>2, <2>3
<1>5. ASSUME NEW via \in Via, phase = "open", FlushBatch(batch, via, {})
      PROVE  /\ DeliveryInv'
             /\ Delivery!SpansMoveForward /\ Delivery!PhaseMovesForward
  <2>1. batch = batch \cup {} /\ \A s \in {} : outcome[s] = "new"
    OBVIOUS
  <2>2. FlushBatch(batch \cup {}, via, {})
    BY <1>5, <2>1
  <2> QED
    BY <1>1, <1>2, <1>5, <2>1, <2>2, FlushDelivers
<1>6. CASE SetProcess
  BY <1>3, <1>6 DEF SetProcess
<1>7. CASE Flush
  BY <1>5, <1>7 DEF Flush, Via
<1>8. CASE Close
  <2>1. CASE processSet
    BY <1>5, <1>8, <2>1 DEF Close, Via
  <2>2. CASE ~processSet
    BY <1>3, <1>8, <2>2 DEF Close
  <2> QED
    BY <2>1, <2>2
<1>9. ASSUME NEW r \in requests, Response(r) \/ RequestError(r) \/ ResponseEnd(r)
      PROVE  /\ DeliveryInv'
             /\ Delivery!SpansMoveForward /\ Delivery!PhaseMovesForward
  <2>1. ~r.answered
    BY DEF DeliveryInv
  <2>2. \E ok \in BOOLEAN : /\ requests' = requests \ {r} /\ twice' = twice
                            /\ Callback(r.via, r.spans, ok, {})
    BY <1>9, <2>1 DEF Response, RequestError, ResponseEnd, AfterResponse
  <2> QED
    BY <1>1, <2>2, AnswerDelivers
<1>10. CASE Finished
  BY <1>3, <1>10 DEF Finished, vars, reporterVars
<1> QED
  BY <1>4, <1>6, <1>7, <1>8, <1>9, <1>10 DEF Next

\* When every span can be encoded and no connection fails after its response,
\* the HTTP reporter keeps all that SpanDelivery promises: it is these two that
\* count spans twice, and nothing else (the listeners of flush in http_sender.js).
THEOREM DeliveryWithoutErrors ==
  ASSUME Unencodable = {}, ~LateErrors
  PROVE  Spec => Delivery!Spec
<1>1. Init => DeliveryInv
  BY InitEstablishesInv DEF Init, DeliveryInv, CloseWaits
<1>2. Init => Delivery!Init
  <2> SUFFICES ASSUME Init PROVE Delivery!Init
    OBVIOUS
  <2>1. \A v \in Verdict : Metric[v] = 0
    BY DEF Init, ReporterInit, Metric
  <2>2. Metric = [v \in Verdict |-> Metric[v]]
    BY DEF Metric
  <2>3. Metric = [v \in Verdict |-> 0]
    BY <2>1, <2>2
  <2>4. Verdict = Delivery!Verdict
    BY DEF Verdict, Delivery!Verdict
  <2> QED
    BY <2>3, <2>4 DEF Init, ReporterInit, Delivery!Init
<1>3. DeliveryInv => MetricsCountEachSpanOnce
  BY ExactMetrics
<1>4. DeliveryInv /\ [Next]_vars => DeliveryInv'
  <2>1. CASE Next
    BY <2>1, StepDelivers
  <2>2. CASE UNCHANGED vars
    <3>1. DeliveryInv => IInv'
      BY <2>2, NextKeepsInv DEF DeliveryInv
    <3> QED
      BY <2>2, <3>1 DEF vars, reporterVars, DeliveryInv, CloseWaits
  <2> QED
    BY <2>1, <2>2
<1>5. DeliveryInv /\ MetricsCountEachSpanOnce /\ MetricsCountEachSpanOnce' /\ [Next]_vars
        => [Delivery!Next]_(Delivery!vars)
  <2> SUFFICES ASSUME DeliveryInv, MetricsCountEachSpanOnce, MetricsCountEachSpanOnce',
                      [Next]_vars
               PROVE  [Delivery!Next]_(Delivery!vars)
    OBVIOUS
  <2>1. CASE Next
    <3>1. Delivery!SpansMoveForward /\ Delivery!PhaseMovesForward
      BY <2>1, StepDelivers
    <3>2. Delivery!CountsFollow
      BY <3>1, ExactCountsFollow
    <3> QED
      BY <3>1, <3>2 DEF Delivery!Next
  <2>2. CASE UNCHANGED vars
    BY <2>2 DEF vars, reporterVars, Delivery!vars, Metric
  <2> QED
    BY <2>1, <2>2
<1> QED
  BY <1>1, <1>2, <1>3, <1>4, <1>5, PTL DEF Spec, Delivery!Spec

===============================================================================
