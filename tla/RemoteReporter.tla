---------------------------- MODULE RemoteReporter ----------------------------
(***************************************************************************)
(* src/reporters/remote_reporter.js: the part of the reporter that does    *)
(* not depend on its sender.  The callbacks it gives the sender turn an    *)
(* answer about n spans into metrics: an append that fails counts its      *)
(* spans as dropped, a flush that fails counts them as failed.  close()    *)
(* stops the flush timer and closes the sender in the flush callback.      *)
(* UDPReporter and HTTPReporter compose it with a sender.                  *)
(***************************************************************************)
EXTENDS Integers, FiniteSets

CONSTANT Span           \* the spans the program finishes

ASSUME SpanFinite == IsFiniteSet(Span)

VARIABLES
  processSet,           \* setProcess() has run (_process # undefined)
  phase,                \* open; closing: close() called, timer cleared;
                        \* closed: sender.close() ran, close callback called
  reporterSuccess,      \* metrics, as numbers of spans
  reporterFailure,
  reporterDropped,
  outcome               \* history: what the metrics say of each span

reporterVars == <<processSet, phase, reporterSuccess, reporterFailure,
                  reporterDropped, outcome>>

Verdict == {"success", "failure", "dropped"}
Outcome == {"new", "pending"} \cup Verdict
Phase   == {"open", "closing", "closed"}

\* Which of its two callbacks the reporter gave with a call of the sender.
Via == {"append", "flush", "close"}

\* The metric that _appendCallback (append) and the callback in flush()
\* (flush, close) increment.
VerdictOf(via, ok) ==
  IF ok THEN "success" ELSE IF via = "append" THEN "dropped" ELSE "failure"

\* Mutant: the sender is closed only when the last flush succeeded.
AfterCallback_OnSuccess(via, ok) ==
  IF via = "close" /\ ok THEN "closed" ELSE phase

\* The callback of close()'s flush closes the sender and calls back.
AfterCallback(via, ok) == IF via = "close" THEN "closed" ELSE phase

\* The sender calls back with numSpans = |S|, S being the spans of the
\* batch.  accepted are the spans handed over by the same call.
Callback(via, S, ok, accepted) ==
  LET v == VerdictOf(via, ok)
      n == Cardinality(S)
  IN /\ reporterSuccess' = reporterSuccess + IF v = "success" THEN n ELSE 0
     /\ reporterFailure' = reporterFailure + IF v = "failure" THEN n ELSE 0
     /\ reporterDropped' = reporterDropped + IF v = "dropped" THEN n ELSE 0
     /\ outcome' = [s \in Span |-> IF s \in S THEN v
                                   ELSE IF s \in accepted THEN "pending"
                                   ELSE outcome[s]]
     /\ phase' = AfterCallback(via, ok)

\* Mutant: close() does not wait for the callback (before 3.9.0).
Waiting_NotAtAll(via) == IF via = "close" THEN "closed" ELSE phase

\* close() waits for its callback.
Waiting(via) == IF via = "close" THEN "closing" ELSE phase

\* The sender keeps the callback of this call for later.
CallbackLater(via, accepted) ==
  /\ phase' = Waiting(via)
  /\ outcome' = [s \in Span |-> IF s \in accepted THEN "pending"
                                ELSE outcome[s]]
  /\ UNCHANGED <<reporterSuccess, reporterFailure, reporterDropped>>

ReporterInit ==
  /\ processSet = FALSE
  /\ phase = "open"
  /\ reporterSuccess = 0
  /\ reporterFailure = 0
  /\ reporterDropped = 0
  /\ outcome = [s \in Span |-> "new"]

ReporterTypeOK ==
  /\ processSet \in BOOLEAN
  /\ phase \in Phase
  /\ reporterSuccess \in Nat
  /\ reporterFailure \in Nat
  /\ reporterDropped \in Nat
  /\ outcome \in [Span -> Outcome]

-------------------------------------------------------------------------------

Pending == {s \in Span : outcome[s] = "pending"}
CountedAs(v) == {s \in Span : outcome[s] = v}

\* The metrics count every span that reached a verdict, once: with the
\* callbacks of several batches in flight, none is counted by two of them
\* (_appendCallback and the callback in flush(), remote_reporter.js).
MetricsCountEachSpanOnce ==
  /\ reporterSuccess = Cardinality(CountedAs("success"))
  /\ reporterFailure = Cardinality(CountedAs("failure"))
  /\ reporterDropped = Cardinality(CountedAs("dropped"))

\* The three metrics as one function.
Metric == [v \in Verdict |-> IF v = "success" THEN reporterSuccess
                             ELSE IF v = "failure" THEN reporterFailure
                             ELSE reporterDropped]

Delivery == INSTANCE SpanDelivery WITH count <- Metric

===============================================================================
