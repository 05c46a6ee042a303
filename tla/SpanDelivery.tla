----------------------------- MODULE SpanDelivery -----------------------------
(***************************************************************************)
(* What a reporter promises about the spans handed to it, whatever the     *)
(* transport: a span is counted at most once, as a success, as a flush     *)
(* failure or as a dropped span, and never changes verdict afterwards; the *)
(* three metrics say how many spans ended each way; nothing is accepted    *)
(* after close(); the sender is closed at most once, for good.             *)
(*                                                                         *)
(* The metrics are reporterSuccess, reporterFailure and reporterDropped of *)
(* src/metrics/metrics.js.  UDPReporter implements this module;            *)
(* HTTPReporter does not, since it counts a poisoned batch again, unless   *)
(* every span can be encoded and no connection fails after its response.   *)
(***************************************************************************)
EXTENDS Integers, FiniteSets

CONSTANT Span           \* the spans the program finishes, finitely many

VARIABLES
  outcome,              \* what became of each span
  count,                \* the three metrics
  phase                 \* open, closing (close() called) or closed

vars == <<outcome, count, phase>>

Verdict == {"success", "failure", "dropped"}
Outcome == {"new", "pending"} \cup Verdict

Init ==
  /\ outcome = [s \in Span |-> "new"]
  /\ count = [v \in Verdict |-> 0]
  /\ phase = "open"

\* new -> pending -> a verdict; a span may be refused in the call that
\* hands it over, and a verdict is final.
SpansMoveForward ==
  /\ outcome' \in [Span -> Outcome]
  /\ \A s \in Span :
       /\ outcome[s] \in Verdict => outcome'[s] = outcome[s]
       /\ outcome[s] = "pending" => outcome'[s] # "new"
       /\ (outcome[s] = "new" /\ outcome'[s] # "new") => phase = "open"

\* A metric grows by the number of spans that receive its verdict.
CountsFollow ==
  count' = [v \in Verdict |-> count[v] +
              Cardinality({s \in Span : outcome'[s] = v /\ outcome[s] # v})]

PhaseMovesForward ==
  <<phase, phase'>> \in
    {<<"open", "open">>, <<"open", "closing">>, <<"open", "closed">>,
     <<"closing", "closing">>, <<"closing", "closed">>, <<"closed", "closed">>}

Next == SpansMoveForward /\ CountsFollow /\ PhaseMovesForward

Spec == Init /\ [][Next]_vars

===============================================================================
