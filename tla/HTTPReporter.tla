----------------------------- MODULE HTTPReporter -----------------------------
(***************************************************************************)
(* RemoteReporter with the HTTP sender (src/reporters/http_sender.js).     *)
(*                                                                         *)
(* Spans wait in _batch until there are maxSpanBatchSize of them or the    *)
(* timer flushes it.  flush() encodes the batch, resets it and posts it.   *)
(* A batch that cannot be encoded is answered with an error before the     *)
(* reset: it stays, and every later flush fails on it again.               *)
(*                                                                         *)
(* A request is answered by the 'response' or the 'error' event of node's  *)
(* http client, each with a listener of its own; the connection may still  *)
(* fail while the body of the response is read, and 'error' then follows   *)
(* 'response'.                                                             *)
(***************************************************************************)
EXTENDS RemoteReporter

CONSTANTS
  MaxSpanBatchSize,     \* option maxSpanBatchSize
  Unencodable,          \* spans that make Batch.rw.toBuffer fail
  LateErrors,           \* whether a connection may fail after its response
  MaxFailures           \* bound of the model: flushes stop at this metric

ASSUME HTTPAssumption ==
  /\ MaxSpanBatchSize \in Nat \ {0}
  /\ Unencodable \subseteq Span
  /\ LateErrors \in BOOLEAN
  /\ MaxFailures \in Nat

VARIABLES
  batch,                \* _batch.spans
  requests,             \* requests whose listeners may still be called
  twice                 \* history: spans of requests that called back twice

vars == <<reporterVars, batch, requests, twice>>

\* A request; answered once its 'response' listener has been called.
Posted  == {S \in SUBSET Span : S # {} /\ Cardinality(S) <= MaxSpanBatchSize}
Request == [spans : Posted, via : Via, answered : BOOLEAN]

Poisoned == batch \cap Unencodable # {}

-------------------------------------------------------------------------------

\* _reset: what is left of batch b once it is posted.
Reset(b) == {}

\* Mutant: the batch is reset although the request was never made.
Post_Nothing(b, via) == {}

\* The request made for batch b.
Post(b, via) == {[spans |-> b, via |-> via, answered |-> FALSE]}

\* flush() of batch b: nothing to send; or an encoding error, called back at
\* once, the batch staying as it is; or the batch reset and posted.
FlushBatch(b, via, accepted) ==
  \/ /\ b = {}
     /\ Callback(via, {}, TRUE, accepted)
     /\ UNCHANGED <<batch, requests, twice>>
  \/ /\ b \cap Unencodable # {}
     /\ Callback(via, b, FALSE, accepted)
     /\ batch' = b
     /\ UNCHANGED <<requests, twice>>
  \/ /\ b # {}
     /\ b \cap Unencodable = {}
     /\ batch' = Reset(b)
     /\ requests' = requests \cup Post(b, via)
     /\ CallbackLater(via, accepted)
     /\ UNCHANGED twice

\* Tracer's constructor calls reporter.setProcess; no span exists before.
SetProcess ==
  /\ phase = "open"
  /\ ~processSet
  /\ processSet' = TRUE
  /\ UNCHANGED <<phase, reporterSuccess, reporterFailure, reporterDropped,
                 outcome, batch, requests, twice>>

\* Mutant: off by one, the batch is flushed when it is over the limit.
IsFull_WhenOver(b) == Cardinality(b) > MaxSpanBatchSize

\* The batch is flushed without waiting for the timer.
IsFull(b) == Cardinality(b) >= MaxSpanBatchSize

\* append(): the span is pushed, and a full batch is flushed.
Append(s) ==
  /\ phase = "open" /\ processSet /\ outcome[s] = "new"
  /\ LET spans == batch \cup {s}
     IN IF IsFull(spans)
        THEN FlushBatch(spans, "append", {s})
        ELSE /\ batch' = spans
             /\ Callback("append", {}, TRUE, {s})
             /\ UNCHANGED <<requests, twice>>
  /\ UNCHANGED processSet

\* Mutant: the timer waits for a full batch.
Flush_OnlyWhenFull ==
  /\ phase = "open" /\ processSet
  /\ Cardinality(batch) >= MaxSpanBatchSize \/ batch = {}
  /\ FlushBatch(batch, "flush", {})
  /\ UNCHANGED processSet

\* flush() on the interval timer, or called by the program.
Flush ==
  /\ phase = "open" /\ processSet
  /\ reporterFailure <= MaxFailures
  /\ FlushBatch(batch, "flush", {})
  /\ UNCHANGED processSet

\* close(): as in RemoteReporter.  sender.close() only destroys the agent.
Close ==
  /\ phase = "open"
  /\ IF processSet
     THEN FlushBatch(batch, "close", {})
     ELSE /\ phase' = "closed"
          /\ UNCHANGED <<reporterSuccess, reporterFailure, reporterDropped,
                         outcome, batch, requests, twice>>
  /\ UNCHANGED processSet

\* Mutant: a response that is not read to the end is answered again.
AfterResponse_Again(r) == {r}

\* The connection may fail until the response is read.
AfterResponse(r) == IF LateErrors THEN {[r EXCEPT !.answered = TRUE]} ELSE {}

\* 'response': the spans are counted as sent, whatever the status code.
Response(r) ==
  /\ ~r.answered
  /\ requests' = (requests \ {r}) \cup AfterResponse(r)
  /\ Callback(r.via, r.spans, TRUE, {})
  /\ UNCHANGED <<processSet, batch, twice>>

\* Mutant: the 'error' listener only logs.
RequestError_LogsOnly(r) ==
  /\ requests' = requests \ {r}
  /\ UNCHANGED <<reporterVars, batch, twice>>

\* 'error': the spans are counted as not sent, after a response too.
RequestError(r) ==
  /\ requests' = requests \ {r}
  /\ Callback(r.via, r.spans, FALSE, {})
  /\ twice' = IF r.answered THEN twice \cup r.spans ELSE twice
  /\ UNCHANGED <<processSet, batch>>

\* The body has been read; no listener will be called any more.
ResponseEnd(r) ==
  /\ r.answered
  /\ requests' = requests \ {r}
  /\ UNCHANGED <<reporterVars, batch, twice>>

Finished == phase = "closed" /\ requests = {} /\ UNCHANGED vars

-------------------------------------------------------------------------------

Init ==
  /\ ReporterInit
  /\ batch = {}
  /\ requests = {}
  /\ twice = {}

Next ==
  \/ SetProcess
  \/ \E s \in Span : Append(s)
  \/ Flush
  \/ Close
  \/ \E r \in requests : Response(r) \/ RequestError(r) \/ ResponseEnd(r)
  \/ Finished

Spec == Init /\ [][Next]_vars

\* The timer runs until close(), and every request is answered or fails in
\* the end.  The second is an assumption about the collector: the sender's
\* timeout option has no listener, so that nothing ends a request that hangs.
Fairness ==
  /\ WF_vars(Flush)
  /\ \A s \in Span : WF_vars(\E r \in requests :
       s \in r.spans /\ ~r.answered /\ (Response(r) \/ RequestError(r)))

FairSpec == Spec /\ Fairness

-------------------------------------------------------------------------------

Accepted == {s \in Span : outcome[s] # "new"}
InFlight == UNION {r.spans : r \in {x \in requests : ~x.answered}}

\* The batch is below its limit between two handlers, unless it holds a span
\* that cannot be encoded, which lets it grow without limit (http_sender.js
\* append and the early return in flush).
TypeOK ==
  /\ ReporterTypeOK
  /\ batch \subseteq Span
  /\ Poisoned \/ Cardinality(batch) < MaxSpanBatchSize
  /\ requests \subseteq Request
  /\ twice \subseteq Span

\* No accepted span is forgotten: until it is counted it is in the batch or
\* in a request that is not answered yet (http_sender.js append, flush).
NoSpanForgotten == Pending \subseteq batch \cup InFlight

\* A span is counted as sent at most once, even when an encoding error keeps
\* its batch or a connection fails late: the spans counted as sent, those in
\* the batch and those not yet answered are different spans. As long as no
\* encoding error keeps a batch, the metrics add up to one count for each span
\* that reached a verdict, plus one for each whose connection failed late
\* (remote_reporter.js _appendCallback, flush).
MetricsAddUp ==
  /\ reporterSuccess + Cardinality(batch \cup InFlight) <= Cardinality(Accepted)
  /\ ~Poisoned => reporterSuccess + reporterFailure + reporterDropped =
       Cardinality(Accepted \ Pending) + Cardinality(twice)

\* Every accepted span is counted in the end, unless the reporter is closed
\* first or the bound of the model stops the timer.
EventuallyCounted ==
  \A s \in Span : outcome[s] = "pending" ~>
    \/ outcome[s] \in Verdict
    \/ phase # "open"
    \/ reporterFailure > MaxFailures

\* The callback given to close() is called in the end.
CloseCompletes == phase = "closing" ~> phase = "closed"

===============================================================================
